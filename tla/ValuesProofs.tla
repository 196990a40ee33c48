------------------------------ MODULE ValuesProofs -----------------------------
(* Theorems about the values people type and read.  Dates: the conversions   *)
(* are the calendar for every day and every year, not only for those a run   *)
(* compares.  DealForm: for every display zone east of Greenwich, or on it,  *)
(* a deal shows the date typed for it.  West of it that fails (run           *)
(* deals_west), and with two edit forms open at a time the later one to be   *)
(* saved overwrites what the earlier one typed.  Money, Slug and Prompt: for *)
(* texts, names and logs of any length and integers of any width.            *)
EXTENDS Dates, DealForm, Slug, Prompt, Money, Loops

-----------------------------------------------------------------------------
(* The calendar in its own digits: an era of 400 years, one of its four      *)
(* centuries, one of 25 groups of four years, one of the four years, and the *)
(* day, each from 0 and all from the first of March on.                      *)

\* The year of these digits and the number of its first day; in the era, the
\* year and day doy of it; whether the year ends with a 29th of February.
Year(e, c, k, j) == 400 * e + 100 * c + 4 * k + j
FirstOf(e, c, k, j) == 146097 * e + 36524 * c + 1461 * k + 365 * j - 719468
OfEra(c, k, j) == 100 * c + 4 * k + j
LeapEnd(c, k, j) == j = 3 /\ (k < 24 \/ c = 3)
YearLength(c, k, j) == IF LeapEnd(c, k, j) THEN 366 ELSE 365

InYearAt(doe, c, k, j, doy) ==
  /\ c \in 0 .. 3 /\ k \in 0 .. 24 /\ j \in 0 .. 3 /\ doe \in Int /\ doy \in Int
  /\ 0 <= doy /\ doy <= 365
  /\ doy = 365 => j = 3 /\ (k < 24 \/ c = 3)
  /\ doe = 36524 * c + 1461 * k + 365 * j + doy

\* The days of the months from March on, the last one in a leap year, and the
\* civil date of day d of such a month.
MonthDays(mp) == CASE mp \in {1, 3, 6, 8} -> 30 [] mp = 11 -> 29 [] OTHER -> 31
CivilYear(y, mp) == IF mp < 10 THEN y ELSE y + 1
CivilMonth(mp) == IF mp < 10 THEN mp + 3 ELSE mp - 9
Civil(e, c, k, j, mp, d) == <<CivilYear(Year(e, c, k, j), mp), CivilMonth(mp), d>>

\* Day n of the calendar is day d of the month mp of the year e, c, k, j.
Placed(n, e, c, k, j, mp, d) ==
  /\ e \in Int /\ c \in 0 .. 3 /\ k \in 0 .. 24 /\ j \in 0 .. 3 /\ mp \in 0 .. 11 /\ d \in Int
  /\ 1 <= d /\ d <= MonthDays(mp)
  /\ mp = 11 /\ d = 29 => LeapEnd(c, k, j)
  /\ n = FirstOf(e, c, k, j) + (FirstOfMonth(mp) + d - 1)

\* The first of these years comes right after the second.
Follows(f, b, l, i, e, c, k, j) ==
  /\ Year(f, b, l, i) = Year(e, c, k, j) + 1
  /\ FirstOf(f, b, l, i) = FirstOf(e, c, k, j) + YearLength(c, k, j)

\* Every number of days falls into an era.
LEMMA EraExists ==
  ASSUME NEW z \in Int
  PROVE  \E e, d \in Int : 0 <= d /\ d < 146097 /\ z = e * 146097 + d
  <1>1. PICK e \in Int : e = z \div 146097 BY SMTT(20)
  <1>2. z = e * 146097 + (z - e * 146097) BY SMTT(20)
  <1>3. 0 <= z - e * 146097 /\ z - e * 146097 < 146097
    BY <1>1, SMTT(20)
  <1>4. z - e * 146097 \in Int OBVIOUS
  <1>5. WITNESS e \in Int, z - e * 146097 \in Int
  <1> QED BY <1>2, <1>3, SMTT(20)

\* The year and the day of it are read off the day of the era.
LEMMA InYear ==
  ASSUME NEW c, NEW k, NEW j, NEW doy, NEW doe, InYearAt(doe, c, k, j, doy)
  PROVE  YearOfEra(doe) = OfEra(c, k, j) /\ DayOfYear(doe) = doy
  <1>a. /\ c \in 0 .. 3 /\ k \in 0 .. 24 /\ j \in 0 .. 3 /\ doe \in Int /\ doy \in Int
        /\ 0 <= doy /\ doy <= 365
        /\ doy = 365 => j = 3 /\ (k < 24 \/ c = 3)
        /\ doe = 36524 * c + 1461 * k + 365 * j + doy
    BY SMTT(20) DEF InYearAt
  <1> USE <1>a
  <1>0. PICK s \in Int : s = 365 * j + doy BY SMTT(20)
  <1>1. 0 <= s /\ s <= 1460 BY <1>0, SMTT(20)
  <1>2. PICK x \in 0 .. 1 : /\ x = 0 => 24 * c + k + s < 1460
                            /\ x = 1 => 24 * c + k + s >= 1460
    <2>1. CASE 24 * c + k + s < 1460 BY <2>1, SMTT(20)
    <2>2. CASE 24 * c + k + s >= 1460 BY <2>2, SMTT(20)
    <2> QED BY <1>1, <2>1, <2>2, SMTT(20)
  <1>3. doe \div 1460 = 25 * c + k + x
    <2>1. doe = 1460 * (25 * c + k + x) + (24 * c + k + s - 1460 * x) BY <1>0, SMTT(20)
    <2>2. 0 <= 24 * c + k + s - 1460 * x /\ 24 * c + k + s - 1460 * x < 1460 BY <1>1, <1>2, SMTT(20)
    <2> QED BY <2>1, <2>2, SMTT(20)
  <1>4. doe \div 36524 - doe \div 146096 = c
    <2>1. 0 <= doe /\ doe <= 146096 BY SMTT(20)
    <2>2. CASE doe = 146096
      <3>1. c = 3 BY <2>2, SMTT(20)
      <3> QED BY <2>2, <3>1, SMTT(20)
    <2>3. CASE doe < 146096
      <3>1. doe \div 146096 = 0 BY <2>1, <2>3, SMTT(20)
      <3>2. 0 <= doe - 36524 * c /\ doe - 36524 * c < 36524 BY <2>3, SMTT(20)
      <3>3. doe \div 36524 = c BY <3>2, SMTT(20)
      <3> QED BY <3>1, <3>3, SMTT(20)
    <2> QED BY <2>1, <2>2, <2>3, SMTT(20)
  <1>5. doe - doe \div 1460 + doe \div 36524 - doe \div 146096
          = 365 * (100 * c + 4 * k + j) + (doy - x)
    BY <1>0, <1>3, <1>4, SMTT(20)
  <1>6. 0 <= doy - x /\ doy - x < 365
    BY <1>0, <1>2, SMTT(20)
  <1>7. YearOfEra(doe) = 100 * c + 4 * k + j
    BY <1>5, <1>6, SMTT(20) DEF YearOfEra
  <1>8. NewYear(100 * c + 4 * k + j) = 36524 * c + 1461 * k + 365 * j
    <2>1. PICK yoe \in Int : yoe = 100 * c + 4 * k + j BY SMTT(20)
    <2>2. yoe \div 4 = 25 * c + k /\ yoe \div 100 = c BY <2>1, SMTT(20)
    <2> QED BY <2>1, <2>2, SMTT(20) DEF NewYear
  <1>9. DayOfYear(doe) = doe - (36524 * c + 1461 * k + 365 * j)
    BY <1>7, <1>8 DEF DayOfYear
  <1> QED BY <1>7, <1>9, SMTT(20) DEF OfEra

\* Every day of an era falls into one of its years.
LEMMA YearExists ==
  ASSUME NEW doe \in Int, 0 <= doe, doe < 146097
  PROVE  \E c \in 0 .. 3, k \in 0 .. 24, j \in 0 .. 3, doy \in Int :
           /\ doe = 36524 * c + 1461 * k + 365 * j + doy
           /\ 0 <= doy /\ doy <= 365
           /\ doy = 365 => j = 3 /\ (k < 24 \/ c = 3)
  <1>1. \E c \in 0 .. 3 : 0 <= doe - 36524 * c /\ doe - 36524 * c <= 36524
                          /\ (doe - 36524 * c = 36524 => c = 3)
    <2>1. CASE doe < 36524 BY <2>1, SMTT(20)
    <2>2. CASE doe >= 36524 /\ doe < 73048 BY <2>2, SMTT(20)
    <2>3. CASE doe >= 73048 /\ doe < 109572 BY <2>3, SMTT(20)
    <2>4. CASE doe >= 109572 BY <2>4, SMTT(20)
    <2> QED BY <2>1, <2>2, <2>3, <2>4, SMTT(20)
  <1>2. PICK c \in 0 .. 3 : 0 <= doe - 36524 * c /\ doe - 36524 * c <= 36524
                          /\ (doe - 36524 * c = 36524 => c = 3)
    BY <1>1
  <1>3. PICK r \in Int : r = doe - 36524 * c BY SMTT(20)
  <1>4. PICK k \in 0 .. 24 : k = r \div 1461
    <2>1. r \div 1461 \in 0 .. 24 BY <1>2, <1>3, SMTT(20)
    <2> QED BY <2>1
  <1>5. PICK s \in Int : s = r - 1461 * k BY <1>3, SMTT(20)
  <1>6. 0 <= s /\ s <= 1460 BY <1>2, <1>3, <1>4, <1>5, SMTT(20)
  <1>7. s = 1460 => k < 24 \/ c = 3 BY <1>2, <1>3, <1>5, <1>6, SMTT(20)
  <1>8. \E j \in 0 .. 3 : 0 <= s - 365 * j /\ s - 365 * j <= 365 /\ (s - 365 * j = 365 => j = 3)
    <2>1. CASE s < 365 BY <1>6, <2>1, SMTT(20)
    <2>2. CASE s >= 365 /\ s < 730 BY <2>2, SMTT(20)
    <2>3. CASE s >= 730 /\ s < 1095 BY <2>3, SMTT(20)
    <2>4. CASE s >= 1095 BY <1>6, <2>4, SMTT(20)
    <2> QED BY <2>1, <2>2, <2>3, <2>4, SMTT(20)
  <1>9. PICK j \in 0 .. 3 : 0 <= s - 365 * j /\ s - 365 * j <= 365 /\ (s - 365 * j = 365 => j = 3)
    BY <1>8
  <1>10. /\ doe = 36524 * c + 1461 * k + 365 * j + (s - 365 * j)
         /\ s - 365 * j = 365 => j = 3 /\ (k < 24 \/ c = 3)
    BY <1>3, <1>5, <1>7, <1>9, SMTT(20)
  <1>11. s - 365 * j \in Int BY SMTT(20)
  <1>12. WITNESS c \in 0 .. 3, k \in 0 .. 24, j \in 0 .. 3, s - 365 * j \in Int
  <1> QED BY <1>6, <1>9, <1>10, <1>11, SMTT(20)

\* A year ends with a 29th of February when the calendar year in which it
\* ends is a leap year.
LEMMA LeapDigits ==
  ASSUME NEW e \in Int, NEW c \in 0 .. 3, NEW k \in 0 .. 24, NEW j \in 0 .. 3,
         NEW y \in Int, y = 400 * e + 100 * c + 4 * k + j
  PROVE  Leap(y + 1) <=> (j = 3 /\ (k < 24 \/ c = 3))
  <1>1. (y + 1) % 4 = 0 <=> j = 3 BY SMTT(20)
  <1>2. ASSUME j = 3 PROVE (y + 1) % 100 = 0 <=> k = 24
    BY <1>2, SMTT(20)
  <1>3. ASSUME j = 3, k = 24 PROVE (y + 1) % 400 = 0 <=> c = 3
    BY <1>3, SMTT(20)
  <1>4. ASSUME j = 3, (y + 1) % 400 = 0 PROVE c = 3 /\ k = 24
    BY <1>4, SMTT(20)
  <1> QED BY <1>1, <1>2, <1>3, <1>4, SMTT(20) DEF Leap

\* The month is read off the day of the year.
LEMMA MonthOf ==
  ASSUME NEW mp \in 0 .. 11, NEW d \in Int, 1 <= d, d <= MonthDays(mp)
  PROVE  LET doy == FirstOfMonth(mp) + d - 1
         IN  /\ Month(doy) = mp
             /\ 0 <= doy /\ doy <= 365 /\ (doy = 365 => mp = 11 /\ d = 29)
  <1>1. CASE mp = 0 BY <1>1, SMTT(20) DEF MonthDays, Month, FirstOfMonth
  <1>2. CASE mp = 1 BY <1>2, SMTT(20) DEF MonthDays, Month, FirstOfMonth
  <1>3. CASE mp = 2 BY <1>3, SMTT(20) DEF MonthDays, Month, FirstOfMonth
  <1>4. CASE mp = 3 BY <1>4, SMTT(20) DEF MonthDays, Month, FirstOfMonth
  <1>5. CASE mp = 4 BY <1>5, SMTT(20) DEF MonthDays, Month, FirstOfMonth
  <1>6. CASE mp = 5 BY <1>6, SMTT(20) DEF MonthDays, Month, FirstOfMonth
  <1>7. CASE mp = 6 BY <1>7, SMTT(20) DEF MonthDays, Month, FirstOfMonth
  <1>8. CASE mp = 7 BY <1>8, SMTT(20) DEF MonthDays, Month, FirstOfMonth
  <1>9. CASE mp = 8 BY <1>9, SMTT(20) DEF MonthDays, Month, FirstOfMonth
  <1>10. CASE mp = 9 BY <1>10, SMTT(20) DEF MonthDays, Month, FirstOfMonth
  <1>11. CASE mp = 10 BY <1>11, SMTT(20) DEF MonthDays, Month, FirstOfMonth
  <1>12. CASE mp = 11 BY <1>12, SMTT(20) DEF MonthDays, Month, FirstOfMonth
  <1> QED BY <1>1, <1>2, <1>3, <1>4, <1>5, <1>6, <1>7, <1>8, <1>9, <1>10, <1>11, <1>12

\* Every day of a year falls into one of its months.
LEMMA MonthExists ==
  ASSUME NEW doy \in Int, 0 <= doy, doy <= 365
  PROVE  \E mp \in 0 .. 11, d \in Int :
           /\ mp = Month(doy) /\ d = doy - FirstOfMonth(mp) + 1
           /\ 1 <= d /\ d <= MonthDays(mp) /\ (mp = 11 /\ d = 29 => doy = 365)
  <1>1. PICK mp \in 0 .. 11 : mp = Month(doy)
    <2>1. Month(doy) \in 0 .. 11 BY SMTT(20) DEF Month
    <2> QED BY <2>1
  <1>2. PICK d \in Int : d = doy - FirstOfMonth(mp) + 1
    BY SMTT(20) DEF FirstOfMonth
  <1>3. 1 <= d /\ d <= MonthDays(mp) /\ (mp = 11 /\ d = 29 => doy = 365)
    <2>1. 153 * mp <= 5 * doy + 2 /\ 5 * doy + 2 < 153 * mp + 153 BY <1>1, SMTT(20) DEF Month
    <2>2. CASE mp \in 0 .. 3 BY <1>2, <2>1, <2>2, SMTT(20) DEF MonthDays, Month, FirstOfMonth
    <2>3. CASE mp \in 4 .. 7 BY <1>2, <2>1, <2>3, SMTT(20) DEF MonthDays, Month, FirstOfMonth
    <2>4. CASE mp \in 8 .. 11 BY <1>2, <2>1, <2>4, SMTT(20) DEF MonthDays, Month, FirstOfMonth
    <2> QED BY <2>2, <2>3, <2>4, SMTT(20)
  <1>4. WITNESS mp \in 0 .. 11, d \in Int
  <1> QED BY <1>1, <1>2, <1>3

\* days_from_civil, of a date by its digits.
LEMMA DaysOf ==
  ASSUME NEW e \in Int, NEW c \in 0 .. 3, NEW k \in 0 .. 24, NEW j \in 0 .. 3,
         NEW mp \in 0 .. 11, NEW d \in Int
  PROVE  days_from_civil(CivilYear(Year(e, c, k, j), mp), CivilMonth(mp), d)
           = FirstOf(e, c, k, j) + (FirstOfMonth(mp) + d - 1)
  <1>1. PICK y \in Int : y = Year(e, c, k, j) BY SMTT(20) DEF Year
  <1>2. PICK yoe \in Int : yoe = 100 * c + 4 * k + j BY SMTT(20)
  <1>3. y = yoe + e * 400 /\ 0 <= yoe /\ yoe < 400 BY <1>1, <1>2, SMTT(20) DEF Year
  <1>4. EraOfYear(y) = e
    BY <1>3, SMTT(20) DEF EraOfYear, Quot
  <1>5. y - e * 400 = yoe BY <1>3, SMTT(20)
  <1>6. NewYear(yoe) = 36524 * c + 1461 * k + 365 * j
    <2>1. yoe \div 4 = 25 * c + k /\ yoe \div 100 = c BY <1>2, SMTT(20)
    <2> QED BY <1>2, <2>1, SMTT(20) DEF NewYear
  <1>7. PICK m \in Int : m = CivilMonth(mp) BY SMTT(20) DEF CivilMonth
  <1>8. (IF m > 2 THEN m - 3 ELSE m + 9) = mp BY <1>7, SMTT(20) DEF CivilMonth
  <1>9. PICK year \in Int : year = CivilYear(y, mp) BY SMTT(20) DEF CivilYear
  <1>10. (IF m <= 2 THEN year - 1 ELSE year) = y
    BY <1>7, <1>9, SMTT(20) DEF CivilMonth, CivilYear
  <1>11. PICK f \in Int : f = FirstOfMonth(mp) BY SMTT(20) DEF FirstOfMonth
  <1>12. PICK g \in Int : g = NewYear(yoe) BY <1>6, SMTT(20)
  <1>13. days_from_civil(year, m, d) = e * 146097 + (g + f + d - 1) - 719468
    BY <1>4, <1>5, <1>8, <1>10, <1>11, <1>12, SMTT(60) DEF days_from_civil
  <1>14. e * 146097 + (g + f + d - 1) - 719468 = FirstOf(e, c, k, j) + (f + d - 1)
    BY <1>6, <1>12, SMTT(20) DEF FirstOf
  <1> QED BY <1>1, <1>7, <1>9, <1>11, <1>13, <1>14, SMTT(20)

\* Both conversions, of a day that has its place.
LEMMA ToCivil ==
  ASSUME NEW n, NEW e, NEW c, NEW k, NEW j, NEW mp, NEW d, Placed(n, e, c, k, j, mp, d)
  PROVE  civil_from_days(n) = Civil(e, c, k, j, mp, d)
  <1>1. /\ e \in Int /\ c \in 0 .. 3 /\ k \in 0 .. 24 /\ j \in 0 .. 3 /\ mp \in 0 .. 11 /\ d \in Int
        /\ 1 <= d /\ d <= MonthDays(mp)
        /\ mp = 11 /\ d = 29 => LeapEnd(c, k, j)
        /\ n = FirstOf(e, c, k, j) + (FirstOfMonth(mp) + d - 1)
    BY DEF Placed
  <1>2. PICK f \in Int : f = FirstOfMonth(mp) BY <1>1, SMTT(20) DEF FirstOfMonth
  <1>3. PICK doy \in Int : doy = f + d - 1 BY <1>1, <1>2, SMTT(20)
  <1>4. Month(doy) = mp /\ 0 <= doy /\ doy <= 365 /\ (doy = 365 => mp = 11 /\ d = 29)
    BY <1>1, <1>2, <1>3, MonthOf, SMTT(20)
  <1>5. doy = 365 => LeapEnd(c, k, j) BY <1>1, <1>4
  <1>6. PICK doe \in Int : doe = 36524 * c + 1461 * k + 365 * j + doy BY <1>1, SMTT(20)
  <1>7. PICK z \in Int : z = e * 146097 + doe BY <1>1, <1>6, SMTT(20)
  <1>8. n \in Int /\ n + 719468 = z /\ d = doy - f + 1
    BY <1>1, <1>2, <1>3, <1>6, <1>7, SMTT(20) DEF FirstOf
  <1>9. EraOfDay(n + 719468) = e
    <2>1. 0 <= doe /\ doe < 146097 BY <1>1, <1>4, <1>5, <1>6, SMTT(20) DEF LeapEnd
    <2> QED BY <1>1, <1>7, <1>8, <2>1, SMTT(20) DEF EraOfDay, Quot
  <1>10. n + 719468 - e * 146097 = doe BY <1>1, <1>7, <1>8, SMTT(20)
  <1>11. YearOfEra(doe) = OfEra(c, k, j) /\ DayOfYear(doe) = doy
    <2>1. InYearAt(doe, c, k, j, doy) BY <1>1, <1>4, <1>5, <1>6, SMTT(20) DEF LeapEnd, InYearAt
    <2> QED BY <2>1, InYear, Zenon
  <1>12. PICK yoe \in Int : yoe = OfEra(c, k, j) BY <1>1, SMTT(20) DEF OfEra
  <1>13. PICK m \in Int : m = CivilMonth(mp) BY <1>1, SMTT(20) DEF CivilMonth
  <1>14. m = IF mp < 10 THEN mp + 3 ELSE mp - 9 BY <1>13 DEF CivilMonth
  <1>15. civil_from_days(n) = <<IF m <= 2 THEN yoe + e * 400 + 1 ELSE yoe + e * 400, m, d>>
    BY <1>1, <1>2, <1>4, <1>8, <1>9, <1>10, <1>11, <1>12, <1>14, SMTT(60) DEF civil_from_days
  <1>16. (IF m <= 2 THEN yoe + e * 400 + 1 ELSE yoe + e * 400) = CivilYear(Year(e, c, k, j), mp)
    BY <1>1, <1>12, <1>14, SMTT(20) DEF CivilYear, Year, OfEra
  <1> QED BY <1>13, <1>15, <1>16, SMTT(20) DEF Civil

LEMMA ToDays ==
  ASSUME NEW n, NEW e, NEW c, NEW k, NEW j, NEW mp, NEW d, Placed(n, e, c, k, j, mp, d)
  PROVE  days_from_civil(CivilYear(Year(e, c, k, j), mp), CivilMonth(mp), d) = n
  <1>1. /\ e \in Int /\ c \in 0 .. 3 /\ k \in 0 .. 24 /\ j \in 0 .. 3 /\ mp \in 0 .. 11 /\ d \in Int
        /\ n = FirstOf(e, c, k, j) + (FirstOfMonth(mp) + d - 1)
    BY DEF Placed
  <1> QED BY <1>1, DaysOf, Zenon

\* Every day has its place.
LEMMA EveryDayPlaced ==
  ASSUME NEW n \in Int
  PROVE  \E e, c, k, j, mp, d : Placed(n, e, c, k, j, mp, d)
  <1>1. PICK z \in Int : z = n + 719468 BY SMTT(20)
  <1>2. PICK e \in Int, doe \in Int : 0 <= doe /\ doe < 146097 /\ z = e * 146097 + doe
    BY EraExists
  <1>3. PICK c \in 0 .. 3, k \in 0 .. 24, j \in 0 .. 3, doy \in Int :
           /\ doe = 36524 * c + 1461 * k + 365 * j + doy
           /\ 0 <= doy /\ doy <= 365
           /\ doy = 365 => j = 3 /\ (k < 24 \/ c = 3)
    BY <1>2, YearExists, SMTT(20)
  <1>4. PICK mp \in 0 .. 11, d \in Int :
           /\ mp = Month(doy) /\ d = doy - FirstOfMonth(mp) + 1
           /\ 1 <= d /\ d <= MonthDays(mp) /\ (mp = 11 /\ d = 29 => doy = 365)
    BY <1>3, MonthExists
  <1>5. PICK f \in Int : f = FirstOfMonth(mp) BY SMTT(20) DEF FirstOfMonth
  <1>6. n = FirstOf(e, c, k, j) + doy BY <1>1, <1>2, <1>3, SMTT(20) DEF FirstOf
  <1>7. doy = f + d - 1 BY <1>3, <1>4, <1>5, SMTT(20)
  <1>8. mp = 11 /\ d = 29 => LeapEnd(c, k, j) BY <1>3, <1>4 DEF LeapEnd
  <1>9. Placed(n, e, c, k, j, mp, d)
    BY <1>4, <1>5, <1>6, <1>7, <1>8 DEF Placed
  <1> QED BY <1>9

\* Every year has its digits.
LEMMA YearPlaced ==
  ASSUME NEW y \in Int
  PROVE  \E e \in Int, c \in 0 .. 3, k \in 0 .. 24, j \in 0 .. 3 : y = Year(e, c, k, j)
  <1>1. PICK e \in Int, r \in Int : r \in 0 .. 399 /\ y = 400 * e + r
    <2>1. PICK e \in Int : e = y \div 400 BY SMTT(20)
    <2>2. PICK r \in Int : r = y - 400 * e BY SMTT(20)
    <2>3. r \in 0 .. 399 /\ y = 400 * e + r BY <2>1, <2>2, SMTT(20)
    <2> QED BY <2>3
  <1>2. PICK c \in 0 .. 3 : c = r \div 100
    <2>1. r \div 100 \in 0 .. 3 BY <1>1, SMTT(20)
    <2> QED BY <2>1
  <1>3. PICK s \in 0 .. 99 : s = r - 100 * c
    <2>1. r - 100 * c \in 0 .. 99 BY <1>1, <1>2, SMTT(20)
    <2> QED BY <2>1
  <1>4. PICK k \in 0 .. 24 : k = s \div 4
    <2>1. s \div 4 \in 0 .. 24 BY <1>3, SMTT(20)
    <2> QED BY <2>1
  <1>5. PICK j \in 0 .. 3 : j = s - 4 * k
    <2>1. s - 4 * k \in 0 .. 3 BY <1>3, <1>4, SMTT(20)
    <2> QED BY <2>1
  <1>6. y = Year(e, c, k, j) BY <1>1, <1>3, <1>5, SMTT(20) DEF Year
  <1> QED BY <1>6

\* The months are as long as the calendar says.
LEMMA MonthLength ==
  ASSUME NEW e \in Int, NEW c \in 0 .. 3, NEW k \in 0 .. 24, NEW j \in 0 .. 3, NEW mp \in 0 .. 11
  PROVE  /\ CivilYear(Year(e, c, k, j), mp) \in Int
         /\ CivilMonth(mp) \in 1 .. 12
         /\ DaysIn(CivilYear(Year(e, c, k, j), mp), CivilMonth(mp))
              = IF mp = 11 /\ ~LeapEnd(c, k, j) THEN 28 ELSE MonthDays(mp)
  <1>1. PICK y \in Int : y = Year(e, c, k, j) BY SMTT(20) DEF Year
  <1>2. CivilYear(y, mp) \in Int BY SMTT(20) DEF CivilYear
  <1>3. CivilMonth(mp) \in 1 .. 12 BY SMTT(20) DEF CivilMonth
  <1>4. DaysIn(CivilYear(y, mp), CivilMonth(mp)) = IF mp = 11 /\ ~LeapEnd(c, k, j) THEN 28 ELSE MonthDays(mp)
    <2>1. CASE mp = 11
      <3>1. CivilYear(y, mp) = y + 1 /\ CivilMonth(mp) = 2 BY <2>1, SMTT(20) DEF CivilYear, CivilMonth
      <3>2. Leap(y + 1) <=> LeapEnd(c, k, j)
        <4>1. y = 400 * e + 100 * c + 4 * k + j BY <1>1 DEF Year
        <4> QED BY <4>1, LeapDigits, SMTT(20) DEF LeapEnd
      <3>3. MonthDays(mp) = 29 BY <2>1, SMTT(20) DEF MonthDays
      <3> QED BY <2>1, <3>1, <3>2, <3>3, SMTT(20) DEF DaysIn
    <2>2. CASE mp # 11
      <3>1. CivilMonth(mp) # 2 BY <2>2, SMTT(20) DEF CivilMonth
      <3>2. DaysIn(CivilYear(y, mp), CivilMonth(mp))
              = <<31, 28, 31, 30, 31, 30, 31, 31, 30, 31, 30, 31>>[CivilMonth(mp)]
        BY <3>1 DEF DaysIn
      <3>3. <<31, 28, 31, 30, 31, 30, 31, 31, 30, 31, 30, 31>>[CivilMonth(mp)] = MonthDays(mp)
        BY <2>2, SMTT(20) DEF CivilMonth, MonthDays
      <3> QED BY <2>2, <3>2, <3>3
    <2> QED BY <2>1, <2>2
  <1> QED BY <1>1, <1>2, <1>3, <1>4

\* A date of the calendar has its place.
LEMMA DatePlaced ==
  ASSUME NEW y \in Int, NEW m \in 1 .. 12, NEW d \in Int, 1 <= d, d <= DaysIn(y, m)
  PROVE  \E n \in Int : \E e, c, k, j, mp : Placed(n, e, c, k, j, mp, d) /\ Civil(e, c, k, j, mp, d) = <<y, m, d>>
  <1>1. PICK mp \in 0 .. 11 : mp = IF m > 2 THEN m - 3 ELSE m + 9
    <2>1. (IF m > 2 THEN m - 3 ELSE m + 9) \in 0 .. 11 BY SMTT(20)
    <2> QED BY <2>1
  <1>2. PICK x \in Int : x = IF m > 2 THEN y ELSE y - 1 BY SMTT(20)
  <1>3. CivilMonth(mp) = m /\ CivilYear(x, mp) = y
    BY <1>1, <1>2, SMTT(20) DEF CivilMonth, CivilYear
  <1>4. PICK e \in Int, c \in 0 .. 3, k \in 0 .. 24, j \in 0 .. 3 : x = Year(e, c, k, j)
    BY YearPlaced
  <1>5. DaysIn(y, m) = IF mp = 11 /\ ~LeapEnd(c, k, j) THEN 28 ELSE MonthDays(mp)
    BY <1>3, <1>4, MonthLength
  <1>6. d <= MonthDays(mp) /\ (mp = 11 /\ d = 29 => LeapEnd(c, k, j))
    <2>1. CASE mp = 11
      <3>1. MonthDays(mp) = 29 BY <2>1, SMTT(20) DEF MonthDays
      <3> QED BY <1>5, <2>1, <3>1, SMTT(20)
    <2>2. CASE mp # 11 BY <1>5, <2>2
    <2> QED BY <2>1, <2>2
  <1>7. PICK n \in Int : n = FirstOf(e, c, k, j) + (FirstOfMonth(mp) + d - 1)
    BY SMTT(20) DEF FirstOf, FirstOfMonth
  <1>8. Placed(n, e, c, k, j, mp, d) BY <1>6, <1>7 DEF Placed
  <1>9. Civil(e, c, k, j, mp, d) = <<y, m, d>> BY <1>3, <1>4 DEF Civil
  <1> QED BY <1>8, <1>9

\* The year after is a year of the calendar, its first day the day after the
\* last of February.
LEMMA YearAfter ==
  ASSUME NEW e \in Int, NEW c \in 0 .. 3, NEW k \in 0 .. 24, NEW j \in 0 .. 3
  PROVE  \E f \in Int, b \in 0 .. 3, l \in 0 .. 24, i \in 0 .. 3 : Follows(f, b, l, i, e, c, k, j)
  <1>1. CASE j < 3
    <2>1. j + 1 \in 0 .. 3 BY <1>1, SMTT(20)
    <2>2. Follows(e, c, k, j + 1, e, c, k, j)
      BY <1>1, SMTT(20) DEF Follows, Year, FirstOf, YearLength, LeapEnd
    <2> QED BY <2>1, <2>2, Zenon
  <1>2. CASE j = 3 /\ k < 24
    <2>1. k + 1 \in 0 .. 24 /\ 0 \in 0 .. 3 BY <1>2, SMTT(20)
    <2>2. Follows(e, c, k + 1, 0, e, c, k, j)
      BY <1>2, SMTT(20) DEF Follows, Year, FirstOf, YearLength, LeapEnd
    <2> QED BY <2>1, <2>2, Zenon
  <1>3. CASE j = 3 /\ k = 24 /\ c < 3
    <2>1. c + 1 \in 0 .. 3 /\ 0 \in 0 .. 24 /\ 0 \in 0 .. 3 BY <1>3, SMTT(20)
    <2>2. Follows(e, c + 1, 0, 0, e, c, k, j)
      BY <1>3, SMTT(20) DEF Follows, Year, FirstOf, YearLength, LeapEnd
    <2> QED BY <2>1, <2>2, Zenon
  <1>4. CASE j = 3 /\ k = 24 /\ c = 3
    <2>1. e + 1 \in Int /\ 0 \in 0 .. 24 /\ 0 \in 0 .. 3 BY SMTT(20)
    <2>2. Follows(e + 1, 0, 0, 0, e, c, k, j)
      BY <1>4, SMTT(20) DEF Follows, Year, FirstOf, YearLength, LeapEnd
    <2> QED BY <2>1, <2>2, Zenon
  <1>5. j < 3 \/ (j = 3 /\ k < 24) \/ (j = 3 /\ k = 24 /\ c < 3) \/ (j = 3 /\ k = 24 /\ c = 3)
    BY SMTT(20)
  <1> QED BY <1>1, <1>2, <1>3, <1>4, <1>5, Zenon

\* The next day is tomorrow: within a month, over the end of a month or of the
\* calendar year, over the end of February.
LEMMA NextDay ==
  ASSUME NEW n, NEW e, NEW c, NEW k, NEW j, NEW mp, NEW d, Placed(n, e, c, k, j, mp, d)
  PROVE  civil_from_days(n + 1) = Tomorrow(Civil(e, c, k, j, mp, d))
  <1>1. /\ e \in Int /\ c \in 0 .. 3 /\ k \in 0 .. 24 /\ j \in 0 .. 3 /\ mp \in 0 .. 11 /\ d \in Int
        /\ 1 <= d /\ d <= MonthDays(mp)
        /\ mp = 11 /\ d = 29 => LeapEnd(c, k, j)
        /\ n = FirstOf(e, c, k, j) + (FirstOfMonth(mp) + d - 1)
    BY DEF Placed
  <1>2. PICK y \in Int : y = CivilYear(Year(e, c, k, j), mp) BY <1>1, MonthLength
  <1>3. PICK m \in 1 .. 12 : m = CivilMonth(mp) BY <1>1, MonthLength
  <1>4. DaysIn(y, m) = IF mp = 11 /\ ~LeapEnd(c, k, j) THEN 28 ELSE MonthDays(mp)
    BY <1>1, <1>2, <1>3, MonthLength
  <1>5. Tomorrow(Civil(e, c, k, j, mp, d))
          = IF d < DaysIn(y, m) THEN <<y, m, d + 1>>
            ELSE IF m < 12 THEN <<y, m + 1, 1>> ELSE <<y + 1, 1, 1>>
    <2>1. PICK w : w = Civil(e, c, k, j, mp, d) OBVIOUS
    <2>2. w[1] = y /\ w[2] = m /\ w[3] = d BY <1>2, <1>3, <2>1 DEF Civil
    <2> QED BY <2>1, <2>2 DEF Tomorrow
  <1>6. PICK x \in Int : x = Year(e, c, k, j) BY <1>1, SMTT(20) DEF Year
  <1>7. PICK b \in Int : b = FirstOf(e, c, k, j) BY <1>1, SMTT(20) DEF FirstOf
  <1>8. y = (IF mp < 10 THEN x ELSE x + 1) /\ m = (IF mp < 10 THEN mp + 3 ELSE mp - 9)
    BY <1>2, <1>3, <1>6 DEF CivilYear, CivilMonth
  <1>9. FirstOfMonth(mp) \in Int BY <1>1, SMTT(20) DEF FirstOfMonth
  <1>10. MonthDays(mp) \in 29 .. 31 /\ (mp = 11 => MonthDays(mp) = 29) BY <1>1, SMTT(20) DEF MonthDays
  <1>11. CASE d < DaysIn(y, m)
    <2>1. d + 1 \in Int /\ 1 <= d + 1 /\ d + 1 <= MonthDays(mp) /\ (mp = 11 /\ d + 1 = 29 => LeapEnd(c, k, j))
      BY <1>1, <1>4, <1>10, <1>11, SMTT(20)
    <2>2. n + 1 = b + (FirstOfMonth(mp) + (d + 1) - 1) BY <1>1, <1>7, <1>9, SMTT(20)
    <2>3. Placed(n + 1, e, c, k, j, mp, d + 1) BY <1>1, <1>7, <2>1, <2>2, Zenon DEF Placed
    <2>4. civil_from_days(n + 1) = Civil(e, c, k, j, mp, d + 1) BY <2>3, ToCivil, Zenon
    <2> QED BY <1>2, <1>3, <1>5, <1>11, <2>4, Zenon DEF Civil
  <1>12. CASE ~(d < DaysIn(y, m)) /\ mp < 11
    <2>1. d = MonthDays(mp) BY <1>1, <1>4, <1>10, <1>12, SMTT(20)
    <2>2. PICK mq \in 0 .. 11 : mq = mp + 1
      <3>1. mp + 1 \in 0 .. 11 BY <1>1, <1>12, SMTT(20)
      <3> QED BY <3>1
    <2>3. FirstOfMonth(mq) = FirstOfMonth(mp) + MonthDays(mp)
      BY <1>1, <1>12, <2>2, SMTT(20) DEF FirstOfMonth, MonthDays
    <2>4. 1 <= MonthDays(mq) /\ 1 \in Int /\ 1 <= 1 BY SMTT(20) DEF MonthDays
    <2>5. n + 1 = b + (FirstOfMonth(mq) + 1 - 1) BY <1>1, <1>7, <1>9, <1>10, <2>1, <2>3, SMTT(20)
    <2>6. 1 # 29 BY SMTT(20)
    <2>7. Placed(n + 1, e, c, k, j, mq, 1) BY <1>1, <1>7, <2>4, <2>5, <2>6, Zenon DEF Placed
    <2>8. civil_from_days(n + 1) = Civil(e, c, k, j, mq, 1) BY <2>7, ToCivil, Zenon
    <2>9. Civil(e, c, k, j, mq, 1) = IF m < 12 THEN <<y, m + 1, 1>> ELSE <<y + 1, 1, 1>>
      <3>1. CivilYear(x, mq) = (IF m < 12 THEN y ELSE y + 1) /\ CivilMonth(mq) = (IF m < 12 THEN m + 1 ELSE 1)
        BY <1>1, <1>8, <1>12, <2>2, SMTT(20) DEF CivilYear, CivilMonth
      <3>2. CASE m < 12 BY <1>6, <3>1, <3>2, Zenon DEF Civil
      <3>3. CASE ~(m < 12) BY <1>6, <3>1, <3>3, Zenon DEF Civil
      <3> QED BY <3>2, <3>3, Zenon
    <2> QED BY <1>5, <1>12, <2>8, <2>9, Zenon
  <1>13. CASE ~(d < DaysIn(y, m)) /\ mp = 11
    <2>1. d = (IF LeapEnd(c, k, j) THEN 29 ELSE 28) BY <1>1, <1>4, <1>10, <1>13, SMTT(20)
    <2>2. PICK f \in Int, a \in 0 .. 3, l \in 0 .. 24, i \in 0 .. 3 : Follows(f, a, l, i, e, c, k, j)
      BY <1>1, YearAfter, Zenon
    <2>3. FirstOfMonth(11) = 337 /\ FirstOfMonth(0) = 0 BY SMTT(20) DEF FirstOfMonth
    <2>4. n + 1 = FirstOf(f, a, l, i) + (FirstOfMonth(0) + 1 - 1)
      <3>1. PICK h \in Int : h = FirstOf(f, a, l, i) BY SMTT(20) DEF FirstOf
      <3> QED BY <1>1, <1>7, <1>13, <2>1, <2>2, <2>3, <3>1, SMTT(20) DEF Follows, YearLength
    <2>5. 1 <= MonthDays(0) /\ 1 \in Int /\ 1 <= 1 /\ 0 \in 0 .. 11 /\ 1 # 29 BY SMTT(20) DEF MonthDays
    <2>6. Placed(n + 1, f, a, l, i, 0, 1) BY <2>4, <2>5, Zenon DEF Placed
    <2>7. civil_from_days(n + 1) = Civil(f, a, l, i, 0, 1) BY <2>6, ToCivil, Zenon
    <2>8. Year(f, a, l, i) = y /\ m = 2 BY <1>6, <1>8, <1>13, <2>2, SMTT(20) DEF Follows
    <2>9. CivilYear(y, 0) = y /\ CivilMonth(0) = 3 /\ m < 12 /\ m + 1 = 3 BY <2>8, SMTT(20) DEF CivilYear, CivilMonth
    <2>10. Civil(f, a, l, i, 0, 1) = <<y, m + 1, 1>> BY <2>8, <2>9, Zenon DEF Civil
    <2> QED BY <1>5, <1>13, <2>7, <2>9, <2>10, Zenon
  <1>14. mp < 11 \/ mp = 11 BY <1>1, SMTT(20)
  <1> QED BY <1>11, <1>12, <1>13, <1>14, Zenon

-----------------------------------------------------------------------------
(* Counting days from 1970-01-01 and turning the pages of the calendar is    *)
(* the same for every day, before it and over the ends of years, centuries   *)
(* and eras, and the day a date is converted from is the day it is converted *)
(* to (domain.rs: civil_from_days, days_from_civil).                         *)
THEOREM CountsDays ==
  ASSUME DaysAndYears
  PROVE  DatesSpec => []CalendarAgrees
  <1>1. civil_from_days(0) = <<1970, 1, 1>>
    <2>1. LeapEnd(3, 17, 1) = FALSE /\ FirstOf(4, 3, 17, 1) = -306 /\ FirstOfMonth(10) = 306
      BY SMTT(20) DEF LeapEnd, FirstOf, FirstOfMonth
    <2>2. Placed(0, 4, 3, 17, 1, 10, 1)
      BY <2>1, SMTT(20) DEF Placed, MonthDays
    <2>3. Civil(4, 3, 17, 1, 10, 1) = <<1970, 1, 1>>
      <3>1. CivilYear(Year(4, 3, 17, 1), 10) = 1970 /\ CivilMonth(10) = 1
        BY SMTT(20) DEF CivilYear, CivilMonth, Year
      <3> QED BY <3>1, SMTT(20) DEF Civil
    <2> QED BY <2>2, <2>3, ToCivil, SMTT(20)
  <1>2. ASSUME NEW n \in Days
        PROVE  /\ civil_from_days(n + 1) = Tomorrow(civil_from_days(n))
               /\ days_from_civil(civil_from_days(n)[1], civil_from_days(n)[2], civil_from_days(n)[3]) = n
    <2>1. PICK e, c, k, j, mp, d : Placed(n, e, c, k, j, mp, d) BY EveryDayPlaced DEF DaysAndYears
    <2>2. PICK date : date = Civil(e, c, k, j, mp, d) OBVIOUS
    <2>3. civil_from_days(n) = date BY <2>1, <2>2, ToCivil, Zenon
    <2>4. civil_from_days(n + 1) = Tomorrow(date) BY <2>1, <2>2, NextDay, Zenon
    <2>5. date[1] = CivilYear(Year(e, c, k, j), mp) /\ date[2] = CivilMonth(mp) /\ date[3] = d
      BY <2>2, SMTT(20) DEF Civil
    <2>6. days_from_civil(CivilYear(Year(e, c, k, j), mp), CivilMonth(mp), d) = n BY <2>1, ToDays, SMTT(20)
    <2>7. days_from_civil(date[1], date[2], date[3]) = n BY <2>5, <2>6, SMTT(20)
    <2> QED BY <2>3, <2>4, <2>7, SMTT(20)
  <1>3. number \in Days => CalendarAgrees
    BY <1>1, <1>2, SMTT(20) DEF CalendarAgrees
  <1>4. DatesInit => number \in Days BY DEF DatesInit
  <1>5. number \in Days /\ [FALSE]_dates => (number \in Days)' BY DEF dates
  <1> QED BY <1>3, <1>4, <1>5, PTL DEF DatesSpec

\* A date that is none is counted to some day, too.
LEMMA DaysIsInt ==
  ASSUME NEW y \in Int, NEW m \in Int, NEW d \in Int
  PROVE  days_from_civil(y, m, d) \in Int
  <1>1. PICK x \in Int : x = IF m <= 2 THEN y - 1 ELSE y BY SMTT(20)
  <1>2. PICK e \in Int : e = EraOfYear(x) BY SMTT(20) DEF EraOfYear, Quot
  <1>3. PICK mp \in Int : mp = IF m > 2 THEN m - 3 ELSE m + 9 BY SMTT(20)
  <1>4. PICK f \in Int : f = FirstOfMonth(mp) BY SMTT(20) DEF FirstOfMonth
  <1>5. PICK r \in Int : r = x - e * 400 BY SMTT(20)
  <1>6. PICK g \in Int : g = NewYear(r) BY SMTT(20) DEF NewYear
  <1>7. days_from_civil(y, m, d) = e * 146097 + (g + f + d - 1) - 719468
    BY <1>1, <1>2, <1>3, <1>4, <1>5, <1>6, SMTT(60) DEF days_from_civil
  <1> QED BY <1>7, SMTT(20)

\* Exactly the dates that the calendar has are accepted.
LEMMA AcceptsTheDate ==
  ASSUME NEW y \in Int, NEW m \in Int, NEW d \in Int
  PROVE  Accepted(y, m, d) = (m \in 1 .. 12 /\ d \in 1 .. DaysIn(y, m))
  <1>1. y \in Int /\ m \in Int /\ d \in Int OBVIOUS
  <1>2. ASSUME Accepted(y, m, d) PROVE m \in 1 .. 12 /\ d \in 1 .. DaysIn(y, m)
    <2>1. PICK n \in Int : n = days_from_civil(y, m, d) BY <1>1, DaysIsInt, Zenon
    <2>2. m \in 1 .. 12 /\ civil_from_days(n) = <<y, m, d>> BY <1>2, <2>1, Zenon DEF Accepted
    <2>3. PICK e, c, k, j, mp, dd : Placed(n, e, c, k, j, mp, dd) BY EveryDayPlaced, Zenon
    <2>4. <<CivilYear(Year(e, c, k, j), mp), CivilMonth(mp), dd>> = <<y, m, d>>
      <3>1. civil_from_days(n) = Civil(e, c, k, j, mp, dd) BY <2>3, ToCivil, Zenon
      <3> QED BY <2>2, <3>1, SMTT(20) DEF Civil
    <2>5. CivilYear(Year(e, c, k, j), mp) = y /\ CivilMonth(mp) = m /\ dd = d BY <2>4, SMTT(20)
    <2>6. /\ e \in Int /\ c \in 0 .. 3 /\ k \in 0 .. 24 /\ j \in 0 .. 3 /\ mp \in 0 .. 11
          /\ 1 <= d /\ d <= MonthDays(mp) /\ (mp = 11 /\ d = 29 => LeapEnd(c, k, j))
      BY <2>3, <2>5, Zenon DEF Placed
    <2>7. DaysIn(y, m) = IF mp = 11 /\ ~LeapEnd(c, k, j) THEN 28 ELSE MonthDays(mp)
      BY <2>5, <2>6, MonthLength, Zenon
    <2>8. MonthDays(mp) \in Int /\ (mp = 11 => MonthDays(mp) = 29) BY <2>6, SMTT(20) DEF MonthDays
    <2>9. d \in 1 .. DaysIn(y, m) BY <1>1, <2>6, <2>7, <2>8, SMTT(20)
    <2> QED BY <2>2, <2>9
  <1>3. ASSUME m \in 1 .. 12, d \in 1 .. DaysIn(y, m) PROVE Accepted(y, m, d)
    <2>1. 1 <= d /\ d <= DaysIn(y, m) /\ d # 0 BY <1>1, <1>3, SMTT(20)
    <2>a. PICK n \in Int :
            \E e, c, k, j, mp : Placed(n, e, c, k, j, mp, d) /\ Civil(e, c, k, j, mp, d) = <<y, m, d>>
      BY <1>1, <1>3, <2>1, DatePlaced, Zenon
    <2>2. PICK e, c, k, j, mp :
            Placed(n, e, c, k, j, mp, d) /\ Civil(e, c, k, j, mp, d) = <<y, m, d>>
      BY <2>a, Zenon
    <2>3. civil_from_days(n) = <<y, m, d>> BY <2>2, ToCivil, Zenon
    <2>4. CivilYear(Year(e, c, k, j), mp) = y /\ CivilMonth(mp) = m
      <3>1. <<CivilYear(Year(e, c, k, j), mp), CivilMonth(mp), d>> = <<y, m, d>> BY <2>2, Zenon DEF Civil
      <3> QED BY <3>1, SMTT(20)
    <2>5. days_from_civil(y, m, d) = n
      <3>1. days_from_civil(CivilYear(Year(e, c, k, j), mp), CivilMonth(mp), d) = n BY <2>2, ToDays, SMTT(20)
      <3> QED BY <2>4, <3>1, SMTT(20)
    <2> QED BY <1>3, <2>1, <2>3, <2>5, Zenon DEF Accepted
  <1>4. Accepted(y, m, d) \in BOOLEAN BY Zenon DEF Accepted
  <1> QED BY <1>2, <1>3, <1>4, Zenon

(* Whatever three numbers are typed, they are accepted exactly when the      *)
(* calendar has that date (domain.rs: parse_civil_date).                     *)
THEOREM AcceptsDates ==
  ASSUME DaysAndYears
  PROVE  DatesSpec => []OnlyRealDates
  <1>1. typed \in TypedDates => OnlyRealDates
    <2> SUFFICES ASSUME typed \in TypedDates PROVE OnlyRealDates OBVIOUS
    <2>1. typed.year \in Int /\ typed.month \in Int /\ typed.day \in Int
      <3>1. PICK y \in Years, m \in Numbers, d \in Numbers :
              typed = [year |-> y, month |-> m, day |-> d]
        BY SMTT(20) DEF TypedDates
      <3>2. y \in Int /\ m \in Int /\ d \in Int BY <3>1, SMTT(20) DEF DaysAndYears
      <3> QED BY <3>1, <3>2, SMTT(20)
    <2> QED BY <2>1, AcceptsTheDate, Zenon DEF OnlyRealDates
  <1>2. DatesInit => typed \in TypedDates BY DEF DatesInit
  <1>3. typed \in TypedDates /\ [FALSE]_dates => (typed \in TypedDates)' BY DEF dates
  <1> QED BY <1>1, <1>2, <1>3, PTL DEF DatesSpec

-----------------------------------------------------------------------------
(* The date of a deal: the hypotheses about the zone and the forms.          *)

\* No zone is behind Greenwich.
East == \A z \in Zones : z.before >= 0 /\ z.after >= 0

OneEditor == \A e, f \in Editors : e = f

-----------------------------------------------------------------------------
(* The zone.                                                                 *)

\* Midnight of a date is an instant that the zone shows on that date, also
\* where the clock jumps over it.
LEMMA MidnightShown ==
  ASSUME NEW d \in Nat, zone \in Zone, zone.before >= 0, zone.after >= 0
  PROVE  Midnight(d) \in Int /\ Midnight(d) >= 24 * d - 23 /\ format_date(Midnight(d)) = d
  <1> DEFINE a == 24 * d - zone.before
             b == 24 * d - zone.after
             shown == {t \in {a, b} : t + Offset(t) = 24 * d}
  <1>1. zone.before \in 0 .. 23 /\ zone.after \in 0 .. 23 /\ zone.at \in Int BY DEF Zone
  <1>2. a \in Int /\ b \in Int /\ a >= 24 * d - 23 /\ b >= 24 * d - 23 BY <1>1
  <1>3. CASE shown = {}
    <2>1. Midnight(d) = a BY <1>3 DEF Midnight
    <2>2. ~ (a < zone.at)
      BY <1>1, <1>2, <1>3 DEF Offset
    <2>3. b < zone.at
      BY <1>1, <1>2, <1>3 DEF Offset
    <2>4. a + Offset(a) = 24 * d + (zone.after - zone.before) BY <1>1, <2>2 DEF Offset
    <2>5. zone.after - zone.before \in 0 .. 23 BY <1>1, <1>2, <2>2, <2>3
    <2>6. (a + Offset(a)) \div 24 = d BY <2>4, <2>5
    <2> QED BY <1>2, <2>1, <2>6 DEF format_date
  <1>4. CASE shown # {}
    <2>1. \E t \in shown : \A u \in shown : t <= u
      <3>1. CASE a \in shown /\ b \in shown /\ b <= a
        BY <1>2, <3>1
      <3>2. CASE a \in shown /\ (b \in shown => a <= b)
        BY <1>2, <3>2
      <3>3. CASE a \notin shown
        BY <1>2, <1>4, <3>3
      <3> QED BY <1>2, <3>1, <3>2, <3>3
    <2>2. Midnight(d) = CHOOSE t \in shown : \A u \in shown : t <= u
      BY <1>4 DEF Midnight
    <2>3. Midnight(d) \in shown
      <3> HIDE DEF shown
      <3> QED BY <2>1, <2>2
    <2>4. Midnight(d) \in {a, b} /\ Midnight(d) + Offset(Midnight(d)) = 24 * d BY <2>3
    <2>5. (24 * d) \div 24 = d OBVIOUS
    <2> QED BY <1>2, <2>4, <2>5 DEF format_date
  <1> QED BY <1>3, <1>4

\* What is typed comes back, and is never taken for an empty field.
LEMMA RoundTrip ==
  ASSUME NEW d \in Nat, zone \in Zone, zone.before >= 0, zone.after >= 0
  PROVE  format_date(parse_date_in(d)) = d /\ parse_date_in(d) # NoDate
  <1>1. zone.before \in 0 .. 23 /\ zone.after \in 0 .. 23 /\ zone.at \in Int BY DEF Zone
  <1>2. Offset(24 * d) \in 0 .. 23 BY <1>1 DEF Offset
  <1>3. format_date(24 * d) = d BY <1>2 DEF format_date
  <1>4. parse_date_in(d) = Midnight(d) BY <1>3 DEF parse_date_in, start_of_day
  <1> QED BY <1>4, MidnightShown DEF NoDate

-----------------------------------------------------------------------------
(* The row shows the date last typed, and so does the form that is open.     *)

Fields == {"value", "stage", "close"}

Dated ==
  /\ zone \in Zones /\ meant \in Typed \cup {NoDate}
  /\ deal # NoDeal => DOMAIN deal = Fields
  /\ DOMAIN forms = Editors
  /\ \A e \in Editors : forms[e] # Closed =>
       /\ deal # NoDeal /\ DOMAIN forms[e] = Fields
       /\ forms[e].close = meant

Inv == Dated /\ DateShownIsDateTyped

\* A form that was retyped, or left alone, has its three fields and one date.
LEMMA RetypedDate ==
  ASSUME Dated, NEW e \in Editors, forms[e] # Closed, NEW form \in Retyped(forms[e])
  PROVE  form.close \in Typed \cup {NoDate}
  BY DEF Dated, Retyped, Fields

\* What saving a form makes of the row, and what the row shows.
LEMMA SavedRow ==
  ASSUME DealFormInstance, East, zone \in Zones, UNCHANGED zone,
         NEW form, form.close \in Typed \cup {NoDate, Garbage}, Saved(form)
  PROVE  /\ deal' # NoDeal /\ DOMAIN deal' = Fields
         /\ Filled(deal)'.close = IF form.close \in Typed THEN form.close ELSE NoDate
  <1>1. deal' = Row(form) BY DEF Saved
  <1>2. DOMAIN Row(form) = Fields BY DEF Row, Fields
  <1>3. DOMAIN NoDeal = {"none"} BY DEF NoDeal
  <1>4. "value" # "none" OBVIOUS
  <1>5. deal'.close = CloseOf(form.close) BY <1>1 DEF Row
  <1>6. Filled(deal)'.close = IF deal'.close = NoDate THEN NoDate ELSE format_date(deal'.close)
    <2>1. zone' = zone OBVIOUS
    <2>2. PICK close : close = deal'.close OBVIOUS
    <2>3. Offset(close)' = Offset(close) BY <2>1 DEF Offset
    <2>4. format_date(close)' = format_date(close) BY <2>3 DEF format_date
    <2>5. Filled(deal)'.close = IF close = NoDate THEN NoDate ELSE format_date(close)'
      BY <2>2 DEF Filled, format_date, Offset
    <2> QED BY <2>2, <2>4, <2>5
  <1>7. CASE form.close \in Typed
    <2>0. form.close \in Nat BY <1>7 DEF DealFormInstance
    <2>1. form.close \notin {Garbage, NoDate} BY <2>0 DEF Garbage, NoDate
    <2>2. zone \in Zone /\ zone.before >= 0 /\ zone.after >= 0
      BY DEF DealFormInstance, East
    <2>3. deal'.close = parse_date_in(form.close) BY <1>5, <2>1 DEF CloseOf
    <2> QED BY <1>1, <1>2, <1>3, <1>4, <1>6, <1>7, <2>0, <2>2, <2>3, RoundTrip DEF Fields
  <1>8. CASE form.close \notin Typed
    <2>1. deal'.close = NoDate BY <1>5, <1>8 DEF CloseOf
    <2> QED BY <1>1, <1>2, <1>3, <1>4, <1>6, <1>8, <2>1 DEF Fields
  <1> QED BY <1>7, <1>8

LEMMA DatedInit == ASSUME DealFormInit PROVE Inv
  BY DEF DealFormInit, Inv, Dated, DateShownIsDateTyped, NoDeal, Closed

LEMMA DatedNext ==
  ASSUME DealFormInstance, East, OneEditor, Inv, [DealFormNext]_dealForm PROVE Inv'
  <1> USE DEF Inv
  <1>1. CASE Create
    <2>1. PICK form \in Texts :
            Saved(form) /\ meant' = IF form.close \in Typed THEN form.close ELSE NoDate
      BY <1>1 DEF Create
    <2>2. UNCHANGED <<zone, forms>> /\ \A e \in Editors : forms[e] = Closed
      BY <1>1 DEF Create, Dated
    <2>3. form.close \in Typed \cup {NoDate, Garbage} BY DEF Texts
    <2>4. /\ deal' # NoDeal /\ DOMAIN deal' = Fields
          /\ Filled(deal)'.close = meant'
      BY <2>1, <2>2, <2>3, SavedRow DEF Dated
    <2>5. meant' \in Typed \cup {NoDate} BY <2>1
    <2> QED BY <2>2, <2>4, <2>5 DEF Dated, DateShownIsDateTyped
  <1>2. ASSUME NEW e \in Editors, Open(e) PROVE Inv'
    <2>1. deal # NoDeal /\ forms' = [forms EXCEPT ![e] = Filled(deal)]
          /\ UNCHANGED <<zone, deal, meant>>
      BY <1>2 DEF Open
    <2>2. DateShownIsDateTyped'
      BY <2>1 DEF DateShownIsDateTyped, Filled, format_date, Offset
    <2>3. Filled(deal).close = meant BY <2>1 DEF DateShownIsDateTyped
    <2>4. DOMAIN Filled(deal) = Fields BY DEF Filled, Fields
    <2> QED BY <2>1, <2>2, <2>3, <2>4 DEF Dated
  <1>3. ASSUME NEW e \in Editors, Save(e) PROVE Inv'
    <2>1. PICK form \in Retyped(forms[e]) :
            Saved(form) /\ meant' = IF form.close # forms[e].close THEN form.close ELSE meant
      BY <1>3 DEF Save
    <2>2. forms[e] # Closed /\ forms' = [forms EXCEPT ![e] = Closed] /\ UNCHANGED zone
      BY <1>3 DEF Save
    <2>3. form.close \in Typed \cup {NoDate} BY <2>2, RetypedDate
    <2>4. meant' = form.close BY <2>1, <2>2 DEF Dated
    <2>5. form.close \notin Typed => form.close = NoDate BY <2>3
    <2>6. /\ deal' # NoDeal /\ DOMAIN deal' = Fields
          /\ Filled(deal)'.close = meant'
      BY <2>1, <2>2, <2>3, <2>4, <2>5, SavedRow DEF Dated
    <2>7. \A f \in Editors : forms'[f] = Closed BY <2>2 DEF OneEditor, Dated
    <2>8. DOMAIN forms' = Editors BY <2>2 DEF Dated
    <2> QED BY <2>2, <2>3, <2>4, <2>6, <2>7, <2>8 DEF Dated, DateShownIsDateTyped
  <1>4. ASSUME NEW s \in Stages, SetStage(s) PROVE Inv'
    <2>1. /\ deal # NoDeal /\ deal' = [deal EXCEPT !.stage = StageOf(s)]
          /\ UNCHANGED <<zone, forms, meant>>
      BY <1>4 DEF SetStage
    <2>2. DOMAIN deal = Fields BY <2>1 DEF Dated
    <2>3. DOMAIN deal' = Fields /\ deal'.close = deal.close
      BY <2>1, <2>2 DEF Fields
    <2>4. DOMAIN NoDeal = {"none"} BY DEF NoDeal
    <2>5. deal' # NoDeal BY <2>3, <2>4 DEF Fields
    <2>6. DateShownIsDateTyped'
      BY <2>1, <2>3 DEF DateShownIsDateTyped, Filled, format_date, Offset
    <2> QED BY <2>1, <2>3, <2>5, <2>6 DEF Dated
  <1>5. CASE UNCHANGED dealForm
    BY <1>5 DEF dealForm, Dated, DateShownIsDateTyped, Filled, format_date, Offset
  <1> QED BY <1>1, <1>2, <1>3, <1>4, <1>5 DEF DealFormNext

(* The date of a deal, shown back in the zone, is the date last typed for    *)
(* it: for every zone that is never behind Greenwich, its clock changed once *)
(* or never, any dates and any number of edits, one form open at a time      *)
(* (domain.rs: parse_date_in, format_date; deals.rs: form, update).          *)
THEOREM DatesKept ==
  ASSUME DealFormInstance, East, OneEditor PROVE DealFormSpec => []DateShownIsDateTyped
  <1> QED BY DatedInit, DatedNext, PTL DEF DealFormSpec, Inv

-----------------------------------------------------------------------------
(* Reading an amount.                                                      *)

Evaluates ==
  /\ Value(<<>>) = 0 /\ \A s \in Seq(Digits) : Value(s) \in Nat
  /\ \A s \in Seq(Digits), d \in Digits : Value(Append(s, d)) = 10 * Value(s) + d

\* Digits are evaluated from the left.
LEMMA Evaluation == Evaluates
<1>0. Body(shifted, Digits, Nat)
  <2> SUFFICES ASSUME NEW d \in Digits, NEW n \in Nat PROVE shifted[d][n] \in Nat BY DEF Body
  <2>1. shifted[d][n] = 10 * n + d BY DEF shifted
  <2> QED BY <2>1 DEF Digits
<1>1. Folds(shifted, 0, Digits, Nat) BY <1>0, LoopFolds
<1>2. Value(<<>>) = 0 BY <1>1 DEF Folds, Value
<1>3. \A s \in Seq(Digits) : Value(s) \in Nat BY <1>1 DEF Folds, Value
<1>4. ASSUME NEW s \in Seq(Digits), NEW d \in Digits PROVE Value(Append(s, d)) = 10 * Value(s) + d
  <2>1. Value(Append(s, d)) = shifted[d][Value(s)] BY <1>1 DEF Folds, Value
  <2>2. \A n \in Nat : shifted[d][n] = 10 * n + d BY DEF shifted
  <2> QED BY <1>3, <2>1, <2>2
<1> QED BY <1>2, <1>3, <1>4 DEF Evaluates

\* The value of three digits.
LEMMA ThreeDigits ==
  ASSUME NEW a \in Digits, NEW b \in Digits, NEW c \in Digits
  PROVE  Value(<<a, b, c>>) = 100 * a + 10 * b + c
<1>1. /\ <<>> \in Seq(Digits) /\ <<a>> \in Seq(Digits) /\ <<a, b>> \in Seq(Digits)
      /\ <<a>> = Append(<<>>, a) /\ <<a, b>> = Append(<<a>>, b) /\ <<a, b, c>> = Append(<<a, b>>, c)
  OBVIOUS
<1>2. Value(<<a>>) = 10 * 0 + a BY <1>1, Evaluation DEF Evaluates
<1>3. Value(<<a, b>>) = 10 * Value(<<a>>) + b BY <1>1, Evaluation DEF Evaluates
<1>4. Value(<<a, b, c>>) = 10 * Value(<<a, b>>) + c BY <1>1, Evaluation DEF Evaluates
<1> QED BY <1>2, <1>3, <1>4 DEF Digits

\* Digits on both sides of a point, or with none.
Number(body, cut) ==
  /\ body \in Seq(Signs) /\ body # <<>> /\ cut \in 1 .. Len(body) + 1
  /\ (cut <= Len(body) => body[cut] = Point)
  /\ \A j \in 1 .. Len(body) : j # cut => body[j] \in Digits

Before(body, cut) == SubSeq(body, 1, cut - 1)
Behind(body, cut) == SubSeq(body, cut + 1, Len(body))
Thousandths(fraction) == Value(SubSeq(fraction \o <<0, 0, 0>>, 1, 3))

\* Digits are split at their only point, or at the end.
LEMMA NumberCut ==
  ASSUME NEW body, NEW cut, Number(body, cut)
  PROVE  /\ Cut(body) = cut /\ Before(body, cut) \in Seq(Digits) /\ Behind(body, cut) \in Seq(Digits)
         /\ Len(Before(body, cut)) = cut - 1
<1> USE DEF Number
<1>0. Len(body) \in Nat /\ Point \notin Digits BY LenProperties DEF Point, Digits
<1> DEFINE Is(i) == /\ i <= Len(body) => body[i] = Point
                    /\ \A j \in 1 .. i - 1 : body[j] # Point
<1>1. Is(cut) BY <1>0
<1>2. ASSUME NEW i \in 1 .. Len(body) + 1, Is(i) PROVE i = cut
  <2>1. CASE i < cut
    <3>1. i \in 1 .. Len(body) /\ body[i] \in Digits /\ i <= Len(body) BY <1>0, <2>1
    <3> QED BY <1>0, <1>2, <3>1
  <2>2. CASE cut < i
    <3>1. cut \in 1 .. i - 1 /\ cut <= Len(body) BY <1>0, <2>2
    <3> QED BY <1>2, <3>1
  <2> QED BY <2>1, <2>2
<1>3. Cut(body) = cut
  <2>1. Cut(body) = CHOOSE i \in 1 .. Len(body) + 1 : Is(i) BY Zenon DEF Cut
  <2> HIDE DEF Is
  <2> QED BY <1>1, <1>2, <2>1
<1>4. Before(body, cut) \in Seq(Digits) /\ Len(Before(body, cut)) = cut - 1
  <2>1. \A j \in 1 .. cut - 1 : body[j] \in Digits BY <1>0
  <2>2. SubSeq(body, 1, cut - 1) = [j \in 1 .. cut - 1 |-> body[j]] BY <1>0
  <2>3. cut - 1 \in Nat OBVIOUS
  <2> QED BY <2>1, <2>2, <2>3 DEF Before
<1>5. Behind(body, cut) \in Seq(Digits)
  <2> DEFINE n == IF cut <= Len(body) THEN Len(body) - cut ELSE 0
  <2>1. n \in Nat /\ \A j \in 1 .. n : body[cut + j] \in Digits
    <3>1. n \in Nat BY <1>0
    <3>2. \A j \in 1 .. n : cut + j \in 1 .. Len(body) /\ cut + j # cut BY <1>0
    <3> QED BY <3>1, <3>2
  <2>2. SubSeq(body, cut + 1, Len(body)) = [j \in 1 .. n |-> body[cut + j]]
    <3> DEFINE u == SubSeq(body, cut + 1, Len(body))
    <3>1. u \in Seq(Signs) /\ Len(u) = n /\ \A j \in 1 .. n : u[j] = body[cut + j]
      <4>1. CASE cut <= Len(body) BY <1>0, <4>1
      <4>2. CASE cut > Len(body) BY <1>0, <4>2
      <4> QED BY <1>0, <4>1, <4>2
    <3>2. u = [j \in 1 .. Len(u) |-> u[j]] BY <3>1
    <3> HIDE DEF u, n
    <3> QED BY <3>1, <3>2 DEF u
  <2> HIDE DEF n
  <2> QED BY <2>1, <2>2 DEF Behind
<1> QED BY <1>3, <1>4, <1>5

\* What rounding to cents looks at.
LEMMA ThousandthsAre ==
  ASSUME NEW f \in Seq(Digits)
  PROVE  /\ \A i \in 1 .. 3 : Digit(f, i) \in Digits
         /\ Thousandths(f) = 100 * Digit(f, 1) + 10 * Digit(f, 2) + Digit(f, 3)
<1>0. Len(f) \in Nat /\ 0 \in Digits /\ \A i \in 1 .. Len(f) : f[i] \in Digits BY LenProperties DEF Digits
<1>1. \A i \in 1 .. 3 : Digit(f, i) \in Digits BY <1>0 DEF Digit
<1> DEFINE z == <<0, 0, 0>>
           u == f \o z
           v == SubSeq(u, 1, 3)
           w == <<Digit(f, 1), Digit(f, 2), Digit(f, 3)>>
<1>2. z \in Seq(Digits) /\ Len(z) = 3 /\ z[1] = 0 /\ z[2] = 0 /\ z[3] = 0 BY <1>0
<1> HIDE DEF z
<1>3. u \in Seq(Digits) /\ Len(u) = Len(f) + 3 /\ \A i \in 1 .. 3 : u[i] = Digit(f, i)
  <2>1. u \in Seq(Digits) /\ Len(u) = Len(f) + 3
    <3>1. u = Cat(f, z) BY DEF Cat
    <3>2. Cat(f, z) \in Seq(Digits) /\ Len(Cat(f, z)) = Len(f) + Len(z) BY <1>2, CatAppend
    <3> QED BY <1>2, <3>1, <3>2
  <2>2. ASSUME NEW i \in 1 .. 3 PROVE u[i] = Digit(f, i)
    <3>0. i <= Len(f) \/ i > Len(f)
      <4> HIDE DEF u, v, w
      <4> QED BY <1>0
    <3>1. CASE i <= Len(f)
      <4>1. i \in 1 .. Len(f) BY <1>0, <3>1
      <4>2. u[i] = f[i] BY <1>0, <1>2, <4>1, ConcatProperties
      <4> QED BY <3>1, <4>2 DEF Digit
    <3>2. CASE i > Len(f)
      <4>1. i \in Len(f) + 1 .. Len(f) + 3 /\ i - Len(f) \in 1 .. 3 BY <1>0, <3>2
      <4>2. u[i] = z[i - Len(f)] BY <1>0, <1>2, <4>1, ConcatProperties
      <4>3. z[i - Len(f)] = 0 BY <1>2, <4>1
      <4> QED BY <1>0, <3>2, <4>2, <4>3 DEF Digit
    <3> QED BY <3>0, <3>1, <3>2, Zenon
  <2> QED BY <2>1, <2>2
<1> HIDE DEF u
<1>4. v = [i \in 1 .. 3 |-> u[i]] BY <1>0, <1>3
<1>5. w = [i \in 1 .. 3 |-> Digit(f, i)] OBVIOUS
<1>6. v = w BY <1>3, <1>4, <1>5
<1>7. Thousandths(f) = Value(w) BY <1>6 DEF Thousandths, u, z
<1>8. Value(w) = 100 * Digit(f, 1) + 10 * Digit(f, 2) + Digit(f, 3)
  <2>1. Digit(f, 1) \in Digits /\ Digit(f, 2) \in Digits /\ Digit(f, 3) \in Digits BY <1>1
  <2> QED BY <2>1, ThreeDigits
<1> QED BY <1>1, <1>7, <1>8

\* Digits without a sign are parsed to their value if that fits.
LEMMA ParsesInt ==
  ASSUME MaxCents \in Nat, NEW w \in Seq(Digits), w # <<>>
  PROVE  ParseInt(w) = IF Value(w) <= MaxCents THEN Good(Value(w)) ELSE Bad
<1>1. Len(w) \in Nat /\ Len(w) # 0 /\ DOMAIN w = 1 .. Len(w) /\ \A i \in 1 .. Len(w) : w[i] \in Digits
  BY LenProperties, EmptySeq
<1>2. Head(w) \in Digits
  <2>1. Head(w) = w[1] /\ 1 \in 1 .. Len(w) BY <1>1
  <2> QED BY <1>1, <2>1
<1>3. ~ Signed(w) BY <1>2 DEF Signed, Digits, Minus, Plus
<1>4. AllDigits(w) BY <1>1 DEF AllDigits
<1>5. Value(w) \in Nat BY Evaluation DEF Evaluates
<1>6. Holdable(Value(w)) <=> Value(w) <= MaxCents BY <1>5 DEF Holdable
<1>7. ParseInt(w) = IF w # <<>> /\ AllDigits(w) /\ Holdable(Value(w)) THEN Good(Value(w)) ELSE Bad
  BY <1>3, Zenon DEF ParseInt
<1> QED BY <1>4, <1>6, <1>7

\* Checked step by step, a sum is good if it fits in the end.
LEMMA SumIs ==
  ASSUME MaxCents \in Nat, NEW v \in Nat, NEW f \in Seq(Digits), NEW n, n = 100 * v + (Thousandths(f) + 5) \div 10
  PROVE  n \in Nat /\ Sum(v, f) = IF n <= MaxCents THEN Good(n) ELSE Bad
<1> DEFINE a == Digit(f, 1)
           b == Digit(f, 2)
           c == Digit(f, 3)
           up == IF c >= 5 THEN 1 ELSE 0
           hundredths == 100 * v + (10 * a + b)
<1>1. a \in 0 .. 9 /\ b \in 0 .. 9 /\ c \in 0 .. 9 BY ThousandthsAre DEF Digits
<1>2. Thousandths(f) = 100 * a + 10 * b + c BY ThousandthsAre
<1>3. Sum(v, f) = IF Holdable(100 * v) /\ Holdable(hundredths) /\ Holdable(hundredths + up) THEN Good(hundredths + up) ELSE Bad
  BY Zenon DEF Sum
<1> HIDE DEF a, b, c
<1>4. (100 * a + 10 * b + c + 5) \div 10 = 10 * a + b + up BY <1>1
<1>5. n = hundredths + up BY <1>1, <1>2, <1>4
<1>6. n \in Nat BY <1>1, <1>5
<1>7. (Holdable(100 * v) /\ Holdable(hundredths) /\ Holdable(hundredths + up)) <=> n <= MaxCents
  BY <1>1, <1>5 DEF Holdable
<1> HIDE DEF hundredths, up
<1> QED BY <1>3, <1>5, <1>6, <1>7

\* A plain number without its sign is read as the nearest cent.
LEMMA Reads ==
  ASSUME MaxCents \in Nat, NEW body, NEW cut, Number(body, cut),
         NEW n, n = 100 * Value(Before(body, cut)) + (Thousandths(Behind(body, cut)) + 5) \div 10
  PROVE  n \in Nat /\ Read(body) = IF n <= MaxCents THEN Good(n) ELSE Bad
<1> DEFINE w == Before(body, cut)
           f == Behind(body, cut)
           whole == IF cut = 1 THEN Good(0) ELSE ParseInt(w)
<1>1. Cut(body) = cut /\ w \in Seq(Digits) /\ f \in Seq(Digits) /\ Len(w) = cut - 1 BY NumberCut
<1>2. Read(body) = IF whole.ok /\ AllDigits(f) THEN Sum(whole.cents, f) ELSE Bad
  BY <1>1, Zenon DEF Read, Before, Behind
<1>3. AllDigits(f)
  <2>1. DOMAIN f = 1 .. Len(f) /\ \A i \in 1 .. Len(f) : f[i] \in Digits BY <1>1, LenProperties
  <2> QED BY <2>1 DEF AllDigits
<1>4. Value(w) \in Nat BY <1>1, Evaluation DEF Evaluates
<1>5. n \in Nat /\ Sum(Value(w), f) = IF n <= MaxCents THEN Good(n) ELSE Bad BY <1>1, <1>4, SumIs
<1>5a. n >= Value(w)
  <2>1. Thousandths(f) \in Nat
    <3>1. Digit(f, 1) \in 0 .. 9 /\ Digit(f, 2) \in 0 .. 9 /\ Digit(f, 3) \in 0 .. 9
      BY <1>1, ThousandthsAre DEF Digits
    <3>2. Thousandths(f) = 100 * Digit(f, 1) + 10 * Digit(f, 2) + Digit(f, 3) BY <1>1, ThousandthsAre
    <3> QED BY <3>1, <3>2
  <2>2. \A t \in Nat : (t + 5) \div 10 >= 0 OBVIOUS
  <2> QED BY <1>4, <2>1, <2>2
<1>6. \A c : Good(c).ok = TRUE /\ Good(c).cents = c BY DEF Good
<1>7. CASE cut = 1
  <2>1. w = <<>> BY <1>1, <1>7, EmptySeq
  <2>2. Value(w) = 0 BY <2>1, Evaluation DEF Evaluates
  <2>3. whole = Good(0) BY <1>7
  <2> HIDE DEF w, f, whole
  <2> QED BY <1>2, <1>3, <1>5, <1>6, <2>2, <2>3
<1>8. CASE cut # 1
  <2>1. w # <<>>
    <3>1. cut \in Nat /\ Len(w) # 0 BY <1>1, <1>8 DEF Number
    <3> QED BY <1>1, <3>1, EmptySeq
  <2>2. whole = IF Value(w) <= MaxCents THEN Good(Value(w)) ELSE Bad BY <1>1, <1>8, <2>1, ParsesInt
  <2>3. Bad.ok = FALSE BY DEF Bad
  <2> HIDE DEF w, f, whole
  <2>4. CASE Value(w) <= MaxCents BY <1>2, <1>3, <1>5, <1>6, <2>2, <2>4
  <2>5. CASE ~ (Value(w) <= MaxCents) BY <1>2, <1>4, <1>5, <1>5a, <2>2, <2>3, <2>5
  <2> QED BY <2>4, <2>5
<1> QED BY <1>5, <1>7, <1>8

\* What is left of a text less its separators.
LEMMA KeptTexts ==
  /\ Spells(kept, Signs, Signs)
  /\ \A s \in Seq(Signs \ {Dollar, Comma}) : Each(kept, s) = s
<1>1. Gives(kept, Signs, Signs)
  <2> USE DEF Gives
  <2> SUFFICES ASSUME NEW ch \in Signs PROVE kept[ch] \in Seq(Signs) OBVIOUS
  <2>1. kept[ch] = IF ch \in {Dollar, Comma} THEN <<>> ELSE <<ch>> BY DEF kept
  <2>2. <<>> \in Seq(Signs) /\ <<ch>> \in Seq(Signs) OBVIOUS
  <2> QED BY <2>1, <2>2
<1>2. \A ch \in Signs \ {Dollar, Comma} : kept[ch] = <<ch>> BY DEF kept
<1> QED BY <1>1, <1>2, Eaching, EachSame

\* What is assumed of the constants.
LEMMA MoneyConstants ==
  ASSUME MoneyInstance
  PROVE  /\ MaxCents \in Nat \ {0} /\ Quoted \subseteq -MaxCents .. MaxCents
         /\ Leading \subseteq Seq(Signs) /\ Following \subseteq Signs /\ MaxTyped \in Nat
BY DEF MoneyInstance

\* A text that is left whole, and one digit by digit or with a point.
LEMMA PlainIs ==
  ASSUME NEW text \in Seq(Signs), PlainNumber(text)
  PROVE  LET body == Unsigned(text)
         IN  /\ text # <<>> /\ Each(kept, text) = text
             /\ \E cut : /\ Number(body, cut)
                         /\ Nearest(text) = 100 * Value(Before(body, cut))
                                            + (Thousandths(Behind(body, cut)) + 5) \div 10
<1> DEFINE body == Unsigned(text)
           points == {i \in DOMAIN body : body[i] = Point}
           cut == IF points = {} THEN Len(body) + 1 ELSE CHOOSE i \in points : TRUE
<1>1. Len(text) \in Nat /\ DOMAIN text = 1 .. Len(text) /\ (text # <<>> => Len(text) # 0)
  BY LenProperties, EmptySeq
<1>2. /\ body # <<>>
      /\ \A i \in DOMAIN body : body[i] \in Digits \cup {Point}
      /\ \A i, j \in DOMAIN body : body[i] = Point /\ body[j] = Point => i = j
  BY DEF PlainNumber
<1>3. Negative(text) \/ body = text BY DEF Unsigned
<1>4. Negative(text) => /\ text # <<>> /\ text[1] = Minus /\ body = Tail(text)
  BY <1>1 DEF Negative, Unsigned
<1>5. text # <<>> BY <1>2, <1>3, <1>4
<1>6. /\ body \in Seq(Signs) /\ Len(body) \in Nat /\ DOMAIN body = 1 .. Len(body)
      /\ \A i \in 1 .. Len(text) : text[i] = Minus \/ \E j \in DOMAIN body : text[i] = body[j]
  <2>1. CASE Negative(text)
    <3>0. body = Tail(text) BY <1>4, <2>1
    <3>1. /\ Tail(text) \in Seq(Signs) /\ Len(Tail(text)) = Len(text) - 1
          /\ \A j \in 1 .. Len(text) - 1 : Tail(text)[j] = text[j + 1]
      BY <1>1, <1>5
    <3>2. Len(text) - 1 \in Nat /\ DOMAIN Tail(text) = 1 .. Len(text) - 1
      <4>1. Len(text) - 1 \in Nat BY <1>1, <1>5
      <4> QED BY <3>1, <4>1, LenProperties
    <3>3. ASSUME NEW i \in 1 .. Len(text) PROVE text[i] = Minus \/ \E j \in DOMAIN Tail(text) : text[i] = Tail(text)[j]
      <4>1. CASE i = 1 BY <1>4, <2>1, <4>1
      <4>2. CASE i # 1
        <5>1. i - 1 \in 1 .. Len(text) - 1 /\ (i - 1) + 1 = i BY <1>1, <4>2
        <5> QED BY <3>1, <3>2, <5>1
      <4> QED BY <4>1, <4>2
    <3> QED BY <3>0, <3>1, <3>2, <3>3
  <2>2. CASE body = text BY <1>1, <2>2
  <2> QED BY <1>3, <2>1, <2>2
<1> HIDE DEF body
<1>7. Each(kept, text) = text
  <2>1. \A i \in 1 .. Len(text) : text[i] \in Digits \cup {Point, Minus} BY <1>2, <1>6
  <2>2. Digits \cup {Point, Minus} \subseteq Signs \ {Dollar, Comma}
    BY DEF Signs, Digits, Point, Minus, Dollar, Comma
  <2>3. text \in Seq(Signs \ {Dollar, Comma})
    <3>1. \A i \in 1 .. Len(text) : text[i] \in Signs \ {Dollar, Comma} BY <2>1, <2>2
    <3>2. text = [i \in 1 .. Len(text) |-> text[i]] BY <1>1
    <3> HIDE DEF Signs
    <3> QED BY <1>1, <3>1, <3>2
  <2> QED BY <2>3, KeptTexts
<1>8. Number(body, cut)
  <2>1. body \in Seq(Signs) /\ body # <<>> /\ Len(body) \in Nat BY <1>2, <1>6
  <2>2. CASE points = {}
    <3>1. cut = Len(body) + 1 BY <2>2
    <3>2. \A j \in 1 .. Len(body) : body[j] \in Digits BY <1>2, <1>6, <2>2
    <3> HIDE DEF cut, points
    <3> QED BY <2>1, <3>1, <3>2 DEF Number
  <2>3. CASE points # {}
    <3>1. cut \in points BY <2>3
    <3>2. cut \in 1 .. Len(body) /\ body[cut] = Point BY <1>6, <3>1
    <3> HIDE DEF cut, points
    <3>3. \A j \in 1 .. Len(body) : j # cut => body[j] \in Digits BY <1>2, <1>6, <3>2
    <3>4. cut \in 1 .. Len(body) + 1 BY <2>1, <3>2
    <3> QED BY <2>1, <3>2, <3>3, <3>4 DEF Number
  <2> QED BY <2>2, <2>3
<1>9. Nearest(text) = 100 * Value(Before(body, cut)) + (Thousandths(Behind(body, cut)) + 5) \div 10
  BY Zenon DEF Nearest, body, Before, Behind, Thousandths
<1> HIDE DEF cut
<1> QED BY <1>5, <1>7, <1>8, <1>9 DEF body

\* A plain number is read as the nearest cent.
LEMMA ParsesPlain ==
  ASSUME MaxCents \in Nat, NEW text \in Seq(Signs), PlainNumber(text)
  PROVE  parse_money(text) = IF Nearest(text) > MaxCents THEN Bad
                             ELSE Good(IF Negative(text) THEN - Nearest(text) ELSE Nearest(text))
<1> DEFINE body == Unsigned(text)
           n == Nearest(text)
<1>1. text # <<>> /\ Each(kept, text) = text BY PlainIs
<1>2. PICK cut : Number(body, cut) /\ n = 100 * Value(Before(body, cut))
                                          + (Thousandths(Behind(body, cut)) + 5) \div 10
  BY PlainIs
<1> HIDE DEF body, n
<1>3. n \in Nat /\ Read(body) = IF n <= MaxCents THEN Good(n) ELSE Bad BY <1>2, Reads
<1>4. parse_money(text) = IF ~ Read(body).ok THEN Bad
                          ELSE Good(IF Negative(text) THEN - Read(body).cents ELSE Read(body).cents)
  BY <1>1, Zenon DEF parse_money, body
<1>5. Good(n).ok = TRUE /\ Good(n).cents = n /\ Bad.ok = FALSE BY DEF Good, Bad
<1>6. CASE n <= MaxCents
  <2>1. Read(body) = Good(n) /\ ~ (n > MaxCents) BY <1>3, <1>6
  <2> QED BY <1>4, <1>5, <2>1 DEF n
<1>7. CASE n > MaxCents
  <2>1. Read(body) = Bad BY <1>3, <1>7
  <2> QED BY <1>4, <1>5, <1>7, <2>1 DEF n
<1> QED BY <1>3, <1>6, <1>7

(* A plain decimal number of any length is read as the nearest cent, halves  *)
(* upward, and is refused exactly when that cent is more than the integer    *)
(* holds, whatever its width (domain.rs: parse_money).                       *)
THEOREM ReadsTheNearestCent == ASSUME MoneyInstance PROVE MoneySpec => []MoneyNearest
<1>1. MoneyInit => MoneyNearest
  <2> SUFFICES ASSUME MoneyInit, PlainNumber(entered)
               PROVE  parse_money(entered) =
                        IF Nearest(entered) > MaxCents THEN Bad
                        ELSE Good(IF Negative(entered) THEN - Nearest(entered) ELSE Nearest(entered))
    BY DEF MoneyNearest
  <2>1. MaxCents \in Nat BY MoneyConstants
  <2>2. entered \in Seq(Signs)
    <3>1. PICK start \in Leading, rest \in UNION {[1 .. n -> Following] : n \in 0 .. MaxTyped} : entered = start \o rest
      BY DEF MoneyInit, Entries
    <3>2. PICK n \in 0 .. MaxTyped : rest \in [1 .. n -> Following] BY <3>1
    <3> HIDE DEF Signs
    <3>3. start \in Seq(Signs) /\ rest \in Seq(Signs)
      <4>1. n \in Nat BY MoneyConstants
      <4>2. rest \in [1 .. n -> Signs] BY <3>2, MoneyConstants
      <4> QED BY <3>1, <4>1, <4>2, MoneyConstants
    <3> QED BY <3>1, <3>3, ConcatProperties
  <2> QED BY <2>1, <2>2, ParsesPlain
<1>2. MoneyNearest /\ UNCHANGED money => MoneyNearest' BY DEF MoneyNearest, money
<1> QED BY <1>1, <1>2, PTL DEF MoneySpec

-----------------------------------------------------------------------------
(* Writing an amount.                                                      *)

\* The digits of a number are those of its tens and one more.
DigitsOf(n, s) == /\ s \in Seq(Digits) /\ s # <<>>
                  /\ s = IF n < 10 THEN <<n>> ELSE Append(Decimal[n \div 10], n % 10)

\* A number is ten times its tens and one digit.
LEMMA TensAndOnes ==
  ASSUME NEW n \in Nat
  PROVE  /\ n \div 10 \in Nat /\ n % 10 \in Digits /\ 10 * (n \div 10) + (n % 10) = n
         /\ n >= 10 => n \div 10 < n
<1>1. n \div 10 \in Nat /\ n >= 10 => n \div 10 < n OBVIOUS
<1>2. n % 10 \in 0 .. 9 OBVIOUS
<1>3. 10 * (n \div 10) + (n % 10) = n OBVIOUS
<1>4. n \div 10 \in Nat OBVIOUS
<1> QED BY <1>1, <1>2, <1>3, <1>4 DEF Digits

\* A digit more is digits still.
LEMMA OneDigitMore ==
  ASSUME NEW s \in Seq(Digits), NEW d \in Digits PROVE Append(s, d) \in Seq(Digits) \ {<<>>}
<1>1. Append(s, d) \in Seq(Digits) /\ Len(Append(s, d)) = Len(s) + 1 BY AppendProperties
<1>2. Len(s) \in Nat /\ Len(<<>>) = 0 BY LenProperties, EmptySeq
<1>3. Append(s, d) # <<>> BY <1>1, <1>2
<1> QED BY <1>1, <1>3

\* The recursion of Decimal ends.
LEMMA DecimalRecursion == \A n \in Nat : DigitsOf(n, Decimal[n])
<1> DEFINE T == Seq(Digits) \ {<<>>}
           size == [n \in Nat |-> n]
           next(n, f) == IF n < 10 THEN <<n>> ELSE Append(f[n \div 10], n % 10)
           step == [n \in Nat |-> [f \in [Nat -> T] |-> next(n, f)]]
           Is(f) == f = [n \in Nat |-> IF n < 10 THEN <<n>> ELSE Append(f[n \div 10], n % 10)]
<1>1. \A n \in Nat : n >= 10 => n \div 10 \in Nat /\ n \div 10 < n /\ n % 10 \in Digits BY TensAndOnes
<1>2. ASSUME NEW n \in Nat, NEW f \in [Nat -> T] PROVE next(n, f) \in T
  <2>1. CASE n < 10
    <3>1. n \in Digits BY <2>1 DEF Digits
    <3>2. <<n>> \in Seq(Digits) /\ <<n>> # <<>> BY <3>1
    <3> QED BY <2>1, <3>2
  <2>2. CASE ~ (n < 10)
    <3>1. f[n \div 10] \in Seq(Digits) /\ n % 10 \in Digits BY <1>1, <2>2
    <3>2. Append(f[n \div 10], n % 10) \in T BY <3>1, OneDigitMore
    <3> QED BY <2>2, <3>2
  <2> QED BY <2>1, <2>2
<1>3. \E f \in [Nat -> T] : \A n \in Nat : f[n] = step[n][f]
  <2>1. <<0>> \in T
    <3>1. 0 \in Digits BY DEF Digits
    <3> QED BY <3>1
  <2>2. size \in [Nat -> Nat] OBVIOUS
  <2>3. step \in [Nat -> [[Nat -> T] -> T]]
    <3> HIDE DEF next, T
    <3> QED BY <1>2
  <2>4. ASSUME NEW n \in Nat, NEW g \in [Nat -> T], NEW h \in [Nat -> T],
               \A k \in Nat : size[k] < size[n] => g[k] = h[k]
        PROVE  step[n][g] = step[n][h]
    <3>1. next(n, g) = next(n, h)
      <4>1. CASE n < 10 BY <4>1
      <4>2. CASE ~ (n < 10)
        <5>1. g[n \div 10] = h[n \div 10] BY <1>1, <2>4, <4>2
        <5> QED BY <4>2, <5>1
      <4> QED BY <4>1, <4>2
    <3> HIDE DEF next, T
    <3> QED BY <3>1
  <2> HIDE DEF step, size, T
  <2>5. BySize(Nat, T, size, step) BY <2>1, <2>2, <2>3, <2>4 DEF BySize
  <2> QED BY <2>5, SizedRecursion
<1>4. PICK f \in [Nat -> T] : \A n \in Nat : f[n] = step[n][f] BY <1>3
<1>5. \A n \in Nat : f[n] = next(n, f)
  <2> HIDE DEF next, T
  <2> QED BY <1>4
<1>6. Is(f) BY <1>5
<1>7. Is(Decimal)
  <2>1. Decimal = CHOOSE g : Is(g) BY Zenon DEF Decimal
  <2> HIDE DEF Is
  <2> QED BY <1>6, <2>1
<1>8. \A n \in Nat : Decimal[n] = IF n < 10 THEN <<n>> ELSE Append(Decimal[n \div 10], n % 10)
  BY <1>7
<1> DEFINE N == {n \in Nat : \A k \in 0 .. n : Decimal[k] \in T}
<1>9. ASSUME NEW n \in Nat, n < 10 \/ Decimal[n \div 10] \in T PROVE Decimal[n] \in T
  <2>1. CASE n < 10
    <3>1. n \in Digits BY <2>1 DEF Digits
    <3>2. <<n>> \in Seq(Digits) /\ <<n>> # <<>> BY <3>1
    <3> QED BY <1>8, <2>1, <3>2
  <2>2. CASE ~ (n < 10)
    <3>1. Decimal[n \div 10] \in T BY <1>9, <2>2
    <3>2. Decimal[n \div 10] \in Seq(Digits) /\ n % 10 \in Digits BY <3>1, TensAndOnes
    <3>3. Append(Decimal[n \div 10], n % 10) \in T BY <3>2, OneDigitMore
    <3>4. Decimal[n] = Append(Decimal[n \div 10], n % 10) BY <1>8, <2>2
    <3> QED BY <3>3, <3>4
  <2> QED BY <2>1, <2>2
<1>10. 0 \in N
  <2>1. Decimal[0] \in T BY <1>9
  <2> QED BY <2>1
<1>11. ASSUME NEW n \in Nat, n \in N PROVE n + 1 \in N
  <2>1. n + 1 < 10 \/ Decimal[(n + 1) \div 10] \in T
    <3> SUFFICES ASSUME ~ (n + 1 < 10) PROVE Decimal[(n + 1) \div 10] \in T OBVIOUS
    <3>1. (n + 1) \div 10 \in 0 .. n BY <1>1
    <3> QED BY <1>11, <3>1
  <2>2. Decimal[n + 1] \in T BY <1>9, <2>1
  <2>3. \A k \in 0 .. n + 1 : k \in 0 .. n \/ k = n + 1 OBVIOUS
  <2> QED BY <1>11, <2>2, <2>3
<1> HIDE DEF N, T
<1>12. \A n \in Nat : Decimal[n] \in T
  <2>1. \A n \in Nat : n \in N BY <1>10, <1>11, Induction
  <2>2. \A n \in Nat : n \in 0 .. n OBVIOUS
  <2> QED BY <2>1, <2>2 DEF N
<1> QED BY <1>8, <1>12 DEF DigitsOf, T

\* The digits of a number have its value.
LEMMA DecimalValue == \A n \in Nat : Value(Decimal[n]) = n
<1> DEFINE N == {n \in Nat : \A k \in 0 .. n : Value(Decimal[k]) = k}
<1>1. ASSUME NEW n \in Nat, n < 10 \/ Value(Decimal[n \div 10]) = n \div 10 PROVE Value(Decimal[n]) = n
  <2>1. Decimal[n] = IF n < 10 THEN <<n>> ELSE Append(Decimal[n \div 10], n % 10)
    BY DecimalRecursion DEF DigitsOf
  <2>2. CASE n < 10
    <3>1. n \in Digits /\ <<>> \in Seq(Digits) BY <2>2 DEF Digits
    <3>2. <<n>> = Append(<<>>, n) OBVIOUS
    <3>3. Value(Append(<<>>, n)) = 10 * 0 + n BY <3>1, Evaluation DEF Evaluates
    <3> QED BY <2>1, <2>2, <3>2, <3>3
  <2>3. CASE ~ (n < 10)
    <3>1. n \div 10 \in Nat /\ n % 10 \in Digits /\ 10 * (n \div 10) + (n % 10) = n BY TensAndOnes
    <3>2. Decimal[n \div 10] \in Seq(Digits) BY <3>1, DecimalRecursion DEF DigitsOf
    <3>3. Value(Append(Decimal[n \div 10], n % 10)) = 10 * Value(Decimal[n \div 10]) + (n % 10)
      BY <3>1, <3>2, Evaluation DEF Evaluates
    <3> QED BY <1>1, <2>1, <2>3, <3>1, <3>3
  <2> QED BY <2>2, <2>3
<1>2. 0 \in N
  <2>1. Value(Decimal[0]) = 0 BY <1>1
  <2> QED BY <2>1
<1>3. ASSUME NEW n \in Nat, n \in N PROVE n + 1 \in N
  <2>1. n + 1 < 10 \/ Value(Decimal[(n + 1) \div 10]) = (n + 1) \div 10
    <3> SUFFICES ASSUME ~ (n + 1 < 10) PROVE Value(Decimal[(n + 1) \div 10]) = (n + 1) \div 10 OBVIOUS
    <3>1. (n + 1) \div 10 \in 0 .. n BY SMTT(20)
    <3> QED BY <1>3, <3>1
  <2>2. Value(Decimal[n + 1]) = n + 1 BY <1>1, <2>1
  <2>3. \A k \in 0 .. n + 1 : k \in 0 .. n \/ k = n + 1 OBVIOUS
  <2> QED BY <1>3, <2>2, <2>3
<1> HIDE DEF N
<1>4. \A n \in Nat : n \in N BY <1>2, <1>3, Induction
<1>5. \A n \in Nat : n \in 0 .. n OBVIOUS
<1> QED BY <1>4, <1>5 DEF N

\* The two digits of the cents.
LEMMA CentsAre ==
  ASSUME NEW m \in Nat
  PROVE  /\ m \div 100 \in Nat /\ (m % 100) \div 10 \in Digits /\ m % 10 \in Digits
         /\ 100 * (m \div 100) + (100 * ((m % 100) \div 10) + 10 * (m % 10) + 0 + 5) \div 10 = m
<1> DEFINE q == m \div 100
           r == m % 100
           t == r \div 10
           o == m % 10
<1>1. q \in Nat /\ r \in 0 .. 99 /\ m = 100 * q + r OBVIOUS
<1>2. o = r % 10
  <2>1. o \in 0 .. 9 /\ m = 10 * (m \div 10) + o OBVIOUS
  <2>2. r % 10 \in 0 .. 9 /\ r = 10 * t + (r % 10) /\ t \in 0 .. 9 BY <1>1
  <2> QED BY <1>1, <2>1, <2>2
<1>3. t \in 0 .. 9 /\ o \in 0 .. 9 /\ r = 10 * t + o
  <2> HIDE DEF q, r, o
  <2>1. r \div 10 \in 0 .. 9 /\ r % 10 \in 0 .. 9 /\ r = 10 * (r \div 10) + (r % 10) BY <1>1
  <2> QED BY <1>2, <2>1
<1> HIDE DEF q, r, t, o
<1>4. (100 * t + 10 * o + 0 + 5) \div 10 = 10 * t + o BY <1>3
<1>5. 100 * q + (100 * t + 10 * o + 0 + 5) \div 10 = m BY <1>1, <1>3, <1>4
<1> QED BY <1>1, <1>3, <1>5 DEF q, r, t, o, Digits

PlainAmount(c) == Cat(Decimal[Abs(c) \div 100], Cents(c))

\* The end of a written amount.
LEMMA CentsText ==
  ASSUME NEW c \in Int
  PROVE  /\ Abs(c) \in Nat /\ Cents(c) \in Seq(Signs) /\ Len(Cents(c)) = 3
         /\ Cents(c)[1] = Point /\ Cents(c)[2] = (Abs(c) % 100) \div 10 /\ Cents(c)[3] = Abs(c) % 10
         /\ Cents(c)[2] \in Digits /\ Cents(c)[3] \in Digits
<1>1. Abs(c) \in Nat BY DEF Abs
<1> DEFINE m == Abs(c)
           t == (m % 100) \div 10
           o == m % 10
<1>2. t \in Digits /\ o \in Digits BY <1>1, CentsAre
<1>3. Cents(c) = <<Point, t, o>> BY DEF Cents
<1> HIDE DEF m, t, o
<1>4. Point \in Signs /\ t \in Signs /\ o \in Signs BY <1>2 DEF Signs
<1>5. <<Point, t, o>> \in Seq(Signs)
  <2> HIDE DEF Signs
  <2> QED BY <1>4
<1> QED BY <1>1, <1>2, <1>3, <1>5 DEF m, t, o

\* An amount written without separators and sign reads back.
LEMMA ReadsWhatIsWritten ==
  ASSUME MaxCents \in Nat, NEW c \in -MaxCents .. MaxCents
  PROVE  Read(PlainAmount(c)) = Good(Abs(c)) /\ PlainAmount(c) \in Seq(Signs \ {Dollar, Comma, Minus}) /\ PlainAmount(c) # <<>>
<1> DEFINE m == Abs(c)
           d == Decimal[m \div 100]
           e == Cents(c)
           b == PlainAmount(c)
           cut == Len(d) + 1
<1>1. m \in Nat /\ m <= MaxCents /\ c \in Int BY DEF Abs
<1>2. /\ e \in Seq(Signs) /\ Len(e) = 3 /\ e[1] = Point /\ e[2] = (m % 100) \div 10 /\ e[3] = m % 10
      /\ e[2] \in Digits /\ e[3] \in Digits
  BY <1>1, CentsText
<1>3. m \div 100 \in Nat /\ 100 * (m \div 100) + (100 * e[2] + 10 * e[3] + 0 + 5) \div 10 = m
  BY <1>1, <1>2, CentsAre
<1>4. d \in Seq(Digits) /\ d # <<>> /\ Value(d) = m \div 100
  BY <1>3, DecimalRecursion, DecimalValue DEF DigitsOf
<1>5. b = Cat(d, e) BY DEF PlainAmount
<1> HIDE DEF m, d, e, b
<1>6. Len(d) \in Nat /\ Len(d) # 0 /\ \A i \in 1 .. Len(d) : d[i] \in Digits BY <1>4, LenProperties, EmptySeq
<1>7. /\ b \in Seq(Signs) /\ Len(b) = Len(d) + 3 /\ \A i \in 1 .. Len(d) : b[i] = d[i]
      /\ \A i \in 1 .. 3 : b[Len(d) + i] = e[i]
  <2>1. d \in Seq(Signs) BY <1>4, SeqMonotonic DEF Signs
  <2> HIDE DEF Signs
  <2>2. Joined(Signs, d, e) BY <1>2, <2>1, CatItems
  <2> QED BY <1>2, <1>5, <2>2 DEF Joined
<1>8. b[cut] = Point /\ b[cut + 1] = e[2] /\ b[cut + 2] = e[3]
  <2>1. cut = Len(d) + 1 /\ cut + 1 = Len(d) + 2 /\ cut + 2 = Len(d) + 3 BY <1>6
  <2> HIDE DEF cut
  <2> QED BY <1>2, <1>7, <2>1
<1>9. cut \in 2 .. Len(b) - 2 /\ Len(b) \in Nat BY <1>6, <1>7
<1>10. \A j \in 1 .. Len(b) : j # cut => b[j] \in Digits
  <2> SUFFICES ASSUME NEW j \in 1 .. Len(b), j # cut PROVE b[j] \in Digits OBVIOUS
  <2>1. j \in 1 .. Len(d) \/ j = cut + 1 \/ j = cut + 2 BY <1>6, <1>7
  <2> HIDE DEF cut
  <2> QED BY <1>2, <1>6, <1>7, <1>8, <2>1
<1>11. b # <<>> BY <1>9, EmptySeq
<1>12. Number(b, cut) BY <1>7, <1>8, <1>9, <1>10, <1>11 DEF Number
<1>13. Before(b, cut) = d
  <2>1. SubSeq(b, 1, cut - 1) = [i \in 1 .. cut - 1 |-> b[i]] BY <1>7, <1>9
  <2>2. cut - 1 = Len(d) BY <1>6
  <2>3. d = [i \in 1 .. Len(d) |-> d[i]] BY <1>4
  <2> HIDE DEF cut
  <2> QED BY <1>7, <2>1, <2>2, <2>3 DEF Before
<1>14. Thousandths(Behind(b, cut)) = 100 * e[2] + 10 * e[3] + 0
  <2> DEFINE f == Behind(b, cut)
  <2>1. f \in Seq(Digits) BY <1>12, NumberCut
  <2>2. f = SubSeq(b, cut + 1, Len(b)) BY DEF Behind
  <2>3. Len(b) = cut + 2 BY <1>6, <1>7
  <2> HIDE DEF f, cut
  <2>4. Len(f) = 2 /\ f[1] = b[cut + 1] /\ f[2] = b[cut + 2] BY <1>7, <1>9, <2>2, <2>3
  <2>5. Digit(f, 1) = e[2] /\ Digit(f, 2) = e[3] /\ Digit(f, 3) = 0 BY <1>8, <2>4 DEF Digit
  <2>6. Thousandths(f) = 100 * Digit(f, 1) + 10 * Digit(f, 2) + Digit(f, 3) BY <2>1, ThousandthsAre
  <2> QED BY <2>5, <2>6 DEF f
<1>15. m = 100 * Value(Before(b, cut)) + (Thousandths(Behind(b, cut)) + 5) \div 10
  BY <1>3, <1>4, <1>13, <1>14
<1>16. Read(b) = Good(m)
  <2> HIDE DEF cut
  <2>1. Read(b) = IF m <= MaxCents THEN Good(m) ELSE Bad BY <1>12, <1>15, Reads
  <2> QED BY <1>1, <2>1
<1>17. b \in Seq(Signs \ {Dollar, Comma, Minus})
  <2> DEFINE S == Signs \ {Dollar, Comma, Minus}
  <2>1. Digits \subseteq S /\ Point \in S BY DEF Signs, Digits, Dollar, Comma, Minus, Point
  <2>2. \A j \in 1 .. Len(b) : b[j] \in S
    <3> HIDE DEF cut, S
    <3> QED BY <1>8, <1>10, <2>1
  <2>3. b = [j \in 1 .. Len(b) |-> b[j]] BY <1>7
  <2> HIDE DEF S
  <2>4. b \in Seq(S) BY <1>9, <2>2, <2>3
  <2> QED BY <2>4 DEF S
<1> QED BY <1>11, <1>16, <1>17 DEF b, m

\* Whatever is left of a text by dropping separators decides what is read.
LEMMA ReadsBack ==
  ASSUME MaxCents \in Nat, NEW c \in -MaxCents .. MaxCents,
         NEW text, Each(kept, text) = money_input_value(c)
  PROVE  parse_money(text) = Good(c)
<1> DEFINE b == PlainAmount(c)
           v == money_input_value(c)
<1>1. v = Cat(Cat(Sign(c), Decimal[Abs(c) \div 100]), Cents(c)) BY Zenon DEF money_input_value, Cat
<1>2. v = Cat(Sign(c), b)
  <2>1. /\ Decimal[Abs(c) \div 100] \in Seq(Signs) /\ Cents(c) \in Seq(Signs) /\ Sign(c) \in Seq(Signs)
    <3>1. Abs(c) \div 100 \in Nat
      <4>1. Abs(c) \in Nat BY DEF Abs
      <4> QED BY <4>1
    <3>2. Decimal[Abs(c) \div 100] \in Seq(Digits) BY <3>1, DecimalRecursion DEF DigitsOf
    <3>3. Digits \subseteq Signs /\ Minus \in Signs BY DEF Signs
    <3>4. Decimal[Abs(c) \div 100] \in Seq(Signs) BY <3>2, <3>3, SeqMonotonic
    <3>5. Cents(c) \in Seq(Signs) BY CentsText
    <3> HIDE DEF Signs
    <3>6. Sign(c) \in Seq(Signs) BY <3>3 DEF Sign
    <3> QED BY <3>4, <3>5, <3>6
  <2>2. \A s, t, u \in Seq(Signs) : Cat(Cat(s, t), u) = Cat(s, Cat(t, u)) BY CatAppend
  <2>3. Cat(Cat(Sign(c), Decimal[Abs(c) \div 100]), Cents(c)) = Cat(Sign(c), b)
    BY <2>1, <2>2, Zenon DEF PlainAmount
  <2> QED BY <1>1, <2>3
<1>3. Read(b) = Good(Abs(c)) /\ b \in Seq(Signs \ {Dollar, Comma, Minus}) /\ b # <<>> BY ReadsWhatIsWritten
<1>4. parse_money(text) = IF v = <<>> \/ ~ Read(Unsigned(v)).ok THEN Bad
                          ELSE Good(IF Negative(v) THEN - Read(Unsigned(v)).cents ELSE Read(Unsigned(v)).cents)
  BY Zenon DEF parse_money
<1> HIDE DEF b, v
<1>5. Good(Abs(c)).ok = TRUE /\ Good(Abs(c)).cents = Abs(c) BY DEF Good
<1>6. Len(b) \in Nat /\ Len(b) # 0 /\ b[1] \in Signs \ {Dollar, Comma, Minus} /\ Head(b) = b[1]
  <2>1. Len(b) \in Nat /\ Len(b) # 0 BY <1>3, LenProperties, EmptySeq
  <2>2. 1 \in 1 .. Len(b) BY <2>1
  <2> HIDE DEF Signs
  <2> QED BY <1>3, <2>1, <2>2, LenProperties
<1>7. CASE c < 0
  <2>1. Sign(c) = <<Minus>> BY <1>7 DEF Sign
  <2>2. v = <<Minus>> \o b BY <1>2, <2>1 DEF Cat
  <2>3. v # <<>> /\ Head(v) = Minus /\ Tail(v) = b
    <3> DEFINE S == Signs \cup {Minus}
    <3>1. b \in Seq(S) BY <1>3, SeqMonotonic
    <3>2. Minus \in S OBVIOUS
    <3> HIDE DEF S, Minus
    <3> QED BY <2>2, <3>1, <3>2
  <2>4. Negative(v) /\ Unsigned(v) = b BY <2>3 DEF Negative, Unsigned
  <2>5. - Abs(c) = c BY <1>7 DEF Abs
  <2> QED BY <1>3, <1>4, <1>5, <2>3, <2>4, <2>5
<1>8. CASE ~ (c < 0)
  <2>1. Sign(c) = <<>> BY <1>8 DEF Sign
  <2>2. v = b BY <1>2, <1>3, <2>1, CatAppend
  <2>3. ~ Negative(v) /\ Unsigned(v) = b BY <1>6, <2>2 DEF Negative, Unsigned
  <2>4. Abs(c) = c BY <1>8 DEF Abs
  <2> QED BY <1>3, <1>4, <1>5, <2>2, <2>3, <2>4
<1> QED BY <1>7, <1>8

\* Where the separators are, from the left and counted from the right.
SetApart(g, digits) ==
  LET n == Len(digits)
  IN  /\ g \in Seq(Signs) /\ Each(kept, g) = digits /\ Len(g) = n + (n - 1) \div 3
      /\ g[1] \in Digits
      /\ \A p \in 1 .. Len(g) : /\ g[p] \in Digits \cup {Comma}
                                /\ g[p] = Comma <=> (Len(g) + 1 - p) % 4 = 0

\* The same of the first k digits.
SetApartUpTo(g, digits, k) ==
  LET n == Len(digits)
      l == n + (n - 1) \div 3
  IN  /\ g \in Seq(Signs) /\ Each(kept, g) = SubSeq(digits, 1, k)
      /\ Len(g) = l - (n - k) - (n - k) \div 3
      /\ g[1] \in Digits
      /\ \A p \in 1 .. Len(g) : /\ g[p] \in Digits \cup {Comma}
                                /\ g[p] = Comma <=> (l + 1 - p) % 4 = 0

\* Every fourth place of the text is every third digit.
LEMMA CountOfThree ==
  ASSUME NEW r \in Nat \ {0}
  PROVE  /\ r % 3 = 0 => /\ (r + r \div 3) % 4 = 0 /\ (r + (r \div 3) - 1) % 4 # 0
                         /\ (r - 1) \div 3 = (r \div 3) - 1
         /\ r % 3 # 0 => (r + r \div 3) % 4 # 0 /\ (r - 1) \div 3 = r \div 3
         /\ (r + (r - 1) \div 3) % 4 # 0
         /\ r \div 3 \in Nat /\ (r - 1) \div 3 \in Nat
<1>1. PICK q \in Nat, s \in 0 .. 2 : r = 3 * q + s /\ q = r \div 3 /\ s = r % 3
  <2>1. r \div 3 \in Nat /\ r % 3 \in 0 .. 2 /\ r = 3 * (r \div 3) + (r % 3) OBVIOUS
  <2> QED BY <2>1
<1>2. CASE s = 0
  <2>1. q >= 1 /\ (r - 1) \div 3 = q - 1 BY <1>1, <1>2
  <2>2. (4 * q) % 4 = 0 /\ (4 * q - 1) % 4 = 3 BY <1>1
  <2> QED BY <1>1, <1>2, <2>1, <2>2
<1>3. CASE s # 0
  <2>1. (r - 1) \div 3 = q BY <1>1, <1>3
  <2>2. (4 * q + s) % 4 = s BY <1>1
  <2> QED BY <1>1, <1>3, <2>1, <2>2
<1> QED BY <1>2, <1>3

\* What a text of one sign and one of two hold.
LEMMA OneSign == \A a, s : s = <<a>> => Len(s) = 1 /\ s[1] = a OBVIOUS
LEMMA TwoSigns == \A a, b, s : s = <<a, b>> => Len(s) = 2 /\ s[1] = a /\ s[2] = b OBVIOUS

\* The next digit, with a separator where one is due.
LEMMA OneGroupDigitMore ==
  ASSUME NEW digits \in Seq(Digits), NEW n, n = Len(digits), NEW k \in 1 .. n - 1, NEW g, SetApartUpTo(g, digits, k),
         NEW part, part = IF (n - k) % 3 = 0 THEN <<Comma, digits[k + 1]>> ELSE <<digits[k + 1]>>
  PROVE  SetApartUpTo(Cat(g, part), digits, k + 1)
<1> DEFINE d == digits[k + 1]
           l == n + (n - 1) \div 3
           r == n - k
           h == Cat(g, part)
<1>0. n \in Nat /\ k \in Nat /\ k + 1 \in 1 .. n /\ r \in Nat \ {0} /\ d \in Digits
  <2>1. n \in Nat BY LenProperties
  <2>2. k + 1 \in 1 .. n BY <2>1
  <2> QED BY <2>1, <2>2
<1>1. /\ g \in Seq(Signs) /\ Each(kept, g) = SubSeq(digits, 1, k) /\ Len(g) = l - r - r \div 3
      /\ g[1] \in Digits
      /\ \A p \in 1 .. Len(g) : g[p] \in Digits \cup {Comma}
      /\ \A p \in 1 .. Len(g) : g[p] = Comma <=> (l + 1 - p) % 4 = 0
  BY DEF SetApartUpTo
<1>2. Len(g) \in Nat /\ l \in Int
  <2>1. Len(g) \in Nat BY <1>1, LenProperties
  <2>2. (n - 1) \div 3 \in Int BY <1>0
  <2> QED BY <1>0, <2>1, <2>2
<1>3. Digits \subseteq Signs /\ Comma \in Signs /\ Comma \notin Digits BY DEF Signs, Digits, Comma
<1>4. /\ r % 3 = 0 => /\ (r + r \div 3) % 4 = 0 /\ (r + (r \div 3) - 1) % 4 # 0
                      /\ (r - 1) \div 3 = (r \div 3) - 1
      /\ r % 3 # 0 => (r + r \div 3) % 4 # 0 /\ (r - 1) \div 3 = r \div 3
      /\ r \div 3 \in Nat
  BY <1>0, CountOfThree
<1>5. SubSeq(digits, 1, k + 1) = Append(SubSeq(digits, 1, k), d) BY <1>0
<1>5a. n - (k + 1) = r - 1 BY <1>0
<1>5b. Len(g) # 0
  <2>1. CASE Len(g) = 0
    <3>1. Each(kept, g) = <<>>
      <4>1. g = <<>> BY <1>1, <2>1, EmptySeq
      <4> QED BY <4>1, KeptTexts DEF Spells
    <3>2. SubSeq(digits, 1, k) # <<>> BY <1>0
    <3> QED BY <1>1, <3>1, <3>2
  <2> QED BY <2>1
<1>6. part \in Seq(Signs) /\ Each(kept, part) = <<d>>
  <2>1. <<d>> \in Seq(Signs) /\ <<Comma>> \in Seq(Signs) /\ <<Comma, d>> = Cat(<<Comma>>, <<d>>)
    <3>1. d \in Signs /\ Comma \in Signs BY <1>0, <1>3
    <3> HIDE DEF d, Signs, Comma
    <3> QED BY <3>1 DEF Cat
  <2>2. <<>> \in Seq(Signs) /\ Each(kept, <<>>) = <<>> BY KeptTexts, EmptySeq DEF Spells
  <2>3. d \in Signs \ {Dollar, Comma} BY <1>0 DEF Signs, Digits, Dollar, Comma
  <2>4. Each(kept, <<d>>) = <<d>>
    <3>1. <<d>> \in Seq(Signs \ {Dollar, Comma})
      <4> HIDE DEF d, Signs, Dollar, Comma
      <4> QED BY <2>3
    <3> QED BY <3>1, KeptTexts
  <2>5. Each(kept, <<Comma>>) = <<>>
    <3>1. kept[Comma] = <<>> BY <1>3 DEF kept
    <3>2. <<Comma>> = Append(<<>>, Comma) OBVIOUS
    <3>3. Each(kept, Append(<<>>, Comma)) = Cat(Each(kept, <<>>), kept[Comma])
      BY <1>3, <2>2, KeptTexts DEF Spells
    <3>4. Cat(<<>>, <<>>) = <<>> BY <2>2, CatAppend
    <3> QED BY <2>2, <3>1, <3>2, <3>3, <3>4
  <2>6. Cat(<<Comma>>, <<d>>) \in Seq(Signs) BY <2>1, CatAppend
  <2>7. Each(kept, Cat(<<Comma>>, <<d>>)) = Cat(Each(kept, <<Comma>>), Each(kept, <<d>>))
    BY <2>1, KeptTexts DEF Spells
  <2>8. Cat(<<>>, <<d>>) = <<d>> BY <2>1, CatAppend
  <2> HIDE DEF d
  <2> QED BY <2>1, <2>4, <2>5, <2>6, <2>7, <2>8 DEF d
<1>7. Joined(Signs, g, part) BY <1>1, <1>6, CatItems
<1>8. h \in Seq(Signs) /\ Len(h) = Len(g) + Len(part)
      /\ (\A i \in 1 .. Len(g) : h[i] = g[i]) /\ (\A i \in 1 .. Len(part) : h[Len(g) + i] = part[i])
  BY <1>7 DEF Joined
<1>9. Each(kept, h) = SubSeq(digits, 1, k + 1)
  <2>1. Each(kept, h) = Cat(SubSeq(digits, 1, k), <<d>>) BY <1>1, <1>6, KeptTexts DEF Spells
  <2>2. SubSeq(digits, 1, k) \in Seq(Digits) BY <1>0
  <2> HIDE DEF d
  <2>3. Append(SubSeq(digits, 1, k), d) = Cat(SubSeq(digits, 1, k), <<d>>) BY <1>0, <2>2, CatAppend
  <2> QED BY <1>5, <2>1, <2>3
<1> HIDE DEF h, l, r, d
<1>9a. h[1] \in Digits BY <1>1, <1>2, <1>5b, <1>8
<1>10. CASE r % 3 = 0
  <2>1. part = <<Comma, d>> BY <1>10 DEF r, d
  <2>2. Len(part) = 2 /\ part[1] = Comma /\ part[2] = d BY ONLY <2>1, TwoSigns
  <2>3. Len(h) = l - (r - 1) - (r - 1) \div 3
    <3>1. Len(h) = Len(g) + 2 BY <1>8, <2>2
    <3>2. (r - 1) \div 3 = (r \div 3) - 1 BY <1>4, <1>10
    <3>3. Len(g) = l - r - (r \div 3) BY <1>1
    <3> QED BY <1>0, <1>2, <1>4, <3>1, <3>2, <3>3
  <2>3a. (l + 1 - (Len(g) + 1)) % 4 = 0
    <3>1. l + 1 - (Len(g) + 1) = r + r \div 3 BY <1>0, <1>1, <1>2, <1>4
    <3> QED BY <1>4, <1>10, <3>1
  <2>3b. (l + 1 - (Len(g) + 2)) % 4 # 0
    <3>1. l + 1 - (Len(g) + 2) = r + (r \div 3) - 1 BY <1>0, <1>1, <1>2, <1>4
    <3> QED BY <1>4, <1>10, <3>1
  <2>4. ASSUME NEW p \in 1 .. Len(h)
        PROVE  h[p] \in Digits \cup {Comma} /\ (h[p] = Comma <=> (l + 1 - p) % 4 = 0)
    <3>1. p \in 1 .. Len(g) \/ p = Len(g) + 1 \/ p = Len(g) + 2 BY <1>2, <1>8, <2>2
    <3>2. CASE p \in 1 .. Len(g)
      <4>1. h[p] = g[p] BY <1>8, <3>2
      <4> QED BY <1>1, <3>2, <4>1
    <3>3. CASE p = Len(g) + 1
      <4>1. h[p] = Comma BY <1>8, <2>2, <3>3
      <4> QED BY <2>3a, <3>3, <4>1
    <3>4. CASE p = Len(g) + 2
      <4>1. h[p] = d BY <1>8, <2>2, <3>4
      <4> QED BY <1>0, <1>3, <2>3b, <3>4, <4>1
    <3> QED BY <3>1, <3>2, <3>3, <3>4
  <2> QED BY <1>5a, <1>8, <1>9, <1>9a, <2>3, <2>4 DEF SetApartUpTo, l, h
<1>11. CASE r % 3 # 0
  <2>1. part = <<d>> BY <1>11 DEF r, d
  <2>2. Len(part) = 1 /\ part[1] = d BY ONLY <2>1, OneSign
  <2>3. Len(h) = l - (r - 1) - (r - 1) \div 3
    <3>1. Len(h) = Len(g) + 1 BY <1>8, <2>2
    <3>2. (r - 1) \div 3 = r \div 3 BY <1>4, <1>11
    <3>3. Len(g) = l - r - (r \div 3) BY <1>1
    <3> QED BY <1>0, <1>2, <1>4, <3>1, <3>2, <3>3
  <2>3a. (l + 1 - (Len(g) + 1)) % 4 # 0
    <3>1. l + 1 - (Len(g) + 1) = r + r \div 3 BY <1>0, <1>1, <1>2, <1>4
    <3> QED BY <1>4, <1>11, <3>1
  <2>4. ASSUME NEW p \in 1 .. Len(h)
        PROVE  h[p] \in Digits \cup {Comma} /\ (h[p] = Comma <=> (l + 1 - p) % 4 = 0)
    <3>1. p \in 1 .. Len(g) \/ p = Len(g) + 1 BY <1>2, <1>8, <2>2
    <3>2. CASE p \in 1 .. Len(g)
      <4>1. h[p] = g[p] BY <1>8, <3>2
      <4> QED BY <1>1, <3>2, <4>1
    <3>3. CASE p = Len(g) + 1
      <4>1. h[p] = d BY <1>8, <2>2, <3>3
      <4> QED BY <1>0, <1>3, <2>3a, <3>3, <4>1
    <3> QED BY <3>1, <3>2, <3>3
  <2> QED BY <1>5a, <1>8, <1>9, <1>9a, <2>3, <2>4 DEF SetApartUpTo, l, h
<1> QED BY <1>10, <1>11

\* The first digit has no separator before it.
LEMMA FirstDigit ==
  ASSUME NEW digits \in Seq(Digits) \ {<<>>}
  PROVE  SetApartUpTo(<<digits[1]>>, digits, 1)
<1> DEFINE n == Len(digits)
           l == n + (n - 1) \div 3
           d == digits[1]
           g == <<d>>
<1>1. n \in Nat \ {0} /\ d \in Digits BY LenProperties, EmptySeq
<1>2. d \in Signs \ {Dollar, Comma} /\ d # Comma BY <1>1 DEF Signs, Digits, Dollar, Comma
<1>3. g \in Seq(Signs) /\ Each(kept, g) = g
  <2>1. g \in Seq(Signs \ {Dollar, Comma})
    <3> HIDE DEF d, Signs, Dollar, Comma
    <3> QED BY <1>2
  <2>2. g \in Seq(Signs)
    <3> HIDE DEF d, Signs, Dollar, Comma
    <3> QED BY <1>2
  <2> QED BY <2>1, <2>2, KeptTexts
<1>4. SubSeq(digits, 1, 1) = g
  <2>1. SubSeq(digits, 1, 0 + 1) = Append(SubSeq(digits, 1, 0), digits[0 + 1]) BY <1>1
  <2>2. SubSeq(digits, 1, 0) = <<>> BY <1>1
  <2>3. Append(<<>>, d) = g OBVIOUS
  <2>4. 0 + 1 = 1 OBVIOUS
  <2> HIDE DEF g
  <2> QED BY <2>1, <2>2, <2>3, <2>4
<1>5. (n - 1) \div 3 \in Nat /\ l % 4 # 0 BY <1>1, CountOfThree
<1>6. Len(g) = l - (n - 1) - (n - 1) \div 3
  <2>1. Len(g) = 1 OBVIOUS
  <2> HIDE DEF g, n
  <2>2. l - (n - 1) - ((n - 1) \div 3) = 1 BY <1>1, <1>5
  <2> QED BY <2>1, <2>2
<1>7. ASSUME NEW p \in 1 .. Len(g) PROVE g[p] \in Digits \cup {Comma} /\ (g[p] = Comma <=> (l + 1 - p) % 4 = 0)
  <2>1. p = 1 /\ g[p] = d OBVIOUS
  <2> HIDE DEF g, d, n
  <2>2. l + 1 - p = l BY <1>1, <1>5, <2>1
  <2> QED BY <1>1, <1>2, <1>5, <2>1, <2>2
<1>8. g[1] \in Digits BY <1>1
<1> HIDE DEF g
<1> QED BY <1>3, <1>4, <1>6, <1>7, <1>8 DEF SetApartUpTo, g

\* The separators of Grouped are every fourth place from the right.
LEMMA GroupedApart ==
  ASSUME NEW digits \in Seq(Digits) \ {<<>>}
  PROVE  SetApart(Grouped(digits), digits)
<1> DEFINE n == Len(digits)
           part(i) == IF i > 1 /\ (n - i + 1) % 3 = 0 THEN <<Comma, digits[i]>> ELSE <<digits[i]>>
           placed == [i \in 1 .. n |-> part(i)]
           f(k) == FlattenSeq(SubSeq(placed, 1, k))
           N == {k \in Nat : k \in 1 .. n => SetApartUpTo(f(k), digits, k)}
<1>1. n \in Nat \ {0} BY LenProperties, EmptySeq
<1>2. \A i \in 1 .. n : digits[i] \in Signs
  <2>1. \A i \in 1 .. n : digits[i] \in Digits OBVIOUS
  <2> QED BY <2>1 DEF Signs
<1>3. \A i \in 1 .. n : part(i) \in Seq(Signs)
  <2>1. Comma \in Signs BY DEF Signs
  <2> HIDE DEF Signs, Comma
  <2> SUFFICES ASSUME NEW i \in 1 .. n PROVE part(i) \in Seq(Signs) OBVIOUS
  <2>2. <<Comma, digits[i]>> \in Seq(Signs) /\ <<digits[i]>> \in Seq(Signs) BY <1>2, <2>1
  <2> QED BY <2>2
<1>4. placed \in Seq(Seq(Signs)) /\ Len(placed) = n
  <2> HIDE DEF part, Signs
  <2> QED BY <1>1, <1>3
<1>5. \A k \in 0 .. n : SubSeq(placed, 1, k) \in Seq(Seq(Signs)) BY <1>1, <1>4
<1>6. \A k \in 0 .. n - 1 : SubSeq(placed, 1, k + 1) = Append(SubSeq(placed, 1, k), part(k + 1))
  <2> SUFFICES ASSUME NEW k \in 0 .. n - 1
               PROVE  SubSeq(placed, 1, k + 1) = Append(SubSeq(placed, 1, k), part(k + 1))
    OBVIOUS
  <2>1. k + 1 \in 1 .. n /\ placed[k + 1] = part(k + 1) BY <1>1
  <2> HIDE DEF placed, part
  <2>2. SubSeq(placed, 1, k + 1) = Append(SubSeq(placed, 1, k), placed[k + 1]) BY <1>1, <1>4, <2>1
  <2> QED BY <2>1, <2>2
<1>7. SubSeq(placed, 1, 0) = <<>> BY <1>4
<1>8. \A k \in 0 .. n - 1 : f(k + 1) = Cat(f(k), part(k + 1))
  <2> SUFFICES ASSUME NEW k \in 0 .. n - 1 PROVE f(k + 1) = Cat(f(k), part(k + 1)) OBVIOUS
  <2>1. k \in 0 .. n /\ k + 1 \in 1 .. n BY <1>1
  <2> HIDE DEF placed, part
  <2> QED BY <1>3, <1>5, <1>6, <2>1, Flatten
<1>9. f(0) = <<>> BY <1>7, Flatten
<1>10. 0 \in N OBVIOUS
<1>11. ASSUME NEW k \in Nat, k \in N PROVE k + 1 \in N
  <2> SUFFICES ASSUME k + 1 \in 1 .. n PROVE SetApartUpTo(f(k + 1), digits, k + 1) OBVIOUS
  <2>1. k \in 0 .. n - 1 BY <1>1
  <2>2. f(k + 1) = Cat(f(k), part(k + 1)) BY <1>8, <2>1
  <2>3. CASE k = 0
    <3>1. part(1) = <<digits[1]>> OBVIOUS
    <3>2. f(1) = Cat(<<>>, part(1))
      <4>1. 0 + 1 = 1 OBVIOUS
      <4> HIDE DEF f, part
      <4> QED BY <1>9, <2>2, <2>3, <4>1
    <3>3. f(1) = <<digits[1]>>
      <4>1. part(1) \in Seq(Signs) BY <1>1, <1>3
      <4> HIDE DEF f, part
      <4> QED BY <3>1, <3>2, <4>1, CatAppend
    <3>4. SetApartUpTo(<<digits[1]>>, digits, 1) BY FirstDigit
    <3> HIDE DEF f
    <3> QED BY <2>3, <3>3, <3>4
  <2>4. CASE k # 0
    <3>1. k \in 1 .. n - 1 /\ k \in 1 .. n BY <2>1, <2>4
    <3>2. SetApartUpTo(f(k), digits, k) BY <1>11, <3>1
    <3>3. part(k + 1) = IF (n - k) % 3 = 0 THEN <<Comma, digits[k + 1]>> ELSE <<digits[k + 1]>>
      <4>1. k + 1 > 1 /\ n - (k + 1) + 1 = n - k BY <1>1, <3>1
      <4> HIDE DEF n
      <4> QED BY <4>1
    <3> HIDE DEF f, part
    <3>4. SetApartUpTo(Cat(f(k), part(k + 1)), digits, k + 1) BY <1>1, <3>1, <3>2, <3>3, OneGroupDigitMore
    <3> QED BY <2>2, <3>4
  <2> QED BY <2>3, <2>4
<1> HIDE DEF N
<1>12. Nat \subseteq N BY <1>10, <1>11, Induction
<1>13. SetApartUpTo(f(n), digits, n)
  <2>1. n \in N /\ n \in 1 .. n BY <1>1, <1>12
  <2> HIDE DEF f
  <2> QED BY <2>1 DEF N
<1>14. f(n) = Grouped(digits)
  <2>1. SubSeq(placed, 1, n) = placed
    <3> HIDE DEF placed
    <3> QED BY <1>1, <1>4
  <2>2. Grouped(digits) = FlattenSeq(placed) BY DEF Grouped
  <2> HIDE DEF placed
  <2> QED BY <2>1, <2>2
<1>15. ASSUME NEW g, SetApartUpTo(g, digits, n) PROVE SetApart(g, digits)
  <2> DEFINE l == n + (n - 1) \div 3
  <2>1. /\ g \in Seq(Signs) /\ Each(kept, g) = SubSeq(digits, 1, n) /\ Len(g) = l - (n - n) - (n - n) \div 3
        /\ g[1] \in Digits
    BY <1>15 DEF SetApartUpTo
  <2>2. \A p \in 1 .. Len(g) : g[p] \in Digits \cup {Comma} /\ (g[p] = Comma <=> (l + 1 - p) % 4 = 0)
    BY <1>15 DEF SetApartUpTo
  <2>3. SubSeq(digits, 1, n) = digits BY <1>1
  <2>4. Len(g) = l
    <3>1. (n - n) = 0 /\ 0 \div 3 = 0 /\ (n - 1) \div 3 \in Int BY <1>1
    <3> HIDE DEF n
    <3> QED BY <1>1, <2>1, <3>1
  <2> HIDE DEF l
  <2>5. \A p \in 1 .. Len(g) : g[p] \in Digits \cup {Comma} /\ (g[p] = Comma <=> (Len(g) + 1 - p) % 4 = 0)
    BY <2>2, <2>4
  <2> QED BY <2>1, <2>3, <2>4, <2>5 DEF SetApart, l
<1> HIDE DEF f
<1> QED BY <1>13, <1>14, <1>15

\* Both ways of writing an amount leave the same when the separators go.
LEMMA Written ==
  ASSUME NEW c \in Int
  PROVE  /\ Each(kept, money_input_value(c)) = money_input_value(c)
         /\ Each(kept, format_money(c)) = money_input_value(c)
<1> DEFINE d == Decimal[Abs(c) \div 100]
           g == Grouped(d)
           e == Cents(c)
           u == Sign(c)
           K == Signs \ {Dollar, Comma}
<1>1. d \in Seq(Digits) \ {<<>>}
  <2>1. Abs(c) \in Nat BY CentsText
  <2>2. Abs(c) \div 100 \in Nat BY <2>1
  <2> QED BY <2>2, DecimalRecursion DEF DigitsOf
<1>2. Digits \subseteq K /\ Minus \in K /\ Point \in K BY DEF Signs, Digits, Minus, Point, Dollar, Comma
<1>3. d \in Seq(K) /\ u \in Seq(K) /\ e \in Seq(K)
  <2>1. d \in Seq(K)
    <3> HIDE DEF d, K
    <3> QED BY <1>1, <1>2, SeqMonotonic
  <2>2. u \in Seq(K)
    <3> HIDE DEF K, Minus
    <3> QED BY <1>2 DEF Sign
  <2>3. e \in Seq(K)
    <3>1. e \in Seq(Signs) /\ Len(e) = 3 /\ e[1] \in K /\ e[2] \in K /\ e[3] \in K BY <1>2, CentsText
    <3> HIDE DEF K, e, Signs
    <3>2. \A i \in 1 .. Len(e) : e[i] \in K BY <3>1
    <3>3. e = [i \in 1 .. 3 |-> e[i]] BY <3>1
    <3> QED BY <3>1, <3>2, <3>3
  <2> QED BY <2>1, <2>2, <2>3
<1>4. K \subseteq Signs OBVIOUS
<1>5. d \in Seq(Signs) /\ u \in Seq(Signs) /\ e \in Seq(Signs)
  <2> HIDE DEF d, u, e, K
  <2> QED BY <1>3, <1>4, SeqMonotonic
<1>6. g \in Seq(Signs) /\ Each(kept, g) = d
  <2> HIDE DEF d
  <2> QED BY <1>1, GroupedApart DEF SetApart
<1>7. <<Dollar>> \in Seq(Signs) /\ Each(kept, <<Dollar>>) = <<>>
  <2>1. Dollar \in Signs /\ <<>> \in Seq(Signs) BY EmptySeq DEF Signs
  <2>2. kept[Dollar] = <<>> BY <2>1 DEF kept
  <2> HIDE DEF Signs, Dollar
  <2>3. <<Dollar>> \in Seq(Signs) /\ <<Dollar>> = Append(<<>>, Dollar) BY <2>1
  <2>4. Each(kept, <<>>) = <<>> BY KeptTexts DEF Spells
  <2>5. Each(kept, Append(<<>>, Dollar)) = Cat(Each(kept, <<>>), kept[Dollar]) BY <2>1, KeptTexts DEF Spells
  <2>6. Cat(<<>>, <<>>) = <<>> BY <2>1, CatAppend
  <2> QED BY <2>2, <2>3, <2>4, <2>5, <2>6
<1>8. money_input_value(c) = Cat(Cat(u, d), e) BY Zenon DEF money_input_value, Cat
<1>9. format_money(c) = Cat(Cat(Cat(u, <<Dollar>>), g), e) BY Zenon DEF format_money, Cat
<1>10. Each(kept, d) = d /\ Each(kept, u) = u /\ Each(kept, e) = e
  <2> HIDE DEF d, u, e
  <2> QED BY <1>3, KeptTexts
<1> HIDE DEF d, g, u, e, K, Dollar
<1>11. \A s, t \in Seq(Signs) : Cat(s, t) \in Seq(Signs) BY CatAppend
<1>12. \A s, t \in Seq(Signs) : Each(kept, Cat(s, t)) = Cat(Each(kept, s), Each(kept, t)) BY KeptTexts DEF Spells
<1>13. Each(kept, Cat(Cat(u, d), e)) = Cat(Cat(u, d), e) BY <1>5, <1>10, <1>11, <1>12
<1>14. Each(kept, Cat(Cat(Cat(u, <<Dollar>>), g), e)) = Cat(Cat(u, d), e)
  <2> DEFINE k == <<Dollar>>
             v == Cat(u, k)
             w == Cat(v, g)
  <2>1. k \in Seq(Signs) /\ Each(kept, k) = <<>> BY <1>7
  <2> HIDE DEF k
  <2>2. v \in Seq(Signs) BY <1>5, <1>11, <2>1
  <2>3. Each(kept, v) = Cat(u, <<>>) BY <1>5, <1>10, <1>12, <2>1
  <2>4. Cat(u, <<>>) = u BY <1>5, CatAppend
  <2> HIDE DEF v
  <2>5. w \in Seq(Signs) BY <1>6, <1>11, <2>2
  <2>6. Each(kept, w) = Cat(u, d) BY <1>6, <1>12, <2>2, <2>3, <2>4
  <2> HIDE DEF w
  <2>7. Each(kept, Cat(w, e)) = Cat(Each(kept, w), Each(kept, e)) BY <1>5, <1>12, <2>5
  <2> QED BY <1>10, <2>6, <2>7 DEF k, v, w
<1> QED BY <1>8, <1>9, <1>13, <1>14

\* Where the parts of a written amount are.
LEMMA Laid ==
  ASSUME NEW c \in Int
  PROVE  \E s \in {0, 1} : \E g : \E digits \in Seq(Digits) :
           /\ SetApart(g, digits) /\ Len(g) \in Nat \ {0}
           /\ format_money(c) \in Seq(Signs) /\ Len(format_money(c)) = s + Len(g) + 4
           /\ s = 1 => format_money(c)[1] = Minus
           /\ format_money(c)[s + 1] = Dollar
           /\ \A j \in 1 .. Len(g) : format_money(c)[s + 1 + j] = g[j]
           /\ format_money(c)[s + Len(g) + 2] = Point
           /\ format_money(c)[s + Len(g) + 3] \in Digits /\ format_money(c)[s + Len(g) + 4] \in Digits
<1> DEFINE d == Decimal[Abs(c) \div 100]
           g == Grouped(d)
           e == Cents(c)
           u == Sign(c)
           k == <<Dollar>>
           s == Len(u)
<1>1. d \in Seq(Digits) \ {<<>>}
  <2>1. Abs(c) \in Nat BY CentsText
  <2>2. Abs(c) \div 100 \in Nat BY <2>1
  <2> QED BY <2>2, DecimalRecursion DEF DigitsOf
<1>2. SetApart(g, d)
  <2> HIDE DEF d
  <2> QED BY <1>1, GroupedApart
<1>3. /\ g \in Seq(Signs) /\ g[1] \in Digits /\ Each(kept, g) = d BY <1>2 DEF SetApart
<1>4. Len(g) \in Nat \ {0}
  <2>1. Len(g) \in Nat BY <1>3, LenProperties
  <2>2. Len(g) = 0 => g = <<>> BY <1>3, EmptySeq
  <2>3. Each(kept, <<>>) = <<>> BY KeptTexts DEF Spells
  <2> HIDE DEF g, d
  <2> QED BY <1>1, <1>3, <2>1, <2>2, <2>3
<1>5. u \in Seq(Signs) /\ s \in {0, 1} /\ (s = 1 => u[1] = Minus)
  <2>1. Minus \in Signs BY DEF Signs
  <2> HIDE DEF Signs, Minus
  <2>2. CASE c < 0
    <3>1. u = <<Minus>> BY <2>2 DEF Sign
    <3> QED BY <2>1, <3>1
  <2>3. CASE ~ (c < 0)
    <3>1. u = <<>> BY <2>3 DEF Sign
    <3> QED BY <3>1
  <2> QED BY <2>2, <2>3
<1>6. k \in Seq(Signs) /\ Len(k) = 1 /\ k[1] = Dollar
  <2>1. Dollar \in Signs BY DEF Signs
  <2> HIDE DEF Signs, Dollar
  <2> QED BY <2>1
<1>7. e \in Seq(Signs) /\ Len(e) = 3 /\ e[1] = Point /\ e[2] \in Digits /\ e[3] \in Digits BY CentsText
<1>8. format_money(c) = Cat(Cat(Cat(u, k), g), e) BY Zenon DEF format_money, Cat
<1> HIDE DEF d, g, e, u, k, Dollar, Minus, Point
<1> DEFINE v == Cat(u, k)
           w == Cat(v, g)
           t == Cat(w, e)
<1>9. v \in Seq(Signs) /\ Len(v) = s + 1 /\ (s = 1 => v[1] = Minus) /\ v[s + 1] = Dollar
  <2>1. Joined(Signs, u, k) BY <1>5, <1>6, CatItems
  <2> QED BY <1>5, <1>6, <2>1 DEF Joined
<1> HIDE DEF v, s
<1>10. /\ w \in Seq(Signs) /\ Len(w) = s + 1 + Len(g) /\ (s = 1 => w[1] = Minus) /\ w[s + 1] = Dollar
       /\ \A j \in 1 .. Len(g) : w[s + 1 + j] = g[j]
  <2>1. Joined(Signs, v, g) BY <1>3, <1>9, CatItems
  <2> QED BY <1>4, <1>5, <1>9, <2>1 DEF Joined
<1> HIDE DEF w
<1>11. Joined(Signs, w, e) BY <1>7, <1>10, CatItems
<1>12. t \in Seq(Signs) /\ Len(t) = Len(w) + 3
       /\ (\A i \in 1 .. Len(w) : t[i] = w[i]) /\ (\A i \in 1 .. 3 : t[Len(w) + i] = e[i])
  BY <1>7, <1>11 DEF Joined
<1> HIDE DEF t
<1>13. Len(t) = s + Len(g) + 4 BY <1>4, <1>5, <1>10, <1>12
<1>14. (s = 1 => t[1] = Minus) /\ t[s + 1] = Dollar
  <2>1. 1 \in 1 .. Len(w) /\ s + 1 \in 1 .. Len(w) BY <1>4, <1>5, <1>10
  <2> QED BY <1>10, <1>12, <2>1
<1>15. \A j \in 1 .. Len(g) : t[s + 1 + j] = g[j]
  <2> SUFFICES ASSUME NEW j \in 1 .. Len(g) PROVE t[s + 1 + j] = g[j] OBVIOUS
  <2>1. s + 1 + j \in 1 .. Len(w) BY <1>4, <1>5, <1>10
  <2> QED BY <1>10, <1>12, <2>1
<1>16. t[s + Len(g) + 2] = Point /\ t[s + Len(g) + 3] \in Digits /\ t[s + Len(g) + 4] \in Digits
  <2>1. Len(w) + 1 = s + Len(g) + 2 /\ Len(w) + 2 = s + Len(g) + 3 /\ Len(w) + 3 = s + Len(g) + 4
    BY <1>4, <1>5, <1>10
  <2> QED BY <1>7, <1>12, <2>1
<1>17. format_money(c) = t BY <1>8 DEF t, w, v
<1>18. d \in Seq(Digits) BY <1>1
<1> QED BY <1>2, <1>4, <1>5, <1>12, <1>13, <1>14, <1>15, <1>16, <1>17, <1>18

\* The separators of a written amount are where they belong.
LEMMA WrittenApart == ASSUME NEW c \in Int PROVE GroupedByThree(format_money(c))
<1> DEFINE t == format_money(c)
           point == CHOOSE i \in DOMAIN t : t[i] = Point
           dollar == CHOOSE i \in DOMAIN t : t[i] = Dollar
<1>1a. PICK s \in {0, 1} : \E g : \E digits \in Seq(Digits) :
        /\ SetApart(g, digits) /\ Len(g) \in Nat \ {0}
        /\ t \in Seq(Signs) /\ Len(t) = s + Len(g) + 4
        /\ s = 1 => t[1] = Minus
        /\ t[s + 1] = Dollar
        /\ \A j \in 1 .. Len(g) : t[s + 1 + j] = g[j]
        /\ t[s + Len(g) + 2] = Point
        /\ t[s + Len(g) + 3] \in Digits /\ t[s + Len(g) + 4] \in Digits
  BY Laid
<1>1. PICK g : \E digits \in Seq(Digits) :
        /\ SetApart(g, digits) /\ Len(g) \in Nat \ {0}
        /\ t \in Seq(Signs) /\ Len(t) = s + Len(g) + 4
        /\ s = 1 => t[1] = Minus
        /\ t[s + 1] = Dollar
        /\ \A j \in 1 .. Len(g) : t[s + 1 + j] = g[j]
        /\ t[s + Len(g) + 2] = Point
        /\ t[s + Len(g) + 3] \in Digits /\ t[s + Len(g) + 4] \in Digits
  BY <1>1a
<1>2. PICK digits \in Seq(Digits) : SetApart(g, digits) BY <1>1
<1>3. /\ g[1] \in Digits
      /\ \A p \in 1 .. Len(g) : g[p] \in Digits \cup {Comma} /\ (g[p] = Comma <=> (Len(g) + 1 - p) % 4 = 0)
  BY <1>2 DEF SetApart
<1>4. Comma # Point /\ Comma # Dollar /\ Comma # Minus /\ Point # Dollar /\ Minus # Point /\ Minus # Dollar
      /\ Comma \notin Digits /\ Point \notin Digits /\ Dollar \notin Digits
  BY DEF Comma, Point, Dollar, Minus, Digits
<1> DEFINE m == Len(g)
<1>5. m \in Nat \ {0} /\ Len(t) = s + m + 4 /\ DOMAIN t = 1 .. s + m + 4 BY <1>1
<1>6. \A j \in 1 .. m : t[s + 1 + j] = g[j] BY <1>1
<1>7. t[s + 1] = Dollar /\ (s = 1 => t[1] = Minus) /\ t[s + m + 2] = Point
      /\ t[s + m + 3] \in Digits /\ t[s + m + 4] \in Digits
  BY <1>1
<1> HIDE DEF t, m, Comma, Point, Dollar, Minus, Digits
<1>8. ASSUME NEW i \in DOMAIN t
      PROVE  \/ s = 1 /\ i = 1
             \/ i = s + 1
             \/ i - (s + 1) \in 1 .. m
             \/ i = s + m + 2
             \/ i = s + m + 3
             \/ i = s + m + 4
  <2>1. i \in 1 .. s + m + 4 BY <1>5
  <2>2. s = 0 \/ s = 1 OBVIOUS
  <2> QED BY <1>5, <2>1, <2>2
<1>9. ASSUME NEW i \in DOMAIN t, i - (s + 1) \in 1 .. m
      PROVE  t[i] \in Digits \cup {Comma} /\ (t[i] = Comma <=> (m + 1 - (i - (s + 1))) % 4 = 0)
  <2> DEFINE j == i - (s + 1)
  <2>1. s + 1 + j = i /\ j \in 1 .. m BY <1>5, <1>9
  <2> HIDE DEF j
  <2>2. t[i] = g[j] BY <1>6, <2>1
  <2>3. g[j] \in Digits \cup {Comma} /\ (g[j] = Comma <=> (m + 1 - j) % 4 = 0) BY <1>3, <2>1 DEF m
  <2> QED BY <2>2, <2>3 DEF j
<1>10. point = s + m + 2
  <2>1. s + m + 2 \in DOMAIN t BY <1>5
  <2>2. ASSUME NEW i \in DOMAIN t, t[i] = Point PROVE i = s + m + 2
    <3>1. CASE s = 1 /\ i = 1 BY <1>4, <1>7, <2>2, <3>1
    <3>2. CASE i = s + 1 BY <1>4, <1>7, <2>2, <3>2
    <3>3. CASE i - (s + 1) \in 1 .. m BY <1>4, <1>9, <2>2, <3>3
    <3>4. CASE i = s + m + 3 BY <1>4, <1>7, <2>2, <3>4
    <3>5. CASE i = s + m + 4 BY <1>4, <1>7, <2>2, <3>5
    <3> QED BY <1>8, <3>1, <3>2, <3>3, <3>4, <3>5
  <2> QED BY <1>7, <2>1, <2>2
<1>11. dollar = s + 1
  <2>1. s + 1 \in DOMAIN t BY <1>5
  <2>2. ASSUME NEW i \in DOMAIN t, t[i] = Dollar PROVE i = s + 1
    <3>1. CASE s = 1 /\ i = 1 BY <1>4, <1>7, <2>2, <3>1
    <3>2. CASE i = s + m + 2 BY <1>4, <1>7, <2>2, <3>2
    <3>3. CASE i - (s + 1) \in 1 .. m BY <1>4, <1>9, <2>2, <3>3
    <3>4. CASE i = s + m + 3 BY <1>4, <1>7, <2>2, <3>4
    <3>5. CASE i = s + m + 4 BY <1>4, <1>7, <2>2, <3>5
    <3> QED BY <1>8, <3>1, <3>2, <3>3, <3>4, <3>5
  <2> QED BY <1>7, <2>1, <2>2
<1> HIDE DEF point, dollar
<1>12. ASSUME NEW i \in dollar + 1 .. point - 1 PROVE (t[i] = Comma) <=> ((point - i) % 4 = 0)
  <2>1. i \in DOMAIN t /\ i - (s + 1) \in 1 .. m /\ m + 1 - (i - (s + 1)) = point - i
    BY <1>5, <1>10, <1>11
  <2> QED BY <1>9, <2>1
<1>13. t[dollar + 1] # Comma
  <2>1. 1 \in 1 .. m /\ s + 1 + 1 = dollar + 1 BY <1>5, <1>11
  <2> QED BY <1>3, <1>4, <1>6, <2>1
<1> QED BY <1>12, <1>13, Zenon DEF GroupedByThree, t, point, dollar

(* Every amount the integer holds, whatever its width, except the smallest   *)
(* reads back as itself from both ways of writing it, and the page's has its *)
(* thousands set apart (domain.rs: format_money, money_input_value,          *)
(* parse_money).                                                             *)
THEOREM WritesAndReadsBack == ASSUME MoneyInstance PROVE MoneySpec => []MoneyRoundTrips
<1>1. MoneyInit => MoneyRoundTrips
  <2> SUFFICES ASSUME MoneyInit PROVE MoneyRoundTrips OBVIOUS
  <2>1. MaxCents \in Nat /\ amount \in -MaxCents .. MaxCents /\ amount \in Int
    <3>1. amount \in Quoted BY DEF MoneyInit
    <3>2. MaxCents \in Nat /\ Quoted \subseteq -MaxCents .. MaxCents BY MoneyConstants
    <3> QED BY <3>1, <3>2
  <2>2. parse_money(money_input_value(amount)) = Good(amount) BY <2>1, Written, ReadsBack
  <2>3. parse_money(format_money(amount)) = Good(amount) BY <2>1, Written, ReadsBack
  <2>4. GroupedByThree(format_money(amount)) BY <2>1, WrittenApart
  <2> QED BY <2>2, <2>3, <2>4 DEF MoneyRoundTrips
<1>2. MoneyRoundTrips /\ UNCHANGED money => MoneyRoundTrips' BY DEF MoneyRoundTrips, money
<1> QED BY <1>1, <1>2, PTL DEF MoneySpec

-----------------------------------------------------------------------------
(* Slugs.                                                                    *)

NoSlug == [slug |-> <<>>, pending |-> FALSE]
Kebab == {"a", "e", "1", "-"}
Shape(slug) ==
  /\ slug \in Seq(Kebab) /\ Len(slug) <= SlugMax
  /\ \A i \in 1 .. Len(slug) :
       \/ slug[i] \in {"a", "e", "1"}
       \/ slug[i] = "-" /\ i > 1 /\ i < Len(slug) /\ slug[i + 1] # "-"
Shaped == {st \in Slugging : Shape(st.slug)}

\* The slug after an alphanumeric character.
Further(st, ch) ==
  LET apart == st.pending /\ st.slug # <<>> /\ Len(st.slug) + 2 <= SlugMax
      before == IF apart THEN Append(st.slug, "-") ELSE st.slug
  IN  IF Len(before) = SlugMax THEN before ELSE Append(before, Lower(ch))

\* The step of slugify.
LEMMA SluggedIs ==
  ASSUME NEW ch \in Ascii, NEW st \in Slugging
  PROVE  /\ ~ Alphanumeric(ch) => slugged[ch][st] = [slug |-> st.slug, pending |-> TRUE]
         /\ Alphanumeric(ch) => slugged[ch][st] = [slug |-> Further(st, ch), pending |-> FALSE]
<1>2. slugged[ch][st] =
        IF ~ Alphanumeric(ch) THEN [pending |-> TRUE, slug |-> st.slug]
        ELSE [pending |-> FALSE, slug |-> Further(st, ch)]
  BY Zenon DEF slugged, Further
<1>3. [pending |-> TRUE, slug |-> st.slug] = [slug |-> st.slug, pending |-> TRUE] OBVIOUS
<1>4. [pending |-> FALSE, slug |-> Further(st, ch)] = [slug |-> Further(st, ch), pending |-> FALSE]
  OBVIOUS
<1> QED BY <1>2, <1>3, <1>4, Zenon

Apart(st) == st.pending /\ st.slug # <<>> /\ Len(st.slug) + 2 <= SlugMax

\* A sign only makes the next letter wait for a hyphen.
LEMMA SignsLeaveTheSlug ==
  ASSUME NEW ch \in Ascii, ~ Alphanumeric(ch), NEW st \in Slugging
  PROVE  slugged[ch][st].slug = st.slug
<1>1. slugged[ch][st] = [slug |-> st.slug, pending |-> TRUE] BY SluggedIs
<1> QED BY <1>1

\* What a letter adds to a slug.
LEMMA FurtherIs ==
  ASSUME SlugMax \in Nat, NEW ch \in Ascii, NEW st \in Slugging
  PROVE  /\ Apart(st) => Further(st, ch) = Append(Append(st.slug, "-"), Lower(ch))
         /\ ~ Apart(st) /\ Len(st.slug) # SlugMax => Further(st, ch) = Append(st.slug, Lower(ch))
         /\ ~ Apart(st) /\ Len(st.slug) = SlugMax => Further(st, ch) = st.slug
<1> DEFINE s == st.slug
           b == Append(s, "-")
<1>1. s \in Seq(Ascii) BY DEF Slugging
<1>2. Len(s) \in Nat /\ Len(b) = Len(s) + 1
  <2> HIDE DEF s
  <2>1. "-" \in Ascii BY DEF Ascii
  <2> QED BY <1>1, <2>1, AppendProperties, LenProperties
<1>3. Apart(st) => Len(b) # SlugMax BY <1>2 DEF Apart
<1>4. Further(st, ch) = IF Len(IF Apart(st) THEN b ELSE s) = SlugMax THEN IF Apart(st) THEN b ELSE s
                        ELSE Append(IF Apart(st) THEN b ELSE s, Lower(ch))
  BY Zenon DEF Further, Apart
<1> HIDE DEF s, b
<1>5. CASE Apart(st) BY <1>3, <1>4, <1>5 DEF b, s
<1>6. CASE ~ Apart(st) BY <1>4, <1>6 DEF b, s
<1> QED BY <1>5, <1>6

\* A letter keeps the shape of a slug.
LEMMA FurtherShape ==
  ASSUME SlugMax \in Nat, NEW ch \in Ascii, Alphanumeric(ch), NEW st \in Shaped
  PROVE  Shape(Further(st, ch))
<1> DEFINE l == Lower(ch)
           s == st.slug
<1>1. l \in {"a", "e", "1"} /\ l \in Kebab /\ l # "-" /\ "-" \in Kebab
  BY DEF Ascii, Alphanumeric, Lower, Kebab
<1>2. Shape(s) /\ st \in Slugging BY DEF Shaped
<1>3. s \in Seq(Kebab) /\ Len(s) \in Nat BY <1>2 DEF Shape
<1> HIDE DEF l
<1>4. ASSUME Len(s) + 1 <= SlugMax PROVE Shape(Append(s, l))
  <2> DEFINE r == Append(s, l)
  <2>1. r \in Seq(Kebab) /\ Len(r) = Len(s) + 1 /\ r[Len(s) + 1] = l /\ \A i \in 1 .. Len(s) : r[i] = s[i]
    BY <1>1, <1>3, AppendProperties
  <2> HIDE DEF r, s
  <2> QED BY <1>1, <1>2, <1>3, <1>4, <2>1 DEF Shape, r
<1>5. ASSUME s # <<>>, Len(s) + 2 <= SlugMax PROVE Shape(Append(Append(s, "-"), l))
  <2> DEFINE b == Append(s, "-")
             r == Append(b, l)
  <2>0. Len(s) > 0 BY <1>3, <1>5, EmptySeq
  <2>1. b \in Seq(Kebab) /\ Len(b) = Len(s) + 1 /\ b[Len(s) + 1] = "-" /\ \A i \in 1 .. Len(s) : b[i] = s[i]
    BY <1>1, <1>3, AppendProperties
  <2> HIDE DEF b
  <2>2. r \in Seq(Kebab) /\ Len(r) = Len(b) + 1 /\ r[Len(b) + 1] = l /\ \A i \in 1 .. Len(b) : r[i] = b[i]
    BY <1>1, <2>1, AppendProperties
  <2> HIDE DEF r, s
  <2>3. /\ Len(r) = Len(s) + 2 /\ r[Len(s) + 2] = l /\ r[Len(s) + 1] = "-" /\ \A i \in 1 .. Len(s) : r[i] = s[i]
    BY <1>3, <2>1, <2>2
  <2>4. ASSUME NEW i \in 1 .. Len(r)
        PROVE  r[i] \in {"a", "e", "1"} \/ (r[i] = "-" /\ i > 1 /\ i < Len(r) /\ r[i + 1] # "-")
    <3>1. CASE i \in 1 .. Len(s)
      <4>1. r[i] = s[i] /\ (i < Len(s) => i + 1 \in 1 .. Len(s) /\ r[i + 1] = s[i + 1]) BY <1>3, <2>3, <3>1
      <4> QED BY <1>2, <1>3, <2>3, <3>1, <4>1 DEF Shape
    <3>2. CASE i = Len(s) + 1 BY <1>1, <1>3, <2>0, <2>3, <3>2
    <3>3. CASE i = Len(s) + 2 BY <1>1, <2>3, <3>3
    <3> QED BY <1>3, <2>3, <3>1, <3>2, <3>3
  <2> QED BY <1>3, <1>5, <2>2, <2>3, <2>4 DEF Shape, r, b
<1>6. Len(s) <= SlugMax BY <1>2 DEF Shape
<1>7. CASE Apart(st) BY <1>2, <1>5, <1>7, FurtherIs DEF Apart, l
<1>8. CASE ~ Apart(st) /\ Len(s) # SlugMax
  <2>1. Further(st, ch) = Append(s, l) BY <1>2, <1>8, FurtherIs DEF l
  <2>2. Len(s) + 1 <= SlugMax BY <1>3, <1>6, <1>8
  <2> QED BY <1>4, <2>1, <2>2
<1>9. CASE ~ Apart(st) /\ Len(s) = SlugMax BY <1>2, <1>9, FurtherIs
<1> QED BY <1>7, <1>8, <1>9

\* So does any character.
LEMMA Shapes == ASSUME SlugMax \in Nat PROVE Body(slugged, Ascii, Shaped) /\ NoSlug \in Shaped
<1>1. \A s \in Seq(Kebab) : s \in Seq(Ascii)
  <2>1. Kebab \subseteq Ascii BY DEF Kebab, Ascii
  <2> QED BY <2>1, SeqMonotonic
<1>2. ASSUME NEW ch \in Ascii, NEW st \in Shaped PROVE slugged[ch][st] \in Shaped
  <2>1. st \in Slugging /\ Shape(st.slug) BY DEF Shaped
  <2>2. CASE ~ Alphanumeric(ch)
    <3>1. slugged[ch][st] = [slug |-> st.slug, pending |-> TRUE] BY <2>1, <2>2, SluggedIs
    <3> QED BY <2>1, <3>1 DEF Shaped, Slugging
  <2>3. CASE Alphanumeric(ch)
    <3>1. slugged[ch][st] = [slug |-> Further(st, ch), pending |-> FALSE] BY <2>1, <2>3, SluggedIs
    <3>2. Shape(Further(st, ch)) BY <2>3, FurtherShape
    <3>3. Further(st, ch) \in Seq(Ascii) BY <1>1, <3>2 DEF Shape
    <3> QED BY <3>1, <3>2, <3>3 DEF Shaped, Slugging
  <2> QED BY <2>2, <2>3
<1>3. NoSlug \in Shaped
  <2>1. <<>> \in Seq(Ascii) /\ <<>> \in Seq(Kebab) /\ Len(<<>>) = 0 BY EmptySeq
  <2>2. Shape(<<>>) BY <2>1 DEF Shape
  <2> QED BY <2>1, <2>2 DEF NoSlug, Shaped, Slugging
<1> QED BY <1>2, <1>3 DEF Body

\* Names are read as letters, digits and signs.
LEMMA Spelled == Gives(deunicode, Characters, Ascii)
<1> USE DEF Gives
<1> SUFFICES ASSUME NEW ch \in Characters PROVE deunicode[ch] \in Seq(Ascii)
  OBVIOUS
<1>1. /\ ch = "accented" => deunicode[ch] = <<"e">>
      /\ ch = "script" => deunicode[ch] = <<"A", "a", " ">>
      /\ ch = "sign" => deunicode[ch] = <<>>
      /\ ch \in Ascii => deunicode[ch] = <<ch>>
  BY DEF deunicode, Characters, Ascii
<1>2. <<"e">> \in Seq(Ascii) /\ <<"A", "a", " ">> \in Seq(Ascii) /\ <<>> \in Seq(Ascii)
  BY DEF Ascii
<1>3. ch \in Ascii => <<ch>> \in Seq(Ascii) OBVIOUS
<1> QED BY <1>1, <1>2, <1>3 DEF Characters

\* What deunicode makes of a text.
LEMMA Spellings == Spells(deunicode, Characters, Ascii)
BY Spelled, Eaching

\* What the loop of slugify makes of a text.
LEMMA Sluggings == ASSUME SlugMax \in Nat, NEW p \in Shaped PROVE Folds(slugged, p, Ascii, Shaped)
BY Shapes, LoopFolds

\* slugify is that loop.
LEMMA SlugIs == ASSUME NEW name PROVE slugify(name) = Folded(slugged, NoSlug, Each(deunicode, name)).slug
BY Zenon DEF slugify, NoSlug

\* A slug has its shape at the end of the loop.
LEMMA SlugShape ==
  ASSUME SlugMax \in Nat, NEW name \in Seq(Characters)
  PROVE  Shape(slugify(name)) /\ Folded(slugged, NoSlug, Each(deunicode, name)) \in Shaped
<1>1. Each(deunicode, name) \in Seq(Ascii) BY Spellings DEF Spells
<1>2. Folded(slugged, NoSlug, Each(deunicode, name)) \in Shaped BY <1>1, Shapes, Sluggings DEF Folds
<1> QED BY <1>2, SlugIs DEF Shaped

(* A slug's own slug is the slug.                                            *)
Again == {st \in Shaped : Folded(slugged, NoSlug, st.slug) = [slug |-> st.slug, pending |-> FALSE]}

\* Whatever the loop holds is a slug that is its own slug.
LEMMA SlugsAgain == ASSUME SlugMax \in Nat PROVE Body(slugged, Ascii, Again) /\ NoSlug \in Again
<1>0. Body(slugged, Ascii, Shaped) /\ NoSlug \in Shaped BY Shapes
<1>1. /\ Folded(slugged, NoSlug, <<>>) = NoSlug
      /\ \A s \in Seq(Ascii), x \in Ascii :
           Folded(slugged, NoSlug, Append(s, x)) = slugged[x][Folded(slugged, NoSlug, s)]
  BY <1>0, Sluggings DEF Folds
<1>2. NoSlug \in Again BY <1>0, <1>1 DEF Again, NoSlug
<1>3. ASSUME NEW ch \in Ascii, NEW st \in Again PROVE slugged[ch][st] \in Again
  <2> DEFINE s == st.slug
             l == Lower(ch)
             off == [slug |-> s, pending |-> FALSE]
             on == [slug |-> s, pending |-> TRUE]
  <2>1. st \in Slugging /\ st \in Shaped /\ slugged[ch][st] \in Shaped /\ s \in Seq(Ascii)
    BY <1>0, <1>3 DEF Again, Shaped, Slugging, Body
  <2>2. Folded(slugged, NoSlug, s) = off BY DEF Again
  <2>3. CASE ~ Alphanumeric(ch)
    <3>1. slugged[ch][st] = on BY <2>1, <2>3, SluggedIs
    <3>2. on.slug = s /\ on \in Shaped BY <2>1, <3>1
    <3> HIDE DEF on
    <3> QED BY <2>2, <3>1, <3>2 DEF Again
  <2>4. CASE Alphanumeric(ch)
    <3>1. slugged[ch][st] = [slug |-> Further(st, ch), pending |-> FALSE] BY <2>1, <2>4, SluggedIs
    <3>2. SUFFICES Folded(slugged, NoSlug, Further(st, ch)) = [slug |-> Further(st, ch), pending |-> FALSE]
      <4>1. slugged[ch][st].slug = Further(st, ch) BY <3>1
      <4> QED BY <2>1, <3>1, <4>1 DEF Again
    <3>3. l \in Ascii /\ Alphanumeric(l) /\ Lower(l) = l /\ "-" \in Ascii /\ ~ Alphanumeric("-")
      BY <2>4 DEF Alphanumeric, Lower, Ascii
    <3>4. on \in Slugging /\ off \in Slugging BY <2>1 DEF Slugging
    <3>4a. off.slug = s /\ on.slug = s /\ on.pending /\ ~ off.pending OBVIOUS
    <3> HIDE DEF l, on, off
    <3>5. slugged["-"][off] = on BY <3>3, <3>4, <3>4a, SluggedIs DEF on
    <3>6. CASE Apart(st)
      <4>1. Further(st, ch) = Append(Append(s, "-"), l) BY <2>1, <3>6, FurtherIs DEF l
      <4>2. Append(s, "-") \in Seq(Ascii) BY <2>1, <3>3, AppendProperties
      <4>3. Folded(slugged, NoSlug, Append(s, "-")) = on BY <1>1, <2>1, <2>2, <3>3, <3>5
      <4>4. Folded(slugged, NoSlug, Append(Append(s, "-"), l)) = slugged[l][on] BY <1>1, <3>3, <4>2, <4>3
      <4>5. Apart(on) BY <3>4a, <3>6 DEF Apart
      <4>6. slugged[l][on] = [slug |-> Further(on, l), pending |-> FALSE] BY <3>3, <3>4, SluggedIs
      <4>7. Further(on, l) = Append(Append(s, "-"), l) BY <3>3, <3>4, <3>4a, <4>5, FurtherIs
      <4> QED BY <4>1, <4>4, <4>6, <4>7, Zenon
    <3>7. CASE ~ Apart(st) /\ Len(s) # SlugMax
      <4>1. Further(st, ch) = Append(s, l) BY <2>1, <3>7, FurtherIs DEF l
      <4>2. Folded(slugged, NoSlug, Append(s, l)) = slugged[l][off] BY <1>1, <2>1, <2>2, <3>3
      <4>3. ~ Apart(off) BY <3>4a DEF Apart
      <4>4. slugged[l][off] = [slug |-> Further(off, l), pending |-> FALSE] BY <3>3, <3>4, SluggedIs
      <4>5. Further(off, l) = Append(s, l) BY <3>3, <3>4, <3>4a, <3>7, <4>3, FurtherIs
      <4> QED BY <4>1, <4>2, <4>4, <4>5, Zenon
    <3>8. CASE ~ Apart(st) /\ Len(s) = SlugMax
      <4>1. Further(st, ch) = s BY <2>1, <3>8, FurtherIs
      <4> QED BY <2>2, <4>1 DEF off
    <3> QED BY <3>6, <3>7, <3>8
  <2> QED BY <2>3, <2>4
<1> QED BY <1>2, <1>3 DEF Body

\* The slug of a slug is itself.
LEMMA SlugAgain ==
  ASSUME SlugMax \in Nat, NEW name \in Seq(Characters)
  PROVE  slugify(name) \in Seq(Characters) /\ slugify(slugify(name)) = slugify(name)
<1> DEFINE st == Folded(slugged, NoSlug, Each(deunicode, name))
           s == slugify(name)
<1>1. Each(deunicode, name) \in Seq(Ascii) BY Spellings DEF Spells
<1>2. st \in Again
  <2>1. Folds(slugged, NoSlug, Ascii, Again) BY SlugsAgain, LoopFolds
  <2> QED BY <1>1, <2>1 DEF Folds
<1>3. s = st.slug BY SlugIs
<1>4. Folded(slugged, NoSlug, s) = [slug |-> s, pending |-> FALSE] BY <1>2, <1>3 DEF Again
<1>5. s \in Seq(Kebab) BY SlugShape DEF Shape
<1> HIDE DEF s
<1>6. \A x \in Kebab : deunicode[x] = <<x>> BY DEF Kebab, deunicode, Characters, Ascii
<1>7. Each(deunicode, s) = s BY <1>5, <1>6, EachSame
<1>8. Kebab \subseteq Characters BY DEF Kebab, Characters, Ascii
<1>9. slugify(s) = s
  <2>1. slugify(s) = [slug |-> s, pending |-> FALSE].slug BY <1>4, <1>7, SlugIs
  <2> QED BY <2>1
<1> QED BY <1>5, <1>8, <1>9, SeqMonotonic DEF s

-----------------------------------------------------------------------------
(* A name spelled in another way leaves the same slug behind after every     *)
(* character, and a hyphen pending unless there is no slug yet.              *)
Alike(p, q) == p.slug = q.slug /\ (p.slug # <<>> => p.pending = q.pending)
Same(c, d) == (Alphanumeric(c) <=> Alphanumeric(d)) /\ (Alphanumeric(c) => Lower(c) = Lower(d))

\* States that look alike stay so.
LEMMA AlikeStep ==
  ASSUME SlugMax \in Nat, NEW c \in Ascii, NEW d \in Ascii, Same(c, d),
         NEW p \in Shaped, NEW q \in Shaped, Alike(p, q)
  PROVE  Alike(slugged[c][p], slugged[d][q]) /\ slugged[c][p] \in Shaped /\ slugged[d][q] \in Shaped
<1>1. slugged[c][p] \in Shaped /\ slugged[d][q] \in Shaped BY Shapes DEF Body
<1>2. p \in Slugging /\ q \in Slugging /\ p.slug = q.slug BY DEF Shaped, Alike
<1>3. CASE ~ Alphanumeric(c)
  <2>1. slugged[c][p] = [slug |-> p.slug, pending |-> TRUE] BY <1>2, <1>3, SluggedIs
  <2>2. slugged[d][q] = [slug |-> q.slug, pending |-> TRUE] BY <1>2, <1>3, SluggedIs DEF Same
  <2> QED BY <1>1, <1>2, <2>1, <2>2 DEF Alike
<1>4. CASE Alphanumeric(c)
  <2>1. slugged[c][p] = [slug |-> Further(p, c), pending |-> FALSE] BY <1>2, <1>4, SluggedIs
  <2>2. slugged[d][q] = [slug |-> Further(q, d), pending |-> FALSE] BY <1>2, <1>4, SluggedIs DEF Same
  <2>3. Lower(c) = Lower(d) BY <1>4 DEF Same
  <2>4. Apart(p) <=> Apart(q) BY <1>2 DEF Apart, Alike
  <2>5. Further(p, c) = Further(q, d) BY <1>2, <2>3, <2>4, FurtherIs
  <2> QED BY <1>1, <2>1, <2>2, <2>5 DEF Alike
<1> QED BY <1>3, <1>4

\* What a character is respelled as.
Typist(ch) == IF ch = "a" THEN "A" ELSE IF ch = " " THEN "-" ELSE ch

\* The loop over nothing, one character, and the three a script's are spelt with.
LEMMA OneAndThree ==
  ASSUME SlugMax \in Nat, NEW p \in Shaped
  PROVE  /\ Folded(slugged, p, <<>>) = p
         /\ \A c \in Ascii : Folded(slugged, p, <<c>>) = slugged[c][p]
         /\ Folded(slugged, p, <<"A", "a", " ">>) = slugged[" "][slugged["a"][slugged["A"][p]]]
<1>1. /\ Folded(slugged, p, <<>>) = p
      /\ \A s \in Seq(Ascii), x \in Ascii :
           Folded(slugged, p, Append(s, x)) = slugged[x][Folded(slugged, p, s)]
  BY Sluggings DEF Folds
<1>2. "A" \in Ascii /\ "a" \in Ascii /\ " " \in Ascii BY DEF Ascii
<1>3. <<>> \in Seq(Ascii) /\ <<"A">> \in Seq(Ascii) /\ <<"A", "a">> \in Seq(Ascii)
  BY <1>2, FewItems, Zenon DEF Few
<1>4. ASSUME NEW c \in Ascii PROVE Folded(slugged, p, <<c>>) = slugged[c][p]
  <2>1. <<c>> = Append(<<>>, c) BY FewItems, Zenon DEF Few
  <2> QED BY <1>1, <1>3, <2>1
<1>5. <<"A", "a">> = Append(<<"A">>, "a") BY <1>2, FewItems, Zenon DEF Few
<1>5a. <<"A", "a", " ">> = Append(<<"A", "a">>, " ")
  <2>1. \A a, b, c \in Ascii : <<a, b, c>> = Append(<<a, b>>, c) OBVIOUS
  <2> QED BY <1>2, <2>1, Zenon
<1>6. Folded(slugged, p, <<"A", "a">>) = slugged["a"][slugged["A"][p]] BY <1>1, <1>2, <1>3, <1>4, <1>5
<1>7. Folded(slugged, p, <<"A", "a", " ">>) = slugged[" "][slugged["a"][slugged["A"][p]]]
  BY <1>1, <1>2, <1>3, <1>5a, <1>6
<1> QED BY <1>1, <1>4, <1>7

\* A character and its respelling do the same to a slug.
LEMMA AlikeCharacter ==
  ASSUME SlugMax \in Nat, NEW ch \in Characters, NEW p \in Shaped, NEW q \in Shaped, Alike(p, q)
  PROVE  Alike(Folded(slugged, p, deunicode[ch]), Folded(slugged, q, deunicode[Typist(ch)]))
<1>1. CASE ch \in Ascii
  <2>1. Typist(ch) \in Ascii /\ Same(ch, Typist(ch)) BY <1>1 DEF Ascii, Typist, Same, Alphanumeric, Lower
  <2>2. deunicode[ch] = <<ch>> /\ deunicode[Typist(ch)] = <<Typist(ch)>>
    BY <1>1, <2>1 DEF deunicode, Characters, Ascii
  <2>3. Alike(slugged[ch][p], slugged[Typist(ch)][q]) BY <1>1, <2>1, AlikeStep
  <2>4. Folded(slugged, p, <<ch>>) = slugged[ch][p] BY <1>1, OneAndThree
  <2>5. Folded(slugged, q, <<Typist(ch)>>) = slugged[Typist(ch)][q] BY <2>1, OneAndThree
  <2> QED BY <2>2, <2>3, <2>4, <2>5
<1>2. CASE ch = "accented"
  <2>1. Typist(ch) = ch /\ deunicode[ch] = <<"e">> /\ "e" \in Ascii /\ Same("e", "e")
    BY <1>2 DEF Typist, deunicode, Characters, Ascii, Same
  <2>2. Alike(slugged["e"][p], slugged["e"][q]) BY <2>1, AlikeStep
  <2>3. Folded(slugged, p, <<"e">>) = slugged["e"][p] /\ Folded(slugged, q, <<"e">>) = slugged["e"][q]
    BY <2>1, OneAndThree
  <2> QED BY <2>1, <2>2, <2>3
<1>3. CASE ch = "script"
  <2>1. Typist(ch) = ch /\ deunicode[ch] = <<"A", "a", " ">>
    BY <1>3 DEF Typist, deunicode, Characters, Ascii
  <2>2. /\ "A" \in Ascii /\ "a" \in Ascii /\ " " \in Ascii
        /\ Same("A", "A") /\ Same("a", "a") /\ Same(" ", " ")
    BY DEF Ascii, Same
  <2> DEFINE p1 == slugged["A"][p]
             q1 == slugged["A"][q]
             p2 == slugged["a"][p1]
             q2 == slugged["a"][q1]
  <2>3. Alike(p1, q1) /\ p1 \in Shaped /\ q1 \in Shaped BY <2>2, AlikeStep
  <2> HIDE DEF p1, q1
  <2>4. Alike(p2, q2) /\ p2 \in Shaped /\ q2 \in Shaped BY <2>2, <2>3, AlikeStep
  <2> HIDE DEF p2, q2
  <2>5. Alike(slugged[" "][p2], slugged[" "][q2]) BY <2>2, <2>4, AlikeStep
  <2> QED BY <2>1, <2>5, OneAndThree DEF p2, q2, p1, q1
<1>4. CASE ch = "sign"
  <2>1. Typist(ch) = ch /\ deunicode[ch] = <<>> BY <1>4 DEF Typist, deunicode, Characters, Ascii
  <2> QED BY <2>1, OneAndThree
<1> QED BY <1>1, <1>2, <1>3, <1>4 DEF Characters

\* A name and its respelling have one slug.
LEMMA SlugOfRespelled ==
  ASSUME SlugMax \in Nat, NEW name \in Seq(Characters)
  PROVE  slugify(TypedAgain(name)) = slugify(name)
<1> DEFINE some == [slug |-> <<>>, pending |-> TRUE]
           Once(s) == Folded(slugged, NoSlug, Each(deunicode, s))
           Twice(s) == Folded(slugged, some, Each(deunicode, Each(respelled, s)))
           P == {s \in Seq(Characters) : Alike(Once(s), Twice(s))}
<1>1. /\ Body(slugged, Ascii, Shaped) /\ NoSlug \in Shaped /\ some \in Shaped
      /\ " " \in Ascii /\ slugged[" "][NoSlug] = some
  <2>1. Body(slugged, Ascii, Shaped) /\ NoSlug \in Shaped BY Shapes
  <2>2. " " \in Ascii /\ ~ Alphanumeric(" ") BY DEF Ascii, Alphanumeric
  <2>3. slugged[" "][NoSlug] = some BY <2>1, <2>2, SluggedIs DEF NoSlug, Shaped
  <2>4. slugged[" "][NoSlug] \in Shaped BY <2>1, <2>2 DEF Body
  <2> QED BY <2>1, <2>2, <2>3, <2>4
<1> HIDE DEF some
<1>2. \A ch \in Characters : Typist(ch) \in Characters /\ respelled[ch] = <<Typist(ch)>>
  BY DEF respelled, Typist, Characters, Ascii
<1>3. Gives(respelled, Characters, Characters)
  <2> USE DEF Gives
  <2> SUFFICES ASSUME NEW ch \in Characters PROVE respelled[ch] \in Seq(Characters) OBVIOUS
  <2>1. Typist(ch) \in Characters /\ respelled[ch] = <<Typist(ch)>> BY <1>2
  <2> QED BY <2>1
<1>3a. Spells(respelled, Characters, Characters) BY <1>3, Eaching
<1>4. \A s \in Seq(Characters) : Each(deunicode, s) \in Seq(Ascii) /\ Each(respelled, s) \in Seq(Characters)
  BY <1>3a, Spellings DEF Spells
<1>4a. Folds(slugged, NoSlug, Ascii, Shaped) /\ Folds(slugged, some, Ascii, Shaped) BY <1>1, Sluggings
<1>5. \A s \in Seq(Characters) : Once(s) \in Shaped /\ Twice(s) \in Shaped
  BY <1>4, <1>4a DEF Folds
<1>6. <<>> \in P
  <2>1. <<>> \in Seq(Characters) /\ Each(deunicode, <<>>) = <<>> /\ Each(respelled, <<>>) = <<>>
    BY <1>3a, Spellings, EmptySeq DEF Spells
  <2>2. Once(<<>>) = NoSlug /\ Twice(<<>>) = some BY <1>4a, <2>1 DEF Folds
  <2>3. Alike(NoSlug, some) BY DEF Alike, NoSlug, some
  <2> QED BY <2>1, <2>2, <2>3
<1>7. ASSUME NEW s \in Seq(Characters), NEW ch \in Characters, s \in P PROVE Append(s, ch) \in P
  <2>0. Append(s, ch) \in Seq(Characters) BY AppendProperties
  <2>0a. \A c \in Characters : deunicode[c] \in Seq(Ascii) BY Spelled DEF Gives
  <2>1. Once(Append(s, ch)) = Folded(slugged, Once(s), deunicode[ch])
    <3>1. Each(deunicode, Append(s, ch)) = Cat(Each(deunicode, s), deunicode[ch]) BY Spellings DEF Spells
    <3>2. Each(deunicode, s) \in Seq(Ascii) /\ deunicode[ch] \in Seq(Ascii) BY <1>4, <2>0a
    <3>3. Folded(slugged, NoSlug, Cat(Each(deunicode, s), deunicode[ch])) =
            Folded(slugged, Folded(slugged, NoSlug, Each(deunicode, s)), deunicode[ch])
      BY <1>4a, <3>2 DEF Folds
    <3> QED BY <3>1, <3>3
  <2>2. Twice(Append(s, ch)) = Folded(slugged, Twice(s), deunicode[Typist(ch)])
    <3> DEFINE r == Each(respelled, s)
    <3>0. r \in Seq(Characters) /\ Typist(ch) \in Characters BY <1>2, <1>4
    <3>1. Each(respelled, Append(s, ch)) = Append(r, Typist(ch))
      <4>1. Each(respelled, Append(s, ch)) = Cat(r, respelled[ch]) BY <1>3a DEF Spells
      <4>2. Append(r, Typist(ch)) = Cat(r, <<Typist(ch)>>) BY <3>0, CatAppend
      <4> QED BY <1>2, <4>1, <4>2
    <3> HIDE DEF r
    <3>2. Each(deunicode, Append(r, Typist(ch))) = Cat(Each(deunicode, r), deunicode[Typist(ch)])
      BY <3>0, Spellings DEF Spells
    <3>3. Each(deunicode, r) \in Seq(Ascii) /\ deunicode[Typist(ch)] \in Seq(Ascii) BY <1>4, <2>0a, <3>0
    <3>4. Folded(slugged, some, Cat(Each(deunicode, r), deunicode[Typist(ch)])) =
            Folded(slugged, Folded(slugged, some, Each(deunicode, r)), deunicode[Typist(ch)])
      BY <1>4a, <3>3 DEF Folds
    <3> QED BY <3>1, <3>2, <3>4 DEF r
  <2>3. Alike(Once(s), Twice(s)) BY <1>7
  <2>4. Once(s) \in Shaped /\ Twice(s) \in Shaped BY <1>5
  <2> HIDE DEF Once, Twice
  <2>5. Alike(Once(Append(s, ch)), Twice(Append(s, ch))) BY <2>1, <2>2, <2>3, <2>4, AlikeCharacter
  <2> QED BY <2>0, <2>5
<1>8. Alike(Once(name), Twice(name))
  <2> HIDE DEF P
  <2>1. name \in P BY <1>6, <1>7, SeqInduction
  <2> QED BY <2>1 DEF P
<1>9. slugify(TypedAgain(name)) = Twice(name).slug
  <2> DEFINE r == Each(respelled, name)
             blank == <<" ">>
  <2>1. r \in Seq(Characters) /\ blank \in Seq(Characters) /\ blank \in Seq(Ascii)
    <3>1. r \in Seq(Characters) BY <1>4
    <3>2. " " \in Characters BY DEF Characters, Ascii
    <3>3. blank \in Seq(Characters) BY <3>2, FewItems, Zenon DEF Few
    <3>4. blank \in Seq(Ascii) BY <1>1, FewItems, Zenon DEF Few
    <3> QED BY <3>1, <3>3, <3>4
  <2>2. TypedAgain(name) = Cat(Cat(blank, r), blank) BY Zenon DEF TypedAgain, Cat
  <2>3. Cat(blank, r) \in Seq(Characters) /\ Each(deunicode, r) \in Seq(Ascii)
    BY <1>4, <2>1, CatAppend
  <2>4. Each(deunicode, blank) = blank
    <3>1. \A x \in Ascii : deunicode[x] = <<x>> BY DEF deunicode, Characters, Ascii
    <3> QED BY <2>1, <3>1, EachSame
  <2>4a. \A p \in Shaped : Folded(slugged, p, blank) = slugged[" "][p] BY <1>1, OneAndThree
  <2> HIDE DEF blank, r
  <2>5. Each(deunicode, Cat(Cat(blank, r), blank)) = Cat(Cat(blank, Each(deunicode, r)), blank)
    <3>1. Each(deunicode, Cat(Cat(blank, r), blank)) = Cat(Each(deunicode, Cat(blank, r)), Each(deunicode, blank))
      BY <2>1, <2>3, Spellings DEF Spells
    <3>2. Each(deunicode, Cat(blank, r)) = Cat(Each(deunicode, blank), Each(deunicode, r))
      BY <2>1, Spellings DEF Spells
    <3> QED BY <2>4, <3>1, <3>2
  <2> DEFINE u == Each(deunicode, r)
  <2>6. u \in Seq(Ascii) /\ Cat(blank, u) \in Seq(Ascii) BY <2>1, <2>3, CatAppend
  <2>7. Folded(slugged, NoSlug, blank) = some BY <1>1, <2>4a
  <2> HIDE DEF u
  <2>8. Folded(slugged, NoSlug, Cat(blank, u)) = Folded(slugged, some, u)
    BY <1>4a, <2>1, <2>6, <2>7 DEF Folds
  <2>9. Folded(slugged, NoSlug, Cat(Cat(blank, u), blank)) = Folded(slugged, Folded(slugged, some, u), blank)
    <3>1. Folded(slugged, NoSlug, Cat(Cat(blank, u), blank)) =
            Folded(slugged, Folded(slugged, NoSlug, Cat(blank, u)), blank)
      BY <1>4a, <2>1, <2>6 DEF Folds
    <3> QED BY <2>8, <3>1
  <2>10. Folded(slugged, some, u) \in Shaped BY <1>4a, <2>6 DEF Folds
  <2>11. Folded(slugged, Folded(slugged, some, u), blank) = slugged[" "][Folded(slugged, some, u)]
    BY <2>4a, <2>10
  <2>12. ~ Alphanumeric(" ") BY DEF Alphanumeric
  <2> DEFINE v == Folded(slugged, some, u)
  <2>13. v \in Slugging BY <2>10 DEF Shaped
  <2> HIDE DEF v
  <2>15. slugged[" "][v].slug = v.slug BY <1>1, <2>12, <2>13, SignsLeaveTheSlug
  <2> QED BY <2>2, <2>5, <2>9, <2>11, <2>15, SlugIs DEF u, r, v
<1>10. slugify(name) = Once(name).slug BY SlugIs
<1> HIDE DEF Once, Twice
<1> QED BY <1>8, <1>9, <1>10 DEF Alike

-----------------------------------------------------------------------------
\* Names are texts.
LEMMA NamesAreTexts == ASSUME SlugInstance, SlugInit PROVE SlugMax \in Nat /\ named \in Seq(Characters)
BY DEF SlugInstance, SlugInit

(* A slug is short, lowercase, and words with one hyphen between them,       *)
(* however long the name is and wherever it was cut (access.rs: slugify,     *)
(* SLUG_MAX).                                                                *)
THEOREM SlugsWellFormed == ASSUME SlugInstance PROVE SlugSpec => []SlugWellFormed
<1>1. SlugInit => SlugWellFormed
  <2> SUFFICES ASSUME SlugInit PROVE SlugWellFormed OBVIOUS
  <2>1. Shape(slugify(named)) BY NamesAreTexts, SlugShape
  <2>2. DOMAIN slugify(named) = 1 .. Len(slugify(named)) BY <2>1, LenProperties DEF Shape
  <2> QED BY <2>1, <2>2 DEF SlugWellFormed, Shape
<1>2. SlugWellFormed /\ UNCHANGED named => SlugWellFormed' BY DEF SlugWellFormed
<1> QED BY <1>1, <1>2, PTL DEF SlugSpec

(* Typing the name of a workspace, another spelling of it or its slug into   *)
(* the sign-in form finds the same workspace (access.rs: slugify,            *)
(* check_account_name; login.rs: attempt_login).                             *)
THEOREM SlugsFindAgain == ASSUME SlugInstance PROVE SlugSpec => []SlugFindsAgain
<1>1. SlugInit => SlugFindsAgain
  <2> SUFFICES ASSUME SlugInit PROVE SlugFindsAgain OBVIOUS
  <2>1. slugify(named) \in Seq(Characters) /\ slugify(slugify(named)) = slugify(named)
    BY NamesAreTexts, SlugAgain
  <2>2. slugify(TypedAgain(named)) = slugify(named) BY NamesAreTexts, SlugOfRespelled
  <2>3. slugify(TypedAgain(slugify(named))) = slugify(slugify(named)) BY <2>1, NamesAreTexts, SlugOfRespelled
  <2> QED BY <2>1, <2>2, <2>3 DEF SlugFindsAgain
<1>2. SlugFindsAgain /\ UNCHANGED named => SlugFindsAgain' BY DEF SlugFindsAgain
<1> QED BY <1>1, <1>2, PTL DEF SlugSpec

-----------------------------------------------------------------------------
(* The prompt.                                                               *)

\* What is known after so many of the activities.
Told(length, out, acts) ==
  LET n == Len(out.lines)
  IN  /\ n <= Len(acts) /\ out.lines = SubSeq(acts, 1, n)
      /\ (out.truncated = TRUE => n < Len(acts)) /\ (out.truncated = FALSE => n = Len(acts))
      /\ out.size = length + Total(out.lines)
      /\ (n > 0 => out.size <= MaxContext)
      /\ (out.truncated = TRUE => out.size + acts[n + 1] > MaxContext)

\* A sum grows by each item.
LEMMA Adding == Folds(adds, 0, Nat, Nat)
<1>1. Body(adds, Nat, Nat) BY DEF Body, adds
<1> QED BY <1>1, LoopFolds

\* The total of the lines sent.
LEMMA Totals == /\ Total(<<>>) = 0 /\ \A s \in Seq(Nat) : Total(s) \in Nat
                /\ \A s \in Seq(Nat), x \in Nat : Total(Append(s, x)) = Total(s) + x
<1>1. Total(<<>>) = 0 BY Adding DEF Folds, Total
<1>2. \A s \in Seq(Nat) : Total(s) \in Nat BY Adding DEF Folds, Total
<1>3. ASSUME NEW s \in Seq(Nat), NEW x \in Nat PROVE Total(Append(s, x)) = Total(s) + x
  <2>1. Total(Append(s, x)) = adds[x][Total(s)] BY Adding DEF Folds, Total
  <2>2. \A t \in Nat : adds[x][t] = t + x BY DEF adds
  <2> QED BY <1>2, <2>1, <2>2
<1> QED BY <1>1, <1>2, <1>3

\* The step of render.
LEMMA RenderedIs ==
  ASSUME NEW line \in Nat, NEW out \in Outputs
  PROVE  rendered[line][out] =
           IF out.truncated \/ out.size + line > MaxContext
           THEN [lines |-> out.lines, size |-> out.size, truncated |-> TRUE]
           ELSE [lines |-> Append(out.lines, line), size |-> out.size + line, truncated |-> out.truncated]
BY Zenon DEF rendered

\* The loop of render.
LEMMA Rendering ==
  ASSUME MaxContext \in Nat, NEW length \in Nat
  PROVE  Folds(rendered, [lines |-> <<>>, size |-> length, truncated |-> FALSE], Nat, Outputs)
<1>1. Body(rendered, Nat, Outputs)
  <2> SUFFICES ASSUME NEW line \in Nat, NEW out \in Outputs PROVE rendered[line][out] \in Outputs BY DEF Body
  <2>1. out.lines \in Seq(Nat) /\ out.size \in Nat /\ out.truncated \in BOOLEAN BY DEF Outputs
  <2>2. Append(out.lines, line) \in Seq(Nat) /\ out.size + line \in Nat BY <2>1, AppendProperties
  <2>3. [lines |-> out.lines, size |-> out.size, truncated |-> TRUE] \in Outputs BY <2>1 DEF Outputs
  <2>4. [lines |-> Append(out.lines, line), size |-> out.size + line, truncated |-> out.truncated] \in Outputs
    BY <2>1, <2>2 DEF Outputs
  <2> QED BY <2>3, <2>4, RenderedIs
<1>2. [lines |-> <<>>, size |-> length, truncated |-> FALSE] \in Outputs BY EmptySeq DEF Outputs
<1> QED BY <1>1, <1>2, LoopFolds

\* A prefix stays one.
LEMMA PrefixOfMore ==
  ASSUME NEW s \in Seq(Nat), NEW x \in Nat, NEW n \in Nat, n <= Len(s)
  PROVE  SubSeq(Append(s, x), 1, n) = SubSeq(s, 1, n) /\ SubSeq(s, 1, Len(s)) = s
OBVIOUS

\* After every activity, what is sent and told is right.
LEMMA AllTold ==
  ASSUME MaxContext \in Nat, NEW length \in Nat, NEW acts \in Seq(Nat)
  PROVE  LET out == render([head |-> length, activities |-> acts])
         IN  out \in Outputs /\ Told(length, out, acts)
<1> DEFINE first == [lines |-> <<>>, size |-> length, truncated |-> FALSE]
           Out(s) == Folded(rendered, first, s)
           P == {s \in Seq(Nat) : Told(length, Out(s), s)}
<1>0. Folds(rendered, first, Nat, Outputs) BY Rendering
<1>1. <<>> \in P
  <2>1. Out(<<>>) = first BY <1>0 DEF Folds
  <2>2. Len(<<>>) = 0 /\ SubSeq(<<>>, 1, 0) = <<>> /\ <<>> \in Seq(Nat) BY EmptySeq
  <2>2a. first.lines = <<>> /\ first.size = length /\ first.truncated = FALSE OBVIOUS
  <2> HIDE DEF first
  <2>3. Told(length, first, <<>>) BY <2>2, <2>2a, Totals DEF Told
  <2> QED BY <2>1, <2>2, <2>3
<1>2. ASSUME NEW s \in Seq(Nat), NEW x \in Nat, s \in P PROVE Append(s, x) \in P
  <2> DEFINE out == Out(s)
             r == Append(s, x)
             n == Len(out.lines)
             new == rendered[x][out]
  <2>1. Out(r) = new /\ out \in Outputs BY <1>0 DEF Folds
  <2>2. Told(length, out, s) BY <1>2
  <2>3. r \in Seq(Nat) /\ Len(r) = Len(s) + 1 /\ r[Len(s) + 1] = x /\ Len(s) \in Nat
        /\ \A i \in 1 .. Len(s) : r[i] = s[i]
    BY AppendProperties, LenProperties
  <2>4. out.lines \in Seq(Nat) /\ out.size \in Nat /\ out.truncated \in BOOLEAN BY <2>1 DEF Outputs
  <2>5. n \in Nat BY <2>4, LenProperties
  <2> SUFFICES Told(length, new, r) BY <2>1, <2>3
  <2>6. /\ n <= Len(s) /\ out.lines = SubSeq(s, 1, n)
        /\ (out.truncated = TRUE => n < Len(s)) /\ (out.truncated = FALSE => n = Len(s))
        /\ out.size = length + Total(out.lines) /\ (n > 0 => out.size <= MaxContext)
        /\ (out.truncated = TRUE => out.size + s[n + 1] > MaxContext)
    BY <2>2 DEF Told
  <2>7. SubSeq(r, 1, n) = SubSeq(s, 1, n) /\ SubSeq(s, 1, Len(s)) = s BY <2>5, <2>6, PrefixOfMore
  <2>7a. n = Len(out.lines) OBVIOUS
  <2> HIDE DEF out, new, r, n
  <2>8. CASE out.truncated = TRUE
    <3>1. new = [lines |-> out.lines, size |-> out.size, truncated |-> TRUE] BY <2>1, <2>8, RenderedIs DEF new
    <3>1a. n < Len(s) /\ out.size + s[n + 1] > MaxContext BY <2>6, <2>8, Zenon
    <3>1b. n + 1 \in 1 .. Len(s) BY <2>3, <2>5, <3>1a
    <3>2. r[n + 1] = s[n + 1] BY <2>3, <3>1b
    <3>3. new.lines = out.lines /\ new.size = out.size /\ new.truncated = TRUE BY <3>1
    <3>4. n < Len(r) /\ n <= Len(r) BY <2>3, <2>5, <3>1a
    <3>5. Len(new.lines) = n /\ new.size + r[Len(new.lines) + 1] > MaxContext
      BY <2>7a, <3>1a, <3>2, <3>3, Zenon
    <3>6. new.truncated # FALSE BY <3>3, Zenon
    <3> QED BY <2>6, <2>7, <3>3, <3>4, <3>5, <3>6, Zenon DEF Told
  <2>9. CASE out.truncated = FALSE
    <3>1. n = Len(s) /\ out.lines = s BY <2>3, <2>5, <2>6, <2>7, <2>9
    <3>2. CASE out.size + x > MaxContext
      <4>1. new = [lines |-> out.lines, size |-> out.size, truncated |-> TRUE]
        BY <2>1, <3>2, RenderedIs DEF new
      <4>2. new.lines = s /\ new.size = out.size /\ new.truncated = TRUE BY <3>1, <4>1
      <4>3. n < Len(r) /\ n <= Len(r) /\ r[n + 1] = x BY <2>3, <2>5, <3>1
      <4> QED BY <2>6, <2>7, <3>1, <3>2, <4>2, <4>3 DEF Told
    <3>3. CASE ~ out.size + x > MaxContext
      <4>1. new = [lines |-> r, size |-> out.size + x, truncated |-> out.truncated]
        BY <2>1, <2>9, <3>1, <3>3, RenderedIs DEF new, r
      <4>2. SubSeq(r, 1, Len(r)) = r BY <2>3
      <4>3. Total(r) = Total(s) + x /\ Total(s) \in Nat BY Totals DEF r
      <4>4. out.size = length + Total(s) BY <2>6, <3>1
      <4>4a. new.lines = r /\ new.size = out.size + x /\ new.truncated = FALSE BY <2>9, <4>1
      <4>5. new.size = length + Total(r) BY <4>3, <4>4, <4>4a
      <4>6. new.size <= MaxContext BY <2>4, <3>3, <4>4a
      <4> QED BY <2>3, <2>9, <4>2, <4>4a, <4>5, <4>6 DEF Told
    <3> QED BY <3>2, <3>3
  <2> QED BY <2>4, <2>8, <2>9
<1> HIDE DEF P
<1>3. acts \in P BY <1>1, <1>2, SeqInduction
<1>4. render([head |-> length, activities |-> acts]) = Out(acts) BY DEF render
<1> QED BY <1>0, <1>3, <1>4 DEF P, Folds

\* Turned round twice, the newest activities are in order.
LEMMA NewestTurnedRound ==
  ASSUME MaxActivities \in Nat, NEW s \in Seq(Nat)
  PROVE  LET newest == SubSeq(s, Len(s) - Least(MaxActivities, Len(s)) + 1, Len(s))
         IN  newest \in Seq(Nat) /\ Reverse(Selected(s)) = newest
<1> DEFINE L == Len(s)
           m == Least(MaxActivities, L)
           r == Reverse(s)
           u == SubSeq(r, 1, m)
           v == SubSeq(s, L - m + 1, L)
<1>1. L \in Nat /\ m \in Nat /\ m <= L BY LenProperties DEF Least
<1> HIDE DEF m
<1>2. r = [i \in 1 .. L |-> s[L - i + 1]] BY DEF Reverse
<1>3. r \in Seq(Nat) /\ Len(r) = L
  <2>1. \A i \in 1 .. L : s[L - i + 1] \in Nat OBVIOUS
  <2> QED BY <1>1, <1>2, <2>1
<1> HIDE DEF r
<1>4. u \in Seq(Nat) /\ Len(u) = m /\ \A i \in 1 .. m : u[i] = s[L - i + 1]
  <2>1. u \in Seq(Nat) /\ Len(u) = m /\ \A i \in 1 .. m : u[i] = r[i] BY <1>1, <1>3
  <2> QED BY <1>1, <1>2, <2>1
<1>5. v \in Seq(Nat) /\ Len(v) = m /\ \A i \in 1 .. m : v[i] = s[L - m + i]
  BY <1>1
<1> HIDE DEF u, v
<1>6. Reverse(u) = [i \in 1 .. m |-> u[m - i + 1]] BY <1>4 DEF Reverse
<1>7. \A i \in 1 .. m : u[m - i + 1] = v[i]
  <2> SUFFICES ASSUME NEW i \in 1 .. m PROVE u[m - i + 1] = v[i] OBVIOUS
  <2>1. m - i + 1 \in 1 .. m BY <1>1
  <2>2. u[m - i + 1] = s[L - (m - i + 1) + 1] BY <1>4, <2>1
  <2>3. L - (m - i + 1) + 1 = L - m + i BY <1>1
  <2> QED BY <1>5, <2>2, <2>3
<1>8. v = [i \in 1 .. m |-> v[i]] BY <1>1, <1>5
<1>9. Reverse(u) = v BY <1>6, <1>7, <1>8
<1> QED BY <1>5, <1>9 DEF Selected, u, r, m, v

\* What is sent and told of a log.
LEMMA LogTold ==
  ASSUME PromptInstance, PromptInit
  PROVE  LET newest == SubSeq(log, Len(log) - Least(MaxActivities, Len(log)) + 1, Len(log))
             out == render(build_prompt(head, log))
         IN  head \in Nat /\ newest \in Seq(Nat) /\ out \in Outputs /\ Told(head, out, newest)
<1>1. head \in Nat /\ log \in Seq(Nat) /\ MaxContext \in Nat /\ MaxActivities \in Nat
  <2>1. PICK n \in 0 .. MaxLog : log \in [1 .. n -> LineSizes] BY DEF PromptInit
  <2>2. n \in Nat BY DEF PromptInstance
  <2>3. log \in Seq(LineSizes) BY <2>1, <2>2
  <2>4. LineSizes \subseteq Nat BY DEF PromptInstance
  <2>5. log \in Seq(Nat) BY <2>3, <2>4, SeqMonotonic
  <2> QED BY <2>5 DEF PromptInit, PromptInstance
<1> DEFINE newest == SubSeq(log, Len(log) - Least(MaxActivities, Len(log)) + 1, Len(log))
<1>2. newest \in Seq(Nat) /\ Reverse(Selected(log)) = newest BY <1>1, NewestTurnedRound
<1>3. build_prompt(head, log) = [head |-> head, activities |-> newest] BY <1>2 DEF build_prompt
<1> HIDE DEF newest
<1>4. render(build_prompt(head, log)) \in Outputs /\ Told(head, render(build_prompt(head, log)), newest)
  BY <1>1, <1>2, <1>3, AllTold
<1> QED BY <1>1, <1>2, <1>4 DEF newest

(* Of the newest MaxActivities the model is sent the oldest ones, in order,  *)
(* up to the first that does not fit, and render says so exactly when some   *)
(* were left out, for any log and limit (ai.rs: render).                     *)
THEOREM TellsTruncation == ASSUME PromptInstance PROVE PromptSpec => []TruncationTold
<1>1. PromptInit => TruncationTold
  <2> SUFFICES ASSUME PromptInit PROVE TruncationTold OBVIOUS
  <2> DEFINE newest == SubSeq(log, Len(log) - Least(MaxActivities, Len(log)) + 1, Len(log))
             out == render(build_prompt(head, log))
             n == Len(out.lines)
  <2>1. newest \in Seq(Nat) /\ out \in Outputs /\ Told(head, out, newest) BY LogTold
  <2> HIDE DEF newest
  <2>2. /\ out.lines = SubSeq(newest, 1, n) /\ n <= Len(newest)
        /\ (out.truncated = TRUE => n < Len(newest)) /\ (out.truncated = FALSE => n = Len(newest))
        /\ out.size = head + Total(out.lines)
        /\ (out.truncated = TRUE => out.size + newest[n + 1] > MaxContext)
    BY <2>1 DEF Told
  <2>3. out.truncated \in BOOLEAN /\ n \in Nat /\ Len(newest) \in Nat BY <2>1, LenProperties DEF Outputs
  <2> HIDE DEF out, n
  <2>4. (out.truncated <=> (n < Len(newest))) /\ (out.truncated => out.size + newest[n + 1] > MaxContext)
    <3>1. CASE out.truncated = TRUE BY <2>2, <3>1
    <3>2. CASE out.truncated = FALSE BY <2>2, <2>3, <3>2
    <3> QED BY <2>3, <3>1, <3>2
  <2> QED BY <2>2, <2>4, Zenon DEF TruncationTold, newest, out, n
<1>2. TruncationTold /\ UNCHANGED prompt => TruncationTold' BY DEF TruncationTold, prompt
<1> QED BY <1>1, <1>2, PTL DEF PromptSpec

(* What is sent is longer than the ceiling exactly when what comes before    *)
(* the log is, and then it is sent alone, for any lengths and any ceiling    *)
(* (ai.rs: render, MAX_CONTEXT_CHARS).                                       *)
THEOREM CeilingIsOfTheLog == ASSUME PromptInstance PROVE PromptSpec => []OnlyTheHeadOverruns
<1>1. PromptInit => OnlyTheHeadOverruns
  <2> SUFFICES ASSUME PromptInit PROVE OnlyTheHeadOverruns OBVIOUS
  <2> DEFINE newest == SubSeq(log, Len(log) - Least(MaxActivities, Len(log)) + 1, Len(log))
             out == render(build_prompt(head, log))
             n == Len(out.lines)
  <2>1. head \in Nat /\ newest \in Seq(Nat) /\ out \in Outputs /\ Told(head, out, newest) BY LogTold
  <2> HIDE DEF newest
  <2>2. out.size = head + Total(out.lines) /\ (n > 0 => out.size <= MaxContext) BY <2>1 DEF Told
  <2>3. out.lines \in Seq(Nat) /\ out.size \in Nat BY <2>1 DEF Outputs
  <2>4. Total(out.lines) \in Nat /\ Total(<<>>) = 0 BY <2>3, Totals
  <2>5. n \in Nat /\ (n = 0 => out.lines = <<>>) BY <2>3, LenProperties, EmptySeq
  <2> HIDE DEF out, n
  <2>6. MaxContext \in Nat BY DEF PromptInstance
  <2>7. CASE n > 0
    <3>1. ~ out.size > MaxContext /\ ~ head > MaxContext BY <2>1, <2>2, <2>3, <2>4, <2>6, <2>7
    <3> QED BY <3>1 DEF OnlyTheHeadOverruns, out
  <2>8. CASE n = 0
    <3>1. out.lines = <<>> BY <2>5, <2>8
    <3>2. out.size = head BY <2>1, <2>2, <2>4, <3>1
    <3> QED BY <3>1, <3>2 DEF OnlyTheHeadOverruns, out
  <2> QED BY <2>5, <2>7, <2>8
<1>2. OnlyTheHeadOverruns /\ UNCHANGED prompt => OnlyTheHeadOverruns' BY DEF OnlyTheHeadOverruns, prompt
<1> QED BY <1>1, <1>2, PTL DEF PromptSpec
=============================================================================

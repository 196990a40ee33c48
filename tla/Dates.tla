-------------------------------- MODULE Dates --------------------------------
(***************************************************************************)
(* Civil dates: the two conversions between a date and a number of days    *)
(* since 1970-01-01, and the check of a date somebody typed, against the   *)
(* calendar written down year by year.  The inputs are the state, one for  *)
(* each day and each date, so that TLC names the one that goes wrong.      *)
(*                                                                         *)
(* Left out: days and years so far off that 64 bits do not hold the count. *)
(***************************************************************************)
EXTENDS Integers, Sequences

CONSTANTS
  Days,    \* bound: the day numbers the conversions are compared on
  Years,   \* bound: the years of which dates are typed
  Numbers  \* bound: what is typed for a month and for a day

\* What the constants have to be.
DaysAndYears == Days \subseteq Int /\ Years \subseteq Nat /\ Numbers \subseteq Nat

VARIABLES
  number,  \* the number of a day
  typed    \* a date as it was typed

dates == <<number, typed>>

\* Division in the code rounds toward zero.
Quot(a, b) == IF a >= 0 THEN a \div b ELSE - ((-a) \div b)

\* Eras of 400 years that begin on the first of March, years that begin there,
\* and the days of both.
EraOfDay(z) == Quot(IF z >= 0 THEN z ELSE z - 146096, 146097)
EraOfYear(y) == Quot(IF y >= 0 THEN y ELSE y - 399, 400)
YearOfEra(doe) == (doe - doe \div 1460 + doe \div 36524 - doe \div 146096) \div 365
NewYear(yoe) == 365 * yoe + yoe \div 4 - yoe \div 100
DayOfYear(doe) == doe - NewYear(YearOfEra(doe))
Month(doy) == (5 * doy + 2) \div 153
FirstOfMonth(mp) == (153 * mp + 2) \div 5

civil_from_days(days) ==
  LET era == EraOfDay(days + 719468)
      doe == days + 719468 - era * 146097
      doy == DayOfYear(doe)
      mp  == Month(doy)
      m   == IF mp < 10 THEN mp + 3 ELSE mp - 9
      y   == YearOfEra(doe) + era * 400
  IN  <<IF m <= 2 THEN y + 1 ELSE y, m, doy - FirstOfMonth(mp) + 1>>

\* Mutation: January and February count with their own year.
days_from_civilOwnYear(year, month, day) ==
  LET era == EraOfYear(year)
      mp  == IF month > 2 THEN month - 3 ELSE month + 9
      doe == NewYear(year - era * 400) + FirstOfMonth(mp) + day - 1
  IN  era * 146097 + doe - 719468

days_from_civil(year, month, day) ==
  LET y   == IF month <= 2 THEN year - 1 ELSE year
      era == EraOfYear(y)
      mp  == IF month > 2 THEN month - 3 ELSE month + 9
      doe == NewYear(y - era * 400) + FirstOfMonth(mp) + day - 1
  IN  era * 146097 + doe - 719468

\* Mutation: every month has 31 days.
AcceptedUpTo31(year, month, day) == month \in 1 .. 12 /\ day \in 1 .. 31

\* parse_civil_date, the three numbers having been read.
Accepted(year, month, day) ==
  /\ month \in 1 .. 12 /\ day # 0
  /\ civil_from_days(days_from_civil(year, month, day)) = <<year, month, day>>

-----------------------------------------------------------------------------
(* The calendar.                                                           *)

Leap(y) == y % 4 = 0 /\ (y % 100 # 0 \/ y % 400 = 0)

DaysIn(y, m) == IF m = 2 /\ Leap(y) THEN 29
                ELSE <<31, 28, 31, 30, 31, 30, 31, 31, 30, 31, 30, 31>>[m]

Tomorrow(date) ==
  LET y == date[1] m == date[2] d == date[3]
  IN  IF d < DaysIn(y, m) THEN <<y, m, d + 1>>
      ELSE IF m < 12 THEN <<y, m + 1, 1>> ELSE <<y + 1, 1, 1>>

TypedDates == [year : Years, month : Numbers, day : Numbers]

DatesInit == number \in Days /\ typed \in TypedDates

\* Nothing happens to an input.
DatesSpec == DatesInit /\ [][FALSE]_dates

-----------------------------------------------------------------------------
(* Counting days from 1970-01-01 and turning the pages of the calendar is  *)
(* the same, before and after it and over the ends of centuries, and both  *)
(* directions agree (domain.rs: civil_from_days, days_from_civil).         *)
CalendarAgrees ==
  LET date == civil_from_days(number)
  IN  /\ civil_from_days(0) = <<1970, 1, 1>>
      /\ civil_from_days(number + 1) = Tomorrow(date)
      /\ days_from_civil(date[1], date[2], date[3]) = number

(* A typed date is accepted exactly when the calendar has that day: the    *)
(* 29th of February and the 31sts included, whatever day or month number   *)
(* was typed (domain.rs: parse_civil_date).                                *)
OnlyRealDates ==
  LET y == typed.year m == typed.month d == typed.day
  IN  Accepted(y, m, d) = (m \in 1 .. 12 /\ d \in 1 .. DaysIn(y, m))
=============================================================================

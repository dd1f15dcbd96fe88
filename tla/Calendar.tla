------------------------------ MODULE Calendar ------------------------------
(***************************************************************************)
(* The calendar of src/kernel/time.c: gmtime_r turns seconds since 1970    *)
(* into a date and mktime turns a date back.  The date of a program that   *)
(* steps through the days and the hours, and through the months and days   *)
(* of a date that mktime is left to normalise.                             *)
(***************************************************************************)
EXTENDS Integers

CONSTANTS
  Eras,         \* the program steps through the days from the July of a year...
  DaysRun,      \* ...for as many days
  Seconds,      \* the seconds of a day it looks at
  MonthSteps    \* the months it adds to a date, or takes off, before mktime

VARIABLES
  last,         \* the last day of the steps
  timer,        \* the time_t
  tm,           \* what gmtime_r gives for it
  asked,        \* the months added to tm for the last mktime
  made          \* what mktime made of that, and the date as it left it

calVars == <<last, timer, tm, asked, made>>

SECONDS_PER_DAY == 86400
Trunc(n, d) == IF n < 0 THEN -((-n) \div d) ELSE n \div d   \* C's /

is_leap_year(year) == year % 4 = 0 /\ (year % 100 # 0 \/ year % 400 = 0)
days_in_year(year) == IF is_leap_year(year) THEN 366 ELSE 365
days_in_month(year, month) ==
  CASE month = 1 -> IF is_leap_year(year) THEN 29 ELSE 28
    [] month \in {3, 5, 8, 10} -> 30
    [] OTHER -> 31

days_from_year(year) ==
  LET y == year - 1 IN y * 365 + Trunc(y, 4) - Trunc(y, 100) + Trunc(y, 400)

\* The days of the months before this one.
before_month[year \in 1800..2100, month \in 0..12] ==
  IF month = 0 THEN 0
  ELSE before_month[year, month - 1] + days_in_month(year, month - 1)

days_from_1970(year, month, day) ==
  days_from_year(year) - days_from_year(1970) + before_month[year, month] + day - 1

\* The loops of gmtime_r over the years: the year of a day, and the day in it.
year_of[year \in 1800..2100, days \in Int] ==
  CASE days >= days_in_year(year) -> year_of[year + 1, days - days_in_year(year)]
    [] days < 0 -> year_of[year - 1, days + days_in_year(year - 1)]
    [] OTHER -> [year |-> year, yday |-> days]

month_of(year, yday) ==
  CHOOSE month \in 0..11 :
    before_month[year, month] <= yday /\ yday < before_month[year, month + 1]

\* Mutant: seconds before 1970 are not brought into the day before.
gmtime_rTrunc(seconds) ==
  LET days == Trunc(seconds, SECONDS_PER_DAY)
      rest == seconds - days * SECONDS_PER_DAY
      date == year_of[1970, days]
      month == month_of(date.year, date.yday)
  IN [year |-> date.year, mon |-> month,
      mday |-> date.yday - before_month[date.year, month] + 1,
      second |-> rest, wday |-> (days + 4) % 7, yday |-> date.yday]

\* gmtime_r; the hour, the minute and the second are one field.
gmtime_r(seconds) ==
  LET quotient == Trunc(seconds, SECONDS_PER_DAY)
      rest == seconds - quotient * SECONDS_PER_DAY
      days == IF rest < 0 THEN quotient - 1 ELSE quotient
      date == year_of[1970, days]
      month == month_of(date.year, date.yday)
  IN [year |-> date.year, mon |-> month,
      mday |-> date.yday - before_month[date.year, month] + 1,
      second |-> IF rest < 0 THEN rest + SECONDS_PER_DAY ELSE rest,
      wday |-> (days + 4) % 7, yday |-> date.yday]

\* mktime: the month is brought into its year, the day is not.
mktime(t) ==
  LET year == t.year + (t.mon \div 12)
      month == t.mon % 12
      days == days_from_1970(year, month, t.mday)
  IN [timer |-> days * SECONDS_PER_DAY + t.second,
      tm |-> [t EXCEPT !.year = year, !.mon = month, !.wday = (days + 4) % 7,
                       !.yday = before_month[year, month] + t.mday - 1]]

CalInit ==
  /\ \E year \in Eras :
       /\ timer = days_from_1970(year, 6, 1) * SECONDS_PER_DAY
       /\ last = days_from_1970(year, 6, 1) + DaysRun
  /\ tm = gmtime_r(timer)
  /\ asked = 0
  /\ made = mktime(tm)

\* The next day, at some second of it.
NextDay ==
  /\ timer \div SECONDS_PER_DAY < last
  /\ \E s \in Seconds : timer' = ((timer \div SECONDS_PER_DAY) + 1) * SECONDS_PER_DAY + s
  /\ tm' = gmtime_r(timer')
  /\ asked' \in MonthSteps \cup {-m : m \in MonthSteps}
  /\ made' = mktime([tm' EXCEPT !.mon = @ + asked'])
  /\ UNCHANGED last

CalNext == NextDay

CalSpec == CalInit /\ [][CalNext]_calVars

(***************************************************************************)
(* Properties.                                                             *)
(***************************************************************************)

\* The day after: the reference calendar, without a count of days.
DayAfter(d) ==
  IF d.mday < days_in_month(d.year, d.mon) THEN <<d.year, d.mon, d.mday + 1>>
  ELSE IF d.mon < 11 THEN <<d.year, d.mon + 1, 1>>
  ELSE <<d.year + 1, 0, 1>>

\* gmtime_r gives each day the date after that of the day before, the next
\* weekday and the next day of the year, across leap years, centuries and 1970.
DaysFollow ==
  [][/\ <<tm'.year, tm'.mon, tm'.mday>> = DayAfter(tm)
     /\ tm'.wday = (tm.wday + 1) % 7
     /\ tm'.yday = IF tm'.mon = 0 /\ tm'.mday = 1 THEN 0 ELSE tm.yday + 1]_calVars

\* mktime is the inverse of gmtime_r, although one counts the days of the years
\* and the other has a formula; and a date some months away, which mktime
\* normalises, is given the weekday and the day that gmtime_r gives its time
\* (when the month has such a day).
MktimeInverts ==
  /\ asked = 0 => made.timer = timer /\ made.tm = tm
  /\ asked # 0 /\ made.tm.mday <= days_in_month(made.tm.year, made.tm.mon)
       => gmtime_r(made.timer) = made.tm

\* Days and seconds are counted by one calendar in both directions.
CalendarIsSound == []MktimeInverts /\ DaysFollow

=============================================================================

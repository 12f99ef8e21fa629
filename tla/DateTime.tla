------------------------------ MODULE DateTime ------------------------------
(***************************************************************************)
(* Dates, times and weekdays.  The real-time clock and the host speak of a *)
(* time as BCD year (since 2000), month, day, hour, minute and second; the *)
(* stores and the alarms count seconds since 1970 in 32 bits; and the      *)
(* weekday written into the clock is computed from the date.               *)
(*                                                                         *)
(* The clock's calendar runs through every day it can show, one step a     *)
(* day, by the rules of the calendar alone, and the conversions are        *)
(* compared with it.                                                       *)
(*                                                                         *)
(* A timestamp is split into days and seconds of the day, which is what    *)
(* both conversions do with it: TLC's integers end at 2^31 - 1.  The last  *)
(* second the clock can show lies below 2^32.                              *)
(***************************************************************************)
EXTENDS Integers, Sequences

CONSTANT TimesOfDay     \* the seconds of the day that are tried

ASSUME TimesAssumption == \A t \in TimesOfDay : t \in Nat /\ t < 86400

VARIABLES
    date,       \* the date the clock shows
    elapsed,    \* days since the 1st of January 1970
    week        \* day of the week, 0 for Sunday

calendar == <<date, elapsed, week>>

-----------------------------------------------------------------------------
(* The conversions. *)

\* C's remainder takes the sign of the dividend, its quotient goes to zero.
CMod(a, b) == IF a >= 0 THEN a % b ELSE -((-a) % b)

bcd_to_dec(b) == (b \div 16) * 10 + (b % 16)

dec_to_bcd(d) == ((d \div 10) % 16) * 16 + (d % 10)

is_leap_year(y) == (y % 4 = 0 /\ y % 100 # 0) \/ y % 400 = 0

month_days == <<31, 28, 31, 30, 31, 30, 31, 31, 30, 31, 30, 31>>

get_days_of_year(y) == IF is_leap_year(y) THEN 366 ELSE 365
get_days_of_month(y, m) == IF m = 2 /\ is_leap_year(y) THEN 29 ELSE month_days[m]

\* Days of the years from 1970 to y - 1, and of the months before m in y.
days_of_years[y \in Nat] ==
    IF y <= 1970 THEN 0 ELSE days_of_years[y - 1] + get_days_of_year(y - 1)
days_of_months(y, m) ==
    LET before[k \in 1 .. 12] ==
          IF k = 1 THEN 0 ELSE before[k - 1] + get_days_of_month(y, k - 1)
    IN before[m]

\* No time: what datetime_to_timestamp returns for fields out of range.
NoTime == [days |-> 0, secs |-> 0]

datetime_to_timestamp(y, mo, d, h, mi, s) ==
    IF y < 1970 \/ mo \notin 1 .. 12 \/ d \notin 1 .. 31
         \/ h > 23 \/ mi > 59 \/ s > 59
    THEN NoTime
    ELSE [days |-> days_of_years[y] + days_of_months(y, mo) + d - 1,
          secs |-> h * 3600 + mi * 60 + s]

\* The year in which the days that are left fall, and then the month.
YearRest == [y : Nat, days : Nat]
year_of[e \in YearRest] ==
    LET n == get_days_of_year(e.y)
    IN IF e.days >= n THEN year_of[[y |-> e.y + 1, days |-> e.days - n]] ELSE e

\* Mutant: a month ends one day late.
Mut_month_of(y, n) ==
    LET from[e \in [m : 1 .. 13, days : Nat]] ==
          IF e.m <= 12 /\ e.days > get_days_of_month(y, e.m)
          THEN from[[m |-> e.m + 1, days |-> e.days - get_days_of_month(y, e.m)]]
          ELSE e
    IN from[[m |-> 1, days |-> n]]
month_of(y, n) ==
    LET from[e \in [m : 1 .. 13, days : Nat]] ==
          IF e.m <= 12 /\ e.days >= get_days_of_month(y, e.m)
          THEN from[[m |-> e.m + 1, days |-> e.days - get_days_of_month(y, e.m)]]
          ELSE e
    IN from[[m |-> 1, days |-> n]]

\* ucYear is a byte.
timestamp_to_datetime(t) ==
    LET year == year_of[[y |-> 1970, days |-> t.days]]
        month == month_of(year.y, year.days)
    IN [year |-> (year.y - 2000) % 256, month |-> month.m, day |-> month.days + 1,
        hour |-> t.secs \div 3600, min |-> (t.secs % 3600) \div 60,
        sec |-> t.secs % 60]

\* Mutant: January and February are left in their own year.
Mut_calculateDayOfWeek(year, month, day) ==
    LET m == IF month < 3 THEN month + 12 ELSE month
        n == CMod(day + ((13 * (m + 1)) \div 5) + (year % 100) + ((year % 100) \div 4)
                    + ((year \div 100) \div 4) - 2 * (year \div 100), 7)
    IN IF n = 0 THEN 6 ELSE n - 1

\* Zeller's formula: January and February belong to the year before.
calculateDayOfWeek(year, month, day) ==
    LET y == IF month < 3 THEN year - 1 ELSE year
        m == IF month < 3 THEN month + 12 ELSE month
        n == CMod(day + ((13 * (m + 1)) \div 5) + (y % 100) + ((y % 100) \div 4)
                    + ((y \div 100) \div 4) - 2 * (y \div 100), 7)
    IN IF n = 0 THEN 6 ELSE n - 1

-----------------------------------------------------------------------------
(* The clock's calendar, from 2000 to 2099. *)

CalendarInit ==
    /\ date = [year |-> 0, month |-> 1, day |-> 1]
    /\ elapsed = 10957 /\ week = 6

LongMonths == {1, 3, 5, 7, 8, 10, 12}
LastDay ==
    CASE date.month \in LongMonths -> 31
      [] date.month = 2 -> IF date.year % 4 = 0 THEN 29 ELSE 28
      [] OTHER -> 30

NextDay ==
    /\ elapsed' = elapsed + 1 /\ week' = (week + 1) % 7
    /\ \/ /\ date.day < LastDay
          /\ date' = [date EXCEPT !.day = @ + 1]
       \/ /\ date.day = LastDay /\ date.month < 12
          /\ date' = [year |-> date.year, month |-> date.month + 1, day |-> 1]
       \/ /\ date.day = 31 /\ date.month = 12 /\ date.year < 99
          /\ date' = [year |-> date.year + 1, month |-> 1, day |-> 1]

\* After 99 the clock shows 00 again.
Overrun ==
    /\ date = [year |-> 99, month |-> 12, day |-> 31]
    /\ date' = [year |-> 0, month |-> 1, day |-> 1]
    /\ elapsed' = 10957 /\ week' = 6

CalendarNext == NextDay \/ Overrun

Calendar == CalendarInit /\ [][CalendarNext]_calendar

-----------------------------------------------------------------------------
(* Properties. *)

\* The clock's time at the second t of the day, in BCD.
Shown(t) ==
    [year |-> dec_to_bcd(date.year), month |-> dec_to_bcd(date.month),
     day |-> dec_to_bcd(date.day), hour |-> dec_to_bcd(t \div 3600),
     min |-> dec_to_bcd((t \div 60) % 60), sec |-> dec_to_bcd(t % 60)]

\* Whatever the clock shows or the host asks for becomes the seconds that have
\* passed since 1970, leap days of every century counted, and a second of a
\* stored record is reported as the very time it was stored under.
TimesAgree ==
    \A t \in TimesOfDay :
      LET bcd == Shown(t)
          dec == [f \in DOMAIN bcd |-> bcd_to_dec(bcd[f])]
          ts == datetime_to_timestamp(dec.year + 2000, dec.month, dec.day,
                                      dec.hour, dec.min, dec.sec)
          back == timestamp_to_datetime(ts)
      IN /\ ts = [days |-> elapsed, secs |-> t]
         /\ [f \in DOMAIN bcd |-> dec_to_bcd(back[f])] = bcd

\* The weekday written into the clock is the date's.  (Before March 2020 the
\* formula has negative remainders, which C keeps: the clock is then set to a
\* weekday that does not exist.)
WeekdayRight ==
    date.year > 20 \/ (date.year = 20 /\ date.month > 2)
      => calculateDayOfWeek(date.year + 2000, date.month, date.day) = week
=============================================================================

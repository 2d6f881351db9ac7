------------------------------- MODULE Dates --------------------------------
(***************************************************************************)
(* ascdate: the date and the time of day of a moment of standard local     *)
(* time, with daylight saving time forced on, off or computed (date -d,    *)
(* -s, -a).  Time advances by the hour: minutes and seconds are the        *)
(* remainders of the hour and carry nothing over.                          *)
(***************************************************************************)
EXTENDS Integers, FiniteSets

CONSTANTS
  FirstYears,  \* years at whose beginning a behaviour starts
  Years        \* how many years it goes on

VARIABLES
  now,         \* hours since the beginning of 1970
  first,       \* the year the behaviour started in
  daylight     \* Date.dt_daylight

vars == <<now, first, daylight>>

HRPERDY == 24
isleap(y) == y % 4 = 0
dt_msize == <<31, 28, 31, 30, 31, 30, 31, 31, 30, 31, 30, 31>>

\* Days before a year, and before a month (0 to 12) of it: the sums that the two
\* loops subtract.
DaysBefore(y) == 365 * (y - 1970) + Cardinality({z \in 1970..(y - 1) : isleap(z)})
Cumulated == <<0, 31, 59, 90, 120, 151, 181, 212, 243, 273, 304, 334, 365>>
DaysBeforeMonth(y, m) == Cumulated[m + 1] + (IF m > 1 /\ isleap(y) THEN 1 ELSE 0)
MonthSize(y, m) == DaysBeforeMonth(y, m + 1) - DaysBeforeMonth(y, m)

YearOf(day) == CHOOSE y \in (1970 + day \div 366)..(1970 + day \div 365) :
                 DaysBefore(y) <= day /\ day < DaysBefore(y + 1)
MonthOf(y, days) == CHOOSE m \in 0..11 : DaysBeforeMonth(y, m) <= days /\ days < DaysBeforeMonth(y, m + 1)

leapyrsFrom1970(y) == (y - 1970) \div 4
leapyrs(y) == (y - 1969) \div 4
jan1(y) == (4 + (y - 1970) + leapyrs(y)) % 7

mar1(y) == (jan1(y) + dt_msize[1] + dt_msize[2] + (IF isleap(y) THEN 1 ELSE 0)) % 7
marss(y) == IF mar1(y) = 0 THEN 8 ELSE 15 - mar1(y)
nov1(y) == (jan1(y) + 304 + (IF isleap(y) THEN 1 ELSE 0)) % 7
novfs(y) == IF nov1(y) = 0 THEN 1 ELSE 8 - nov1(y)

dst(y, month, day, hour) ==
  \/ daylight = "on"
  \/ /\ daylight = "auto"
     /\ \/ month \in 3..9
        \/ month = 2 /\ (day > marss(y) \/ (day = marss(y) /\ hour >= 2))
        \/ month = 10 /\ ~ (day > novfs(y) \/ (day = novfs(y) /\ hour >= 1))

\* One hour later, into the next day and month if need be; the size of the month is
\* that of a common year, the day of the week stays.
LaterHourDaysOnly(d) ==
  IF d.hour < 23 THEN [d EXCEPT !.hour = @ + 1]
  ELSE [d EXCEPT !.hour = 0, !.day = @ + 1]
LaterHour(d) ==
  IF d.hour < 23 THEN [d EXCEPT !.hour = @ + 1]
  ELSE IF d.day + 1 > dt_msize[d.month + 1] THEN [d EXCEPT !.hour = 0, !.day = 1, !.month = @ + 1]
  ELSE [d EXCEPT !.hour = 0, !.day = @ + 1]

Standard(t) ==
  LET y == YearOf(t \div HRPERDY)
      days == t \div HRPERDY - DaysBefore(y)
      m == MonthOf(y, days)
  IN [year |-> y, month |-> m, day |-> days - DaysBeforeMonth(y, m) + 1, hour |-> t % HRPERDY,
      dayofweek |-> (jan1(y) + days) % 7]

Date(t) ==
  LET s == Standard(t)
  IN IF dst(s.year, s.month, s.day, s.hour) THEN LaterHour(s) ELSE s

Init ==
  /\ first \in FirstYears
  /\ now = DaysBefore(first) * HRPERDY
  /\ daylight = "auto"

Tick ==
  /\ now + 1 < DaysBefore(first + Years) * HRPERDY
  /\ now' = now + 1
  /\ UNCHANGED <<first, daylight>>

\* The date command with an option.
xsh_date(setting) ==
  /\ setting # daylight
  /\ now % HRPERDY = 12
  /\ daylight' = setting
  /\ UNCHANGED <<now, first>>

Last == now + 1 = DaysBefore(first + Years) * HRPERDY /\ UNCHANGED vars

Next == Tick \/ (\E s \in {"on", "off", "auto"} : xsh_date(s)) \/ Last

-----------------------------------------------------------------------------
\* The hour after an hour, by the calendar.
Follows(d, e) ==
  LET last == d.day = MonthSize(d.year, d.month)
  IN \/ d.hour < 23 /\ e = [d EXCEPT !.hour = @ + 1]
     \/ d.hour = 23 /\ ~ last /\ e = [d EXCEPT !.hour = 0, !.day = @ + 1]
     \/ d.hour = 23 /\ last /\ d.month < 11 /\ e = [d EXCEPT !.hour = 0, !.day = 1, !.month = @ + 1]
     \/ d.hour = 23 /\ last /\ d.month = 11 /\ e = [d EXCEPT !.hour = 0, !.day = 1, !.month = 0, !.year = @ + 1]
Calendar(d) == [year |-> d.year, month |-> d.month, day |-> d.day, hour |-> d.hour]

\* The dates of successive hours follow each other in the calendar, through the ends of
\* months and of leap years, and with daylight saving time computed except twice a year:
\* one hour of a Sunday in March is left out and one of a Sunday in November comes twice.
\* (With it forced on the last evening of February and of December is wrong.)
DatesFollow ==
  [][daylight = daylight' /\ daylight # "on" =>
       LET d == Calendar(Date(now))  e == Calendar(Date(now'))
           wd == Standard(now).dayofweek
       IN \/ Follows(d, e)
          \/ /\ daylight = "auto" /\ wd = 0 /\ d.month = 2 /\ d.day \in 8..14
             /\ d.hour = 1 /\ e = [d EXCEPT !.hour = 3]
          \/ /\ daylight = "auto" /\ wd = 0 /\ d.month = 10 /\ d.day \in 1..7
             /\ d.hour = 1 /\ e = d]_vars

\* The day of the week goes on from the Thursday on which 1970 began, whatever the
\* formula with the leap years makes of it.
WeekdayGoesOn == Standard(now).dayofweek = (4 + now \div HRPERDY) % 7

=============================================================================

------------------------------ MODULE DateTime ------------------------------
(***************************************************************************)
(* The calendar of src/core/src/time.c: shifts of a date by days, through  *)
(* the count of days since 1970-01-01.  Reading the clocks, sleeping and   *)
(* the formatting are the platform's.                                      *)
(***************************************************************************)
EXTENDS Integers

CONSTANTS StartDates,   \* <<year, month, day>>
          Shifts,       \* days added
          ShiftsMax     \* bound of the instance on the number of calls

ASSUME DtAssumption == StartDates \subseteq Int \X Int \X Int /\ Shifts \subseteq Int

VARIABLES dt,           \* year, month and day of the ct_datetime_t
          dtDays,       \* history: the days the calls added to the start
          dtStart, dtCalls

dtVars == <<dt, dtDays, dtStart, dtCalls>>

DtInit == dtStart \in StartDates /\ dt = dtStart /\ dtDays = 0 /\ dtCalls = 0

\* The division of C, which truncates.
CDiv(a, b) == IF a >= 0 THEN a \div b ELSE -((-a) \div b)

LeapYear(year) == (year % 4 = 0 /\ year % 100 # 0) \/ year % 400 = 0

DaysInMonth(year, month) ==
  IF month < 1 \/ month > 12 THEN 0
  ELSE <<31, 28, 31, 30, 31, 30, 31, 31, 30, 31, 30, 31>>[month] + (IF month = 2 /\ LeapYear(year) THEN 1 ELSE 0)

\* The years a ct_datetime_t may have.
YearInRange(d) == d[1] \in 1..9999

ValidDate(d) ==
  YearInRange(d) /\ d[2] \in 1..12 /\ d[3] >= 1 /\ d[3] <= DaysInMonth(d[1], d[2])

DaysFromCivil(d) ==
  LET year == d[1] - (IF d[2] <= 2 THEN 1 ELSE 0)
      era == CDiv(IF year >= 0 THEN year ELSE year - 399, 400)
      yoe == year - era * 400
      doy == CDiv(153 * (d[2] + (IF d[2] > 2 THEN -3 ELSE 9)) + 2, 5) + d[3] - 1
      doe == yoe * 365 + CDiv(yoe, 4) - CDiv(yoe, 100) + doy
  IN era * 146097 + doe - 719468

\* A mutant of YearOfEra: the last day of a cycle of 400 years goes to the next.
EarlyYearOfEra(doe) == CDiv(doe - CDiv(doe, 1460) + CDiv(doe, 36524), 365)

\* The year, from 0, that a day of a cycle of 400 years falls in, both from March on.
YearOfEra(doe) == CDiv(doe - CDiv(doe, 1460) + CDiv(doe, 36524) - CDiv(doe, 146096), 365)

DateOfYear(era, yoe, doy) ==
  LET mp == CDiv(5 * doy + 2, 153)
      mm == mp + (IF mp < 10 THEN 3 ELSE -9)
  IN <<yoe + era * 400 + (IF mm <= 2 THEN 1 ELSE 0), mm, doy - CDiv(153 * mp + 2, 5) + 1>>

CivilOfEra(era, doe) ==
  LET yoe == YearOfEra(doe)
  IN DateOfYear(era, yoe, doe - (365 * yoe + CDiv(yoe, 4) - CDiv(yoe, 100)))

CivilFromDays(days) ==
  LET z == days + 719468
      era == CDiv(IF z >= 0 THEN z ELSE z - 146096, 146097)
  IN CivilOfEra(era, z - era * 146097)

\* ct_datetime_add_days: an invalid date and a year out of range are refused.
AddDays(n) ==
  /\ dtCalls < ShiftsMax
  /\ dtCalls' = dtCalls + 1
  /\ LET shifted == CivilFromDays(DaysFromCivil(dt) + n) IN
       IF ValidDate(dt) /\ YearInRange(shifted)
       THEN dt' = shifted /\ dtDays' = dtDays + n
       ELSE UNCHANGED <<dt, dtDays>>
  /\ UNCHANGED dtStart

DtNext == \E n \in Shifts : AddDays(n)

DtSpec == DtInit /\ [][DtNext]_dtVars

-----------------------------------------------------------------------------
(* Properties. *)

\* The days before a month in its year.
MonthStart(year, month) ==
  <<0, 31, 59, 90, 120, 151, 181, 212, 243, 273, 304, 334>>[month]
    + (IF month > 2 /\ LeapYear(year) THEN 1 ELSE 0)

\* The number of a date in the calendar, counted by years and months.
DaysBefore(d) ==
  LET y == d[1] - 1
  IN 365 * y + y \div 4 - y \div 100 + y \div 400 + MonthStart(d[1], d[2]) + d[3]

\* Shifts add up in the calendar of leap years and month lengths: after any
\* shifts a valid date is valid, and as many days from the start as were added
\* (time.c:174-197, 250-268).
ShiftsAddUp ==
  ValidDate(dtStart) => ValidDate(dt) /\ DaysBefore(dt) = DaysBefore(dtStart) + dtDays
=============================================================================

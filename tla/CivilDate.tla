------------------------------ MODULE CivilDate ------------------------------
(* The timestamps of journal rows: civil_from_days and iso8601_from_secs of *)
(* src/mcp/journal.rs, and the Gregorian calendar they must agree with.     *)
(* The clock is never before the epoch: iso8601_now takes an earlier one    *)
(* for the epoch itself.                                                    *)
EXTENDS Integers

SecsPerDay == 86400
DaysPerEra == 146097    \* 400 years

\* Years run from March here, so the leap day is the last of its year.
YearOfEra(doe) == (doe - doe \div 1460 + doe \div 36524 - doe \div 146096) \div 365
DayOfYear(doe, yoe) == doe - (365 * yoe + yoe \div 4 - yoe \div 100)

Month(mp) == IF mp < 10 THEN mp + 3 ELSE mp - 9
Civil(era, yoe, mp, d) ==
  [y |-> yoe + era * 400 + (IF Month(mp) <= 2 THEN 1 ELSE 0), m |-> Month(mp), d |-> d]

\* Mutant of CivilFromDays: the era's last day opens a year of its own.
CivilOffByEra(days) ==
  LET z   == days + 719468
      era == z \div DaysPerEra
      doe == z - era * DaysPerEra
      yoe == (doe - doe \div 1460 + doe \div 36524) \div 365
      doy == DayOfYear(doe, yoe)
      mp  == (5 * doy + 2) \div 153
  IN Civil(era, yoe, mp, doy - (153 * mp + 2) \div 5 + 1)

\* Days since the epoch to year, month and day.
CivilFromDays(days) ==
  LET z   == days + 719468
      era == z \div DaysPerEra
      doe == z - era * DaysPerEra
      yoe == YearOfEra(doe)
      doy == DayOfYear(doe, yoe)
      mp  == (5 * doy + 2) \div 153
  IN Civil(era, yoe, mp, doy - (153 * mp + 2) \div 5 + 1)

\* The fields of the timestamp, before they are printed.
Iso8601FromSecs(secs) ==
  LET tod == secs % SecsPerDay
  IN [date |-> CivilFromDays(secs \div SecsPerDay),
      h |-> tod \div 3600, mi |-> (tod % 3600) \div 60, s |-> tod % 60]

-----------------------------------------------------------------------------
(* The calendar.                                                            *)

Leap(y) == y % 4 = 0 /\ (y % 100 # 0 \/ y % 400 = 0)

DaysIn(y, m) ==
  IF m = 2 THEN (IF Leap(y) THEN 29 ELSE 28)
  ELSE IF m \in {4, 6, 9, 11} THEN 30 ELSE 31

ValidDate(c) ==
  /\ c.y \in Int /\ c.m \in 1..12
  /\ c.d \in 1..DaysIn(c.y, c.m)

\* Days from the epoch to the first of January of year y.
DaysBeforeYear(y) ==
  365 * (y - 1970) + ((y - 1) \div 4 - (y - 1) \div 100 + (y - 1) \div 400) - 477

\* Days of a common year before month m.
DaysBeforeMonth ==
  <<0, 31, 59, 90, 120, 151, 181, 212, 243, 273, 304, 334>>

\* Days from the epoch to the date c.
DayNumber(c) ==
  DaysBeforeYear(c.y) + DaysBeforeMonth[c.m] + (c.d - 1)
    + (IF Leap(c.y) /\ c.m > 2 THEN 1 ELSE 0)

\* The date printed for a day is a date of the calendar, and the right one
\* (civil_from_days).
RightDate(days) ==
  LET c == CivilFromDays(days) IN ValidDate(c) /\ DayNumber(c) = days

\* The fields of a timestamp, and the seconds they stand for.
ValidStamp(t) ==
  ValidDate(t.date) /\ t.h \in 0..23 /\ t.mi \in 0..59 /\ t.s \in 0..59

Instant(t) ==
  SecsPerDay * DayNumber(t.date) + 3600 * t.h + 60 * t.mi + t.s

\* The timestamp printed for an instant is that instant (iso8601_from_secs).
RightStamp(secs) ==
  LET t == Iso8601FromSecs(secs) IN ValidStamp(t) /\ Instant(t) = secs
=============================================================================

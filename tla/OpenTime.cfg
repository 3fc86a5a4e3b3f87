\* The days stand for New Year's Eve, the end of February and days 29 to 31 of
\* other months in the first years, in leap years and between them, in 2041,
\* before the products overflow, and at the end of 2099 and 2100; calls move
\* on from there by days, months and years.  8 is the zone of the program,
\* -5 one of the zones that timezone_ cannot hold.
SPECIFICATION Spec
CONSTANTS
  Days = {0, 364, 789, 1095, 11016, 19387, 19416, 19722, 19813, 20088, 20818, 26297, 47481, 47846}
  Seconds = {0, 57599}
  Timezones <- EastAndWest
  Amounts = {1, 13, 25}
  MonthDays = {1, 31}
  Months = {1, 2, 13}
  Years = {1972, 2024, 2042}
  MaxCalls = 2
CHECK_DEADLOCK FALSE
INVARIANTS TypeOK DateFollowsClock ClockFollowsDate
PROPERTY MonthsKeepTheDay

\* The last day of 2023, from which a day leads into a leap year.
SPECIFICATION Spec
CONSTANTS
  Days = {19722}
  Seconds = {57599}
  Timezones <- East
  Amounts = {1}
  MonthDays = {31}
  Months = {1}
  Years = {2023}
  MaxCalls = 1
CHECK_DEADLOCK FALSE
PROPERTY AddDayMovesTheDate

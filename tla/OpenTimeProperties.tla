------------------------- MODULE OpenTimeProperties -------------------------
(***************************************************************************)
(* What the date and the Unix time of an OpenTime must have to do with     *)
(* each other, said in terms of the Gregorian calendar.                    *)
(***************************************************************************)
EXTENDS OpenTime, FiniteSets

(* The calendar, independent of the code.                                  *)
LeapYear(y) == 4 * (y \div 4) = y /\ (100 * (y \div 100) = y => 400 * (y \div 400) = y)
MonthLength(y, m) ==
  IF m = 2 THEN (IF LeapYear(y) THEN 29 ELSE 28) ELSE IF m \in {4, 6, 9, 11} THEN 30 ELSE 31
NewYear(y) == 365 * (y - 1970) + Cardinality({k \in 1970 .. y - 1 : LeapYear(k)})
DayNumber(y, m, d) ==
  LET first[k \in 1 .. 12] == IF k = 1 THEN NewYear(y) ELSE first[k - 1] + MonthLength(y, k - 1)
  IN  first[m] + d - 1

Clock(o) == 3600 * o.hour + 60 * o.minute + o.second
InZone(o) == o.second < 60 /\ o.minute < 60 /\ o.hour < 24

(* The zone that timezone_ stands for, which is documented to be -17 to 17 *)
(* and kept in an uint16_t; and the local time there.                      *)
Zone(o) == IF o.timezone > 32767 THEN o.timezone - 65536 ELSE o.timezone
LocalTime(o) == After(o.unixtime, 3600 * Zone(o))
To2100(day) == day \in 0 .. NewYear(2101) - 1

uint16s == 0 .. MaxUint16
Moments == [day : Int, second : 0 .. LastSecond]
OpenTimes ==
  [second : uint16s, minute : uint16s, hour : uint16s, day : uint16s, month : uint16s,
   year : Nat, timezone : uint16s, unixtime : Moments]

(* Every field has the width its type has, after any sequence of calls.    *)
TypeOK ==
  /\ open_time \in OpenTimes
  /\ last \in [changes : {"clock", "date", "month", "part"}, months : Int]
  /\ calls \in 0 .. MaxCalls

(* After a call that changes the Unix time or the zone the clock fields    *)
(* show the local time, up to 2100 and in zones from 0, and the year is    *)
(* the year of the local date.  So are month and day, of which nothing is  *)
(* claimed in the leap years after 1972: see AddDayMovesTheDate.           *)
Shows(o) ==
  LET day == LocalTime(o).day IN
  To2100(day) =>
    /\ InZone(o) /\ Clock(o) = LocalTime(o).second
    /\ o.year \in 1970 .. 2100
    /\ NewYear(o.year) <= day /\ day < NewYear(o.year + 1)
    /\ o.year % 4 # 0 \/ o.year = 1972 => DayNumber(o.year, o.month, o.day) = day
DateFollowsClock == last.changes = "clock" /\ Zone(open_time) >= 0 => Shows(open_time)

(* The date is one of the years the class is documented for, and the Unix  *)
(* time is the instant it stands for; a day past the end of its month      *)
(* counts on into the next one.                                            *)
IsDate(o) == InZone(o) /\ o.day \in 1 .. 31 /\ o.month \in 1 .. 12 /\ o.year \in 1970 .. 2100
Agrees(o) ==
  /\ LocalTime(o).day = DayNumber(o.year, o.month, o.day)
  /\ LocalTime(o).second = Clock(o)

(* After a call that changes the date, in a zone from 0 and up to 2041,    *)
(* where the int product of dateToUnixtime does not overflow, the Unix     *)
(* time is the instant the date stands for.                                *)
Stands(o) == Zone(o) >= 0 /\ IsDate(o) /\ o.year <= 2041
ClockFollowsDate == last.changes \in {"date", "month"} /\ Stands(open_time) => Agrees(open_time)

(* Months since the year 0.                                                *)
MonthNumber(o) == 12 * o.year + o.month

(* addMonth moves on by whole months, over any number of years, and to a   *)
(* day that its month has: the same day, or the last one if it is too short. *)
MonthsKeepTheDay ==
  [][last'.changes = "month" /\ open_time.month \in 1 .. 12 =>
       /\ MonthNumber(open_time') = MonthNumber(open_time) + last'.months
       /\ open_time'.day = Least(open_time.day, MonthLength(open_time'.year, open_time'.month))]_vars

(* addDay moves the date on by days and keeps the time of day, as its      *)
(* comment shows.  It does not in the leap years after 1972: the loop over *)
(* the months misses its return there, and the month comes out as December. *)
AddDayMovesTheDate ==
  [][\A n \in Signed :
       /\ addDay(n)
       /\ Zone(open_time) >= 0 /\ IsDate(open_time) /\ Agrees(open_time)
       /\ To2100(LocalTime(open_time').day)
       => /\ DayNumber(open_time'.year, open_time'.month, open_time'.day)
               = DayNumber(open_time.year, open_time.month, open_time.day) + n
          /\ Clock(open_time') = Clock(open_time)]_vars
==============================================================================

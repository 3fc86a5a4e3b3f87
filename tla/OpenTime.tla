------------------------------ MODULE OpenTime ------------------------------
(***************************************************************************)
(* One object of class OpenTime (lib/opentime): a local date, a time zone  *)
(* and the Unix time they stand for, and the calls that change it.  A call *)
(* changes either the Unix time and derives the date from it, or the date  *)
(* and derives the Unix time.                                              *)
(*                                                                         *)
(* TLC's integers have 32 bits, so an instant is a pair of a day and a     *)
(* second of that day; days before 1970 are negative.                      *)
(***************************************************************************)
EXTENDS Integers, Sequences

CONSTANTS
  Days, Seconds,  (* days since 1970 and times of day of the instants tried *)
  Timezones,      (* the zones asked for, in hours                          *)
  Amounts,        (* what is added or taken away, in whatever unit          *)
  MonthDays,      (* days that are set, or read from a string               *)
  Months,         (* months                                                 *)
  Years,          (* years                                                  *)
  MaxCalls        (* bound: calls made on the object                        *)

MaxUint16 == 65535
LastSecond == 86399
IntDays == 24855                                 (* (2^31 - 1) \div 86400   *)

(* Bounds, where the model's numbers are wider than the code's: the days   *)
(* with which neither year_ nor unixtime_ wraps, and the years up to which *)
(* the int product of dateToUnixtime wraps no more than once.  Months that *)
(* reach 0 by wrapping, with which adjustMonth reads before its array, and *)
(* amounts of days whose seconds do not fit an int are left out as well.   *)
MaxDay == 1000000000
MaxYear == 2177

ASSUME OpenTimeAssumption ==
  /\ Days \subseteq 0 .. MaxDay /\ Seconds \subseteq 0 .. LastSecond
  /\ Timezones \subseteq -17 .. 17
  /\ Amounts \subseteq 0 .. IntDays
  /\ MonthDays \subseteq 0 .. MaxUint16
  /\ Months \subseteq 1 .. MaxUint16
  /\ Years \subseteq 0 .. MaxYear
  /\ MaxCalls \in Nat

VARIABLES
  open_time,      (* the object                                             *)
  last,           (* history: what the last call changed, addMonth's months *)
  calls
vars == <<open_time, last, calls>>

Signed == Amounts \cup {-n : n \in Amounts}
Instants == [day : Days, second : Seconds]

(* seconds after the instant u                                             *)
After(u, seconds) ==
  LET s == u.second + seconds IN [day |-> u.day + s \div 86400, second |-> s % 86400]

DayOfMonths(leap) == <<31, IF leap THEN 29 ELSE 28, 31, 30, 31, 30, 31, 31, 30, 31, 30, 31>>

isLeap(year) == (year % 4 = 0 /\ year % 100 # 0) \/ year % 400 = 0

Least(a, b) == IF a < b THEN a ELSE b

(* What a field of the date, or timezone_, holds after n is stored there.  *)
(* The variant keeps the sign.                                             *)
KeepSign(n) == n
uint16(n) == n % 65536

------------------------------------------------------------------------------
(* From the Unix time to the date.                                         *)

(* The year in which the d-th day after 1970-01-01 lies and the days from  *)
(* its beginning: 1970, 1971 and the leap year 1972, then cycles of three  *)
(* years and a leap year.  The variant ends leap years a day early.        *)
FirstYears == 365 + 365 + 366
Cycle == 365 * 4 + 1
EarlyYear(d) ==
  LET r == (d - FirstYears) % Cycle
      k == r \div 365
  IN  IF d < FirstYears THEN [year |-> 1970 + d \div 365, rest |-> d % 365]
      ELSE [year |-> 1973 + 4 * ((d - FirstYears) \div Cycle) + k, rest |-> r - 365 * k]
YearOf(d) ==
  LET r == (d - FirstYears) % Cycle
      k == Least(r \div 365, 3)
      first == Least(d \div 365, 2)
  IN  IF d < FirstYears THEN [year |-> 1970 + first, rest |-> d - 365 * first]
      ELSE [year |-> 1973 + 4 * ((d - FirstYears) \div Cycle) + k, rest |-> r - 365 * k]

(* The loops over the months.  All but the one for the leap years after    *)
(* 1972 return with the month that holds the rest; that one goes on.       *)
MonthLoop(leap, rest, returns) ==
  LET Turn(s, j) ==
        IF s.returned THEN s
        ELSE IF s.rest >= DayOfMonths(leap)[j]
             THEN [s EXCEPT !.month = j, !.rest = @ - DayOfMonths(leap)[j]]
             ELSE [s EXCEPT !.month = j, !.day = s.rest + 1, !.returned = returns]
      after[j \in 0 .. 12] ==
        IF j = 0 THEN [month |-> 0, day |-> 0, rest |-> rest, returned |-> FALSE]
        ELSE Turn(after[j - 1], j)
  IN  after[12]

MonthOf(y) == MonthLoop(y.year % 4 = 0, y.rest, y.year % 4 # 0 \/ y.year = 1972)

(* Negative times, which an overflow leaves behind: every division rounds  *)
(* towards zero and the remainders are stored as uint16_t.                 *)
NegativeDate(o, u) ==
  LET days == IF u.second = 0 THEN -u.day ELSE -u.day - 1
      seconds == (86400 - u.second) % 86400
  IN  [o EXCEPT !.second = uint16(-(seconds % 60)),
                !.minute = uint16(-((seconds \div 60) % 60)),
                !.hour = uint16(-(seconds \div 3600)),
                !.year = 1970, !.month = 1, !.day = uint16(1 - days)]

unixtimeToDate(o) ==
  LET u == After(o.unixtime, 3600 * o.timezone)
      y == YearOf(u.day)
      m == MonthOf(y)
  IN  IF u.day < 0 THEN NegativeDate(o, u)
      ELSE [o EXCEPT !.second = u.second % 60,
                     !.minute = (u.second \div 60) % 60,
                     !.hour = u.second \div 3600,
                     !.year = y.year, !.month = m.month, !.day = m.day]

------------------------------------------------------------------------------
(* From the date to the Unix time.                                         *)

(* year_ is unsigned, so the year 0 passes for one that is late enough.    *)
Rejected(o) ==
  \/ o.second > 59 \/ o.minute > 59 \/ o.hour > 23
  \/ o.day > 31 \/ o.month > 12 \/ o.year \in 1 .. 1969

(* Days from 1973-01-01 to the beginning of the year.                      *)
LeftDays(year) ==
  LET left == year - 1973 IN (left \div 4) * Cycle + (left % 4) * 365

(* Days from 1970-01-01 to the beginning of the year.                      *)
YearDays(year) ==
  IF year > 1972 THEN FirstYears + LeftDays(year)
  ELSE IF year > 1970 THEN 365 * (year - 1970) ELSE 0

(* Days from the beginning of the year to the beginning of the month; the  *)
(* variant forgets the leap years.                                         *)
Sum(lengths) ==
  LET upTo[j \in 0 .. Len(lengths)] == IF j = 0 THEN 0 ELSE upTo[j - 1] + lengths[j] IN upTo[Len(lengths)]
PlainMonthsBefore(year, month) == Sum(SubSeq(DayOfMonths(FALSE), 1, month - 1))
MonthsBefore(year, month) == Sum(SubSeq(DayOfMonths(isLeap(year)), 1, month - 1))

(* LeftDays(year) * 86400 is computed in an int: past 2^31 - 1 that is     *)
(* undefined, and comes out right or short by 2^32 seconds.                *)
Wrapped(u) == After([u EXCEPT !.day = @ - 49710], -23296)        (* - 2^32  *)

(* What unixtime_ may be after dateToUnixtime.                             *)
dateToUnixtime(o) ==
  LET day == YearDays(o.year) + MonthsBefore(o.year, o.month) + o.day - 1
      u == After([day |-> day, second |-> 0],
                 o.second + 60 * o.minute + 3600 * o.hour - 3600 * o.timezone)
  IN  IF Rejected(o) THEN {[day |-> 0, second |-> o.second]}
      ELSE {u} \cup (IF o.year > 1972 /\ LeftDays(o.year) > IntDays THEN {Wrapped(u)} ELSE {})

------------------------------------------------------------------------------
(* The calls.                                                              *)

(* The object with another date, and with another time of day.             *)
WithDate(o, y, m, d) == [o EXCEPT !.year = y, !.month = m, !.day = d]
WithTime(o, s) == [o EXCEPT !.hour = s \div 3600, !.minute = (s \div 60) % 60, !.second = s % 60]

(* The constructors, from a Unix time, 0 being the current time, and from  *)
(* a date.                                                                 *)
Blank(timezone) ==
  [second |-> 0, minute |-> 0, hour |-> 0, day |-> 0, month |-> 0, year |-> 0,
   timezone |-> uint16(timezone), unixtime |-> [day |-> 0, second |-> 0]]

FromClock(timezone) ==
  \E u \in Instants \ {[day |-> 0, second |-> 0]} :
    /\ open_time = unixtimeToDate([Blank(timezone) EXCEPT !.unixtime = u])
    /\ last = [changes |-> "clock", months |-> 0]

FromDate(timezone) ==
  \E y \in Years, m \in Months, d \in MonthDays, s \in Seconds :
    LET o == WithTime(WithDate(Blank(timezone), y, m, d), s) IN
    /\ \E u \in dateToUnixtime(o) : open_time = [o EXCEPT !.unixtime = u]
    /\ last = [changes |-> "date", months |-> 0]

Init ==
  /\ \E timezone \in Timezones : FromClock(timezone) \/ FromDate(timezone)
  /\ calls = 0

Call(changes, months) ==
  /\ calls < MaxCalls
  /\ calls' = calls + 1
  /\ last' = [changes |-> changes, months |-> months]

(* The Unix time or the zone has changed: o is the object before the date  *)
(* is derived.                                                             *)
Derive(o) ==
  /\ o.unixtime.day \in -MaxDay .. MaxDay
  /\ Call("clock", 0)
  /\ open_time' = unixtimeToDate(o)

(* The date has changed: o is the object before the Unix time is derived.  *)
Convert(o) ==
  /\ o.year \in 0 .. MaxYear
  /\ \E u \in dateToUnixtime(o) : open_time' = [o EXCEPT !.unixtime = u]

setUnixtime(u) == Derive([open_time EXCEPT !.unixtime = u])
setTimezone(timezone) == Derive([open_time EXCEPT !.timezone = uint16(timezone)])

(* addSecond, addMinute, addHour, addDay and, with seconds, += and -=      *)
addTime(unit, n) == Derive([open_time EXCEPT !.unixtime = After(@, unit * n)])
addDay(n) == Derive([open_time EXCEPT !.unixtime.day = @ + n])

(* The copy constructor and operator= derive the date of the copy anew.    *)
copy == Derive(open_time)

(* addMonth goes one month at a time.                                      *)
NextMonth(o) ==
  IF o.month = 12 THEN [o EXCEPT !.year = @ + 1, !.month = 1] ELSE [o EXCEPT !.month = @ + 1]
PreviousMonth(o) ==
  IF o.month = 1 THEN [o EXCEPT !.year = @ - 1, !.month = 12] ELSE [o EXCEPT !.month = @ - 1]
MonthsOn(o, n) ==
  LET ahead[i \in Nat] == IF i = 0 THEN o ELSE NextMonth(ahead[i - 1])
      back[i \in Nat] == IF i = 0 THEN o ELSE PreviousMonth(back[i - 1])
  IN  IF n >= 0 THEN ahead[n] ELSE back[-n]

(* The day must not be past the end of the month; the variant forgets the  *)
(* leap years.                                                             *)
LastDay(o, m, lengths) == [o EXCEPT !.month = m, !.day = Least(@, lengths[m])]
PlainAdjust(o) == IF o.day <= 28 THEN o ELSE LastDay(o, Least(o.month, 12), DayOfMonths(FALSE))
adjustMonth(o) == IF o.day <= 28 THEN o ELSE LastDay(o, Least(o.month, 12), DayOfMonths(isLeap(o.year)))

addMonth(n) ==
  LET o == MonthsOn(open_time, n)
  IN  o.month <= MaxUint16 /\ Call("month", n) /\ Convert(adjustMonth(o))
addQuarter(n) == addMonth(3 * n)

(* addYear, the setters (setHour for setMinute and setSecond as well), and *)
(* what reads a string or a number: fromString without a format, fromGMT   *)
(* and fromIntTime set everything, fromString only what the format names.  *)
Assign(o) == Call("date", 0) /\ Convert(o)
addYear(n) == Assign([open_time EXCEPT !.year = @ + n])
setDay(d) == Assign([open_time EXCEPT !.day = d])
setMonth(m) == Assign([open_time EXCEPT !.month = m])
setYear(y) == Assign([open_time EXCEPT !.year = y])
setHour(h) == Assign([open_time EXCEPT !.hour = uint16(h)])
fromString(y, m, d, s) == Assign(WithTime(WithDate(open_time, y, m, d), s))
fromFormat(y, m, d) == Assign(WithDate(open_time, y, m, d))

(* fromGMT stores each part as it reads it; if the string ends early it    *)
(* returns false, and the Unix time is not derived.                        *)
fromGMTFails(y, m, d, s) ==
  LET date == WithDate(open_time, y, m, d)
      time == WithTime(date, s)
  IN  /\ Call("part", 0)
      /\ open_time' \in {open_time, [open_time EXCEPT !.day = d], [open_time EXCEPT !.day = d, !.month = m],
                         date, [date EXCEPT !.hour = time.hour], [time EXCEPT !.second = date.second]}

ClockCall ==
  \/ \E u \in Instants : setUnixtime(u)
  \/ \E timezone \in Timezones : setTimezone(timezone)
  \/ \E n \in Signed : (\E unit \in {1, 60, 3600} : addTime(unit, n)) \/ addDay(n)
  \/ copy
DateCall ==
  \/ \E n \in Signed : addMonth(n) \/ addQuarter(n) \/ addYear(n)
  \/ \E d \in MonthDays : setDay(d)
  \/ \E m \in Months : setMonth(m)
  \/ \E y \in Years : setYear(y)
  \/ \E h \in Signed : setHour(h)
  \/ \E y \in Years, m \in Months, d \in MonthDays :
       \/ \E s \in Seconds : fromString(y, m, d, s) \/ fromGMTFails(y, m, d, s)
       \/ fromFormat(y, m, d)

Next == ClockCall \/ DateCall
Spec == Init /\ [][Next]_vars
==============================================================================

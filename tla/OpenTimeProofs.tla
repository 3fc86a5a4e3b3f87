--------------------------- MODULE OpenTimeProofs ---------------------------
(***************************************************************************)
(* Proofs, for any days, amounts and sequences of calls, that the date and *)
(* the Unix time of an OpenTime stand for one instant of the Gregorian     *)
(* calendar, where the properties say so.  The loops of the code and the   *)
(* sums of the calendar are recursive functions, so induction comes first. *)
(***************************************************************************)
EXTENDS OpenTimeProperties, TLAPS, FiniteSetTheorems, SequenceTheorems, WellFoundedInduction

Below == {p \in Nat \X Nat : p[1] < p[2]}

LEMMA BelowWellFounded == IsWellFoundedOn(Below, Nat)
BY NatLessThanWellFounded DEF Below, OpToRel

(* A set that has 0 and the successors of its numbers has all of Nat: what *)
(* is to be proved of every number is put as the set of those that have it. *)
LEMMA Induction ==
  ASSUME NEW S, 0 \in S, \A n \in Nat : n \in S => n + 1 \in S
  PROVE  Nat \subseteq S
<1> DEFINE Missing == Nat \ S
<1>1. SUFFICES ASSUME Missing # {} PROVE FALSE OBVIOUS
<1>2. PICK x \in Missing : \A y \in Missing : <<y, x>> \notin Below
  <2> HIDE DEF Missing
  <2>1. Missing \subseteq Nat BY DEF Missing
  <2> QED BY <1>1, <2>1, WFMin, BelowWellFounded
<1>3. x - 1 \in Nat /\ x - 1 \in Missing OBVIOUS
<1>4. <<x - 1, x>> \in Below BY <1>3 DEF Below
<1> HIDE DEF Missing
<1> QED BY <1>2, <1>3, <1>4

(* A loop of n turns: whatever a turn does to a value of S, there is a     *)
(* function that holds the value after each number of turns.               *)
Turns(n, S) == [1 .. n -> [S -> S]]
IsLoop(f, S, n, start, turn) ==
  f \in [0 .. n -> S] /\ f = [j \in 0 .. n |-> IF j = 0 THEN start ELSE turn[j][f[j - 1]]]

LEMMA LoopRuns ==
  ASSUME NEW S, NEW start \in S, NEW n \in Nat, NEW turn \in Turns(n, S)
  PROVE  \E f : IsLoop(f, S, n, start, turn)
<1> USE DEF Turns
<1> DEFINE Runs(f, k) == f[0] = start /\ \A j \in 1 .. k : f[j] = turn[j][f[j - 1]]
           Done == {k \in Nat : k <= n => \E f \in [0 .. k -> S] : Runs(f, k)}
<1>1. 0 \in Done
  <2> DEFINE f == [j \in 0 .. 0 |-> start]
  <2>1. f \in [0 .. 0 -> S] /\ Runs(f, 0) OBVIOUS
  <2> QED BY <2>1
<1>2. ASSUME NEW k \in Nat, k \in Done PROVE k + 1 \in Done
  <2> SUFFICES ASSUME k + 1 <= n PROVE \E g \in [0 .. k + 1 -> S] : Runs(g, k + 1) OBVIOUS
  <2>1. PICK f \in [0 .. k -> S] : Runs(f, k) BY <1>2
  <2>2. f[k] \in S /\ k + 1 \in 1 .. n BY <2>1
  <2>3. turn[k + 1][f[k]] \in S BY <2>2
  <2> DEFINE g == [j \in 0 .. k + 1 |-> IF j <= k THEN f[j] ELSE turn[k + 1][f[k]]]
  <2>4. g \in [0 .. k + 1 -> S] BY <2>1, <2>3
  <2>5. Runs(g, k + 1)
    <3>1. g[0] = start BY <2>1
    <3>2. ASSUME NEW j \in 1 .. k + 1 PROVE g[j] = turn[j][g[j - 1]]
      <4>1. CASE j <= k BY <4>1, <2>1
      <4>2. CASE j = k + 1 BY <4>2, <2>1
      <4> QED BY <4>1, <4>2
    <3> QED BY <3>1, <3>2
  <2> QED BY <2>4, <2>5
<1>3. n \in Done
  <2> HIDE DEF Done
  <2> QED BY <1>1, <1>2, Induction
<1>4. PICK f \in [0 .. n -> S] : Runs(f, n) BY <1>3
<1>5. f = [j \in 0 .. n |-> IF j = 0 THEN start ELSE turn[j][f[j - 1]]]
  BY <1>4
<1> QED BY <1>5 DEF IsLoop

(* The same without an end: f[n] is the value after n turns.               *)
IsEndlessLoop(f, S, start, turn) ==
  f \in [Nat -> S] /\ f = [i \in Nat |-> IF i = 0 THEN start ELSE turn[f[i - 1]]]

LEMMA LoopGoesOn ==
  ASSUME NEW S, NEW start \in S, NEW turn \in [S -> S]
  PROVE  \E f : IsEndlessLoop(f, S, start, turn)
<1> DEFINE Runs(f, k) == f[0] = start /\ \A j \in 1 .. k : f[j] = turn[f[j - 1]]
<1>1. \A k \in Nat : \E f \in [0 .. k -> S] : Runs(f, k)
  <2> SUFFICES ASSUME NEW k \in Nat PROVE \E f \in [0 .. k -> S] : Runs(f, k) OBVIOUS
  <2> DEFINE turns == [j \in 1 .. k |-> turn]
  <2>1. turns \in Turns(k, S) BY DEF Turns
  <2>2. PICK f : IsLoop(f, S, k, start, turns)
    <3> HIDE DEF turns
    <3> QED BY <2>1, LoopRuns
  <2>3. \A j \in 1 .. k : turns[j] = turn OBVIOUS
  <2> HIDE DEF turns
  <2>4. f \in [0 .. k -> S] /\ f[0] = start BY <2>2 DEF IsLoop
  <2>5. ASSUME NEW j \in 1 .. k PROVE f[j] = turn[f[j - 1]]
    <3>1. f[j] = turns[j][f[j - 1]] BY <2>2 DEF IsLoop
    <3> QED BY <2>3, <3>1
  <2> QED BY <2>4, <2>5
<1>2. ASSUME NEW k \in Nat, NEW m \in Nat, k <= m,
             NEW f \in [0 .. k -> S], Runs(f, k), NEW g \in [0 .. m -> S], Runs(g, m)
      PROVE  f[k] = g[k]
  <2> DEFINE Same == {j \in Nat : j <= k => f[j] = g[j]}
  <2>1. 0 \in Same BY <1>2
  <2>2. ASSUME NEW j \in Nat, j \in Same PROVE j + 1 \in Same
    <3> SUFFICES ASSUME j + 1 <= k PROVE f[j + 1] = g[j + 1] OBVIOUS
    <3>1. f[j] = g[j] /\ j + 1 \in 1 .. k /\ j + 1 \in 1 .. m BY <1>2, <2>2
    <3>2. f[j + 1] = turn[f[(j + 1) - 1]] /\ g[j + 1] = turn[g[(j + 1) - 1]] BY <1>2, <3>1
    <3> QED BY <3>1, <3>2
  <2>3. k \in Same
    <3> HIDE DEF Same
    <3> QED BY <2>1, <2>2, Induction
  <2> QED BY <2>3
<1> DEFINE Loop(k) == CHOOSE f \in [0 .. k -> S] : Runs(f, k)
           f == [i \in Nat |-> Loop(i)[i]]
<1>3. \A k \in Nat : Loop(k) \in [0 .. k -> S] /\ Runs(Loop(k), k) BY <1>1
<1> HIDE DEF Loop
<1>4. f \in [Nat -> S] BY <1>3
<1>5. f[0] = start BY <1>3
<1>6. ASSUME NEW i \in Nat, i # 0 PROVE f[i] = turn[f[i - 1]]
  <2>1. i - 1 \in Nat /\ i - 1 <= i /\ i \in 1 .. i BY <1>6
  <2>2. Loop(i)[i] = turn[Loop(i)[i - 1]] BY <1>3, <2>1
  <2>3. Loop(i - 1)[i - 1] = Loop(i)[i - 1]
    <3> HIDE DEF Runs
    <3> QED BY <1>2, <1>3, <2>1
  <2> QED BY <2>1, <2>2, <2>3
<1>7. f = [i \in Nat |-> IF i = 0 THEN start ELSE turn[f[i - 1]]]
  <2> HIDE DEF f
  <2>1. \A i \in Nat : f[i] = IF i = 0 THEN start ELSE turn[f[i - 1]] BY <1>5, <1>6
  <2> QED BY <1>4, <2>1
<1> HIDE DEF f
<1> QED BY <1>4, <1>7 DEF IsEndlessLoop

------------------------------------------------------------------------------
(* Instants and years.                                                     *)

(* A named bound stands for its number only where the number matters.      *)
LEMMA Division ==
  ASSUME NEW s \in Int
  PROVE  /\ s \div 86400 \in Int /\ s % 86400 \in 0 .. LastSecond
         /\ s = 86400 * (s \div 86400) + (s % 86400)
<1>1. 0 <= s % 86400 /\ s % 86400 <= LastSecond BY DEF LastSecond
<1> QED BY <1>1

LEMMA DivisionOfSum ==
  ASSUME NEW s \in Int, NEW b \in Int
  PROVE  /\ (s \div 86400) + (((s % 86400) + b) \div 86400) = (s + b) \div 86400
         /\ ((s % 86400) + b) % 86400 = (s + b) % 86400
OBVIOUS

LEMMA AfterIsMoment ==
  ASSUME NEW u, u.day \in Int, u.second \in Int, NEW s \in Int
  PROVE  After(u, s) \in Moments
<1>1. PICK t \in Int : t = u.second + s OBVIOUS
<1>2. After(u, s) = [day |-> u.day + (t \div 86400), second |-> t % 86400] BY <1>1 DEF After
<1>3. t \div 86400 \in Int /\ t % 86400 \in 0 .. LastSecond BY Division
<1>4. u.day + (t \div 86400) \in Int BY <1>3
<1> QED BY <1>2, <1>3, <1>4 DEF Moments

(* Seconds may be added at once or one after the other.                    *)
LEMMA AfterAfter ==
  ASSUME NEW u, u.day \in Int, u.second \in Int, NEW a \in Int, NEW b \in Int
  PROVE  After(After(u, a), b) = After(u, a + b)
<1>1. PICK d \in Int : d = u.day OBVIOUS
<1>2. PICK s \in Int : s = u.second + a OBVIOUS
<1>3. /\ After(u, a) = [day |-> d + (s \div 86400), second |-> s % 86400]
      /\ u.second + (a + b) = s + b
  BY <1>1, <1>2 DEF After
<1>4. After(After(u, a), b) = [day |-> (d + (s \div 86400)) + (((s % 86400) + b) \div 86400),
                              second |-> ((s % 86400) + b) % 86400]
  BY <1>3 DEF After
<1>5. After(u, a + b) = [day |-> d + ((s + b) \div 86400), second |-> (s + b) % 86400]
  BY <1>1, <1>3 DEF After
<1>6. (d + (s \div 86400)) + (((s % 86400) + b) \div 86400) = d + ((s + b) \div 86400)
  BY DivisionOfSum
<1> QED BY <1>4, <1>5, <1>6, DivisionOfSum

(* The code's leap years are the calendar's, and up to 2099 they are the   *)
(* ones that 4 divides.                                                    *)
LEMMA LeapYears ==
  ASSUME NEW y \in Int
  PROVE  /\ isLeap(y) <=> LeapYear(y)
         /\ 1970 <= y /\ y <= 2099 => (LeapYear(y) <=> y % 4 = 0)
         /\ ~LeapYear(2100)
<1>1. y % 4 = 0 <=> 4 * (y \div 4) = y OBVIOUS
<1>2. y % 100 = 0 <=> 100 * (y \div 100) = y OBVIOUS
<1>3. y % 400 = 0 <=> 400 * (y \div 400) = y OBVIOUS
<1>4. (y % 400 = 0 => y % 100 = 0) /\ (y % 100 = 0 => y % 4 = 0) OBVIOUS
<1>5. 1970 <= y /\ y <= 2099 /\ y % 100 = 0 => y = 2000 OBVIOUS
<1>6. isLeap(y) <=> LeapYear(y) BY <1>1, <1>2, <1>3, <1>4 DEF isLeap, LeapYear
<1>7. isLeap(y) /\ 1970 <= y /\ y <= 2099 => y % 4 = 0 BY <1>4 DEF isLeap
<1>8. y % 4 = 0 /\ 1970 <= y /\ y <= 2099 => isLeap(y) BY <1>5 DEF isLeap
<1>9. ~LeapYear(2100) BY DEF LeapYear
<1> QED BY <1>6, <1>7, <1>8, <1>9

(* The day on which a year begins, with every fourth year from 1972 on a   *)
(* leap year, but 2100.                                                    *)
LEMMA NewYears ==
  /\ \A y \in Int : 1970 <= y /\ y <= 2100 => NewYear(y) = 365 * (y - 1970) + ((y - 1969) \div 4)
  /\ NewYear(2101) = 47847
<1> DEFINE leaps(y) == {k \in 1970 .. y - 1 : LeapYear(k)}
           Counted == {n \in Nat : n <= 130 => /\ IsFiniteSet(leaps(1970 + n))
                                               /\ Cardinality(leaps(1970 + n)) = (n + 1) \div 4}
<1>1. 0 \in Counted
  <2>1. leaps(1970 + 0) = {} OBVIOUS
  <2>2. (0 + 1) \div 4 = 0 OBVIOUS
  <2> QED BY <2>1, <2>2, FS_EmptySet
<1>2. ASSUME NEW n \in Nat, n \in Counted PROVE n + 1 \in Counted
  <2> SUFFICES ASSUME n + 1 <= 130
               PROVE  /\ IsFiniteSet(leaps(1970 + (n + 1)))
                      /\ Cardinality(leaps(1970 + (n + 1))) = ((n + 1) + 1) \div 4
    OBVIOUS
  <2>1. IsFiniteSet(leaps(1970 + n)) /\ Cardinality(leaps(1970 + n)) = (n + 1) \div 4 BY <1>2
  <2>2. 1970 + n \in Int /\ 1970 <= 1970 + n /\ 1970 + n <= 2099 OBVIOUS
  <2>3. LeapYear(1970 + n) <=> (1970 + n) % 4 = 0
    <3> HIDE DEF leaps, Counted
    <3> QED BY <2>2, LeapYears
  <2>4. 1970 .. (1970 + (n + 1)) - 1 = (1970 .. (1970 + n) - 1) \cup {1970 + n} OBVIOUS
  <2>5. CASE LeapYear(1970 + n)
    <3>1. leaps(1970 + (n + 1)) = leaps(1970 + n) \cup {1970 + n} BY <2>4, <2>5
    <3>2. 1970 + n \notin leaps(1970 + n) OBVIOUS
    <3>3. ((n + 1) + 1) \div 4 = ((n + 1) \div 4) + 1 BY <2>3, <2>5
    <3> HIDE DEF leaps
    <3> QED BY <2>1, <3>1, <3>2, <3>3, FS_AddElement
  <2>6. CASE ~LeapYear(1970 + n)
    <3>1. leaps(1970 + (n + 1)) = leaps(1970 + n) BY <2>4, <2>6
    <3>2. ((n + 1) + 1) \div 4 = (n + 1) \div 4 BY <2>3, <2>6
    <3> HIDE DEF leaps
    <3> QED BY <2>1, <3>1, <3>2
  <2> QED BY <2>5, <2>6
<1>3. Nat \subseteq Counted
  <2>1. \A n \in Nat : n \in Counted => n + 1 \in Counted BY <1>2
  <2> HIDE DEF Counted
  <2> QED BY <1>1, <2>1, Induction
<1>4. ASSUME NEW y \in Int, 1970 <= y, y <= 2100
      PROVE  /\ Cardinality(leaps(y)) = (y - 1969) \div 4
             /\ NewYear(y) = 365 * (y - 1970) + ((y - 1969) \div 4)
  <2>1. y - 1970 \in Nat /\ y - 1970 <= 130 /\ 1970 + (y - 1970) = y /\ (y - 1970) + 1 = y - 1969
    BY <1>4
  <2>2. y - 1970 \in Counted
    <3> HIDE DEF Counted
    <3> QED BY <1>3, <2>1
  <2>3. Cardinality(leaps(y)) = (y - 1969) \div 4 BY <2>1, <2>2
  <2> QED BY <2>3 DEF NewYear
<1>5. NewYear(2101) = 47847
  <2>1. leaps(2101) = leaps(2100) BY LeapYears
  <2>2. Cardinality(leaps(2100)) = (2100 - 1969) \div 4
    <3> HIDE DEF leaps
    <3> QED BY <1>4
  <2>3. NewYear(2101) = 365 * (2101 - 1970) + Cardinality(leaps(2101)) BY DEF NewYear
  <2> HIDE DEF leaps
  <2>4. (2100 - 1969) \div 4 = 32 OBVIOUS
  <2> QED BY <2>1, <2>2, <2>3, <2>4
<1> HIDE DEF leaps, Counted
<1> QED BY <1>4, <1>5

------------------------------------------------------------------------------
(* Months.                                                                 *)

(* Days of a year before the month m begins; 13 stands for the year's end. *)
DaysBefore(leap, m) ==
  <<0, 31, 59, 90, 120, 151, 181, 212, 243, 273, 304, 334, 365>>[m]
  + IF leap /\ m > 2 THEN 1 ELSE 0

LEMMA MonthLengths ==
  ASSUME NEW leap \in BOOLEAN, NEW j \in 1 .. 12
  PROVE  /\ DayOfMonths(leap)[j] \in 28 .. 31
         /\ DaysBefore(leap, j) \in Nat
         /\ DaysBefore(leap, j + 1) = DaysBefore(leap, j) + DayOfMonths(leap)[j]
         /\ DaysBefore(leap, 1) = 0
         /\ DaysBefore(leap, 13) = IF leap THEN 366 ELSE 365
BY DEF DayOfMonths, DaysBefore

LEMMA CalendarMonths ==
  ASSUME NEW y, LeapYear(y) \in BOOLEAN, NEW m \in 1 .. 12
  PROVE  MonthLength(y, m) = DayOfMonths(LeapYear(y))[m]
BY DEF DayOfMonths, MonthLength

LEMMA DayOfMonthsIsSeq ==
  ASSUME NEW leap \in BOOLEAN
  PROVE  DayOfMonths(leap) \in Seq(Int) /\ Len(DayOfMonths(leap)) = 12
BY DEF DayOfMonths

(* The recursive function in Sum does what its definition says.            *)
LEMMA SumUnfolds ==
  ASSUME NEW s \in Seq(Int)
  PROVE  \E f \in [0 .. Len(s) -> Int] :
           /\ f[0] = 0
           /\ \A j \in 1 .. Len(s) : f[j] = f[j - 1] + s[j]
           /\ Sum(s) = f[Len(s)]
<1>1. PICK n \in Nat : n = Len(s) OBVIOUS
<1> DEFINE turn == [j \in 1 .. n |-> [x \in Int |-> x + s[j]]]
<1>2. \A j \in 1 .. n : s[j] \in Int BY <1>1
<1>3. turn \in Turns(n, Int) BY <1>2 DEF Turns
<1>4. \A j \in 1 .. n : \A x \in Int : turn[j][x] = x + s[j] OBVIOUS
<1> HIDE DEF turn
<1>5. PICK f : IsLoop(f, Int, n, 0, turn)
  <2>1. PICK S, zero : S = Int /\ zero = 0 OBVIOUS
  <2>2. zero \in S /\ turn \in Turns(n, S) BY <1>3, <2>1
  <2>3. \E f : IsLoop(f, S, n, zero, turn) BY <2>2, LoopRuns
  <2> QED BY <2>1, <2>3
<1> USE DEF IsLoop
<1> DEFINE IsSum(h) == h = [j \in 0 .. n |-> IF j = 0 THEN 0 ELSE h[j - 1] + s[j]]
           g == CHOOSE h : IsSum(h)
<1>6. IsSum(f)
  <2>1. \A j \in 0 .. n : j # 0 => j \in 1 .. n /\ f[j - 1] \in Int BY <1>5
  <2>2. \A j \in 0 .. n : j # 0 => turn[j][f[j - 1]] = f[j - 1] + s[j] BY <1>4, <2>1
  <2>3. \A j \in 0 .. n : f[j] = IF j = 0 THEN 0 ELSE f[j - 1] + s[j] BY <1>5, <2>2
  <2> HIDE DEF g
  <2> QED BY <1>1, <1>5, <2>3
<1>7. IsSum(g)
  <2> HIDE DEF IsSum
  <2> QED BY <1>6
<1>8. Sum(s) = g[Len(s)] BY <1>1 DEF Sum
<1> HIDE DEF g
<1>9. g[0] = 0 /\ \A j \in 1 .. Len(s) : g[j] = g[j - 1] + s[j]
  <2>1. \A j \in 0 .. n : g[j] = IF j = 0 THEN 0 ELSE g[j - 1] + s[j] BY <1>7
  <2> QED BY <1>1, <2>1
<1>10. g \in [0 .. Len(s) -> Int]
  <2> DEFINE Typed == {j \in Nat : j <= Len(s) => g[j] \in Int}
  <2>1. 0 \in Typed BY <1>9
  <2>2. ASSUME NEW j \in Nat, j \in Typed PROVE j + 1 \in Typed
    <3>1. CASE j + 1 <= Len(s)
      <4>1. j + 1 \in 1 .. Len(s) /\ (j + 1) - 1 = j /\ g[j] \in Int BY <1>1, <2>2, <3>1
      <4> QED BY <1>9, <4>1
    <3>2. CASE ~(j + 1 <= Len(s)) BY <3>2
    <3> QED BY <3>1, <3>2
  <2>3. Nat \subseteq Typed
    <3> HIDE DEF Typed
    <3> QED BY <2>1, <2>2, Induction
  <2>4. \A j \in 0 .. Len(s) : g[j] \in Int BY <1>1, <2>3
  <2> QED BY <1>1, <1>7, <2>4
<1> QED BY <1>8, <1>9, <1>10

(* The code's days before a month are those of the table above.            *)
LEMMA MonthsBeforeIs ==
  ASSUME NEW y, isLeap(y) \in BOOLEAN, NEW m \in 1 .. 12
  PROVE  MonthsBefore(y, m) = DaysBefore(isLeap(y), m)
<1>1. PICK leap \in BOOLEAN : leap = isLeap(y) OBVIOUS
<1>2. PICK s \in Seq(Int) : s = SubSeq(DayOfMonths(leap), 1, m - 1)
                         /\ Len(s) = m - 1 /\ \A j \in 1 .. m - 1 : s[j] = DayOfMonths(leap)[j]
  <2>1. PICK t \in Seq(Int) : t = DayOfMonths(leap) /\ Len(t) = 12 BY DayOfMonthsIsSeq
  <2>2. PICK n \in Int : n = m - 1 /\ 0 <= n /\ n <= 11 OBVIOUS
  <2>3. \A i \in 1 .. n : t[i] \in Int
    <3>1. \A i \in 1 .. Len(t) : t[i] \in Int OBVIOUS
    <3>2. \A i \in 1 .. n : i \in 1 .. Len(t) BY <2>1, <2>2
    <3> QED BY <3>1, <3>2
  <2>4. /\ SubSeq(t, 1, n) \in Seq(Int)
        /\ Len(SubSeq(t, 1, n)) = IF 1 <= n THEN n - 1 + 1 ELSE 0
        /\ \A i \in 1 .. n - 1 + 1 : SubSeq(t, 1, n)[i] = t[1 + i - 1]
    <3>1. PICK S : S = Int OBVIOUS
    <3>2. \A i \in 1 .. n : t[i] \in S BY <2>3, <3>1
    <3>3. SubSeq(t, 1, n) \in Seq(S) BY <3>2, SubSeqProperties
    <3> QED BY <3>1, <3>2, <3>3, SubSeqProperties
  <2>5. Len(SubSeq(t, 1, n)) = n BY <2>2, <2>4
  <2>6. \A i \in 1 .. n : SubSeq(t, 1, n)[i] = t[i] BY <2>2, <2>4
  <2> QED BY <2>1, <2>2, <2>4, <2>5, <2>6
<1>3. PICK f \in [0 .. Len(s) -> Int] :
        /\ f[0] = 0
        /\ \A j \in 1 .. Len(s) : f[j] = f[j - 1] + s[j]
        /\ Sum(s) = f[Len(s)]
  BY SumUnfolds
<1>4. /\ DaysBefore(leap, 1) = 0
      /\ \A k \in 1 .. 12 : DaysBefore(leap, k + 1) = DaysBefore(leap, k) + DayOfMonths(leap)[k]
  BY MonthLengths
<1> DEFINE Right == {j \in Nat : j < m => f[j] = DaysBefore(leap, j + 1)}
<1>5. 0 \in Right BY <1>3, <1>4
<1>6. ASSUME NEW j \in Nat, j \in Right PROVE j + 1 \in Right
  <2> SUFFICES ASSUME j + 1 < m PROVE f[j + 1] = DaysBefore(leap, (j + 1) + 1) OBVIOUS
  <2>1. j + 1 \in 1 .. Len(s) /\ j + 1 \in 1 .. 12 /\ (j + 1) - 1 = j BY <1>2
  <2>2. f[j] = DaysBefore(leap, j + 1) BY <1>6
  <2>3. f[j + 1] = f[j] + s[j + 1] /\ s[j + 1] = DayOfMonths(leap)[j + 1] BY <1>2, <1>3, <2>1
  <2>4. DaysBefore(leap, (j + 1) + 1) = DaysBefore(leap, j + 1) + DayOfMonths(leap)[j + 1]
    BY <1>4, <2>1
  <2> QED BY <2>2, <2>3, <2>4
<1>7. m - 1 \in Right
  <2> HIDE DEF Right
  <2>1. Nat \subseteq Right BY <1>5, <1>6, Induction
  <2>2. m - 1 \in Nat OBVIOUS
  <2> QED BY <2>1, <2>2
<1>8. f[m - 1] = DaysBefore(leap, m) BY <1>7
<1> QED BY <1>1, <1>2, <1>3, <1>8 DEF MonthsBefore

(* So are the calendar's.                                                  *)
LEMMA DayNumberIs ==
  ASSUME NEW y, NewYear(y) \in Int, LeapYear(y) \in BOOLEAN, NEW m \in 1 .. 12, NEW d \in Int
  PROVE  DayNumber(y, m, d) = NewYear(y) + DaysBefore(LeapYear(y), m) + d - 1
<1> DEFINE IsFirst(h) ==
             h = [k \in 1 .. 12 |-> IF k = 1 THEN NewYear(y) ELSE h[k - 1] + MonthLength(y, k - 1)]
           f == [k \in 1 .. 12 |-> NewYear(y) + DaysBefore(LeapYear(y), k)]
           g == CHOOSE h : IsFirst(h)
<1>1. PICK leap \in BOOLEAN : leap = LeapYear(y) OBVIOUS
<1>2. IsFirst(f)
  <2>1. DaysBefore(leap, 1) = 0 BY MonthLengths
  <2>2. ASSUME NEW k \in 1 .. 12, k # 1
        PROVE  DaysBefore(leap, k) = DaysBefore(leap, k - 1) + MonthLength(y, k - 1)
               /\ DaysBefore(leap, k) \in Int /\ DaysBefore(leap, k - 1) \in Int
               /\ MonthLength(y, k - 1) \in Int
    <3>1. k - 1 \in 1 .. 12 /\ (k - 1) + 1 = k BY <2>2
    <3>2. MonthLength(y, k - 1) = DayOfMonths(leap)[k - 1] BY <1>1, <3>1, CalendarMonths
    <3> QED BY <3>1, <3>2, MonthLengths
  <2>3. ASSUME NEW k \in 1 .. 12
        PROVE  f[k] = IF k = 1 THEN NewYear(y) ELSE f[k - 1] + MonthLength(y, k - 1)
    <3>1. CASE k = 1 BY <1>1, <2>1, <3>1
    <3>2. CASE k # 1
      <4>1. k - 1 \in 1 .. 12 BY <3>2
      <4>2. f[k] = NewYear(y) + DaysBefore(leap, k) BY <1>1
      <4>3. f[k - 1] = NewYear(y) + DaysBefore(leap, k - 1) BY <1>1, <4>1
      <4> HIDE DEF f
      <4> QED BY <2>2, <3>2, <4>2, <4>3
    <3> QED BY <3>1, <3>2
  <2> QED BY <2>3
<1>3. IsFirst(g)
  <2> HIDE DEF IsFirst
  <2> QED BY <1>2
<1>4. DayNumber(y, m, d) = g[m] + d - 1 BY DEF DayNumber
<1> HIDE DEF g
<1>5. g[m] = NewYear(y) + DaysBefore(leap, m)
  <2> DEFINE Right == {j \in Nat : j < 12 => g[j + 1] = NewYear(y) + DaysBefore(leap, j + 1)}
  <2>1. 0 \in Right BY <1>3, MonthLengths
  <2>2. ASSUME NEW j \in Nat, j \in Right PROVE j + 1 \in Right
    <3> SUFFICES ASSUME j + 1 < 12
                 PROVE  g[(j + 1) + 1] = NewYear(y) + DaysBefore(leap, (j + 1) + 1)
      OBVIOUS
    <3>1. j + 1 \in 1 .. 12 /\ (j + 1) + 1 \in 1 .. 12 /\ (j + 1) + 1 # 1 /\ ((j + 1) + 1) - 1 = j + 1
      OBVIOUS
    <3>2. g[(j + 1) + 1] = g[j + 1] + MonthLength(y, j + 1) BY <1>3, <3>1
    <3>3. MonthLength(y, j + 1) = DayOfMonths(leap)[j + 1] BY <1>1, <3>1, CalendarMonths
    <3>4. /\ DaysBefore(leap, (j + 1) + 1) = DaysBefore(leap, j + 1) + DayOfMonths(leap)[j + 1]
          /\ DaysBefore(leap, j + 1) \in Int /\ DayOfMonths(leap)[j + 1] \in Int
      BY <3>1, MonthLengths
    <3>5. g[j + 1] = NewYear(y) + DaysBefore(leap, j + 1) BY <2>2
    <3> HIDE DEF IsFirst
    <3> QED BY <3>2, <3>3, <3>4, <3>5
  <2>3. m - 1 \in Right
    <3> HIDE DEF Right
    <3> QED BY <2>1, <2>2, Induction
  <2> QED BY <2>3
<1> QED BY <1>1, <1>4, <1>5

(* What the loop over the months finds: with a return in it the month that *)
(* holds the rest, if the year does.                                       *)
LEMMA MonthLoopFinds ==
  ASSUME NEW leap \in BOOLEAN, NEW rest \in Nat, NEW returns \in BOOLEAN, NEW m,
         m = MonthLoop(leap, rest, returns)
  PROVE  /\ m.month \in 1 .. 12 /\ m.day \in 0 .. 31
         /\ returns /\ rest < DaysBefore(leap, 13) =>
              m.day >= 1 /\ DaysBefore(leap, m.month) + m.day - 1 = rest
<1> DEFINE S == [month : 0 .. 12, day : 0 .. 31, rest : Nat, returned : BOOLEAN]
           start == [month |-> 0, day |-> 0, rest |-> rest, returned |-> FALSE]
           Turn(s, j) ==
             IF s.returned THEN s
             ELSE IF s.rest >= DayOfMonths(leap)[j]
                  THEN [s EXCEPT !.month = j, !.rest = @ - DayOfMonths(leap)[j]]
                  ELSE [s EXCEPT !.month = j, !.day = s.rest + 1, !.returned = returns]
           turn == [j \in 1 .. 12 |-> [s \in S |-> Turn(s, j)]]
           IsAfter(h) == h = [j \in 0 .. 12 |-> IF j = 0 THEN start ELSE Turn(h[j - 1], j)]
           g == CHOOSE h : IsAfter(h)
<1>1. /\ \A j \in 1 .. 12 : /\ DayOfMonths(leap)[j] \in 28 .. 31
                            /\ DaysBefore(leap, j) \in Nat
                            /\ DaysBefore(leap, j + 1) = DaysBefore(leap, j) + DayOfMonths(leap)[j]
      /\ DaysBefore(leap, 1) = 0
  BY MonthLengths
<1>2. ASSUME NEW s \in S, NEW j \in 1 .. 12
      PROVE  /\ Turn(s, j) \in S
             /\ s.returned => Turn(s, j) = s
             /\ ~s.returned /\ s.rest >= DayOfMonths(leap)[j] =>
                  Turn(s, j).month = j /\ Turn(s, j).rest = s.rest - DayOfMonths(leap)[j] /\ ~Turn(s, j).returned
             /\ ~s.returned /\ ~(s.rest >= DayOfMonths(leap)[j]) =>
                  /\ Turn(s, j).month = j /\ Turn(s, j).day = s.rest + 1
                  /\ Turn(s, j).rest = s.rest /\ Turn(s, j).returned = returns
  <2>1. PICK length \in 28 .. 31 : length = DayOfMonths(leap)[j] BY <1>1
  <2>2. CASE s.returned BY <2>2
  <2>3. CASE ~s.returned /\ s.rest >= length
    <3>1. Turn(s, j) = [month |-> j, day |-> s.day, rest |-> s.rest - length, returned |-> s.returned]
      BY <2>1, <2>3
    <3>2. s.rest - length \in Nat /\ j \in 0 .. 12 BY <2>3
    <3> QED BY <2>1, <2>3, <3>1, <3>2
  <2>4. CASE ~s.returned /\ ~(s.rest >= length)
    <3>1. Turn(s, j) = [month |-> j, day |-> s.rest + 1, rest |-> s.rest, returned |-> returns]
      BY <2>1, <2>4
    <3>2. s.rest + 1 \in 0 .. 31 /\ j \in 0 .. 12 BY <2>4
    <3> QED BY <2>1, <2>4, <3>1, <3>2
  <2> QED BY <2>1, <2>2, <2>3, <2>4
<1>3. start \in S OBVIOUS
<1>4. turn \in Turns(12, S)
  <2>1. \A j \in 1 .. 12 : \A s \in S : Turn(s, j) \in S BY <1>2, Zenon
  <2> HIDE DEF Turn, S
  <2> QED BY <2>1 DEF Turns
<1>5. PICK f : IsLoop(f, S, 12, start, turn)
  <2>1. PICK T, n : T = S /\ n = 12 BY Zenon
  <2> HIDE DEF S, start, turn
  <2>2. n \in Nat /\ start \in T /\ turn \in Turns(n, T) BY <1>3, <1>4, <2>1
  <2>3. \E f : IsLoop(f, T, n, start, turn) BY <2>2, LoopRuns
  <2> QED BY <2>1, <2>3
<1>6. IsAfter(f)
  <2>1. f \in [0 .. 12 -> S] /\ f = [j \in 0 .. 12 |-> IF j = 0 THEN start ELSE turn[j][f[j - 1]]]
    BY <1>5, Zenon DEF IsLoop
  <2>2. \A j \in 1 .. 12 : \A s \in S : turn[j][s] = Turn(s, j)
    <3> HIDE DEF Turn, S
    <3> QED OBVIOUS
  <2> HIDE DEF turn, Turn, start, S
  <2>3. \A j \in 0 .. 12 : j # 0 => j \in 1 .. 12 /\ f[j - 1] \in S BY <2>1
  <2>4. \A j \in 0 .. 12 : j # 0 => turn[j][f[j - 1]] = Turn(f[j - 1], j) BY <2>2, <2>3
  <2>5. \A j \in 0 .. 12 : f[j] = IF j = 0 THEN start ELSE Turn(f[j - 1], j) BY <2>1, <2>4
  <2> QED BY <2>1, <2>5
<1>7. IsAfter(g)
  <2> HIDE DEF IsAfter
  <2> QED BY <1>6
<1>8. m = g[12] BY Zenon DEF MonthLoop
<1> HIDE DEF g, turn
<1>9. g[0] = start /\ \A j \in 1 .. 12 : g[j] = Turn(g[j - 1], j)
  <2> HIDE DEF Turn, start
  <2>1. \A j \in 0 .. 12 : g[j] = IF j = 0 THEN start ELSE Turn(g[j - 1], j) BY <1>7
  <2> QED BY <2>1
<1> DEFINE Good(s, j) ==
             /\ s \in S
             /\ ~returns => ~s.returned
             /\ ~s.returned => s.month = j
             /\ s.returned => /\ s.month \in 1 .. j /\ s.day >= 1
                              /\ DaysBefore(leap, s.month) + s.day - 1 = rest
             /\ returns /\ ~s.returned => DaysBefore(leap, j + 1) + s.rest = rest
           Right == {j \in Nat : j <= 12 => Good(g[j], j)}
<1>10. 0 \in Right
  <2>1. Good(start, 0) BY <1>1, <1>3
  <2> HIDE DEF Good, start
  <2> QED BY <1>9, <2>1
<1>11. ASSUME NEW j \in Nat, j \in Right PROVE j + 1 \in Right
  <2> SUFFICES ASSUME j + 1 <= 12 PROVE Good(g[j + 1], j + 1)
    <3> HIDE DEF Good
    <3> QED OBVIOUS
  <2>1. PICK k \in 1 .. 12 : k = j + 1 OBVIOUS
  <2>2. PICK s \in S : s = g[j] /\ Good(s, j)
    <3> HIDE DEF S
    <3> QED BY <1>11
  <2>3. g[k] = Turn(s, k)
    <3> HIDE DEF Turn, Good
    <3>1. k - 1 = j BY <2>1
    <3> QED BY <1>9, <2>2, <3>1
  <2>4. PICK t \in S : t = Turn(s, k)
    <3> HIDE DEF Turn, S
    <3> QED BY <1>2
  <2>5. /\ s.returned => t = s
        /\ ~s.returned /\ s.rest >= DayOfMonths(leap)[k] =>
             t.month = k /\ t.rest = s.rest - DayOfMonths(leap)[k] /\ ~t.returned
        /\ ~s.returned /\ ~(s.rest >= DayOfMonths(leap)[k]) =>
             t.month = k /\ t.day = s.rest + 1 /\ t.rest = s.rest /\ t.returned = returns
    <3> HIDE DEF Turn, S
    <3> QED BY <1>2, <2>4
  <2> HIDE DEF Turn
  <2>6. PICK length \in 28 .. 31, before \in Nat :
          /\ length = DayOfMonths(leap)[k] /\ before = DaysBefore(leap, k)
          /\ DaysBefore(leap, k + 1) = before + length
    BY <1>1
  <2>7. ASSUME s.returned PROVE Good(t, k) BY <2>1, <2>2, <2>5, <2>7
  <2>8. ASSUME ~s.returned, s.rest >= length PROVE Good(t, k) BY <2>1, <2>2, <2>5, <2>6, <2>8
  <2>9. ASSUME ~s.returned, ~(s.rest >= length) PROVE Good(t, k) BY <2>1, <2>2, <2>5, <2>6, <2>9
  <2>10. Good(t, k)
    <3> HIDE DEF Good
    <3> QED BY <2>7, <2>8, <2>9
  <2> HIDE DEF Good
  <2> QED BY <2>1, <2>3, <2>4, <2>10
<1>12. Good(m, 12)
  <2> HIDE DEF Right
  <2>1. 12 \in Right BY <1>10, <1>11, Induction
  <2> USE DEF Right
  <2> HIDE DEF Good
  <2> QED BY <1>8, <2>1
<1> HIDE DEF start, Turn, Right
<1>13. PICK end \in Nat : end = DaysBefore(leap, 13)
  <2>1. DaysBefore(leap, 12 + 1) = DaysBefore(leap, 12) + DayOfMonths(leap)[12]
        /\ DaysBefore(leap, 12) \in Nat /\ DayOfMonths(leap)[12] \in Nat
    BY <1>1
  <2> QED BY <2>1
<1>14. m \in S /\ m.month \in 1 .. 12 BY <1>12
<1>15. ASSUME returns, rest < end PROVE m.returned
  <2> SUFFICES ASSUME ~m.returned PROVE FALSE OBVIOUS
  <2>1. DaysBefore(leap, 12 + 1) + m.rest = rest BY <1>12, <1>15, Zenon
  <2>2. PICK left \in Nat : left = m.rest BY <1>14
  <2>3. 12 + 1 = 13 OBVIOUS
  <2>4. end + left = rest BY <1>13, <2>1, <2>2, <2>3, Zenon
  <2> HIDE DEF Good, S
  <2> QED BY <1>15, <2>4
<1>16. m.returned => m.day >= 1 /\ DaysBefore(leap, m.month) + m.day - 1 = rest BY <1>12
<1> HIDE DEF Good
<1> QED BY <1>13, <1>14, <1>15, <1>16

------------------------------------------------------------------------------
(* From the Unix time to the date.                                         *)

(* The day d lies in the year YearOf finds, as many days from its beginning. *)
LEMMA YearFound ==
  ASSUME NEW d \in Nat, NEW y, y = YearOf(d)
  PROVE  /\ y.year \in Nat /\ y.rest \in Nat /\ 1970 <= y.year
         /\ d < NewYear(2101) => /\ y.year <= 2100
                                 /\ NewYear(y.year) \in Int /\ NewYear(y.year + 1) \in Int
                                 /\ NewYear(y.year) + y.rest = d
                                 /\ d < NewYear(y.year + 1)
                                 /\ y.rest < 366
                                 /\ y.year % 4 # 0 => y.rest < 365
<1>1. CASE d < 1096
  <2>1. PICK k \in Int : k = Least(d \div 365, 2) /\ 0 <= k /\ k <= 2
                         /\ (k < 2 => 365 * k <= d /\ d < 365 * k + 365) /\ (k = 2 => 730 <= d)
    BY DEF Least
  <2>2. PICK year \in Int, next \in Int :
          year = 1970 + k /\ next = year + 1 /\ 1970 <= year /\ year <= 1972
    BY <2>1
  <2>3. y.year = year /\ y.rest = d - 365 * k BY <1>1, <2>1, <2>2 DEF YearOf, FirstYears
  <2>4. /\ NewYear(year) = 365 * (year - 1970) + ((year - 1969) \div 4)
        /\ NewYear(next) = 365 * (next - 1970) + ((next - 1969) \div 4)
    BY <2>2, NewYears
  <2>5. NewYear(year) = 365 * k /\ NewYear(next) = 365 * k + (IF k = 2 THEN 366 ELSE 365)
    BY <2>1, <2>2, <2>4
  <2>6. (year % 4 # 0 => k < 2) /\ d - 365 * k \in Nat /\ d - 365 * k < 366 BY <1>1, <2>1, <2>2
  <2>7. /\ NewYear(year) + (d - 365 * k) = d /\ d < NewYear(next)
        /\ NewYear(year) \in Int /\ NewYear(next) \in Int
    BY <1>1, <2>1, <2>5
  <2>8. (year % 4 # 0 => d - 365 * k < 365) /\ year \in Nat BY <2>1, <2>2, <2>6
  <2> QED BY <2>2, <2>3, <2>6, <2>7, <2>8
<1>2. CASE ~(d < 1096)
  <2>1. PICK c \in Nat, r \in Nat : /\ c = (d - 1096) \div 1461 /\ r = (d - 1096) % 1461
                                    /\ d = 1096 + 1461 * c + r /\ r < 1461
    BY <1>2
  <2>2. PICK k \in Int : k = Least(r \div 365, 3) /\ 0 <= k /\ k <= 3
                         /\ 365 * k <= r /\ r < 365 * k + (IF k = 3 THEN 366 ELSE 365)
    BY <2>1 DEF Least
  <2>3. PICK year \in Nat : year = 1973 + 4 * c + k BY <2>1, <2>2
  <2>4. y.year = year /\ y.rest = r - 365 * k
    BY <1>2, <2>1, <2>2, <2>3 DEF YearOf, FirstYears, Cycle
  <2>5. ASSUME d < 47847
        PROVE  /\ year <= 2100 /\ NewYear(year) \in Int /\ NewYear(year + 1) \in Int
               /\ NewYear(year) + (r - 365 * k) = d
               /\ d < NewYear(year + 1)
    <3>1. c <= 31 /\ year <= 2100 BY <2>1, <2>2, <2>3, <2>5
    <3>2. NewYear(year) = 365 * (year - 1970) + ((year - 1969) \div 4) BY <2>1, <2>2, <2>3, <3>1, NewYears
    <3>3. (year - 1969) \div 4 = 1 + c BY <2>2, <2>3
    <3>4. NewYear(year) = 1096 + 1461 * c + 365 * k BY <2>3, <3>2, <3>3
    <3>5. CASE year < 2100
      <4>1. year + 1 \in Int /\ 1970 <= year + 1 /\ year + 1 <= 2100 BY <2>3, <2>1, <2>2, <3>5
      <4>2. NewYear(year + 1) = 365 * ((year + 1) - 1970) + (((year + 1) - 1969) \div 4) BY <4>1, NewYears
      <4>3. ((year + 1) - 1969) \div 4 = 1 + c + (IF k = 3 THEN 1 ELSE 0) BY <2>2, <2>3
      <4> QED BY <2>1, <2>2, <2>3, <3>1, <3>4, <4>2, <4>3
    <3>6. CASE year = 2100
      <4>1. c = 31 /\ k = 3 BY <2>2, <2>3, <3>6
      <4>2. NewYear(year + 1) = 47847 BY <3>6, NewYears
      <4> QED BY <2>1, <2>2, <2>5, <3>1, <3>4, <4>1, <4>2
    <3> QED BY <3>1, <3>5, <3>6
  <2>6. year % 4 # 0 => k # 3 BY <2>1, <2>2, <2>3
  <2>7. r - 365 * k \in Nat /\ r - 365 * k < 366 /\ (k # 3 => r - 365 * k < 365) BY <2>1, <2>2
  <2> QED BY <2>1, <2>2, <2>3, <2>4, <2>5, <2>6, <2>7, NewYears
<1> QED BY <1>1, <1>2

LEMMA Fits ==
  ASSUME NEW n \in Int, 0 <= n, n <= 65535
  PROVE  n \in uint16s
<1>1. n <= MaxUint16 BY DEF MaxUint16
<1> QED BY <1>1 DEF uint16s

LEMMA Uint16Fits ==
  ASSUME NEW n \in Int
  PROVE  uint16(n) \in uint16s
<1>1. PICK w \in Int : w = n % 65536 /\ 0 <= w /\ w <= 65535 OBVIOUS
<1> QED BY <1>1, Fits DEF uint16

(* The month of a year and a number of days from its beginning.            *)
LEMMA MonthFound ==
  ASSUME NEW y, y.year \in Nat, y.rest \in Nat, NEW m, m = MonthOf(y)
  PROVE  /\ m.month \in 1 .. 12 /\ m.day \in 0 .. 31
         /\ (y.year % 4 # 0 \/ y.year = 1972) /\ y.rest < (IF y.year % 4 = 0 THEN 366 ELSE 365) =>
              m.day >= 1 /\ DaysBefore(y.year % 4 = 0, m.month) + m.day - 1 = y.rest
<1>1. PICK leap \in BOOLEAN : leap <=> y.year % 4 = 0 OBVIOUS
<1>2. PICK returns \in BOOLEAN : returns <=> ~(leap /\ y.year # 1972)
  <2>1. PICK yes \in BOOLEAN, no \in BOOLEAN : yes /\ ~no OBVIOUS
  <2> QED BY <2>1
<1>3. PICK rest \in Nat : rest = y.rest OBVIOUS
<1>4. m = MonthLoop(leap, rest, returns)
  <2>1. returns = (y.year % 4 # 0 \/ y.year = 1972) BY <1>1, <1>2
  <2> QED BY <1>1, <1>3, <2>1 DEF MonthOf
<1>5. /\ m.month \in 1 .. 12 /\ m.day \in 0 .. 31
      /\ returns /\ rest < DaysBefore(leap, 13) =>
           m.day >= 1 /\ DaysBefore(leap, m.month) + m.day - 1 = rest
  BY <1>4, MonthLoopFinds
<1>6. DaysBefore(leap, 13) = IF leap THEN 366 ELSE 365
  <2>1. 1 \in 1 .. 12 OBVIOUS
  <2> QED BY <2>1, MonthLengths
<1>7. DaysBefore(leap, m.month) = DaysBefore(y.year % 4 = 0, m.month) BY <1>1
<1> QED BY <1>1, <1>2, <1>3, <1>5, <1>6, <1>7

LEMMA LastSecondIs == LastSecond \in Int /\ LastSecond <= 86399
BY DEF LastSecond

LEMMA TimeOfDay ==
  ASSUME NEW s \in 0 .. LastSecond
  PROVE  /\ s % 60 \in Int /\ 0 <= s % 60 /\ s % 60 < 60
         /\ (s \div 60) % 60 \in Int /\ 0 <= (s \div 60) % 60 /\ (s \div 60) % 60 < 60
         /\ s \div 3600 \in Int /\ 0 <= s \div 3600 /\ s \div 3600 < 24
         /\ 3600 * (s \div 3600) + 60 * ((s \div 60) % 60) + (s % 60) = s
<1>1. s \in Int /\ 0 <= s /\ s <= LastSecond OBVIOUS
<1>2. s <= 86399 BY <1>1, LastSecondIs
<1>3. PICK t \in Int : t = s /\ 0 <= t /\ t <= 86399 BY <1>1, <1>2
<1>4. /\ t % 60 \in Int /\ 0 <= t % 60 /\ t % 60 < 60
      /\ (t \div 60) % 60 \in Int /\ 0 <= (t \div 60) % 60 /\ (t \div 60) % 60 < 60
      /\ t \div 3600 \in Int /\ 0 <= t \div 3600 /\ t \div 3600 < 24
      /\ 3600 * (t \div 3600) + 60 * ((t \div 60) % 60) + (t % 60) = t
  BY <1>3
<1> QED BY <1>3, <1>4

(* The local time as the code counts it, from the number in timezone_.     *)
CountedTime(o) == After(o.unixtime, 3600 * o.timezone)

LEMMA LocalTimes ==
  ASSUME NEW o \in OpenTimes
  PROVE  /\ CountedTime(o) \in Moments
         /\ Zone(o) >= 0 => LocalTime(o) = CountedTime(o)
         /\ o.timezone \in Int /\ 0 <= o.timezone /\ o.timezone <= 65535
         /\ o.unixtime.day \in Int /\ o.unixtime.second \in Int
<1>1. o.unixtime \in Moments /\ o.timezone \in uint16s BY DEF OpenTimes
<1>2. o.timezone \in Int /\ 0 <= o.timezone /\ o.timezone <= MaxUint16 BY <1>1 DEF uint16s
<1>3. o.timezone <= 65535 BY <1>2 DEF MaxUint16
<1>4. o.unixtime.day \in Int /\ o.unixtime.second \in Int BY <1>1 DEF Moments
<1>5. 3600 * o.timezone \in Int BY <1>2
<1>6. CountedTime(o) \in Moments BY <1>4, <1>5, AfterIsMoment DEF CountedTime
<1>7. ASSUME Zone(o) >= 0 PROVE LocalTime(o) = CountedTime(o)
  <2>1. Zone(o) = o.timezone BY <1>2, <1>3, <1>7 DEF Zone
  <2> QED BY <2>1 DEF LocalTime, CountedTime
<1> QED BY <1>2, <1>3, <1>4, <1>6, <1>7

(* A date is stored.                                                       *)
Dated(o, second, minute, hour, year, month, day) ==
  [o EXCEPT !.second = second, !.minute = minute, !.hour = hour,
            !.year = year, !.month = month, !.day = day]

DateFits(o, second, minute, hour, year, month, day) ==
  /\ o \in OpenTimes /\ second \in uint16s /\ minute \in uint16s /\ hour \in uint16s
  /\ year \in Nat /\ month \in uint16s /\ day \in uint16s

LEMMA DateStored ==
  ASSUME NEW o, NEW second, NEW minute, NEW hour, NEW year, NEW month, NEW day,
         DateFits(o, second, minute, hour, year, month, day)
  PROVE  \E p \in OpenTimes :
         /\ p = Dated(o, second, minute, hour, year, month, day)
         /\ p.second = second /\ p.minute = minute /\ p.hour = hour
         /\ p.year = year /\ p.month = month /\ p.day = day
         /\ p.unixtime = o.unixtime /\ p.timezone = o.timezone
<1> USE DEF DateFits
<1>0. PICK p : p = Dated(o, second, minute, hour, year, month, day) OBVIOUS
<1>1. PICK timezone \in uint16s, unixtime \in Moments : timezone = o.timezone /\ unixtime = o.unixtime
  BY DEF OpenTimes
<1>2. p = [second |-> second, minute |-> minute, hour |-> hour, day |-> day, month |-> month,
           year |-> year, timezone |-> timezone, unixtime |-> unixtime]
  BY <1>0, <1>1 DEF OpenTimes, Dated
<1>3. p \in OpenTimes BY <1>2 DEF OpenTimes
<1>4. /\ p.second = second /\ p.minute = minute /\ p.hour = hour
      /\ p.year = year /\ p.month = month /\ p.day = day
      /\ p.unixtime = o.unixtime /\ p.timezone = o.timezone
  BY <1>1, <1>2
<1> QED BY <1>0, <1>3, <1>4

LEMMA LeapIsBoolean ==
  ASSUME NEW y
  PROVE  isLeap(y) \in BOOLEAN /\ LeapYear(y) \in BOOLEAN
BY Zenon DEF isLeap, LeapYear

(* The date that unixtimeToDate leaves is one the fields can hold, and it  *)
(* shows the local time in a zone from 0.                                  *)
LEMMA DateDerived ==
  ASSUME NEW o \in OpenTimes, NEW p, p = unixtimeToDate(o)
  PROVE  p \in OpenTimes /\ p.month # 0 /\ (Zone(p) >= 0 => Shows(p))
<1>1. PICK u \in Moments : u = CountedTime(o) BY LocalTimes
<1>2. PICK d \in Int : d = u.day BY <1>1 DEF Moments
<1>3. PICK s \in 0 .. LastSecond : s = u.second BY <1>1 DEF Moments
<1>4. u = After(o.unixtime, 3600 * o.timezone) BY <1>1 DEF CountedTime
<1>5. CASE d < 0
  <2>1. p = NegativeDate(o, u) BY <1>2, <1>4, <1>5 DEF unixtimeToDate
  <2>2. PICK days \in Int : days = IF u.second = 0 THEN -u.day ELSE -u.day - 1 BY <1>2
  <2>3. PICK seconds \in Int : seconds = (86400 - u.second) % 86400
    <3>1. s \in Int BY <1>3
    <3> QED BY <1>3, <3>1
  <2>4. PICK second \in uint16s, minute \in uint16s, hour \in uint16s, day \in uint16s,
             one \in uint16s, year \in Nat :
          /\ second = uint16(-(seconds % 60)) /\ minute = uint16(-((seconds \div 60) % 60))
          /\ hour = uint16(-(seconds \div 3600)) /\ day = uint16(1 - days) /\ one = 1 /\ year = 1970
    <3>1. -(seconds % 60) \in Int /\ -((seconds \div 60) % 60) \in Int
          /\ -(seconds \div 3600) \in Int /\ 1 - days \in Int
      OBVIOUS
    <3>2. 1 \in uint16s BY Fits
    <3> QED BY <3>1, <3>2, Uint16Fits
  <2>5. p \in OpenTimes /\ p.unixtime = o.unixtime /\ p.timezone = o.timezone /\ p.month = one
    <3>1. NegativeDate(o, u) =
            Dated(o, uint16(-(((86400 - u.second) % 86400) % 60)),
                  uint16(-((((86400 - u.second) % 86400) \div 60) % 60)),
                  uint16(-(((86400 - u.second) % 86400) \div 3600)),
                  1970, 1, uint16(1 - (IF u.second = 0 THEN -u.day ELSE -u.day - 1)))
      BY DEF NegativeDate, Dated
    <3>2. p = Dated(o, second, minute, hour, year, one, day)
      BY <2>1, <2>2, <2>3, <2>4, <3>1
    <3>3. DateFits(o, second, minute, hour, year, one, day) BY DEF DateFits
    <3> QED BY <3>2, <3>3, DateStored
  <2>6. CountedTime(p) = u BY <1>1, <2>5 DEF CountedTime
  <2>7. ASSUME Zone(p) >= 0 PROVE Shows(p)
    <3>1. LocalTime(p) = u BY <2>5, <2>6, <2>7, LocalTimes
    <3>2. LocalTime(p).day < 0 BY <1>2, <1>5, <3>1
    <3>3. ~To2100(LocalTime(p).day) BY <1>2, <3>1, <3>2 DEF To2100
    <3> QED BY <3>3, Zenon DEF Shows
  <2>8. p.month # 0 BY <2>4, <2>5
  <2> QED BY <2>5, <2>7, <2>8
<1>6. CASE ~(d < 0)
  <2>1. d \in Nat BY <1>6
  <2>2. PICK y : y = YearOf(d) OBVIOUS
  <2>3. PICK m : m = MonthOf(y) OBVIOUS
  <2>4. p = [o EXCEPT !.second = s % 60, !.minute = (s \div 60) % 60, !.hour = s \div 3600,
                      !.year = y.year, !.month = m.month, !.day = m.day]
    BY <1>2, <1>3, <1>4, <1>6, <2>2, <2>3 DEF unixtimeToDate
  <2>5. /\ y.year \in Nat /\ y.rest \in Nat /\ 1970 <= y.year
        /\ d < NewYear(2101) => /\ y.year <= 2100
                                /\ NewYear(y.year) \in Int /\ NewYear(y.year + 1) \in Int
                                /\ NewYear(y.year) + y.rest = d
                                /\ d < NewYear(y.year + 1)
                                /\ y.rest < 366
                                /\ y.year % 4 # 0 => y.rest < 365
    BY <2>1, <2>2, YearFound
  <2>6. /\ m.month \in 1 .. 12 /\ m.day \in 0 .. 31
        /\ (y.year % 4 # 0 \/ y.year = 1972) /\ y.rest < (IF y.year % 4 = 0 THEN 366 ELSE 365) =>
             m.day >= 1 /\ DaysBefore(y.year % 4 = 0, m.month) + m.day - 1 = y.rest
    BY <2>3, <2>5, MonthFound
  <2>7. /\ s % 60 \in Int /\ 0 <= s % 60 /\ s % 60 < 60
        /\ (s \div 60) % 60 \in Int /\ 0 <= (s \div 60) % 60 /\ (s \div 60) % 60 < 60
        /\ s \div 3600 \in Int /\ 0 <= s \div 3600 /\ s \div 3600 < 24
        /\ 3600 * (s \div 3600) + 60 * ((s \div 60) % 60) + (s % 60) = s
    BY TimeOfDay
  <2>8. PICK second \in uint16s, minute \in uint16s, hour \in uint16s, day \in uint16s, month \in uint16s,
             local_year \in Nat :
          /\ second = s % 60 /\ minute = (s \div 60) % 60 /\ hour = s \div 3600
          /\ local_year = y.year /\ month = m.month /\ day = m.day
    <3>1. s % 60 \in uint16s /\ (s \div 60) % 60 \in uint16s /\ s \div 3600 \in uint16s
      BY <2>7, Fits
    <3>2. m.month \in uint16s /\ m.day \in uint16s BY <2>6, Fits
    <3> QED BY <2>5, <3>1, <3>2
  <2>9. /\ p \in OpenTimes
        /\ p.second = s % 60 /\ p.minute = (s \div 60) % 60 /\ p.hour = s \div 3600
        /\ p.year = y.year /\ p.month = m.month /\ p.day = m.day
        /\ p.unixtime = o.unixtime /\ p.timezone = o.timezone
    <3>1. p = Dated(o, second, minute, hour, local_year, month, day) BY <2>4, <2>8 DEF Dated
    <3>2. DateFits(o, second, minute, hour, local_year, month, day) BY DEF DateFits
    <3>3. PICK q \in OpenTimes :
            /\ q = Dated(o, second, minute, hour, local_year, month, day)
            /\ q.second = second /\ q.minute = minute /\ q.hour = hour
            /\ q.year = local_year /\ q.month = month /\ q.day = day
            /\ q.unixtime = o.unixtime /\ q.timezone = o.timezone
      BY <3>2, DateStored
    <3> QED BY <2>8, <3>1, <3>3
  <2>10. CountedTime(p) = u BY <1>1, <2>9 DEF CountedTime
  <2>11. ASSUME Zone(p) >= 0 PROVE Shows(p)
    <3> SUFFICES ASSUME d < NewYear(2101)
                 PROVE  /\ InZone(p) /\ Clock(p) = s
                        /\ p.year \in 1970 .. 2100
                        /\ NewYear(p.year) <= d /\ d < NewYear(p.year + 1)
                        /\ p.year % 4 # 0 \/ p.year = 1972 => DayNumber(p.year, p.month, p.day) = d
      <4>1. NewYear(2101) \in Int BY NewYears
      <4>2. To2100(d) <=> d < NewYear(2101) BY <2>1, <4>1 DEF To2100
      <4>3. LocalTime(p).day = d /\ LocalTime(p).second = s
        BY <1>2, <1>3, <2>9, <2>10, <2>11, LocalTimes
      <4> QED BY <4>2, <4>3 DEF Shows
    <3>1. InZone(p) /\ Clock(p) = s BY <2>7, <2>9 DEF InZone, Clock
    <3>2. PICK year \in 1970 .. 2100 : year = y.year BY <2>5
    <3>3. PICK new \in Int, rest \in Nat : new = NewYear(year) /\ rest = y.rest /\ new + rest = d
      BY <2>5, <3>2
    <3>4. new <= d BY <3>3
    <3>5. ASSUME year % 4 # 0 \/ year = 1972 PROVE DayNumber(year, m.month, m.day) = d
      <4>1. LeapYear(year) <=> year % 4 = 0 BY <3>5, LeapYears
      <4>2. PICK leap \in BOOLEAN : leap = LeapYear(year)
        <5>1. LeapYear(year) \in BOOLEAN BY LeapIsBoolean
        <5> QED BY <5>1
      <4>3. m.month \in 1 .. 12 /\ m.day \in Int BY <2>6
      <4>4. NewYear(year) \in Int /\ LeapYear(year) \in BOOLEAN BY <3>3, <4>2
      <4>5. DayNumber(year, m.month, m.day) = NewYear(year) + DaysBefore(LeapYear(year), m.month) + m.day - 1
        BY <4>3, <4>4, DayNumberIs
      <4>6. DayNumber(year, m.month, m.day) = new + DaysBefore(leap, m.month) + m.day - 1
        BY <3>3, <4>2, <4>5
      <4>7. leap = (y.year % 4 = 0) BY <3>2, <4>1, <4>2
      <4>8. rest < IF y.year % 4 = 0 THEN 366 ELSE 365 BY <1>1, <2>5, <3>2, <3>3
      <4>9. DaysBefore(leap, m.month) + m.day - 1 = rest BY <2>6, <3>2, <3>3, <3>5, <4>7, <4>8
      <4>10. PICK before \in Nat : before = DaysBefore(leap, m.month) BY <4>3, MonthLengths
      <4> QED BY <3>3, <4>3, <4>6, <4>9, <4>10
    <3> QED BY <2>5, <2>9, <3>1, <3>2, <3>3, <3>4, <3>5
  <2>12. p.month # 0 BY <2>6, <2>9
  <2> QED BY <2>9, <2>11, <2>12
<1> QED BY <1>5, <1>6

------------------------------------------------------------------------------
(* From the date to the Unix time.                                         *)

(* The sum over the months is a number also for the month 0.               *)
LEMMA MonthsBeforeIsInt ==
  ASSUME NEW y, isLeap(y) \in BOOLEAN, NEW m \in Int, 0 <= m, m <= 12
  PROVE  MonthsBefore(y, m) \in Int
<1>1. PICK t \in Seq(Int) : t = DayOfMonths(isLeap(y)) /\ Len(t) = 12
  <2>1. PICK leap \in BOOLEAN : leap = isLeap(y) OBVIOUS
  <2> QED BY <2>1, DayOfMonthsIsSeq
<1>2. PICK n \in Int : n = m - 1 /\ n <= 11 OBVIOUS
<1>3. \A i \in 1 .. n : t[i] \in Int
  <2>1. \A i \in 1 .. Len(t) : t[i] \in Int OBVIOUS
  <2>2. \A i \in 1 .. n : i \in 1 .. Len(t) BY <1>1, <1>2
  <2> QED BY <2>1, <2>2
<1>4. SubSeq(t, 1, n) \in Seq(Int)
  <2>1. PICK S : S = Int OBVIOUS
  <2>2. \A i \in 1 .. n : t[i] \in S BY <1>3, <2>1
  <2>3. SubSeq(t, 1, n) \in Seq(S) BY <2>2, SubSeqProperties
  <2> QED BY <2>1, <2>3
<1>5. PICK s \in Seq(Int) : s = SubSeq(t, 1, n) BY <1>4
<1>6. PICK f \in [0 .. Len(s) -> Int] : Sum(s) = f[Len(s)] BY SumUnfolds
<1>7. Sum(s) \in Int BY <1>6
<1> QED BY <1>1, <1>2, <1>5, <1>7 DEF MonthsBefore

LEMMA YearDaysIs ==
  ASSUME NEW y \in Nat
  PROVE  /\ YearDays(y) \in Int /\ LeftDays(y) \in Int
         /\ 1970 <= y /\ y <= 2041 => YearDays(y) = NewYear(y) /\ LeftDays(y) <= IntDays
<1>1. LeftDays(y) = ((y - 1973) \div 4) * 1461 + ((y - 1973) % 4) * 365 BY DEF LeftDays, Cycle
<1>2. LeftDays(y) \in Int BY <1>1
<1>3. YearDays(y) = IF y > 1972 THEN 1096 + LeftDays(y)
                    ELSE IF y > 1970 THEN 365 * (y - 1970) ELSE 0
  BY DEF YearDays, FirstYears
<1>4. YearDays(y) \in Int BY <1>2, <1>3
<1>5. ASSUME 1970 <= y, y <= 2041 PROVE YearDays(y) = NewYear(y) /\ LeftDays(y) <= IntDays
  <2>1. NewYear(y) = 365 * (y - 1970) + ((y - 1969) \div 4) BY <1>5, NewYears
  <2>2. PICK c \in Int, k \in 0 .. 3 : c = (y - 1973) \div 4 /\ k = (y - 1973) % 4 /\ y = 1973 + 4 * c + k
    OBVIOUS
  <2>3. LeftDays(y) = 1461 * c + 365 * k BY <1>1, <2>2
  <2>4. LeftDays(y) <= 24855 BY <1>5, <2>2, <2>3
  <2>5. CASE y > 1972
    <3>1. (y - 1969) \div 4 = 1 + c BY <2>2
    <3> QED BY <1>3, <2>1, <2>2, <2>3, <2>4, <2>5, <3>1 DEF IntDays
  <2>6. CASE ~(y > 1972)
    <3>1. (y - 1969) \div 4 = 0 BY <1>5, <2>6
    <3> QED BY <1>3, <1>5, <2>1, <2>4, <2>6, <3>1 DEF IntDays
  <2> QED BY <2>5, <2>6
<1> QED BY <1>2, <1>4, <1>5

(* The parts of a date.                                                    *)
LEMMA Parts ==
  ASSUME NEW o \in OpenTimes
  PROVE  /\ o.year \in Nat /\ isLeap(o.year) \in BOOLEAN /\ LeapYear(o.year) \in BOOLEAN
         /\ o.second \in Nat /\ o.minute \in Nat /\ o.hour \in Nat
         /\ o.day \in Nat /\ o.month \in Nat /\ o.timezone \in Nat
         /\ o.second \in 0 .. LastSecond
<1>1. isLeap(o.year) \in BOOLEAN /\ LeapYear(o.year) \in BOOLEAN BY Zenon DEF isLeap, LeapYear
<1>2. \A n \in uint16s : n \in Nat /\ n \in 0 .. LastSecond
  <2>1. MaxUint16 <= LastSecond /\ LastSecond \in Nat /\ MaxUint16 \in Nat BY DEF MaxUint16, LastSecond
  <2> QED BY <2>1 DEF uint16s
<1> QED BY <1>1, <1>2 DEF OpenTimes

(* What dateToUnixtime leaves is an instant, and the one that the date     *)
(* stands for if it stands for one.                                        *)
LEMMA UnixtimeDerived ==
  ASSUME NEW o \in OpenTimes, NEW u \in dateToUnixtime(o), NEW p, p = [o EXCEPT !.unixtime = u]
  PROVE  /\ u \in Moments
         /\ Stands(o) => /\ LocalTime(p).day = DayNumber(o.year, o.month, o.day)
                         /\ LocalTime(p).second = Clock(o)
<1>1. PICK year \in Nat : year = o.year BY Parts
<1>2. PICK day \in Int : ~Rejected(o) => day = YearDays(year) + MonthsBefore(year, o.month) + o.day - 1
  <2>1. CASE Rejected(o) BY <2>1
  <2>2. CASE ~Rejected(o)
    <3>1. o.month \in Int /\ 0 <= o.month /\ o.month <= 12 BY <2>2, Parts DEF Rejected
    <3>2. isLeap(year) \in BOOLEAN BY <1>1, Parts
    <3>3. MonthsBefore(year, o.month) \in Int BY <3>1, <3>2, MonthsBeforeIsInt
    <3>4. YearDays(year) \in Int /\ o.day \in Int BY Parts, YearDaysIs
    <3> QED BY <3>3, <3>4
  <2> QED BY <2>1, <2>2
<1>3. PICK clock \in Int, zone \in Int :
        /\ clock = o.second + 60 * o.minute + 3600 * o.hour /\ zone = 3600 * o.timezone
        /\ clock = Clock(o)
  BY Parts DEF Clock
<1>4. PICK v : v = [day |-> day, second |-> 0] OBVIOUS
<1>5. v.day = day /\ v.second = 0 BY <1>4
<1>6. PICK w : w = After(v, clock - zone) OBVIOUS
<1>7. clock - zone \in Int OBVIOUS
<1>8. w \in Moments BY <1>5, <1>6, <1>7, AfterIsMoment
<1>9. /\ Rejected(o) => u = [day |-> 0, second |-> o.second]
      /\ ~Rejected(o) => u = w \/ (year > 1972 /\ LeftDays(year) > IntDays /\ u = Wrapped(w))
  <2>1. CASE Rejected(o)
    <3>1. u \in {[day |-> 0, second |-> o.second]} BY <2>1 DEF dateToUnixtime
    <3> QED BY <2>1, <3>1
  <2>2. CASE ~Rejected(o)
    <3> DEFINE z == After([day |-> YearDays(o.year) + MonthsBefore(o.year, o.month) + o.day - 1, second |-> 0],
                          o.second + 60 * o.minute + 3600 * o.hour - 3600 * o.timezone)
    <3>1. u \in {z} \cup (IF o.year > 1972 /\ LeftDays(o.year) > IntDays THEN {Wrapped(z)} ELSE {})
      BY <2>2 DEF dateToUnixtime
    <3>2. z = w
      <4>1. v = [day |-> YearDays(o.year) + MonthsBefore(o.year, o.month) + o.day - 1, second |-> 0]
        BY <1>1, <1>2, <1>4, <2>2
      <4>2. clock - zone = o.second + 60 * o.minute + 3600 * o.hour - 3600 * o.timezone
          BY <1>3, Parts
      <4> QED BY <1>6, <4>1, <4>2
    <3> HIDE DEF z
    <3> QED BY <1>1, <2>2, <3>1, <3>2
  <2> QED BY <2>1, <2>2
<1>10. u \in Moments
  <2>1. CASE Rejected(o) BY <1>9, <2>1, Parts DEF Moments
  <2>2. Wrapped(w) \in Moments
    <3>0. PICK c \in Int : c = 49710 OBVIOUS
    <3>1. PICK x : x = [w EXCEPT !.day = @ - c] BY Zenon
    <3>2. x.day \in Int /\ x.second \in Int
      <4>1. x.day = w.day - c /\ x.second = w.second BY <1>8, <3>1 DEF Moments
      <4> QED BY <1>8, <4>1 DEF Moments
    <3>3. PICK k \in Int : k = -23296 OBVIOUS
    <3>4. After(x, k) \in Moments BY <3>2, AfterIsMoment
    <3>5. Wrapped(w) = After(x, k) BY <3>0, <3>1, <3>3 DEF Wrapped
    <3> QED BY <3>4, <3>5
  <2> QED BY <1>8, <1>9, <2>1, <2>2
<1>11. ASSUME Stands(o)
       PROVE  LocalTime(p).day = DayNumber(o.year, o.month, o.day) /\ LocalTime(p).second = Clock(o)
  <2>1. /\ o.second < 60 /\ o.minute < 60 /\ o.hour < 24 /\ 1970 <= year /\ year <= 2041
        /\ o.day \in 1 .. 31 /\ o.month \in 1 .. 12
    BY <1>1, <1>11, Parts DEF Stands, IsDate, InZone
  <2>2. ~Rejected(o)
    <3>1. ~(year \in 1 .. 1969) /\ ~(o.second > 59) /\ ~(o.minute > 59) /\ ~(o.hour > 23)
          /\ ~(o.day > 31) /\ ~(o.month > 12)
      BY <2>1, Parts
    <3> QED BY <1>1, <3>1 DEF Rejected
  <2>3. YearDays(year) = NewYear(year) /\ LeftDays(year) <= IntDays
        /\ YearDays(year) \in Int /\ LeftDays(year) \in Int
    BY <2>1, YearDaysIs
  <2>4. u = w BY <1>9, <2>2, <2>3 DEF IntDays
  <2>5. LocalTime(p) = After(w, zone)
    <3>1. p \in OpenTimes /\ p.timezone = o.timezone /\ p.unixtime = w
      BY <1>10, <2>4 DEF OpenTimes
    <3>2. Zone(p) >= 0 BY <1>11, <3>1 DEF Stands, Zone
    <3>3. LocalTime(p) = After(p.unixtime, 3600 * p.timezone)
      <4>1. LocalTime(p) = CountedTime(p) BY ONLY <3>1, <3>2, LocalTimes
      <4> QED BY <4>1 DEF CountedTime
    <3>4. zone = 3600 * p.timezone BY <1>3, <3>1
    <3> QED BY <3>1, <3>3, <3>4
  <2>6. After(w, zone) = After(v, (clock - zone) + zone) BY <1>5, <1>6, <1>7, AfterAfter
  <2>7. (clock - zone) + zone = clock OBVIOUS
  <2>8. clock \div 86400 = 0 /\ clock % 86400 = clock
    <3>1. 0 <= clock /\ clock < 86400 BY <1>3, <2>1, Parts
    <3> QED BY <3>1
  <2>9. After(v, clock) = [day |-> day, second |-> clock]
    <3>1. v.second + clock = clock BY <1>5
    <3>2. v.day + 0 = day BY <1>5
    <3> QED BY <2>8, <3>1, <3>2 DEF After
  <2>10. LocalTime(p) = [day |-> day, second |-> clock] BY <2>5, <2>6, <2>7, <2>9
  <2>11. day = DayNumber(year, o.month, o.day)
    <3>1. isLeap(year) \in BOOLEAN /\ LeapYear(year) \in BOOLEAN BY <1>1, Parts
    <3>2. PICK leap \in BOOLEAN : leap = isLeap(year) BY <3>1
    <3>3. leap = LeapYear(year) BY <3>1, <3>2, LeapYears
    <3>4. MonthsBefore(year, o.month) = DaysBefore(leap, o.month) BY <2>1, <3>1, <3>2, MonthsBeforeIs
    <3>5. DayNumber(year, o.month, o.day) = NewYear(year) + DaysBefore(leap, o.month) + o.day - 1
      BY <2>1, <2>3, <3>1, <3>3, DayNumberIs
    <3> QED BY <1>2, <2>2, <2>3, <3>4, <3>5
  <2> QED BY <1>1, <1>3, <2>10, <2>11
<1> QED BY <1>10, <1>11

------------------------------------------------------------------------------
(* Months on.                                                              *)

(* The objects that differ from o in the month and the year only.          *)
MonthsOf(o) ==
  [second : {o.second}, minute : {o.minute}, hour : {o.hour}, day : {o.day},
   month : Nat \ {0}, year : Int, timezone : {o.timezone}, unixtime : {o.unixtime}]

LEMMA OneMonth ==
  ASSUME NEW o, NEW x \in MonthsOf(o)
  PROVE  /\ x.month \in Int /\ x.year \in Int
         /\ NextMonth(x) \in MonthsOf(o) /\ PreviousMonth(x) \in MonthsOf(o)
         /\ x.month \in 1 .. 12 =>
              /\ NextMonth(x).month \in 1 .. 12 /\ MonthNumber(NextMonth(x)) = MonthNumber(x) + 1
              /\ PreviousMonth(x).month \in 1 .. 12 /\ MonthNumber(PreviousMonth(x)) = MonthNumber(x) - 1
<1>1. PICK m \in Nat \ {0}, y \in Int : m = x.month /\ y = x.year BY DEF MonthsOf
<1> DEFINE With(year, month) ==
             [second |-> o.second, minute |-> o.minute, hour |-> o.hour, day |-> o.day,
              month |-> month, year |-> year, timezone |-> o.timezone, unixtime |-> o.unixtime]
<1>2. x = With(y, m) BY <1>1 DEF MonthsOf
<1>3. \A year \in Int : \A month \in Nat \ {0} :
        /\ With(year, month) \in MonthsOf(o)
        /\ With(year, month).month = month /\ MonthNumber(With(year, month)) = 12 * year + month
  BY DEF MonthsOf, MonthNumber
<1>4. \A month \in Nat \ {0} : [x EXCEPT !.month = month] = With(y, month)
  BY <1>1 DEF MonthsOf
<1>5. \A month \in Nat \ {0} : \A year \in Int :
        [x EXCEPT !.year = year, !.month = month] = With(year, month)
  <2> SUFFICES ASSUME NEW month \in Nat \ {0}, NEW year \in Int
               PROVE  [x EXCEPT !.year = year, !.month = month] = With(year, month)
    OBVIOUS
  <2>1. PICK z : z = [x EXCEPT !.year = year] BY Zenon
  <2>2. z = With(year, m) BY <1>1, <2>1 DEF MonthsOf
  <2>3. PICK w : w = [z EXCEPT !.month = month] BY Zenon
  <2>4. w = With(year, month) BY <2>2, <2>3
  <2> QED BY <2>1, <2>3, <2>4, Zenon
<1>6. NextMonth(x) = IF m = 12 THEN [x EXCEPT !.year = y + 1, !.month = 1] ELSE [x EXCEPT !.month = m + 1]
  BY <1>1, Zenon DEF NextMonth
<1>7. PreviousMonth(x) = IF m = 1 THEN [x EXCEPT !.year = y - 1, !.month = 12] ELSE [x EXCEPT !.month = m - 1]
  BY <1>1, Zenon DEF PreviousMonth
<1> HIDE DEF With
<1>8. MonthNumber(x) = 12 * y + m BY <1>1 DEF MonthNumber
<1>9. PICK next \in Int, month \in Nat \ {0} :
        /\ NextMonth(x) = With(next, month)
        /\ 12 * next + month = 12 * y + m + 1
        /\ m \in 1 .. 12 => month \in 1 .. 12
  <2>1. CASE m = 12
    <3>1. y + 1 \in Int /\ 1 \in Nat \ {0} OBVIOUS
    <3>2. NextMonth(x) = With(y + 1, 1) BY <1>5, <1>6, <2>1, <3>1
    <3> QED BY <2>1, <3>1, <3>2
  <2>2. CASE m # 12
    <3>1. m + 1 \in Nat \ {0} OBVIOUS
    <3>2. NextMonth(x) = With(y, m + 1) BY <1>4, <1>6, <2>2, <3>1
    <3> QED BY <2>2, <3>1, <3>2
  <2> QED BY <2>1, <2>2
<1>10. PICK before \in Int, earlier \in Nat \ {0} :
        /\ PreviousMonth(x) = With(before, earlier)
        /\ 12 * before + earlier = 12 * y + m - 1
        /\ m \in 1 .. 12 => earlier \in 1 .. 12
  <2>1. CASE m = 1
    <3>1. y - 1 \in Int /\ 12 \in Nat \ {0} OBVIOUS
    <3>2. PreviousMonth(x) = With(y - 1, 12) BY <1>5, <1>7, <2>1, <3>1
    <3> QED BY <2>1, <3>1, <3>2
  <2>2. CASE m # 1
    <3>1. m - 1 \in Nat \ {0} BY <2>2
    <3>2. PreviousMonth(x) = With(y, m - 1) BY <1>4, <1>7, <2>2, <3>1
    <3> QED BY <2>2, <3>1, <3>2
  <2> QED BY <2>1, <2>2
<1>11. /\ With(next, month) \in MonthsOf(o) /\ With(before, earlier) \in MonthsOf(o)
       /\ With(next, month).month = month /\ MonthNumber(With(next, month)) = 12 * next + month
       /\ With(before, earlier).month = earlier /\ MonthNumber(With(before, earlier)) = 12 * before + earlier
  BY <1>3
<1> QED BY <1>1, <1>8, <1>9, <1>10, <1>11

(* One direction of addMonth's loop: g[n] is the object after n turns.     *)
IsMonthLoop(g, S, o, turn, step) ==
  /\ o \in S /\ turn \in [S -> S] /\ step \in {1, -1}
  /\ \A x \in S : /\ x.month \in Int /\ x.year \in Int
                  /\ x.month \in 1 .. 12 =>
                       turn[x].month \in 1 .. 12 /\ MonthNumber(turn[x]) = MonthNumber(x) + step
  /\ g[0] = o /\ \A i \in Nat : g[i] \in S => g[i + 1] = turn[g[i]]

LEMMA MonthByMonth ==
  ASSUME NEW g, NEW S, NEW o, NEW turn, NEW step, IsMonthLoop(g, S, o, turn, step)
  PROVE  \A n \in Nat :
           /\ g[n] \in S
           /\ o.month \in 1 .. 12 =>
                g[n].month \in 1 .. 12 /\ MonthNumber(g[n]) = MonthNumber(o) + step * n
<1> USE DEF IsMonthLoop
<1> DEFINE Right == {n \in Nat : /\ g[n] \in S
                                 /\ o.month \in 1 .. 12 =>
                                      /\ g[n].month \in 1 .. 12
                                      /\ MonthNumber(g[n]) = MonthNumber(o) + step * n}
<1>1. \A x \in S : MonthNumber(x) \in Int BY DEF MonthNumber
<1>2. 0 \in Right
  <2>1. step * 0 = 0 OBVIOUS
  <2> QED BY <1>1, <2>1
<1>3. ASSUME NEW n \in Nat, n \in Right PROVE n + 1 \in Right
  <2>1. PICK x \in S : x = g[n] BY <1>3
  <2>2. PICK y \in S : y = turn[x] /\ y = g[n + 1] BY <2>1
  <2> SUFFICES ASSUME o.month \in 1 .. 12
               PROVE  y.month \in 1 .. 12 /\ MonthNumber(y) = MonthNumber(o) + step * (n + 1)
    BY <2>2
  <2>3. x.month \in 1 .. 12 /\ MonthNumber(x) = MonthNumber(o) + step * n BY <1>3, <2>1
  <2>4. y.month \in 1 .. 12 /\ MonthNumber(y) = MonthNumber(x) + step BY <2>2, <2>3
  <2>5. step * (n + 1) = step * n + step /\ step * n \in Int OBVIOUS
  <2> QED BY <1>1, <2>3, <2>4, <2>5
<1>4. Nat \subseteq Right
  <2> HIDE DEF Right
  <2> QED BY <1>2, <1>3, Induction
<1> QED BY <1>4

(* addMonth's loop moves on by whole months, whatever their number.        *)
LEMMA MonthsOnIs ==
  ASSUME NEW o \in OpenTimes, o.month # 0, NEW n \in Int, NEW q, q = MonthsOn(o, n)
  PROVE  /\ q \in MonthsOf(o)
         /\ o.month \in 1 .. 12 => q.month \in 1 .. 12 /\ MonthNumber(q) = MonthNumber(o) + n
<1> DEFINE S == MonthsOf(o)
           IsAhead(h) == h = [i \in Nat |-> IF i = 0 THEN o ELSE NextMonth(h[i - 1])]
           IsBack(h) == h = [i \in Nat |-> IF i = 0 THEN o ELSE PreviousMonth(h[i - 1])]
           ahead == CHOOSE h : IsAhead(h)
           back == CHOOSE h : IsBack(h)
           next == [x \in S |-> NextMonth(x)]
           previous == [x \in S |-> PreviousMonth(x)]
<1>1. o \in S
  <2>1. o.month \in Nat \ {0} /\ o.year \in Int BY Parts
  <2> QED BY <2>1 DEF MonthsOf, OpenTimes
<1>2. \A x \in S :
        /\ x.month \in Int /\ x.year \in Int /\ NextMonth(x) \in S /\ PreviousMonth(x) \in S
        /\ x.month \in 1 .. 12 =>
             /\ NextMonth(x).month \in 1 .. 12 /\ MonthNumber(NextMonth(x)) = MonthNumber(x) + 1
             /\ PreviousMonth(x).month \in 1 .. 12 /\ MonthNumber(PreviousMonth(x)) = MonthNumber(x) - 1
  BY OneMonth
<1> HIDE DEF S
<1>3. next \in [S -> S] /\ previous \in [S -> S] BY <1>2
<1>4. \A x \in S : next[x] = NextMonth(x) /\ previous[x] = PreviousMonth(x) OBVIOUS
<1> HIDE DEF next, previous
<1>5. IsAhead(ahead)
  <2>1. PICK f : IsEndlessLoop(f, S, o, next) BY <1>1, <1>3, LoopGoesOn
  <2>2. f \in [Nat -> S] /\ f = [i \in Nat |-> IF i = 0 THEN o ELSE next[f[i - 1]]]
    BY <2>1, Zenon DEF IsEndlessLoop
  <2>3. \A i \in Nat : i # 0 => i - 1 \in Nat /\ next[f[i - 1]] = NextMonth(f[i - 1])
    BY <1>4, <2>2
  <2>4. \A i \in Nat : f[i] = IF i = 0 THEN o ELSE NextMonth(f[i - 1]) BY <2>2, <2>3
  <2>5. IsAhead(f) BY <2>2, <2>4
  <2> HIDE DEF IsAhead
  <2> QED BY <2>5
<1>6. IsBack(back)
  <2>1. PICK f : IsEndlessLoop(f, S, o, previous) BY <1>1, <1>3, LoopGoesOn
  <2>2. f \in [Nat -> S] /\ f = [i \in Nat |-> IF i = 0 THEN o ELSE previous[f[i - 1]]]
    BY <2>1, Zenon DEF IsEndlessLoop
  <2>3. \A i \in Nat : i # 0 => i - 1 \in Nat /\ previous[f[i - 1]] = PreviousMonth(f[i - 1])
    BY <1>4, <2>2
  <2>4. \A i \in Nat : f[i] = IF i = 0 THEN o ELSE PreviousMonth(f[i - 1]) BY <2>2, <2>3
  <2>5. IsBack(f) BY <2>2, <2>4
  <2> HIDE DEF IsBack
  <2> QED BY <2>5
<1>7. MonthsOn(o, n) = IF n >= 0 THEN ahead[n] ELSE back[-n] BY Zenon DEF MonthsOn
<1> HIDE DEF ahead, back
<1>8. ahead[0] = o /\ \A i \in Nat : ahead[i + 1] = NextMonth(ahead[i])
  <2>1. \A i \in Nat : ahead[i] = IF i = 0 THEN o ELSE NextMonth(ahead[i - 1]) BY <1>5
  <2>2. \A i \in Nat : i + 1 \in Nat /\ i + 1 # 0 /\ (i + 1) - 1 = i OBVIOUS
  <2> QED BY <2>1, <2>2
<1>9. back[0] = o /\ \A i \in Nat : back[i + 1] = PreviousMonth(back[i])
  <2>1. \A i \in Nat : back[i] = IF i = 0 THEN o ELSE PreviousMonth(back[i - 1]) BY <1>6
  <2>2. \A i \in Nat : i + 1 \in Nat /\ i + 1 # 0 /\ (i + 1) - 1 = i OBVIOUS
  <2> QED BY <2>1, <2>2
<1> HIDE DEF IsAhead, IsBack
<1>10. \A x \in S : x.month \in Int /\ x.year \in Int BY <1>2
<1>11. CASE n >= 0
  <2>1. PICK step \in {1, -1} : step = 1 OBVIOUS
  <2>2. \A x \in S : x.month \in 1 .. 12 =>
          next[x].month \in 1 .. 12 /\ MonthNumber(next[x]) = MonthNumber(x) + step
    BY <1>2, <1>4, <2>1
  <2>3. \A i \in Nat : ahead[i] \in S => ahead[i + 1] = next[ahead[i]] BY <1>4, <1>8
  <2>4. \A k \in Nat : /\ ahead[k] \in S
                       /\ o.month \in 1 .. 12 =>
                            ahead[k].month \in 1 .. 12 /\ MonthNumber(ahead[k]) = MonthNumber(o) + step * k
    <3>1. IsMonthLoop(ahead, S, o, next, step) BY <1>1, <1>3, <1>8, <1>10, <2>2, <2>3 DEF IsMonthLoop
    <3> QED BY <3>1, MonthByMonth
  <2>5. n \in Nat /\ q = ahead[n] BY <1>7, <1>11
  <2>6. step * n = n BY <2>1
  <2> QED BY <2>4, <2>5, <2>6 DEF S
<1>12. CASE ~(n >= 0)
  <2>1. PICK step \in {1, -1} : step = -1 OBVIOUS
  <2>2. \A x \in S : MonthNumber(x) \in Int BY <1>2 DEF MonthNumber
  <2>3. \A x \in S : x.month \in 1 .. 12 =>
          previous[x].month \in 1 .. 12 /\ MonthNumber(previous[x]) = MonthNumber(x) + step
    <3> SUFFICES ASSUME NEW x \in S, x.month \in 1 .. 12
                 PROVE  previous[x].month \in 1 .. 12 /\ MonthNumber(previous[x]) = MonthNumber(x) + step
      OBVIOUS
    <3>1. previous[x] = PreviousMonth(x) /\ MonthNumber(x) \in Int BY <1>4, <2>2
    <3>2. PreviousMonth(x).month \in 1 .. 12 /\ MonthNumber(PreviousMonth(x)) = MonthNumber(x) - 1
      BY <1>2
    <3> QED BY <2>1, <3>1, <3>2
  <2>4. \A i \in Nat : back[i] \in S => back[i + 1] = previous[back[i]] BY <1>4, <1>9
  <2>5. \A k \in Nat : /\ back[k] \in S
                       /\ o.month \in 1 .. 12 =>
                            back[k].month \in 1 .. 12 /\ MonthNumber(back[k]) = MonthNumber(o) + step * k
    <3>1. IsMonthLoop(back, S, o, previous, step) BY <1>1, <1>3, <1>9, <1>10, <2>3, <2>4 DEF IsMonthLoop
    <3> QED BY <3>1, MonthByMonth
  <2>6. -n \in Nat /\ q = back[-n] BY <1>7, <1>12
  <2>7. step * (-n) = n BY <2>1
  <2> QED BY <2>5, <2>6, <2>7 DEF S
<1> QED BY <1>11, <1>12

(* adjustMonth leaves the date's month and moves its day to the last one   *)
(* the month has.                                                          *)
LEMMA Adjusted ==
  ASSUME NEW q \in OpenTimes, q.month # 0, NEW p, p = adjustMonth(q)
  PROVE  /\ p \in OpenTimes /\ p.month # 0 /\ p.year = q.year
         /\ q.month \in 1 .. 12 => p.month = q.month /\ p.day = Least(q.day, MonthLength(p.year, p.month))
<1>1. PICK day \in Nat, month \in Nat, year \in Nat :
        day = q.day /\ month = q.month /\ year = q.year /\ month # 0
  BY Parts
<1>2. PICK leap \in BOOLEAN : leap = isLeap(year) /\ leap = LeapYear(year)
  <2>1. isLeap(year) \in BOOLEAN /\ LeapYear(year) \in BOOLEAN BY <1>1, Parts
  <2>2. PICK leap \in BOOLEAN : leap = isLeap(year) BY <2>1
  <2>3. leap = LeapYear(year) BY <2>1, <2>2, LeapYears
  <2> QED BY <2>2, <2>3
<1>3. PICK m \in 1 .. 12 : m = Least(month, 12) /\ (month <= 12 => m = month) BY <1>1 DEF Least
<1>4. PICK length \in 28 .. 31 : length = DayOfMonths(leap)[m] BY MonthLengths
<1>5. MonthLength(year, m) = length
  <2>1. LeapYear(year) \in BOOLEAN BY <1>2
  <2> QED BY <1>2, <1>4, <2>1, CalendarMonths
<1>6. CASE day <= 28
  <2>1. p = q BY <1>1, <1>6 DEF adjustMonth
  <2>2. Least(day, length) = day BY <1>6 DEF Least
  <2> QED BY <1>1, <1>3, <1>5, <2>1, <2>2
<1>7. CASE ~(day <= 28)
  <2>1. PICK d \in 28 .. 31 : d = Least(day, length) BY <1>7 DEF Least
  <2>2. p = [q EXCEPT !.month = m, !.day = d]
    <3>1. p = LastDay(q, Least(q.month, 12), DayOfMonths(isLeap(q.year))) BY <1>1, <1>7 DEF adjustMonth
    <3>2. p = LastDay(q, m, DayOfMonths(leap)) BY <1>1, <1>2, <1>3, <3>1
    <3> QED BY <1>1, <1>4, <2>1, <3>2 DEF LastDay
  <2>3. d \in uint16s /\ m \in uint16s BY Fits
  <2>4. p \in OpenTimes /\ p.month = m /\ p.day = d /\ p.year = q.year BY <2>2, <2>3 DEF OpenTimes
  <2> QED BY <1>1, <1>3, <1>5, <2>1, <2>4
<1> QED BY <1>6, <1>7

------------------------------------------------------------------------------
(* The calls.                                                              *)

(* adjustMonth reads before its array in a month 0; no call leaves one.    *)
MonthCounts == open_time.month # 0

CalendarInvariant == TypeOK /\ MonthCounts /\ DateFollowsClock /\ ClockFollowsDate

(* What the calls are made with.                                           *)
LEMMA Inputs ==
  /\ Instants \subseteq Moments /\ Timezones \subseteq Int /\ Signed \subseteq Int
  /\ MonthDays \subseteq uint16s /\ Months \subseteq uint16s \ {0} /\ Years \subseteq Nat
  /\ Seconds \subseteq 0 .. LastSecond
<1>1. MaxDay \in Nat /\ MaxYear \in Nat /\ IntDays \in Nat /\ MaxUint16 \in Nat
  BY SMT DEF MaxDay, MaxYear, IntDays, MaxUint16
<1> USE OpenTimeAssumption DEF OpenTimeAssumption
<1>2. \A d \in Days : d \in Int BY <1>1
<1>3. Instants \subseteq Moments BY <1>2 DEF Instants, Moments
<1>4. \A n \in Amounts : n \in Int /\ -n \in Int BY <1>1
<1>5. Signed \subseteq Int BY <1>4 DEF Signed
<1>6. Months \subseteq uint16s \ {0} BY <1>1 DEF uint16s
<1>7. Years \subseteq Nat BY <1>1
<1> QED BY <1>3, <1>5, <1>6, <1>7 DEF uint16s

LEMMA DateSet ==
  ASSUME NEW o \in OpenTimes, NEW y \in Nat, NEW m \in uint16s, NEW d \in uint16s
  PROVE  WithDate(o, y, m, d) \in OpenTimes /\ WithDate(o, y, m, d).month = m
BY DEF WithDate, OpenTimes

LEMMA TimeSet ==
  ASSUME NEW o \in OpenTimes, NEW s \in 0 .. LastSecond
  PROVE  /\ WithTime(o, s) \in OpenTimes /\ WithTime(o, s).month = o.month
         /\ WithTime(o, s).hour \in uint16s
<1>1. PICK hour \in uint16s, minute \in uint16s, second \in uint16s :
        hour = s \div 3600 /\ minute = (s \div 60) % 60 /\ second = s % 60
  <2>1. s % 60 \in uint16s /\ (s \div 60) % 60 \in uint16s /\ s \div 3600 \in uint16s
    BY TimeOfDay, Fits
  <2> QED BY <2>1
<1>2. PICK p : p = [o EXCEPT !.hour = hour, !.minute = minute, !.second = second] BY Zenon
<1>3. p = WithTime(o, s) BY <1>1, <1>2 DEF WithTime
<1>4. p \in OpenTimes /\ p.month = o.month /\ p.hour \in uint16s BY <1>2 DEF OpenTimes
<1> QED BY <1>3, <1>4

LEMMA BlankIsOpenTime ==
  ASSUME NEW timezone \in Int
  PROVE  Blank(timezone) \in OpenTimes
<1>1. 0 \in uint16s /\ uint16(timezone) \in uint16s BY Fits, Uint16Fits
<1>2. 0 \in 0 .. LastSecond BY DEF LastSecond
<1> QED BY <1>1, <1>2 DEF Blank, OpenTimes, Moments

(* A call that derives the date, and one that derives the Unix time.       *)
LEMMA DeriveKeeps ==
  ASSUME TypeOK, NEW o \in OpenTimes, Derive(o)
  PROVE  CalendarInvariant' /\ last'.changes = "clock"
<1>1. /\ last' = [changes |-> "clock", months |-> 0] /\ calls' = calls + 1 /\ calls < MaxCalls
      /\ open_time' = unixtimeToDate(o)
  BY DEF Derive, Call
<1>2. PICK p : p = unixtimeToDate(o) OBVIOUS
<1>3. p \in OpenTimes /\ p.month # 0 /\ (Zone(p) >= 0 => Shows(p)) BY <1>2, DateDerived
<1>4. open_time' = p /\ last'.changes = "clock" BY <1>1, <1>2
<1>5. TypeOK'
  <2>1. calls \in Nat /\ MaxCalls \in Nat BY OpenTimeAssumption DEF OpenTimeAssumption, TypeOK
  <2> QED BY <1>1, <1>3, <1>4, <2>1 DEF TypeOK
<1>6. MonthCounts' BY <1>3, <1>4 DEF MonthCounts
<1>7. DateFollowsClock' BY <1>3, <1>4 DEF DateFollowsClock
<1>8. ClockFollowsDate' BY <1>4 DEF ClockFollowsDate
<1> QED BY <1>4, <1>5, <1>6, <1>7, <1>8 DEF CalendarInvariant

LEMMA ConvertKeeps ==
  ASSUME TypeOK, NEW o \in OpenTimes, o.month # 0, NEW changes \in {"date", "month"}, NEW months \in Int,
         Call(changes, months), Convert(o)
  PROVE  /\ CalendarInvariant' /\ last' = [changes |-> changes, months |-> months]
         /\ open_time'.year = o.year /\ open_time'.month = o.month /\ open_time'.day = o.day
<1>1. last' = [changes |-> changes, months |-> months] /\ calls' = calls + 1 /\ calls < MaxCalls
  BY DEF Call
<1>2. PICK u \in dateToUnixtime(o) : open_time' = [o EXCEPT !.unixtime = u] BY DEF Convert
<1>3. PICK p : p = [o EXCEPT !.unixtime = u] BY Zenon
<1>4. /\ u \in Moments
      /\ Stands(o) => /\ LocalTime(p).day = DayNumber(o.year, o.month, o.day)
                      /\ LocalTime(p).second = Clock(o)
  BY <1>3, UnixtimeDerived
<1>5. /\ p \in OpenTimes /\ p.year = o.year /\ p.month = o.month /\ p.day = o.day
      /\ p.hour = o.hour /\ p.minute = o.minute /\ p.second = o.second /\ p.timezone = o.timezone
  BY <1>3, <1>4 DEF OpenTimes
<1>6. open_time' = p BY <1>2, <1>3
<1>7. TypeOK'
  <2>1. calls \in Nat /\ MaxCalls \in Nat BY OpenTimeAssumption DEF OpenTimeAssumption, TypeOK
  <2> QED BY <1>1, <1>5, <1>6, <2>1 DEF TypeOK
<1>8. MonthCounts' BY <1>5, <1>6 DEF MonthCounts
<1>9. DateFollowsClock' BY <1>1 DEF DateFollowsClock
<1>10. ClockFollowsDate'
  <2>1. Stands(p) => Stands(o) BY <1>5 DEF Stands, IsDate, InZone, Zone
  <2>2. Clock(p) = Clock(o) BY <1>5 DEF Clock
  <2>3. Stands(p) => Agrees(p) BY <1>4, <1>5, <2>1, <2>2 DEF Agrees
  <2> QED BY <1>6, <2>3, Zenon DEF ClockFollowsDate
<1> QED BY <1>1, <1>5, <1>6, <1>7, <1>8, <1>9, <1>10 DEF CalendarInvariant

(* The calls that change the Unix time or the zone.                        *)
LEMMA ClockCallKeeps ==
  ASSUME TypeOK, ClockCall
  PROVE  CalendarInvariant' /\ last'.changes = "clock"
<1>1. open_time \in OpenTimes BY DEF TypeOK
<1>2. PICK u \in Moments : u = open_time.unixtime BY <1>1 DEF OpenTimes
<1>3. u.day \in Int /\ u.second \in Int BY DEF Moments
<1>4. \A v \in Moments : [open_time EXCEPT !.unixtime = v] \in OpenTimes BY <1>1 DEF OpenTimes
<1>5. ASSUME NEW v \in Instants, setUnixtime(v) PROVE CalendarInvariant' /\ last'.changes = "clock"
  <2>1. [open_time EXCEPT !.unixtime = v] \in OpenTimes BY <1>4, Inputs
  <2> QED BY <1>5, <2>1, DeriveKeeps DEF setUnixtime
<1>6. ASSUME NEW timezone \in Timezones, setTimezone(timezone)
      PROVE  CalendarInvariant' /\ last'.changes = "clock"
  <2>1. uint16(timezone) \in uint16s BY Inputs, Uint16Fits
  <2>2. [open_time EXCEPT !.timezone = uint16(timezone)] \in OpenTimes BY <1>1, <2>1 DEF OpenTimes
  <2> QED BY <1>6, <2>2, DeriveKeeps DEF setTimezone
<1>7. ASSUME NEW n \in Signed, NEW unit \in {1, 60, 3600}, addTime(unit, n)
      PROVE  CalendarInvariant' /\ last'.changes = "clock"
  <2>1. unit * n \in Int BY Inputs
  <2>2. After(u, unit * n) \in Moments BY <1>3, <2>1, AfterIsMoment
  <2>3. [open_time EXCEPT !.unixtime = After(u, unit * n)] \in OpenTimes BY <1>4, <2>2
  <2>4. Derive([open_time EXCEPT !.unixtime = After(u, unit * n)]) BY <1>2, <1>7 DEF addTime
  <2> QED BY <2>3, <2>4, DeriveKeeps
<1>8. ASSUME NEW n \in Signed, addDay(n) PROVE CalendarInvariant' /\ last'.changes = "clock"
  <2>1. [u EXCEPT !.day = u.day + n] \in Moments BY <1>3, Inputs DEF Moments
  <2>2. [open_time EXCEPT !.unixtime.day = @ + n] \in OpenTimes BY <1>1, <1>2, <2>1 DEF OpenTimes, Moments
  <2> QED BY <1>8, <2>2, DeriveKeeps DEF addDay
<1>9. ASSUME copy PROVE CalendarInvariant' /\ last'.changes = "clock"
  BY <1>1, <1>9, DeriveKeeps DEF copy
<1> QED BY <1>5, <1>6, <1>7, <1>8, <1>9 DEF ClockCall

(* addMonth, with what it does to month and day.                           *)
MovesOn(n) ==
  open_time.month \in 1 .. 12 =>
    /\ MonthNumber(open_time') = MonthNumber(open_time) + n
    /\ open_time'.day = Least(open_time.day, MonthLength(open_time'.year, open_time'.month))

LEMMA AddMonthKeeps ==
  ASSUME TypeOK, MonthCounts, NEW n \in Int, addMonth(n)
  PROVE  CalendarInvariant' /\ last' = [changes |-> "month", months |-> n] /\ MovesOn(n)
<1>1. open_time \in OpenTimes /\ open_time.month # 0 BY DEF TypeOK, MonthCounts
<1>2. PICK q : q = MonthsOn(open_time, n) OBVIOUS
<1>3. /\ q \in MonthsOf(open_time)
      /\ open_time.month \in 1 .. 12 =>
           q.month \in 1 .. 12 /\ MonthNumber(q) = MonthNumber(open_time) + n
  BY <1>1, <1>2, MonthsOnIs
<1>4. PICK p : p = adjustMonth(q) OBVIOUS
<1>5. q.month <= MaxUint16 /\ Call("month", n) /\ Convert(p) BY <1>2, <1>4, Zenon DEF addMonth
<1>6. p.year = q.year BY <1>3, <1>4 DEF adjustMonth, LastDay, MonthsOf
<1>7. q \in OpenTimes /\ q.month # 0 /\ q.day = open_time.day
  <2>1. p.year \in Nat
    <3>1. MaxYear \in Nat BY DEF MaxYear
    <3> QED BY <1>5, <3>1 DEF Convert
  <2>2. q.month \in uint16s
    <3>1. MaxUint16 \in Nat BY DEF MaxUint16
    <3> QED BY <1>3, <1>5, <3>1 DEF MonthsOf, uint16s
  <2> QED BY <1>1, <1>3, <1>6, <2>1, <2>2 DEF MonthsOf, OpenTimes
<1>8. /\ p \in OpenTimes /\ p.month # 0
      /\ q.month \in 1 .. 12 => p.month = q.month /\ p.day = Least(q.day, MonthLength(p.year, p.month))
  BY <1>4, <1>7, Adjusted
<1>9. PICK changes \in {"date", "month"} : changes = "month" OBVIOUS
<1>10. /\ CalendarInvariant' /\ last' = [changes |-> "month", months |-> n]
       /\ open_time'.year = p.year /\ open_time'.month = p.month /\ open_time'.day = p.day
  <2>1. Call(changes, n) BY <1>5, <1>9
  <2> QED BY <1>5, <1>8, <1>9, <2>1, ConvertKeeps
<1>11. ASSUME open_time.month \in 1 .. 12
       PROVE  /\ MonthNumber(open_time') = MonthNumber(open_time) + n
              /\ open_time'.day = Least(open_time.day, MonthLength(open_time'.year, open_time'.month))
  <2>1. q.month \in 1 .. 12 /\ MonthNumber(q) = MonthNumber(open_time) + n BY <1>3, <1>11
  <2>2. p.month = q.month /\ p.day = Least(q.day, MonthLength(p.year, p.month)) BY <1>8, <2>1
  <2>3. MonthNumber(open_time') = MonthNumber(q) BY <1>6, <1>10, <2>2 DEF MonthNumber
  <2> QED BY <1>7, <1>10, <2>1, <2>2, <2>3
<1> QED BY <1>10, <1>11 DEF MovesOn

(* The calls that change the date.                                         *)
LEMMA AssignKeeps ==
  ASSUME TypeOK, NEW o \in OpenTimes, o.month # 0, Assign(o)
  PROVE  CalendarInvariant' /\ last'.changes # "month"
<1>1. PICK changes \in {"date", "month"}, months \in Int : changes = "date" /\ months = 0 OBVIOUS
<1>2. Call(changes, months) /\ Convert(o) BY <1>1 DEF Assign
<1>3. CalendarInvariant' /\ last' = [changes |-> changes, months |-> months] BY <1>2, ConvertKeeps
<1> QED BY <1>1, <1>3

LEMMA FailedGMTKeeps ==
  ASSUME TypeOK, MonthCounts, NEW y \in Years, NEW m \in Months, NEW d \in MonthDays, NEW s \in Seconds,
         fromGMTFails(y, m, d, s)
  PROVE  CalendarInvariant' /\ last'.changes # "month"
<1>1. /\ open_time \in OpenTimes /\ open_time.month # 0
      /\ y \in Nat /\ m \in uint16s /\ m # 0 /\ d \in uint16s /\ s \in 0 .. LastSecond
  BY Inputs DEF TypeOK, MonthCounts
<1>2. PICK date \in OpenTimes : date = WithDate(open_time, y, m, d) /\ date.month = m BY <1>1, DateSet
<1>3. PICK time \in OpenTimes : time = WithTime(date, s) /\ time.month = m /\ time.hour \in uint16s
  BY <1>1, <1>2, TimeSet
<1>4. /\ Call("part", 0)
      /\ open_time' \in {open_time, [open_time EXCEPT !.day = d], [open_time EXCEPT !.day = d, !.month = m],
                         date, [date EXCEPT !.hour = time.hour], [time EXCEPT !.second = date.second]}
  BY <1>2, <1>3, Zenon DEF fromGMTFails
<1>5. [open_time EXCEPT !.day = d] \in OpenTimes /\ [open_time EXCEPT !.day = d].month # 0
  BY <1>1 DEF OpenTimes
<1>6. [open_time EXCEPT !.day = d, !.month = m] \in OpenTimes
      /\ [open_time EXCEPT !.day = d, !.month = m].month # 0
  <2>1. PICK x : x = [open_time EXCEPT !.day = d, !.month = m] BY Zenon
  <2>2. x \in OpenTimes /\ x.month # 0 BY <1>1, <2>1 DEF OpenTimes
  <2> QED BY <2>1, <2>2
<1>7. [date EXCEPT !.hour = time.hour] \in OpenTimes /\ [date EXCEPT !.hour = time.hour].month # 0
  BY <1>1, <1>2, <1>3 DEF OpenTimes
<1>8. [time EXCEPT !.second = date.second] \in OpenTimes /\ [time EXCEPT !.second = date.second].month # 0
  BY <1>1, <1>2, <1>3 DEF OpenTimes
<1>9. open_time' \in OpenTimes /\ open_time'.month # 0
  <2> DEFINE day == [open_time EXCEPT !.day = d]
             month == [open_time EXCEPT !.day = d, !.month = m]
             hour == [date EXCEPT !.hour = time.hour]
             minute == [time EXCEPT !.second = date.second]
  <2>1. open_time' \in {open_time, day, month, date, hour, minute} BY <1>4, Zenon
  <2>2. /\ day \in OpenTimes /\ day.month # 0 /\ month \in OpenTimes /\ month.month # 0
        /\ hour \in OpenTimes /\ hour.month # 0 /\ minute \in OpenTimes /\ minute.month # 0
    BY <1>5, <1>6, <1>7, <1>8, Zenon
  <2> HIDE DEF day, month, hour, minute
  <2> QED BY <1>1, <1>2, <2>1, <2>2
<1>10. last' = [changes |-> "part", months |-> 0] /\ calls' = calls + 1 /\ calls < MaxCalls
  BY <1>4 DEF Call
<1>11. TypeOK'
  <2>1. calls \in Nat /\ MaxCalls \in Nat BY OpenTimeAssumption DEF OpenTimeAssumption, TypeOK
  <2> QED BY <1>9, <1>10, <2>1 DEF TypeOK
<1>12. MonthCounts' BY <1>9 DEF MonthCounts
<1>13. DateFollowsClock' /\ ClockFollowsDate' BY <1>10 DEF DateFollowsClock, ClockFollowsDate
<1> QED BY <1>10, <1>11, <1>12, <1>13 DEF CalendarInvariant

LEMMA DateCallKeeps ==
  ASSUME TypeOK, MonthCounts, DateCall
  PROVE  CalendarInvariant' /\ (last'.changes = "month" => MovesOn(last'.months))
<1>1. open_time \in OpenTimes /\ open_time.month # 0 BY DEF TypeOK, MonthCounts
<1>2. /\ Signed \subseteq Int /\ MonthDays \subseteq uint16s /\ Months \subseteq uint16s \ {0}
      /\ Years \subseteq Nat /\ Seconds \subseteq 0 .. LastSecond
  BY Inputs
<1> DEFINE Kept == CalendarInvariant' /\ last'.changes # "month"
           Moved == \E n \in Int : CalendarInvariant' /\ last' = [changes |-> "month", months |-> n] /\ MovesOn(n)
<1>3. ASSUME NEW o \in OpenTimes, o.month # 0, Assign(o) PROVE Kept
  BY <1>3, AssignKeeps
<1>4. ASSUME NEW n \in Signed, addMonth(n) PROVE Moved BY <1>2, <1>4, AddMonthKeeps
<1>5. ASSUME NEW n \in Signed, addQuarter(n) PROVE Moved
  <2>1. 3 * n \in Int /\ addMonth(3 * n) BY <1>2, <1>5 DEF addQuarter
  <2> QED BY <2>1, AddMonthKeeps
<1>6. ASSUME NEW n \in Signed, addYear(n) PROVE Kept
  <2>1. PICK o : o = [open_time EXCEPT !.year = @ + n] BY Zenon
  <2>2. Assign(o) BY <1>6, <2>1, Zenon DEF addYear
  <2>3. o.year \in Nat
    <3>1. MaxYear \in Nat BY DEF MaxYear
    <3> QED BY <2>2, <3>1 DEF Assign, Convert
  <2>4. o \in OpenTimes /\ o.month # 0 BY <1>1, <2>1, <2>3 DEF OpenTimes
  <2> QED BY <2>2, <2>4, <1>3
<1>7. ASSUME NEW d \in MonthDays, setDay(d) PROVE Kept
  <2>1. PICK o : o = [open_time EXCEPT !.day = d] BY Zenon
  <2>2. o \in OpenTimes /\ o.month # 0 BY <1>1, <1>2, <2>1 DEF OpenTimes
  <2> QED BY <1>3, <1>7, <2>1, <2>2 DEF setDay
<1>8. ASSUME NEW m \in Months, setMonth(m) PROVE Kept
  <2>1. PICK o : o = [open_time EXCEPT !.month = m] BY Zenon
  <2>2. o \in OpenTimes /\ o.month # 0 BY <1>1, <1>2, <2>1 DEF OpenTimes
  <2> QED BY <1>3, <1>8, <2>1, <2>2 DEF setMonth
<1>9. ASSUME NEW y \in Years, setYear(y) PROVE Kept
  <2>1. PICK o : o = [open_time EXCEPT !.year = y] BY Zenon
  <2>2. o \in OpenTimes /\ o.month # 0 BY <1>1, <1>2, <2>1 DEF OpenTimes
  <2> QED BY <1>3, <1>9, <2>1, <2>2 DEF setYear
<1>10. ASSUME NEW h \in Signed, setHour(h) PROVE Kept
  <2>1. uint16(h) \in uint16s BY <1>2, Uint16Fits
  <2>2. PICK o : o = [open_time EXCEPT !.hour = uint16(h)] BY Zenon
  <2>3. o \in OpenTimes /\ o.month # 0 BY <1>1, <2>1, <2>2 DEF OpenTimes
  <2> QED BY <1>3, <1>10, <2>2, <2>3 DEF setHour
<1>11. ASSUME NEW y \in Years, NEW m \in Months, NEW d \in MonthDays
       PROVE  WithDate(open_time, y, m, d) \in OpenTimes /\ WithDate(open_time, y, m, d).month # 0
  <2>1. y \in Nat /\ m \in uint16s /\ m # 0 /\ d \in uint16s BY <1>2
  <2> QED BY <1>1, <2>1, DateSet
<1>12. ASSUME NEW y \in Years, NEW m \in Months, NEW d \in MonthDays, NEW s \in Seconds, fromString(y, m, d, s)
       PROVE  Kept
  <2>1. PICK o \in OpenTimes : o = WithDate(open_time, y, m, d) /\ o.month # 0 BY <1>11
  <2>2. WithTime(o, s) \in OpenTimes /\ WithTime(o, s).month # 0
    <3>1. s \in 0 .. LastSecond BY <1>2
    <3> QED BY <2>1, <3>1, TimeSet
  <2> QED BY <1>3, <1>12, <2>1, <2>2 DEF fromString
<1>13. ASSUME NEW y \in Years, NEW m \in Months, NEW d \in MonthDays, NEW s \in Seconds, fromGMTFails(y, m, d, s)
       PROVE  Kept
  BY <1>13, FailedGMTKeeps
<1>14. ASSUME NEW y \in Years, NEW m \in Months, NEW d \in MonthDays, fromFormat(y, m, d) PROVE Kept
  BY <1>3, <1>11, <1>14 DEF fromFormat
<1>15. Kept \/ Moved
  <2> HIDE DEF Kept, Moved
  <2> QED
    BY <1>4, <1>5, <1>6, <1>7, <1>8, <1>9, <1>10, <1>12, <1>13, <1>14, Zenon DEF DateCall
<1>16. CASE Moved
  <2>1. PICK n \in Int : CalendarInvariant' /\ last' = [changes |-> "month", months |-> n] /\ MovesOn(n)
    BY <1>16
  <2>2. last'.months = n BY <2>1
  <2> QED BY <2>1, <2>2
<1> QED BY <1>15, <1>16

------------------------------------------------------------------------------
(* The specification.                                                      *)

LEMMA Starts ==
  ASSUME Init
  PROVE  CalendarInvariant
<1>1. PICK timezone \in Timezones : FromClock(timezone) \/ FromDate(timezone) BY DEF Init
<1>2. PICK blank \in OpenTimes : blank = Blank(timezone)
  <2>1. timezone \in Int BY Inputs
  <2> QED BY <2>1, BlankIsOpenTime
<1>3. calls \in 0 .. MaxCalls BY OpenTimeAssumption DEF OpenTimeAssumption, Init
<1>4. CASE FromClock(timezone)
  <2>1. PICK u \in Instants : /\ open_time = unixtimeToDate([blank EXCEPT !.unixtime = u])
                              /\ last = [changes |-> "clock", months |-> 0]
    BY <1>2, <1>4 DEF FromClock
  <2>2. [blank EXCEPT !.unixtime = u] \in OpenTimes
    <3>1. u \in Moments BY Inputs
    <3> QED BY <1>2, <3>1 DEF OpenTimes
  <2>3. PICK o \in OpenTimes : o = [blank EXCEPT !.unixtime = u] BY <2>2
  <2>4. open_time \in OpenTimes /\ open_time.month # 0 /\ (Zone(open_time) >= 0 => Shows(open_time))
    BY <2>1, <2>3, DateDerived
  <2>5. TypeOK BY <1>3, <2>1, <2>4 DEF TypeOK
  <2>6. MonthCounts /\ DateFollowsClock BY <2>4 DEF MonthCounts, DateFollowsClock
  <2>7. ClockFollowsDate BY <2>1 DEF ClockFollowsDate
  <2> QED BY <2>5, <2>6, <2>7 DEF CalendarInvariant
<1>5. CASE FromDate(timezone)
  <2>1. PICK y \in Years, m \in Months, d \in MonthDays, s \in Seconds :
          LET o == WithTime(WithDate(blank, y, m, d), s) IN
          /\ \E u \in dateToUnixtime(o) : open_time = [o EXCEPT !.unixtime = u]
          /\ last = [changes |-> "date", months |-> 0]
    BY <1>2, <1>5, Zenon DEF FromDate
  <2>2. PICK o : o = WithTime(WithDate(blank, y, m, d), s) OBVIOUS
  <2>3. PICK u \in dateToUnixtime(o) : open_time = [o EXCEPT !.unixtime = u] BY <2>1, <2>2, Zenon
  <2>4. last = [changes |-> "date", months |-> 0] BY <2>1, Zenon
  <2>5. o \in OpenTimes /\ o.month # 0
    <3>1. y \in Nat /\ m \in uint16s /\ m # 0 /\ d \in uint16s /\ s \in 0 .. LastSecond BY Inputs
    <3>2. PICK date \in OpenTimes : date = WithDate(blank, y, m, d) /\ date.month = m
      BY <1>2, <3>1, DateSet
    <3> QED BY <2>2, <3>1, <3>2, TimeSet
  <2>6. PICK p : p = [o EXCEPT !.unixtime = u] BY Zenon
  <2>7. /\ u \in Moments
        /\ Stands(o) => /\ LocalTime(p).day = DayNumber(o.year, o.month, o.day)
                        /\ LocalTime(p).second = Clock(o)
    BY <2>5, <2>6, UnixtimeDerived
  <2>8. /\ p \in OpenTimes /\ p.year = o.year /\ p.month = o.month /\ p.day = o.day
        /\ p.hour = o.hour /\ p.minute = o.minute /\ p.second = o.second /\ p.timezone = o.timezone
    BY <2>5, <2>6, <2>7 DEF OpenTimes
  <2>9. open_time = p BY <2>3, <2>6
  <2>10. TypeOK BY <1>3, <2>4, <2>8, <2>9 DEF TypeOK
  <2>11. MonthCounts /\ DateFollowsClock BY <2>4, <2>5, <2>8, <2>9 DEF MonthCounts, DateFollowsClock
  <2>12. ClockFollowsDate
    <3>1. Stands(p) => Stands(o) BY <2>8 DEF Stands, IsDate, InZone, Zone
    <3>2. Clock(p) = Clock(o) BY <2>8 DEF Clock
    <3>3. Stands(p) => Agrees(p) BY <2>7, <2>8, <3>1, <3>2 DEF Agrees
    <3> QED BY <2>9, <3>3, Zenon DEF ClockFollowsDate
  <2> QED BY <2>10, <2>11, <2>12 DEF CalendarInvariant
<1> QED BY <1>1, <1>4, <1>5

LEMMA Stutters ==
  ASSUME CalendarInvariant, UNCHANGED vars
  PROVE  CalendarInvariant'
<1>1. open_time' = open_time /\ last' = last /\ calls' = calls BY DEF vars
<1>2. TypeOK' /\ MonthCounts' BY <1>1 DEF CalendarInvariant, TypeOK, MonthCounts
<1>3. DateFollowsClock' BY <1>1 DEF CalendarInvariant, DateFollowsClock
<1>4. ClockFollowsDate' BY <1>1, Zenon DEF CalendarInvariant, ClockFollowsDate
<1> QED BY <1>2, <1>3, <1>4 DEF CalendarInvariant

(* The four parts of the invariant hold throughout.                        *)
THEOREM CalendarInvariantHolds == Spec => []CalendarInvariant
<1>1. CalendarInvariant /\ [Next]_vars => CalendarInvariant'
  <2> SUFFICES ASSUME CalendarInvariant, [Next]_vars PROVE CalendarInvariant' OBVIOUS
  <2>1. TypeOK /\ MonthCounts BY DEF CalendarInvariant
  <2>2. CASE ClockCall BY <2>1, <2>2, ClockCallKeeps
  <2>3. CASE DateCall BY <2>1, <2>3, DateCallKeeps
  <2>4. CASE UNCHANGED vars BY <2>4, Stutters
  <2> QED BY <2>2, <2>3, <2>4 DEF Next
<1> QED BY <1>1, Starts, PTL DEF Spec

(* Every field has the width its type has, after any sequence of calls:    *)
(* the loops that read the Unix time and those that move on by months end  *)
(* with numbers their uint16_t fields can hold.                            *)
THEOREM CalendarTypes == Spec => []TypeOK
<1>1. CalendarInvariant => TypeOK BY DEF CalendarInvariant
<1> QED BY <1>1, CalendarInvariantHolds, PTL

(* What unixtimeToDate derives shows the local time, for every instant up  *)
(* to 2100 and every zone from 0 to 17: time of day and year, and, but in  *)
(* the leap years after 1972, of which nothing is claimed, month and day.  *)
THEOREM DateShowsClock == Spec => []DateFollowsClock
<1>1. CalendarInvariant => DateFollowsClock BY DEF CalendarInvariant
<1> QED BY <1>1, CalendarInvariantHolds, PTL

(* What dateToUnixtime derives is the instant the date stands for, for     *)
(* every date up to 2041 and every zone from 0 to 17.                      *)
THEOREM ClockShowsDate == Spec => []ClockFollowsDate
<1>1. CalendarInvariant => ClockFollowsDate BY DEF CalendarInvariant
<1> QED BY <1>1, CalendarInvariantHolds, PTL

(* addMonth moves on by the months it was given, however many, and to a    *)
(* day that its month has.                                                 *)
THEOREM MonthsMoveOn == Spec => MonthsKeepTheDay
<1> DEFINE Moves ==
             last'.changes = "month" /\ open_time.month \in 1 .. 12 =>
               /\ MonthNumber(open_time') = MonthNumber(open_time) + last'.months
               /\ open_time'.day = Least(open_time.day, MonthLength(open_time'.year, open_time'.month))
<1>1. CalendarInvariant /\ Next => Moves
  <2> SUFFICES ASSUME CalendarInvariant, Next, last'.changes = "month", open_time.month \in 1 .. 12
               PROVE  MovesOn(last'.months)
    BY DEF MovesOn
  <2>1. TypeOK /\ MonthCounts BY DEF CalendarInvariant
  <2>2. CASE ClockCall BY <2>1, <2>2, ClockCallKeeps
  <2>3. CASE DateCall BY <2>1, <2>3, DateCallKeeps
  <2> QED BY <2>2, <2>3 DEF Next
<1> HIDE DEF Moves
<1>2. CalendarInvariant /\ [Next]_vars => [Moves]_vars BY <1>1
<1>3. Spec => [][Moves]_vars BY <1>2, CalendarInvariantHolds, PTL DEF Spec
<1> QED BY <1>3 DEF Moves, MonthsKeepTheDay
=============================================================================

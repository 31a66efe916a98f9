---------------------------- MODULE Ports_proofs ----------------------------
(***************************************************************************)
(* What TLAPS proves of two of the chips behind the I/O ports, for every   *)
(* value of the constants and every length of a behaviour.                 *)
(*                                                                         *)
(* The real-time clock (Rtc): the arithmetic that finds a date from its    *)
(* number and a number from its date (the days since 1970) is the inverse  *)
(* of each other and follows the calendar from a day to the next, over     *)
(* months, years, centuries and eras; and the digits in the registers are  *)
(* the date and time of a calendar that steps.                             *)
(*                                                                         *)
(* The host's keyboard and joysticks (HostInput): what every function of   *)
(* the input builder changes, what a key at hand means while it is held,   *)
(* and that the cells and lines shown to the machine are those of the keys *)
(* and buttons held, and of the programs with their timed releases.        *)
(***************************************************************************)
EXTENDS Rtc, HostInput, TLAPS


-----------------------------------------------------------------------------
(* The calendar: within an era of 400 years that starts on the first of    *)
(* March, the day of the era determines the year, the year's day the month. *)

YearsDays(e)  == (e * 365) + (e \div 4) - (e \div 100)
EraLast       == 146096
DaysOfYear    == 0..365
LongYear(e)   == (e + 1) % 4 = 0 /\ ((e + 1) % 100 # 0 \/ e = 399)

LEMMA YearOfEraIs ==
  ASSUME NEW e \in 0..399, NEW day \in DaysOfYear, day = 365 => LongYear(e)
  PROVE  \A n : n = YearsDays(e) + day => n \in Nat /\ n <= EraLast /\ YearOfEra(n) = e
<1> USE DEF DaysOfYear
<1> DEFINE n == YearsDays(e) + day
<1>1. PICK c \in 0..3, h \in 0..99 : e = (100 * c) + h
  <2>1. e \div 100 \in 0..3 /\ e % 100 \in 0..99 /\ e = (100 * (e \div 100)) + (e % 100)
    BY SMT
  <2> QED BY SMT, <2>1
<1>2. PICK q \in 0..24, r \in 0..3 : h = (4 * q) + r
  <2>1. h \div 4 \in 0..24 /\ h % 4 \in 0..3 /\ h = (4 * (h \div 4)) + (h % 4)
    BY SMT
  <2> QED BY SMT, <2>1
<1>3. e \div 100 = c /\ e \div 4 = (25 * c) + q
  BY SMT, <1>1, <1>2
<1>4. n = (36524 * c) + (1461 * q) + (365 * r) + day
  BY SMT, <1>1, <1>2, <1>3 DEF YearsDays
<1>5. day = 365 => r = 3 /\ (q = 24 => c = 3)
  BY SMT, <1>1, <1>2 DEF LongYear
<1> HIDE DEF n
<1>6. n \in Nat /\ n <= 146096
  BY SMT, <1>4, <1>5
<1>7. (n \div 36524) - (n \div 146096) = c
  <2>1. CASE n = 146096
    BY SMT, <2>1, <1>4, <1>5
  <2>2. CASE n < 146096
    <3>1. 36524 * c <= n /\ n < (36524 * c) + 36524
      BY SMT, <1>4, <1>5, <2>2
    <3>2. n \div 36524 = c
      BY SMT, <1>6, <3>1
    <3>3. n \div 146096 = 0
      BY SMT, <1>6, <2>2
    <3> QED BY SMT, <3>2, <3>3
  <2> QED BY SMT, <1>6, <2>1, <2>2
<1> DEFINE s == (25 * c) + q
<1>8. n = (1460 * s) + (365 * r) + (s - c) + day /\ s - c \in 0..96 /\ s \in 0..99
  BY SMT, <1>4
<1>9. \/ n \div 1460 = s /\ (365 * r) + day + (s - c) < 1460
      \/ n \div 1460 = s + 1 /\ r = 3 /\ day + (s - c) >= 365
  <2> HIDE DEF s
  <2>1. PICK x \in 0..2919 : x = (365 * r) + day + (s - c)
    BY SMT, <1>8
  <2>2. n = (1460 * s) + x
    BY SMT, <1>8, <2>1
  <2>3. x < 1460 => n \div 1460 = s
    BY SMT, <1>8, <2>2
  <2>4. x >= 1460 => n \div 1460 = s + 1
    BY SMT, <1>8, <2>2
  <2>5. x >= 1460 => r = 3 /\ day + (s - c) >= 365
    BY SMT, <1>5, <1>8, <2>1
  <2> QED BY SMT, <2>1, <2>3, <2>4, <2>5
<1>10. e = (4 * s) + r
  BY SMT, <1>1, <1>2
<1>11. (n - (n \div 1460)) + c - (365 * e) \in 0..364
  <2> HIDE DEF s
  <2> QED BY SMT, <1>5, <1>8, <1>9, <1>10
<1>12. YearOfEra(n) = ((n - (n \div 1460)) + c) \div 365
  <2>1. n \div 1460 \in Int /\ n \div 36524 \in Int /\ n \div 146096 \in Int
    BY SMT, <1>6
  <2>2. n - (n \div 1460) + (n \div 36524) - (n \div 146096) = (n - (n \div 1460)) + c
    BY SMT, <1>6, <1>7, <2>1
  <2> QED BY SMT, <2>2 DEF YearOfEra
<1>13. YearOfEra(n) = e
  <2>1. n \div 1460 \in Int
    BY SMT, <1>6
  <2> QED BY SMT, <1>6, <1>11, <1>12, <2>1
<1> QED BY SMT, <1>6, <1>13 DEF n, EraLast

MarchMonth(m)      == (m + 9) % 12
DaysBeforeMonth(k) == ((153 * k) + 2) \div 5
DayOfYear(m, d)    == (DaysBeforeMonth(MarchMonth(m)) + d) - 1
MarchYear(y, m)    == IF m <= 2 THEN y - 1 ELSE y
LongestOf(m)       == CASE m = 2 -> 29 [] m \in {4, 6, 9, 11} -> 30 [] OTHER -> 31

LEMMA MonthsAre ==
  /\ DaysBeforeMonth(0) = 0    /\ DaysBeforeMonth(1) = 31  /\ DaysBeforeMonth(2) = 61
  /\ DaysBeforeMonth(3) = 92   /\ DaysBeforeMonth(4) = 122 /\ DaysBeforeMonth(5) = 153
  /\ DaysBeforeMonth(6) = 184  /\ DaysBeforeMonth(7) = 214 /\ DaysBeforeMonth(8) = 245
  /\ DaysBeforeMonth(9) = 275  /\ DaysBeforeMonth(10) = 306 /\ DaysBeforeMonth(11) = 337
BY SMT DEF DaysBeforeMonth

LEMMA MarchMonthIs ==
  ASSUME NEW m \in 1..12
  PROVE  MarchMonth(m) = IF m <= 2 THEN m + 9 ELSE m - 3
BY SMT DEF MarchMonth

FallsOn(day, m, d) ==
  /\ day \in DaysOfYear /\ (day = 365 => m = 2 /\ d = 29)
  /\ MonthOf(day) = MarchMonth(m)
  /\ (day - DaysBeforeMonth(MarchMonth(m))) + 1 = d

LEMMA MonthOfYearIs ==
  ASSUME NEW m \in 1..12, NEW d \in 1..LongestOf(m)
  PROVE  \A day : day = DayOfYear(m, d) => FallsOn(day, m, d)
<1> DEFINE k == MarchMonth(m)
<1>1. k = IF m <= 2 THEN m + 9 ELSE m - 3
  BY MarchMonthIs
<1>2. d \in Int /\ 1 <= d /\ d <= 31 /\ (m = 2 => d <= 29) /\ (m \in {4, 6, 9, 11} => d <= 30)
  BY SMT DEF LongestOf
<1>3. PICK b \in Int : b = DaysBeforeMonth(k)
  <2>1. DaysBeforeMonth(k) \in Int
    BY SMT, <1>1 DEF DaysBeforeMonth
  <2> QED BY <2>1
<1>4. DayOfYear(m, d) = (b + d) - 1
  BY <1>3 DEF DayOfYear
<1> HIDE DEF k
<1>5. /\ m = 1 => k = 10 /\ b = 306
      /\ m = 2 => k = 11 /\ b = 337
      /\ m = 3 => k = 0 /\ b = 0
      /\ m = 4 => k = 1 /\ b = 31
      /\ m = 5 => k = 2 /\ b = 61
      /\ m = 6 => k = 3 /\ b = 92
      /\ m = 7 => k = 4 /\ b = 122
      /\ m = 8 => k = 5 /\ b = 153
      /\ m = 9 => k = 6 /\ b = 184
      /\ m = 10 => k = 7 /\ b = 214
      /\ m = 11 => k = 8 /\ b = 245
      /\ m = 12 => k = 9 /\ b = 275
  BY SMT, <1>1, <1>3, MonthsAre
<1>6. m \in {1, 2, 3, 4, 5, 6, 7, 8, 9, 10, 11, 12}
  BY SMT
<1>7. MonthOf((b + d) - 1) = k
  BY SMT, <1>2, <1>3, <1>5, <1>6 DEF MonthOf
<1>8. (b + d) - 1 \in DaysOfYear /\ ((b + d) - 1 = 365 => m = 2 /\ d = 29)
  BY SMT, <1>2, <1>3, <1>5, <1>6 DEF DaysOfYear
<1>9. (((b + d) - 1) - b) + 1 = d
  BY SMT, <1>2, <1>3
<1>10. FallsOn((b + d) - 1, m, d)
  BY SMT, <1>3, <1>7, <1>8, <1>9 DEF k, FallsOn
<1> QED BY Zenon, <1>4, <1>10

YearStart(u) == ((u \div 400) * 146097) + YearsDays(u % 400)

\* The number of a day, from the first of March of the year 0.
LEMMA NumberIs ==
  ASSUME NEW y \in Nat, NEW m \in 1..12, NEW d \in Int
  PROVE  DaysFromCivil(y, m, d) + DaysBefore1970 = YearStart(MarchYear(y, m)) + DayOfYear(m, d)
<1>1. PICK u \in Int : u = MarchYear(y, m)
  BY SMT DEF MarchYear
<1>2. PICK b \in Int : b = DayOfYear(m, d)
  <2>1. MarchMonth(m) \in Int
    BY SMT DEF MarchMonth
  <2>2. DaysBeforeMonth(MarchMonth(m)) \in Int
    BY SMT, <2>1 DEF DaysBeforeMonth
  <2> QED BY SMT, <2>2 DEF DayOfYear
<1>3. b = ((((153 * ((m + 9) % 12)) + 2) \div 5) + d) - 1
  BY SMT, <1>2 DEF DayOfYear, DaysBeforeMonth, MarchMonth
<1>4. u = IF m <= 2 THEN y - 1 ELSE y
  BY SMT, <1>1 DEF MarchYear
<1>5. PICK e \in Int, k \in Int : k = u \div 400 /\ k = (IF u >= 0 THEN u ELSE u - 399) \div 400 /\ e = u - (k * 400)
  BY SMT, <1>4
<1>6. DaysFromCivil(y, m, d) = (k * 146097) + (((e * 365) + (e \div 4)) - (e \div 100)) + b - DaysBefore1970
  BY SMT, <1>3, <1>4, <1>5 DEF DaysFromCivil
<1>7. e = u % 400
  BY SMT, <1>5
<1>8. e \div 4 \in Int /\ e \div 100 \in Int
  BY SMT
<1> QED BY SMT, <1>1, <1>2, <1>5, <1>6, <1>7, <1>8 DEF YearStart, YearsDays, DaysBefore1970

LEMMA CivilFrom ==
  ASSUME NEW x, NEW k, NEW n, NEW e, NEW day, NEW mp,
         EraOf(x) = k, DayOfEra(x, k) = n, YearOfEra(n) = e, DayInYear(n, e) = day, MonthOf(day) = mp
  PROVE  CivilFromDays(x) = CivilOf(k, e, day, mp)
  BY Zenon DEF CivilFromDays

\* The arithmetic of a date finds every date again that exists, from the day before
\* March of the year 0.
LEMMA CivilIs ==
  ASSUME NEW y \in Nat, NEW m \in 1..12, NEW d \in 1..DaysIn(y, m),
         DaysFromCivil(y, m, d) + DaysBefore1970 >= -1
  PROVE  CivilFromDays(DaysFromCivil(y, m, d)) = <<y, m, d>>
<1>1. d \in 1..LongestOf(m) /\ d \in Int /\ (m = 2 /\ d = 29 => Leap(y))
  <2>1. PICK n : n = DaysIn(y, m)
    OBVIOUS
  <2>2. m = 2 => (Leap(y) => n = 29) /\ (~Leap(y) => n = 28) /\ LongestOf(m) = 29
    BY SMT, <2>1 DEF DaysIn, LongestOf
  <2>3. m \in {4, 6, 9, 11} => n = 30 /\ LongestOf(m) = 30
    BY SMT, <2>1 DEF DaysIn, LongestOf
  <2>4. m \notin {2, 4, 6, 9, 11} => n = 31 /\ LongestOf(m) = 31
    BY SMT, <2>1 DEF DaysIn, LongestOf
  <2>5. n \in 28..31 /\ d \in 1..n /\ d \in Int
    BY SMT, <2>1, <2>2, <2>3, <2>4
  <2> QED BY SMT, <2>2, <2>3, <2>4, <2>5
<1>2. PICK day : day = DayOfYear(m, d)
  OBVIOUS
<1>3. PICK mp \in Int, b \in Int : mp = MarchMonth(m) /\ b = DaysBeforeMonth(mp)
  <2>1. MarchMonth(m) \in Int
    BY SMT DEF MarchMonth
  <2>2. DaysBeforeMonth(MarchMonth(m)) \in Int
    BY SMT, <2>1 DEF DaysBeforeMonth
  <2> QED BY <2>1, <2>2
<1>4. day \in DaysOfYear /\ (day = 365 => m = 2 /\ d = 29) /\ MonthOf(day) = mp /\ (day - b) + 1 = d
  <2>1. FallsOn(day, m, d)
    BY MonthOfYearIs, <1>1, <1>2, Zenon
  <2> QED BY SMT, <1>3, <2>1 DEF FallsOn
<1>5. PICK u \in Int : u = MarchYear(y, m) /\ u = IF m <= 2 THEN y - 1 ELSE y
  BY SMT DEF MarchYear
<1>6. PICK k \in Int, e \in 0..399 : u = (400 * k) + e /\ k = u \div 400 /\ e = u % 400
  BY SMT
<1>7. day = 365 => LongYear(e)
  BY SMT, <1>5, <1>6, <1>1, <1>4 DEF Leap, LongYear
<1>8. PICK n : n = YearsDays(e) + day
  OBVIOUS
<1>9. n \in Nat /\ n <= EraLast /\ YearOfEra(n) = e
  BY YearOfEraIs, <1>4, <1>7, <1>8, Zenon
<1>10. PICK x, z : x = DaysFromCivil(y, m, d) /\ z = x + DaysBefore1970
  OBVIOUS
<1>11. z = (k * 146097) + n
  <2>1. DaysFromCivil(y, m, d) + DaysBefore1970 = YearStart(MarchYear(y, m)) + DayOfYear(m, d)
    BY SMT, NumberIs, <1>1
  <2>2. YearsDays(e) \in Int
    BY SMT DEF YearsDays
  <2>3. YearStart(u) = (k * 146097) + YearsDays(e)
    BY SMT, <1>6 DEF YearStart
  <2> QED BY SMT, <1>4, <1>5, <1>2, <1>8, <1>10, <2>1, <2>2, <2>3 DEF DaysOfYear
<1>12. EraOf(x) = k /\ DayOfEra(x, k) = n
  BY SMT, <1>6, <1>9, <1>10, <1>11 DEF EraOf, DayOfEra, EraLast
<1>13. DayInYear(n, e) = day
  <2>1. e \div 4 \in Int /\ e \div 100 \in Int
    BY SMT
  <2> QED BY SMT, <1>4, <1>8, <2>1 DEF YearsDays, DayInYear, DaysOfYear
<1>14. mp = (IF m <= 2 THEN m + 9 ELSE m - 3) /\ (IF mp < 10 THEN mp + 3 ELSE mp - 9) = m
  BY SMT, <1>3, MarchMonthIs
<1>15. e + (k * 400) + (IF m <= 2 THEN 1 ELSE 0) = y
  BY SMT, <1>5, <1>6
<1>16. (day - (((153 * mp) + 2) \div 5)) + 1 = d
  BY SMT, <1>3, <1>4 DEF DaysBeforeMonth
<1>17. CivilOf(k, e, day, mp) = <<y, m, d>>
  BY SMT, <1>14, <1>15, <1>16 DEF CivilOf
<1>18. CivilFromDays(x) = CivilOf(k, e, day, mp)
  BY SMT, CivilFrom, <1>4, <1>9, <1>12, <1>13
<1> QED BY <1>10, <1>17, <1>18, Zenon

-----------------------------------------------------------------------------
(* The days follow each other: the number of the next day is one more.     *)

LEMMA YearStartIs ==
  ASSUME NEW u \in Int
  PROVE  YearStart(u) \in Int /\ YearStart(u) = YearStart(u - 1) + (IF Leap(u) THEN 366 ELSE 365)
<1>1. PICK k \in Int, e \in 0..399 : u = (400 * k) + e /\ k = u \div 400 /\ e = u % 400
  BY SMT
<1>2. YearStart(u) = (k * 146097) + (e * 365) + (e \div 4) - (e \div 100)
  <2>1. e \div 4 \in Int /\ e \div 100 \in Int
    BY SMT
  <2> QED BY SMT, <1>1, <2>1 DEF YearStart, YearsDays
<1>3. PICK c \in 0..3, q \in 0..24, r \in 0..3 : e = (100 * c) + (4 * q) + r /\ e \div 100 = c /\ e \div 4 = (25 * c) + q
  <2>1. PICK c \in 0..3, h \in 0..99 : e = (100 * c) + h
    <3>1. e \div 100 \in 0..3 /\ e % 100 \in 0..99 /\ e = (100 * (e \div 100)) + (e % 100)
      BY SMT
    <3> QED BY SMT, <3>1
  <2>2. PICK q \in 0..24, r \in 0..3 : h = (4 * q) + r
    <3>1. h \div 4 \in 0..24 /\ h % 4 \in 0..3 /\ h = (4 * (h \div 4)) + (h % 4)
      BY SMT
    <3> QED BY SMT, <3>1
  <2>3. e = (100 * c) + (4 * q) + r
    BY SMT, <2>1, <2>2
  <2>4. e \div 100 = c /\ e \div 4 = (25 * c) + q
    BY SMT, <2>1, <2>2
  <2> QED BY <2>3, <2>4
<1>4. Leap(u) <=> r = 0 /\ (q # 0 \/ c = 0)
  BY SMT, <1>1, <1>3 DEF Leap
<1>5. CASE e = 0
  <2>1. (u - 1) \div 400 = k - 1 /\ (u - 1) % 400 = 399
    BY SMT, <1>1, <1>5
  <2>2. YearStart(u - 1) = ((k - 1) * 146097) + (399 * 365) + 99 - 3
    BY SMT, <2>1 DEF YearStart, YearsDays
  <2> QED BY SMT, <1>2, <1>3, <1>4, <1>5, <2>2
<1>6. CASE e # 0
  <2>1. (u - 1) \div 400 = k /\ (u - 1) % 400 = e - 1
    BY SMT, <1>1, <1>6
  <2>2. (e - 1) \div 100 = IF q = 0 /\ r = 0 THEN c - 1 ELSE c
    BY SMT, <1>3
  <2>3. (e - 1) \div 4 = IF r = 0 THEN ((25 * c) + q) - 1 ELSE (25 * c) + q
    BY SMT, <1>3
  <2>4. YearStart(u - 1) = (k * 146097) + ((e - 1) * 365) + ((e - 1) \div 4) - ((e - 1) \div 100)
    BY SMT, <1>1, <2>1, <2>2, <2>3 DEF YearStart, YearsDays
  <2> QED BY SMT, <1>2, <1>3, <1>4, <1>6, <2>2, <2>3, <2>4
<1> QED BY <1>5, <1>6

\* The number of a day is an integer.
LEMMA NumberIsInt ==
  ASSUME NEW y \in Nat, NEW m \in 1..12, NEW d \in Int
  PROVE  DaysFromCivil(y, m, d) \in Int
<1>1. (m + 9) % 12 \in Int
  BY SMT
<1>2. ((153 * ((m + 9) % 12)) + 2) \div 5 \in Int
  BY SMT, <1>1
<1>3. PICK u \in Int : u = IF m <= 2 THEN y - 1 ELSE y
  BY SMT
<1>4. PICK k \in Int, e \in Int : k = (IF u >= 0 THEN u ELSE u - 399) \div 400 /\ e = u - (k * 400)
  BY SMT, <1>3
<1>5. e \div 4 \in Int /\ e \div 100 \in Int
  BY SMT
<1> QED BY SMT, <1>2, <1>3, <1>4, <1>5 DEF DaysFromCivil, DaysBefore1970

\* A later day of the same month, also past its end.
LEMMA LaterDayIs ==
  ASSUME NEW y \in Nat, NEW m \in 1..12, NEW d \in Int, NEW j \in Int
  PROVE  DaysFromCivil(y, m, d + j) = DaysFromCivil(y, m, d) + j
<1>1. PICK b \in Int : b = DaysBeforeMonth(MarchMonth(m))
  <2>1. MarchMonth(m) \in Int
    BY SMT DEF MarchMonth
  <2>2. DaysBeforeMonth(MarchMonth(m)) \in Int
    BY SMT, <2>1 DEF DaysBeforeMonth
  <2> QED BY <2>2
<1>2. DayOfYear(m, d) = (b + d) - 1 /\ DayOfYear(m, d + j) = (b + (d + j)) - 1
  BY SMT, <1>1 DEF DayOfYear
<1>3. MarchYear(y, m) \in Int
  BY SMT DEF MarchYear
<1>4. YearStart(MarchYear(y, m)) \in Int
  BY SMT, <1>3, YearStartIs
<1>5. /\ DaysFromCivil(y, m, d) + DaysBefore1970 = YearStart(MarchYear(y, m)) + DayOfYear(m, d)
      /\ DaysFromCivil(y, m, d + j) + DaysBefore1970 = YearStart(MarchYear(y, m)) + DayOfYear(m, d + j)
  BY SMT, NumberIs
<1>6. DaysFromCivil(y, m, d) \in Int /\ DaysFromCivil(y, m, d + j) \in Int
  <2>1. \A n \in Int : DaysFromCivil(y, m, n) \in Int
    BY NumberIsInt
  <2> QED BY SMT, <2>1
<1> QED BY SMT, <1>2, <1>4, <1>5, <1>6 DEF DaysBefore1970

\* The first of a month follows the last of the month before.
LEMMA NextMonthIs ==
  ASSUME NEW y \in Nat, NEW m \in 1..11
  PROVE  DaysFromCivil(y, m + 1, 1) = DaysFromCivil(y, m, DaysIn(y, m)) + 1
<1>1. PICK l \in Int : l = DaysIn(y, m)
  BY SMT DEF DaysIn
<1>2. /\ DaysFromCivil(y, m, l) + DaysBefore1970 = YearStart(MarchYear(y, m)) + DayOfYear(m, l)
      /\ DaysFromCivil(y, m + 1, 1) + DaysBefore1970 = YearStart(MarchYear(y, m + 1)) + DayOfYear(m + 1, 1)
  BY SMT, NumberIs
<1>3. DaysFromCivil(y, m, l) \in Int /\ DaysFromCivil(y, m + 1, 1) \in Int
  <2>1. \A k \in 1..12, n \in Int : DaysFromCivil(y, k, n) \in Int
    BY NumberIsInt
  <2>2. m \in 1..12 /\ m + 1 \in 1..12 /\ 1 \in Int
    BY SMT
  <2> QED BY <1>1, <2>1, <2>2, Zenon
<1>4. /\ DayOfYear(m, l) = (DaysBeforeMonth(MarchMonth(m)) + l) - 1
      /\ DayOfYear(m + 1, 1) = (DaysBeforeMonth(MarchMonth(m + 1)) + 1) - 1
  BY SMT DEF DayOfYear
<1>5. MarchMonth(m) = (IF m <= 2 THEN m + 9 ELSE m - 3) /\ MarchMonth(m + 1) = (IF m <= 1 THEN m + 10 ELSE m - 2)
  BY SMT, MarchMonthIs
<1>6. YearStart(y) \in Int /\ YearStart(y - 1) \in Int /\ YearStart(y) = YearStart(y - 1) + (IF Leap(y) THEN 366 ELSE 365)
  BY SMT, YearStartIs
<1>7. CASE m = 2
  <2>1. YearStart(MarchYear(y, m)) = YearStart(y - 1) /\ YearStart(MarchYear(y, m + 1)) = YearStart(y)
    BY SMT, <1>7 DEF MarchYear
  <2>2. DayOfYear(m, l) = (337 + l) - 1 /\ DayOfYear(m + 1, 1) = 0
    BY SMT, <1>4, <1>5, <1>7, MonthsAre
  <2>3. l = IF Leap(y) THEN 29 ELSE 28
    BY SMT, <1>1, <1>7 DEF DaysIn
  <2> QED BY SMT, <1>1, <1>2, <1>3, <1>6, <2>1, <2>2, <2>3 DEF DaysBefore1970
<1>8. CASE m # 2
  <2>1. PICK s \in Int : s = YearStart(MarchYear(y, m)) /\ YearStart(MarchYear(y, m + 1)) = s
    BY SMT, <1>6, <1>8 DEF MarchYear
  <2>2. DayOfYear(m + 1, 1) = DayOfYear(m, l) + 1 /\ DayOfYear(m, l) \in Int
    <3>1. l = IF m \in {4, 6, 9, 11} THEN 30 ELSE 31
      BY SMT, <1>1, <1>8 DEF DaysIn
    <3>2. m \in {1, 3, 4, 5, 6, 7, 8, 9, 10, 11}
      BY SMT, <1>8
    <3> QED BY SMT, <1>1, <1>4, <1>5, <3>1, <3>2, MonthsAre
  <2> QED BY SMT, <1>1, <1>2, <1>3, <2>1, <2>2 DEF DaysBefore1970
<1> QED BY <1>7, <1>8

\* The first of January follows the 31st of December.
LEMMA NextYearIs ==
  ASSUME NEW y \in Nat
  PROVE  DaysFromCivil(y + 1, 1, 1) = DaysFromCivil(y, 12, 31) + 1
<1>1. /\ DaysFromCivil(y, 12, 31) + DaysBefore1970 = YearStart(MarchYear(y, 12)) + DayOfYear(12, 31)
      /\ DaysFromCivil(y + 1, 1, 1) + DaysBefore1970 = YearStart(MarchYear(y + 1, 1)) + DayOfYear(1, 1)
  BY SMT, NumberIs
<1>2. DaysFromCivil(y, 12, 31) \in Int /\ DaysFromCivil(y + 1, 1, 1) \in Int
  BY SMT, NumberIsInt
<1>3. YearStart(MarchYear(y, 12)) = YearStart(y) /\ YearStart(MarchYear(y + 1, 1)) = YearStart(y)
  BY SMT DEF MarchYear
<1>4. DayOfYear(12, 31) = 305 /\ DayOfYear(1, 1) = 306
  BY SMT, MonthsAre DEF DayOfYear, MarchMonth
<1>5. YearStart(y) \in Int
  BY SMT, YearStartIs
<1> QED BY SMT, <1>1, <1>2, <1>3, <1>4, <1>5 DEF DaysBefore1970

-----------------------------------------------------------------------------
(* Which dates a start may have: those that exist, but for the 59 days     *)
(* before the 29th of February of the year 0, which come back a day late.  *)

LEMMA YearStartAt ==
  /\ YearStart(-1) = -366
  /\ \A u \in Nat : YearStart(u) \in Nat
<1>1. YearStart(-1) = -366
  <2>1. \A u, k, e : k = u \div 400 /\ e = u % 400 => YearStart(u) = (k * 146097) + YearsDays(e)
    BY SMT DEF YearStart
  <2>2. YearsDays(399) = 145731
    BY SMT DEF YearsDays
  <2>3. PICK u \in Int : u + 1 = 0
    <3>1. -1 \in Int /\ -1 + 1 = 0
      BY SMT
    <3> QED BY <3>1
  <2>4. u \div 400 + 1 = 0 /\ u % 400 = 399 /\ u = -1
    BY SMT, <2>3
  <2>5. YearStart(u) = ((0 - 1) * 146097) + YearsDays(399)
    BY SMT, <2>1, <2>3, <2>4
  <2> QED BY SMT, <2>2, <2>4, <2>5
<1>2. ASSUME NEW u \in Nat PROVE YearStart(u) \in Nat
  <2>1. PICK k \in Nat, e \in 0..399 : k = u \div 400 /\ e = u % 400
    BY SMT
  <2>2. PICK a \in Nat, b \in Nat : a = e \div 4 /\ b = e \div 100 /\ b <= a
    BY SMT
  <2> QED BY SMT, <2>1, <2>2 DEF YearStart, YearsDays
<1> QED BY <1>1, <1>2

LEMMA EarlyYear ==
  ASSUME NEW day \in 306..364
  PROVE  \A n : n = 291828 + day => YearOfEra(n) = 799 /\ DayInYear(n, 799) = day + 1
<1>1. PICK n \in Nat : n = 291828 + day
  BY SMT
<1>2. n \div 1460 = 200 /\ (n \div 36524) - (n \div 146096) = 6
  <2>1. n \div 1460 = 200
    BY SMT, <1>1
  <2>2. CASE n < 292192
    BY SMT, <1>1, <2>2
  <2>3. CASE n = 292192
    BY SMT, <2>3, <2>1
  <2> QED BY SMT, <1>1, <2>2, <2>3
<1>3. YearOfEra(n) = 799
  <2>1. n \div 36524 \in Int /\ n \div 146096 \in Int
    BY SMT
  <2>2. n - (n \div 1460) + (n \div 36524) - (n \div 146096) = (n - 200) + 6
    BY SMT, <1>2, <2>1
  <2>3. ((n - 200) + 6) \div 365 = 799
    BY SMT, <1>1
  <2> QED BY SMT, <2>2, <2>3 DEF YearOfEra
<1>4. DayInYear(n, 799) = day + 1
  BY SMT, <1>1 DEF DayInYear
<1> QED BY SMT, <1>1, <1>3, <1>4

\* A date before the 29th of February of the year 0 does not come back.
LEMMA EarlyDates ==
  ASSUME NEW y \in Nat, NEW m \in 1..12, NEW d \in 1..31,
         DaysFromCivil(y, m, d) + DaysBefore1970 < -1
  PROVE  CivilFromDays(DaysFromCivil(y, m, d)) # <<y, m, d>>
<1>1. PICK x, z : x = DaysFromCivil(y, m, d) /\ z = x + DaysBefore1970
  OBVIOUS
<1>2. PICK day, mp, b : day = DayOfYear(m, d) /\ mp = MarchMonth(m) /\ b = DaysBeforeMonth(mp)
  OBVIOUS
<1>3. mp = (IF m <= 2 THEN m + 9 ELSE m - 3)
  BY SMT, <1>2, MarchMonthIs
<1>4. b \in Nat /\ day = (b + d) - 1 /\ day >= 0
  <2>1. b \in Nat
    BY SMT, <1>2, <1>3 DEF DaysBeforeMonth
  <2>2. day = (b + d) - 1
    BY SMT, <1>2, <2>1 DEF DayOfYear
  <2> QED BY SMT, <2>1, <2>2
<1>5. z = YearStart(MarchYear(y, m)) + day
  <2>1. DaysFromCivil(y, m, d) + DaysBefore1970 = YearStart(MarchYear(y, m)) + DayOfYear(m, d)
    BY SMT, NumberIs
  <2> QED BY <1>1, <1>2, <2>1, Zenon
<1>6. z < -1 /\ x \in Int /\ z \in Int
  <2>1. d \in Int
    BY SMT
  <2>2. DaysFromCivil(y, m, d) \in Int
    BY NumberIsInt, <2>1
  <2> QED BY SMT, <1>1, <2>2 DEF DaysBefore1970
<1>7. y = 0 /\ m <= 2
  <2> SUFFICES ASSUME ~(y = 0 /\ m <= 2) PROVE FALSE
    OBVIOUS
  <2>1. PICK u \in Nat : u = MarchYear(y, m)
    BY SMT DEF MarchYear
  <2>2. YearStart(u) \in Nat
    BY <2>1, YearStartAt
  <2> QED BY SMT, <1>4, <1>5, <1>6, <2>1, <2>2
<1>8. z = day - 366
  <2>1. MarchYear(y, m) = -1
    BY SMT, <1>7 DEF MarchYear
  <2> QED BY SMT, <1>4, <1>5, <2>1, YearStartAt
<1>9. day \in 306..364 /\ (m = 1 => mp = 10 /\ b = 306) /\ (m = 2 => mp = 11 /\ b = 337)
  <2>1. (m = 1 => mp = 10 /\ b = 306) /\ (m = 2 => mp = 11 /\ b = 337)
    BY SMT, <1>2, <1>3, MonthsAre
  <2>2. m = 1 \/ m = 2
    BY SMT, <1>7
  <2> QED BY SMT, <1>4, <1>6, <1>8, <2>1, <2>2
<1>10. PICK n : n = 291828 + day
  OBVIOUS
<1>11. EraOf(x) = -2 /\ DayOfEra(x, -2) = n
  BY SMT, <1>1, <1>6, <1>8, <1>9, <1>10 DEF EraOf, DayOfEra
<1>12. YearOfEra(n) = 799 /\ DayInYear(n, 799) = day + 1
  BY SMT, EarlyYear, <1>9, <1>10
<1>13. PICK p : p = MonthOf(day + 1)
  OBVIOUS
<1>14. CivilFromDays(x) = CivilOf(-2, 799, day + 1, p)
  BY SMT, CivilFrom, <1>11, <1>12, <1>13
<1>15. p \in {10, 11}
  BY SMT, <1>9, <1>13 DEF MonthOf
<1>16. CivilOf(-2, 799, day + 1, p) # <<y, m, d>>
  <2> SUFFICES ASSUME CivilOf(-2, 799, day + 1, p) = <<y, m, d>> PROVE FALSE
    OBVIOUS
  <2>1. p - 9 = m /\ ((day + 1) - DaysBeforeMonth(p)) + 1 = d
    BY SMT, <1>15 DEF CivilOf, DaysBeforeMonth
  <2>2. p = mp
    BY SMT, <1>3, <1>7, <1>15, <2>1
  <2> QED BY SMT, <1>2, <1>4, <1>9, <2>1, <2>2
<1> QED BY <1>1, <1>14, <1>16, Zenon

\* Nor does a day past the end of its month.
LEMMA NoSuchDate ==
  ASSUME NEW y \in Nat, NEW m \in 1..12, NEW d \in 1..31, DaysIn(y, m) < d
  PROVE  CivilFromDays(DaysFromCivil(y, m, d)) # <<y, m, d>>
<1>1. PICK l \in 28..31 : l = DaysIn(y, m)
  BY SMT DEF DaysIn
<1>2. PICK j \in 1..3, i \in 0..2 : j = d - l /\ i = j - 1
  BY SMT, <1>1
<1>3. m \in 2..11
  BY SMT, <1>1 DEF DaysIn
<1>4. PICK k \in 3..12 : k = m + 1
  BY SMT, <1>3
<1>5. DaysFromCivil(y, m, d) = DaysFromCivil(y, k, j)
  <2>1. DaysFromCivil(y, k, 1) = DaysFromCivil(y, m, l) + 1
    <3>1. m \in 1..11
      BY SMT, <1>3
    <3>2. DaysFromCivil(y, m + 1, 1) = DaysFromCivil(y, m, DaysIn(y, m)) + 1
      BY NextMonthIs, <3>1
    <3> QED BY <1>1, <1>4, <3>2, Zenon
  <2>2. /\ DaysFromCivil(y, m, l + j) = DaysFromCivil(y, m, l) + j
        /\ DaysFromCivil(y, k, 1 + i) = DaysFromCivil(y, k, 1) + i
    <3>1. \A n \in 1..12, a \in Int, b \in Int : DaysFromCivil(y, n, a + b) = DaysFromCivil(y, n, a) + b
      BY LaterDayIs
    <3>2. m \in 1..12 /\ k \in 1..12 /\ l \in Int /\ j \in Int /\ i \in Int /\ 1 \in Int
      BY SMT
    <3> QED BY <3>1, <3>2, Zenon
  <2>3. l + j = d /\ 1 + i = j
    BY SMT, <1>2
  <2>4. DaysFromCivil(y, m, l) \in Int
    <3>1. l \in Int
      BY SMT
    <3> QED BY NumberIsInt, <3>1
  <2>5. DaysFromCivil(y, m, d) = DaysFromCivil(y, m, l) + j /\ DaysFromCivil(y, k, j) = (DaysFromCivil(y, m, l) + 1) + i
    BY <2>1, <2>2, <2>3, Zenon
  <2> QED BY SMT, <2>3, <2>4, <2>5
<1>6. DaysFromCivil(y, k, j) + DaysBefore1970 >= -1
  <2>1. DaysFromCivil(y, k, j) + DaysBefore1970 = YearStart(MarchYear(y, k)) + DayOfYear(k, j)
    <3>1. k \in 1..12 /\ j \in Int
      BY SMT
    <3> QED BY NumberIs, <3>1
  <2>2. MarchYear(y, k) = y /\ YearStart(y) \in Nat
    BY SMT, YearStartAt DEF MarchYear
  <2>3. MarchMonth(k) = k - 3
    BY SMT, MarchMonthIs
  <2>4. DaysBeforeMonth(k - 3) \in Nat
    BY SMT DEF DaysBeforeMonth
  <2>5. DayOfYear(k, j) \in Nat
    BY SMT, <2>3, <2>4 DEF DayOfYear
  <2> QED BY SMT, <2>1, <2>2, <2>5
<1>7. j \in 1..DaysIn(y, k) /\ k \in 1..12
  BY SMT DEF DaysIn
<1>8. CivilFromDays(DaysFromCivil(y, k, j)) = <<y, k, j>>
  BY CivilIs, <1>6, <1>7
<1>9. <<y, k, j>> # <<y, m, d>>
  BY SMT, <1>4
<1> QED BY <1>5, <1>8, <1>9, Zenon

\* A start that check_start lets in is a date and time that exist.
Starts(t) ==
  /\ t[1] \in Nat /\ t[2] \in 1..12 /\ t[3] \in 1..DaysIn(t[1], t[2])
  /\ t[4] \in 0..23 /\ t[5] \in 0..59 /\ t[6] \in 0..59
  /\ DaysFromCivil(t[1], t[2], t[3]) + DaysBefore1970 >= -1

LEMMA CheckStartIs ==
  ASSUME NEW t, CheckStart(t) PROVE Starts(t)
<1>1. /\ t[1] \in StartYears /\ t[2] \in 1..12 /\ t[3] \in 1..31
      /\ t[4] \in 0..23 /\ t[5] \in 0..59 /\ t[6] \in 0..59
      /\ CivilFromDays(DaysFromCivil(t[1], t[2], t[3])) = <<t[1], t[2], t[3]>>
  BY Zenon DEF CheckStart
<1>2. PICK y, m, d : y = t[1] /\ m = t[2] /\ d = t[3]
  OBVIOUS
<1>3. /\ y \in StartYears /\ m \in 1..12 /\ d \in 1..31
      /\ CivilFromDays(DaysFromCivil(y, m, d)) = <<y, m, d>>
  BY <1>1, <1>2, Zenon
<1>4. y \in Nat /\ d \in Int
  BY SMT, <1>3 DEF StartYears
<1>5. ~(DaysFromCivil(y, m, d) + DaysBefore1970 < -1)
  BY <1>3, <1>4, EarlyDates, Zenon
<1>6. ~(DaysIn(y, m) < d)
  BY <1>3, <1>4, NoSuchDate, Zenon
<1>7. DaysFromCivil(y, m, d) \in Int
  BY <1>3, <1>4, NumberIsInt, Zenon
<1>8. DaysIn(y, m) \in Int
  BY SMT DEF DaysIn
<1>9. DaysFromCivil(y, m, d) + DaysBefore1970 >= -1
  BY SMT, <1>5, <1>7 DEF DaysBefore1970
<1>10. d \in 1..DaysIn(y, m)
  BY SMT, <1>3, <1>6, <1>4, <1>8
<1> QED BY <1>1, <1>2, <1>3, <1>4, <1>9, <1>10, Zenon DEF Starts

LEMMA StartChecked ==
  ASSUME NEW y \in StartYears, NEW m \in 1..12, NEW d \in 1..31,
         DaysFromCivil(y, m, d) + DaysBefore1970 >= -1
  PROVE  CheckStart(<<y, m, d, 0, 0, 0>>) <=> d <= DaysIn(y, m)
<1>1. y \in Nat
  BY SMT DEF StartYears
<1>2. PICK t : t = <<y, m, d, 0, 0, 0>>
  OBVIOUS
<1>3. CheckStart(t) <=> CivilFromDays(DaysFromCivil(y, m, d)) = <<y, m, d>>
  <2>1. 0 \in 0..23 /\ 0 \in 0..59
    BY SMT
  <2>2. t[1] = y /\ t[2] = m /\ t[3] = d /\ t[4] = 0 /\ t[5] = 0 /\ t[6] = 0
    BY SMT, <1>2
  <2> QED BY <2>1, <2>2, Zenon DEF CheckStart
<1>4. DaysIn(y, m) \in Int
  BY SMT DEF DaysIn
<1>5. CASE d <= DaysIn(y, m)
  <2>1. d \in 1..DaysIn(y, m)
    BY SMT, <1>4, <1>5
  <2>2. CivilFromDays(DaysFromCivil(y, m, d)) = <<y, m, d>>
    BY CivilIs, <1>1, <2>1
  <2> QED BY <1>2, <1>3, <1>5, <2>2, Zenon
<1>6. CASE ~(d <= DaysIn(y, m))
  <2>1. DaysIn(y, m) < d
    BY SMT, <1>4, <1>6
  <2>2. CivilFromDays(DaysFromCivil(y, m, d)) # <<y, m, d>>
    BY NoSuchDate, <1>1, <2>1
  <2> QED BY <1>2, <1>3, <1>6, <2>2, Zenon
<1> QED BY <1>5, <1>6

-----------------------------------------------------------------------------
(* The inductive invariant: the cycles since the start are the whole       *)
(* seconds that the wall time is after the start, and its part of a        *)
(* second; the same holds of a save state and its wall time. The wall time *)
(* is a date that exists, of the day of the week of its number, and not    *)
(* before the 29th of February of the year 0, from where on the arithmetic *)
(* of the code is right.                                                   *)

Number(w) == DaysFromCivil(w.year, w.month, w.day)
OfDay(hour, minute, second) == (hour * 3600) + (minute * 60) + second
\* The seconds from a start to second o of the day n.
Since(n, o, t) == (((n - DaysFromCivil(t[1], t[2], t[3])) * 86400) + o) - OfDay(t[4], t[5], t[6])
SinceStart(w, t) == Since(Number(w), OfDay(w.hour, w.minute, w.second), t)

Hours == 0..23
Sixty == 0..59

\* A wall time.
Walls ==
  [year : Nat, month : 1..12, day : 1..31, hour : Hours, minute : Sixty, second : Sixty, weekday : 0..6, part : Nat]

WallOk(w) ==
  /\ w \in Walls
  /\ w.day <= DaysIn(w.year, w.month)
  /\ w.part < CyclesPerSecond
  /\ w.weekday = (Number(w) + 4) % 7
  /\ Number(w) + DaysBefore1970 >= -1

\* The parts of the chip that the time depends on.
ChipOk(r, t) ==
  /\ DOMAIN r = {"start", "baseCycle", "baseElapsed", "addr", "mode", "test", "reset", "regs", "cmos"}
  /\ r.start = t /\ r.baseCycle \in Int /\ r.baseElapsed \in Int
  /\ DOMAIN r.regs = 0..1 /\ DOMAIN r.regs[1] = 0..12

\* The chip, read at a cycle, is as far from its start as the wall time.
Agrees(r, cycle, w) ==
  /\ w.part = Elapsed(r, cycle) % CyclesPerSecond
  /\ SinceStart(w, r.start) = Elapsed(r, cycle) \div CyclesPerSecond

RtcInv ==
  /\ "start" \in DOMAIN rtcJob /\ Starts(rtcJob.start)
  /\ rtcCycle \in Int
  /\ ChipOk(rtc, rtcJob.start) /\ WallOk(wall) /\ Agrees(rtc, rtcCycle, wall)
  /\ rtcSnap # <<>> =>
       /\ ChipOk(rtcSnap.rtc, rtcJob.start) /\ rtcSnap.rtc.baseCycle = 0
       /\ WallOk(rtcSnap.wall) /\ Agrees(rtcSnap.rtc, 0, rtcSnap.wall)

-----------------------------------------------------------------------------
(* The wall time that steps: a day later has the next number, a second     *)
(* later is one second further from the start.                             *)

LEMMA WallsKept ==
  ASSUME NEW w \in Walls, NEW a \in Nat, NEW b \in 1..12, NEW c \in 1..31, NEW e \in 0..6
  PROVE  [w EXCEPT !.weekday = e, !.day = c, !.month = b, !.year = a] \in Walls
<1>1. PICK u : u = [w EXCEPT !.weekday = e]
  OBVIOUS
<1>2. PICK v : v = [u EXCEPT !.day = c]
  OBVIOUS
<1>3. PICK x : x = [v EXCEPT !.month = b]
  OBVIOUS
<1>4. u \in Walls
  BY SMT, <1>1 DEF Walls
<1>5. v \in Walls
  BY SMT, <1>4, <1>2 DEF Walls
<1>6. x \in Walls
  BY SMT, <1>5, <1>3 DEF Walls
<1>7. [x EXCEPT !.year = a] \in Walls
  BY SMT, <1>6 DEF Walls
<1> QED BY <1>1, <1>2, <1>3, <1>7, Zenon

LEMMA DaysInIs == \A y, m : DaysIn(y, m) \in 28..31 /\ DaysIn(y, 12) = 31
BY SMT DEF DaysIn

\* The day after a day that exists.
FollowingDate(yy, mm, dd, y, m, d) ==
  /\ dd = (IF d = DaysIn(y, m) THEN 1 ELSE d + 1)
  /\ mm = (IF d < DaysIn(y, m) THEN m ELSE IF m = 12 THEN 1 ELSE m + 1)
  /\ yy = (IF m = 12 /\ d = 31 THEN y + 1 ELSE y)

LEMMA NextDate ==
  ASSUME NEW y \in Nat, NEW m \in 1..12, NEW d \in 1..DaysIn(y, m),
         NEW yy, NEW mm, NEW dd, FollowingDate(yy, mm, dd, y, m, d)
  PROVE  /\ yy \in Nat /\ mm \in 1..12 /\ dd \in 1..31 /\ dd <= DaysIn(yy, mm)
         /\ DaysFromCivil(yy, mm, dd) = DaysFromCivil(y, m, d) + 1
<1>1. PICK l \in 28..31 : l = DaysIn(y, m) /\ (m = 12 => l = 31)
  BY SMT, DaysInIs
<1>2. d \in 1..l /\ d \in Int
  BY SMT, <1>1
<1>3. /\ dd = (IF d = l THEN 1 ELSE d + 1)
      /\ mm = (IF d < l THEN m ELSE IF m = 12 THEN 1 ELSE m + 1)
      /\ yy = (IF m = 12 /\ d = 31 THEN y + 1 ELSE y)
  BY <1>1, Zenon DEF FollowingDate
<1>4. CASE d < l
  <2>1. yy = y /\ mm = m /\ dd = d + 1 /\ dd \in 1..31 /\ dd <= l
    BY SMT, <1>1, <1>2, <1>3, <1>4
  <2>2. 1 \in Int
    BY SMT
  <2>3. DaysFromCivil(y, m, d + 1) = DaysFromCivil(y, m, d) + 1
    BY LaterDayIs, <1>2, <2>2
  <2> QED BY <1>1, <2>1, <2>3, Zenon
<1>5. CASE d = l /\ m # 12
  <2>1. m \in 1..11 /\ yy = y /\ mm = m + 1 /\ mm \in 1..12 /\ dd = 1 /\ dd \in 1..31
    BY SMT, <1>1, <1>2, <1>3, <1>5
  <2>2. DaysFromCivil(y, m + 1, 1) = DaysFromCivil(y, m, DaysIn(y, m)) + 1
    BY NextMonthIs, <2>1
  <2>3. dd <= DaysIn(yy, mm)
    BY SMT, <2>1, DaysInIs
  <2> QED BY <1>1, <1>5, <2>1, <2>2, <2>3, Zenon
<1>6. CASE d = l /\ m = 12
  <2>1. d = 31 /\ yy = y + 1 /\ yy \in Nat /\ mm = 1 /\ mm \in 1..12 /\ dd = 1 /\ dd \in 1..31
    BY SMT, <1>1, <1>2, <1>3, <1>6
  <2>2. DaysFromCivil(y + 1, 1, 1) = DaysFromCivil(y, 12, 31) + 1
    BY NextYearIs
  <2>3. dd <= DaysIn(yy, mm)
    BY SMT, <2>1, DaysInIs
  <2> QED BY <1>6, <2>1, <2>2, <2>3, Zenon
<1> QED
  <2>1. d < l \/ d = l
    BY SMT, <1>2
  <2> QED BY <1>4, <1>5, <1>6, <2>1

\* A day more of the calendar.
LEMMA NextDayIs ==
  ASSUME NEW w, WallOk(w)
  PROVE  /\ WallOk(NextDay(w)) /\ Number(NextDay(w)) = Number(w) + 1
         /\ NextDay(w).hour = w.hour /\ NextDay(w).minute = w.minute /\ NextDay(w).second = w.second
         /\ NextDay(w).part = w.part
<1>1. PICK y \in Nat, m \in 1..12, d \in 1..31 : y = w.year /\ m = w.month /\ d = w.day
  BY SMT DEF WallOk, Walls
<1>2. d \in 1..DaysIn(y, m)
  <2>1. d <= DaysIn(y, m)
    BY <1>1, Zenon DEF WallOk
  <2> QED BY SMT, <2>1, DaysInIs
<1>3. PICK yy, mm, dd : FollowingDate(yy, mm, dd, y, m, d)
  <2>1. PICK yy : yy = (IF m = 12 /\ d = 31 THEN y + 1 ELSE y)
    OBVIOUS
  <2>2. PICK mm : mm = (IF d < DaysIn(y, m) THEN m ELSE IF m = 12 THEN 1 ELSE m + 1)
    OBVIOUS
  <2>3. PICK dd : dd = (IF d = DaysIn(y, m) THEN 1 ELSE d + 1)
    OBVIOUS
  <2>4. FollowingDate(yy, mm, dd, y, m, d)
    BY <2>1, <2>2, <2>3, SMT DEF FollowingDate
  <2> QED BY <2>4, Zenon
<1>4. /\ yy \in Nat /\ mm \in 1..12 /\ dd \in 1..31 /\ dd <= DaysIn(yy, mm)
      /\ DaysFromCivil(yy, mm, dd) = DaysFromCivil(y, m, d) + 1
  BY <1>2, <1>3, NextDate, SMTT(30)
<1>5. /\ NextDay(w).year = yy /\ NextDay(w).month = mm /\ NextDay(w).day = dd
      /\ NextDay(w).weekday = (w.weekday + 1) % 7
      /\ NextDay(w).hour = w.hour /\ NextDay(w).minute = w.minute /\ NextDay(w).second = w.second
      /\ NextDay(w).part = w.part
      /\ DOMAIN NextDay(w) = {"year", "month", "day", "hour", "minute", "second", "weekday", "part"}
  BY SMT, <1>1, <1>3 DEF WallOk, Walls, NextDay, FollowingDate
<1>6. NextDay(w) \in Walls
  <2>1. PICK e \in 0..6 : e = (w.weekday + 1) % 7
    BY SMT DEF WallOk, Walls
  <2>2. NextDay(w) = [w EXCEPT !.weekday = e, !.day = dd, !.month = mm, !.year = yy]
    BY SMT, <1>1, <1>3, <2>1 DEF NextDay, FollowingDate
  <2>3. w \in Walls
    BY Zenon DEF WallOk
  <2>4. [w EXCEPT !.weekday = e, !.day = dd, !.month = mm, !.year = yy] \in Walls
    BY <1>4, <2>3, WallsKept
  <2> QED BY <2>2, <2>4, Zenon
<1>7. Number(w) = DaysFromCivil(y, m, d) /\ Number(NextDay(w)) = DaysFromCivil(yy, mm, dd)
  BY <1>1, <1>5, Zenon DEF Number
<1>8. DaysFromCivil(y, m, d) \in Int
  <2>1. d \in Int
    BY SMT
  <2> QED BY NumberIsInt, <2>1
<1>9. /\ w.part \in Int /\ w.part < CyclesPerSecond /\ w.weekday = (Number(w) + 4) % 7
      /\ Number(w) + DaysBefore1970 >= -1
  BY SMT DEF WallOk, Walls
<1>10. NextDay(w).weekday = (Number(NextDay(w)) + 4) % 7
  BY SMT, <1>4, <1>5, <1>7, <1>8, <1>9
<1>11. Number(NextDay(w)) + DaysBefore1970 >= -1
  BY SMT, <1>4, <1>7, <1>8, <1>9 DEF DaysBefore1970
<1>12. NextDay(w).day <= DaysIn(NextDay(w).year, NextDay(w).month)
  BY <1>4, <1>5, Zenon
<1>13. NextDay(w).part < CyclesPerSecond
  BY <1>5, <1>9, Zenon
<1>14. WallOk(NextDay(w))
  BY <1>6, <1>10, <1>11, <1>12, <1>13, Zenon DEF WallOk
<1> QED BY <1>4, <1>5, <1>7, <1>14, Zenon

\* Seconds and days count from a start.
LEMMA SinceIs ==
  ASSUME NEW n \in Int, NEW o \in Int, NEW t, Starts(t)
  PROVE  /\ Since(n, o, t) \in Int
         /\ Since(n, o + 1, t) = Since(n, o, t) + 1
         /\ Since(n + 1, o, t) = Since(n, o, t) + 86400
         /\ o = 86399 => Since(n + 1, 0, t) = Since(n, o, t) + 1
<1>1. DaysFromCivil(t[1], t[2], t[3]) \in Int
  <2>1. t[3] \in Int /\ t[1] \in Nat /\ t[2] \in 1..12
    BY SMT, DaysInIs DEF Starts
  <2> QED BY <2>1, NumberIsInt
<1>2. OfDay(t[4], t[5], t[6]) \in Int
  <2>1. t[4] \in Int /\ t[5] \in Int /\ t[6] \in Int
    BY SMT DEF Starts
  <2> QED BY SMT, <2>1 DEF OfDay
<1>3. PICK a \in Int, b \in Int : a = DaysFromCivil(t[1], t[2], t[3]) /\ b = OfDay(t[4], t[5], t[6])
  BY <1>1, <1>2, Zenon
<1>4. /\ Since(n, o, t) = (((n - a) * 86400) + o) - b
      /\ Since(n, o + 1, t) = (((n - a) * 86400) + (o + 1)) - b
      /\ Since(n + 1, o, t) = ((((n + 1) - a) * 86400) + o) - b
      /\ Since(n + 1, 0, t) = ((((n + 1) - a) * 86400) + 0) - b
  BY SMT, <1>3 DEF Since
<1> QED BY SMT, <1>4

\* The next number of a cycle of 60 or 24.
Next60(x) == (x + 1) % 60
Next24(x) == (x + 1) % 24

SecondTicks(hour, minute, second) ==
  /\ second < 59 => OfDay(hour, minute, Next60(second)) = OfDay(hour, minute, second) + 1
  /\ second = 59 /\ minute < 59 => OfDay(hour, Next60(minute), Next60(second)) = OfDay(hour, minute, second) + 1
  /\ second = 59 /\ minute = 59 /\ hour < 23 =>
       OfDay(Next24(hour), Next60(minute), Next60(second)) = OfDay(hour, minute, second) + 1
  /\ second = 59 /\ minute = 59 /\ hour = 23 =>
       /\ OfDay(hour, minute, second) = 86399 /\ OfDay(Next24(hour), Next60(minute), Next60(second)) = 0

LEMMA OfDayIs ==
  ASSUME NEW hour \in Hours, NEW minute \in Sixty, NEW second \in Sixty
  PROVE  /\ OfDay(hour, minute, second) \in Nat /\ OfDay(hour, minute, second) < 86400
         /\ SecondTicks(hour, minute, second)
<1>1. OfDay(hour, minute, second) \in Nat /\ OfDay(hour, minute, second) < 86400
  BY SMT DEF OfDay, Hours, Sixty
<1>2. second < 59 => Next60(second) = second + 1
  BY SMT DEF Next60, Sixty
<1>3. second = 59 => Next60(second) = 0
  BY SMT DEF Next60, Sixty
<1>4. (minute < 59 => Next60(minute) = minute + 1) /\ (minute = 59 => Next60(minute) = 0)
  BY SMT DEF Next60, Sixty
<1>5. (hour < 23 => Next24(hour) = hour + 1) /\ (hour = 23 => Next24(hour) = 0)
  BY SMT DEF Next24, Hours
<1> QED BY SMT, <1>1, <1>2, <1>3, <1>4, <1>5 DEF OfDay, SecondTicks, Hours, Sixty

\* A second more: of the calendar, and of its seconds.
LEMMA NextSecondIs ==
  ASSUME NEW w, WallOk(w), NEW t, Starts(t)
  PROVE  WallOk(NextSecond(w)) /\ SinceStart(NextSecond(w), t) = SinceStart(w, t) + 1 /\ NextSecond(w).part = w.part
<1> DEFINE s == [w EXCEPT !.second = (@ + 1) % 60]
           m == [s EXCEPT !.minute = (@ + 1) % 60]
           h == [m EXCEPT !.hour = (@ + 1) % 24]
<1>1. /\ w \in Walls /\ w.part \in Int /\ w.hour \in Hours /\ w.minute \in Sixty /\ w.second \in Sixty
  BY SMT DEF WallOk, Walls
<1>2. /\ w.second < 59 => NextSecond(w) = s
      /\ w.second = 59 /\ w.minute < 59 => NextSecond(w) = m
      /\ w.second = 59 /\ w.minute = 59 /\ w.hour < 23 => NextSecond(w) = h
      /\ w.second = 59 /\ w.minute = 59 /\ w.hour = 23 => NextSecond(w) = NextDay(h)
  <2>1. s = [w EXCEPT !.second = (@ + 1) % 60] /\ m = [s EXCEPT !.minute = (@ + 1) % 60] /\ h = [m EXCEPT !.hour = (@ + 1) % 24]
    OBVIOUS
  <2>2. NextSecond(w) = CASE w.second < 59 -> s
                          [] w.second = 59 /\ w.minute < 59 -> m
                          [] w.second = 59 /\ w.minute = 59 /\ w.hour < 23 -> h
                          [] OTHER -> NextDay(h)
    BY DEF NextSecond
  <2> HIDE DEF s, m, h
  <2> QED BY SMT, <1>1, <2>2 DEF Hours, Sixty
<1> HIDE DEF s, m, h
<1>3. /\ s \in Walls /\ s.year = w.year /\ s.month = w.month /\ s.day = w.day /\ s.weekday = w.weekday
      /\ s.part = w.part /\ s.hour = w.hour /\ s.minute = w.minute /\ s.second = Next60(w.second)
  BY SMT, <1>1 DEF Walls, s, Next60, Sixty
<1>4. /\ m \in Walls /\ m.year = w.year /\ m.month = w.month /\ m.day = w.day /\ m.weekday = w.weekday
      /\ m.part = w.part /\ m.hour = w.hour /\ m.minute = Next60(w.minute) /\ m.second = Next60(w.second)
  BY SMT, <1>1, <1>3 DEF Walls, m, Next60, Sixty
<1>5. /\ h \in Walls /\ h.year = w.year /\ h.month = w.month /\ h.day = w.day /\ h.weekday = w.weekday
      /\ h.part = w.part /\ h.hour = Next24(w.hour) /\ h.minute = Next60(w.minute) /\ h.second = Next60(w.second)
  BY SMT, <1>1, <1>4 DEF Walls, h, Next60, Next24, Hours, Sixty
<1>6. Number(s) = Number(w) /\ Number(m) = Number(w) /\ Number(h) = Number(w)
  BY <1>3, <1>4, <1>5, Zenon DEF Number
<1>7. WallOk(s) /\ WallOk(m) /\ WallOk(h)
  <2>1. /\ w.day <= DaysIn(w.year, w.month) /\ w.part < CyclesPerSecond /\ w.weekday = (Number(w) + 4) % 7
        /\ Number(w) + DaysBefore1970 >= -1
    BY Zenon DEF WallOk
  <2> QED BY <1>3, <1>4, <1>5, <1>6, <2>1, Zenon DEF WallOk
<1>8. Number(w) \in Int
  <2>1. w.day \in Int /\ w.year \in Nat /\ w.month \in 1..12
    BY SMT, <1>1 DEF Walls
  <2> QED BY <2>1, NumberIsInt, Zenon DEF Number
<1>9. OfDay(w.hour, w.minute, w.second) \in Int /\ SecondTicks(w.hour, w.minute, w.second)
  <2>1. OfDay(w.hour, w.minute, w.second) \in Nat /\ SecondTicks(w.hour, w.minute, w.second)
    BY <1>1, OfDayIs
  <2> QED BY SMT, <2>1
<1>10. PICK n \in Int, o \in Int : n = Number(w) /\ o = OfDay(w.hour, w.minute, w.second)
  BY <1>8, <1>9, Zenon
<1>11. SinceStart(w, t) = Since(n, o, t)
  BY <1>10, Zenon DEF SinceStart
<1>12. /\ w.second < 59 => OfDay(s.hour, s.minute, s.second) = o + 1
       /\ w.second = 59 /\ w.minute < 59 => OfDay(m.hour, m.minute, m.second) = o + 1
       /\ w.second = 59 /\ w.minute = 59 /\ w.hour < 23 => OfDay(h.hour, h.minute, h.second) = o + 1
       /\ w.second = 59 /\ w.minute = 59 /\ w.hour = 23 => o = 86399 /\ OfDay(h.hour, h.minute, h.second) = 0
  BY SMT, <1>3, <1>4, <1>5, <1>10, <1>9 DEF SecondTicks
<1>13. Since(n, o + 1, t) = Since(n, o, t) + 1 /\ (o = 86399 => Since(n + 1, 0, t) = Since(n, o, t) + 1)
  BY SMT, SinceIs
<1>14. CASE w.second < 59
  BY SMT, <1>2, <1>3, <1>6, <1>7, <1>10, <1>11, <1>12, <1>13, <1>14 DEF SinceStart
<1>15. CASE w.second = 59 /\ w.minute < 59
  BY SMT, <1>2, <1>4, <1>6, <1>7, <1>10, <1>11, <1>12, <1>13, <1>15 DEF SinceStart
<1>16. CASE w.second = 59 /\ w.minute = 59 /\ w.hour < 23
  BY SMT, <1>2, <1>5, <1>6, <1>7, <1>10, <1>11, <1>12, <1>13, <1>16 DEF SinceStart
<1>17. CASE w.second = 59 /\ w.minute = 59 /\ w.hour = 23
  <2>1. NextSecond(w) = NextDay(h) /\ o = 86399 /\ OfDay(h.hour, h.minute, h.second) = 0
    BY SMT, <1>2, <1>12, <1>17
  <2>2. /\ WallOk(NextDay(h)) /\ Number(NextDay(h)) = n + 1 /\ NextDay(h).part = w.part
        /\ NextDay(h).hour = h.hour /\ NextDay(h).minute = h.minute /\ NextDay(h).second = h.second
    BY SMT, <1>5, <1>6, <1>7, <1>10, NextDayIs
  <2> QED BY SMT, <1>11, <1>13, <2>1, <2>2 DEF SinceStart
<1>18. w.second < 59 \/ (w.second = 59 /\ w.minute < 59) \/ (w.second = 59 /\ w.minute = 59 /\ w.hour < 23)
       \/ (w.second = 59 /\ w.minute = 59 /\ w.hour = 23)
  BY SMT, <1>1 DEF Hours, Sixty
<1> QED BY <1>14, <1>15, <1>16, <1>17, <1>18
-----------------------------------------------------------------------------
(* The registers show the wall time.                                       *)

HourOf(o)   == o \div 3600
MinuteOf(o) == (o \div 60) % 60
SecondOf(o) == o % 60
Year80(y)   == y - 1980
Hundred(y)  == Year80(y) % 100
Fourth(y)   == Year80(y) % 4

LEMMA OfDaySplit ==
  ASSUME NEW hour \in Hours, NEW minute \in Sixty, NEW second \in Sixty
  PROVE  \A o : o = OfDay(hour, minute, second) => HourOf(o) = hour /\ MinuteOf(o) = minute /\ SecondOf(o) = second
BY SMT DEF OfDay, HourOf, MinuteOf, SecondOf, Hours, Sixty

LEMMA DaysAndSeconds ==
  ASSUME NEW n \in Int, NEW o \in Nat, o < 86400
  PROVE  \A x : x = (n * 86400) + o => x \div 86400 = n /\ x % 86400 = o
BY SMT

\* The 13 digits of block 0, and the registers with them, for a date and time.
ShownDigits(year, month, day, hour, minute, second, weekday) ==
  <<second % 10, second \div 10, minute % 10, minute \div 10, hour[1], hour[2], weekday,
    day % 10, day \div 10, month % 10, month \div 10, Hundred(year) % 10, Hundred(year) \div 10>>

ShownAs(r, year, month, day, hour, minute, second, weekday) ==
  [r EXCEPT !.regs[0] = [reg \in 0..12 |-> ShownDigits(year, month, day, hour, minute, second, weekday)[reg + 1]],
            !.regs[1][LeapYear] = Fourth(year)]
ShownAt(r, days, o) ==
  ShownAs(r, CivilFromDays(days)[1], CivilFromDays(days)[2], CivilFromDays(days)[3],
        EncodedHour(r, HourOf(o)), MinuteOf(o), SecondOf(o), (days + 4) % 7)
ShownWall(r, w) ==
  ShownAs(r, w.year, w.month, w.day, EncodedHour(r, w.hour), w.minute, w.second, w.weekday)

\* The day and the second of it that a refresh computes from the cycles.
StartDay(t) == DaysFromCivil(t[1], t[2], t[3])
TotalSeconds(r, cycle) == OfDay(r.start[4], r.start[5], r.start[6]) + (Elapsed(r, cycle) \div CyclesPerSecond)
DayOf(r, cycle) == StartDay(r.start) + (TotalSeconds(r, cycle) \div 86400)
SecondOfDay(r, cycle) == TotalSeconds(r, cycle) % 86400

LEMMA RefreshedAt == \A r, cycle : Refreshed(r, cycle) = ShownAt(r, DayOf(r, cycle), SecondOfDay(r, cycle))
BY DEF Refreshed, ShownAt, ShownAs, ShownDigits, DayOf, SecondOfDay, TotalSeconds, StartDay, OfDay,
       HourOf, MinuteOf, SecondOf, Hundred, Fourth, Year80

\* What a refresh puts in the registers is the wall time.
LEMMA RefreshedIs ==
  ASSUME NEW r, NEW t, NEW w, NEW cycle \in Int, ChipOk(r, t), Starts(t), WallOk(w), Agrees(r, cycle, w)
  PROVE  Refreshed(r, cycle) = ShownWall(r, w)
<1>1. r.start = t /\ SinceStart(w, t) = Elapsed(r, cycle) \div CyclesPerSecond
  BY Zenon DEF ChipOk, Agrees
<1>2. /\ w \in Walls /\ w.year \in Nat /\ w.month \in 1..12 /\ w.day \in 1..DaysIn(w.year, w.month) /\ w.day \in Int
      /\ w.hour \in Hours /\ w.minute \in Sixty /\ w.second \in Sixty
      /\ Number(w) + DaysBefore1970 >= -1 /\ w.weekday = (Number(w) + 4) % 7
  BY SMT, DaysInIs DEF WallOk, Walls
<1>3. Number(w) \in Int
  BY <1>2, NumberIsInt, Zenon DEF Number
<1>4. StartDay(t) \in Int
  <2>1. t[3] \in Int /\ t[1] \in Nat /\ t[2] \in 1..12
    BY SMT, DaysInIs DEF Starts
  <2> QED BY <2>1, NumberIsInt, Zenon DEF StartDay
<1>5. OfDay(t[4], t[5], t[6]) \in Int
  <2>1. t[4] \in Int /\ t[5] \in Int /\ t[6] \in Int
    BY SMT DEF Starts
  <2> QED BY SMT, <2>1 DEF OfDay
<1>6. PICK o : o = OfDay(w.hour, w.minute, w.second)
  OBVIOUS
<1>7. o \in Nat /\ o < 86400
  <2>1. OfDay(w.hour, w.minute, w.second) \in Nat /\ OfDay(w.hour, w.minute, w.second) < 86400
    BY <1>2, OfDayIs
  <2> QED BY <1>6, <2>1, SMT
<1>8. PICK n \in Int, a \in Int, b \in Int : n = Number(w) /\ a = StartDay(t) /\ b = OfDay(t[4], t[5], t[6])
  BY <1>3, <1>4, <1>5, Zenon
<1>9. PICK q : q = Elapsed(r, cycle) \div CyclesPerSecond
  OBVIOUS
<1>10. q = (((n - a) * 86400) + o) - b
  <2>1. SinceStart(w, t) = Since(n, o, t)
    BY <1>6, <1>8, Zenon DEF SinceStart
  <2>2. Since(n, o, t) = (((n - a) * 86400) + o) - b
    BY SMT, <1>8 DEF Since, StartDay
  <2> QED BY SMT, <1>1, <1>9, <2>1, <2>2
<1>11. TotalSeconds(r, cycle) = ((n - a) * 86400) + o
  <2>1. TotalSeconds(r, cycle) = b + q
    BY <1>1, <1>8, <1>9, Zenon DEF TotalSeconds
  <2>2. PICK x \in Int : x = (n - a) * 86400
    BY SMT
  <2>3. q = (x + o) - b
    BY <1>10, <2>2, SMT
  <2>4. b + q = x + o
    BY SMT, <1>8, <1>7, <2>3
  <2> QED BY SMT, <2>1, <2>2, <2>4
<1>12. TotalSeconds(r, cycle) \div 86400 = n - a /\ TotalSeconds(r, cycle) % 86400 = o
  <2>1. PICK x : x = TotalSeconds(r, cycle) /\ x = ((n - a) * 86400) + o
    BY SMT, <1>11
  <2>2. n - a \in Int
    BY SMT
  <2>3. x \div 86400 = n - a /\ x % 86400 = o
    BY SMT, <1>7, <2>1, <2>2, DaysAndSeconds
  <2> QED BY SMT, <2>1, <2>3
<1>13. DayOf(r, cycle) = n /\ SecondOfDay(r, cycle) = o
  <2>1. DayOf(r, cycle) = a + (n - a)
    BY SMT, <1>1, <1>8, <1>12 DEF DayOf
  <2>2. SecondOfDay(r, cycle) = o
    BY SMT, <1>12 DEF SecondOfDay
  <2> QED BY SMT, <2>1, <2>2
<1>14. HourOf(o) = w.hour /\ MinuteOf(o) = w.minute /\ SecondOf(o) = w.second
  BY <1>2, <1>6, OfDaySplit, SMT
<1>15. CivilFromDays(n) = <<w.year, w.month, w.day>>
  BY <1>2, <1>8, CivilIs, Zenon DEF Number
<1>16. CivilFromDays(n)[1] = w.year /\ CivilFromDays(n)[2] = w.month /\ CivilFromDays(n)[3] = w.day
  BY SMT, <1>15
<1>17. (n + 4) % 7 = w.weekday
  BY <1>2, <1>8, Zenon
<1>18. Refreshed(r, cycle) = ShownAt(r, n, o)
  BY <1>13, RefreshedAt, Zenon
<1>19. ShownAt(r, n, o) = ShownWall(r, w)
  BY <1>14, <1>16, <1>17, Zenon DEF ShownAt, ShownWall
<1> QED BY <1>18, <1>19, Zenon

\* A read of a time digit gives that digit, of as many bits as its register has.
LEMMA DigitIs ==
  ASSUME NEW r, NEW t, NEW w, NEW cycle \in Int, ChipOk(r, t), Starts(t), WallOk(w), Agrees(r, cycle, w),
         NEW reg \in 0..12
  PROVE  Digit(r, cycle, reg) =
           (240 + Masked(0, reg, ShownDigits(w.year, w.month, w.day, EncodedHour(r, w.hour), w.minute, w.second,
                                             w.weekday)[reg + 1])) % 16
<1>1. PICK u : u = [r EXCEPT !.mode = 8, !.addr = reg]
  OBVIOUS
<1>2. /\ ChipOk(u, t) /\ u.regs = r.regs /\ u.mode = 8 /\ u.addr = reg
      /\ u.start = r.start /\ u.baseCycle = r.baseCycle /\ u.baseElapsed = r.baseElapsed
  BY SMT, <1>1 DEF ChipOk
<1>3. Agrees(u, cycle, w)
  BY <1>2, Zenon DEF Agrees, Elapsed
<1>4. Refreshed(u, cycle) = ShownWall(u, w)
  BY <1>2, <1>3, RefreshedIs, Zenon
<1>5. EncodedHour(u, w.hour) = EncodedHour(r, w.hour)
  BY <1>2, Zenon DEF EncodedHour
<1>6. PICK hour : hour = EncodedHour(r, w.hour)
  OBVIOUS
<1>7. PICK ds : ds = ShownDigits(w.year, w.month, w.day, hour, w.minute, w.second, w.weekday)
  OBVIOUS
<1>8. ShownWall(u, w).regs[0][reg] = ds[reg + 1]
  <2>1. ShownWall(u, w) =
          [u EXCEPT !.regs[0] = [k \in 0..12 |-> ds[k + 1]], !.regs[1][LeapYear] = Fourth(w.year)]
    BY <1>5, <1>6, <1>7, Zenon DEF ShownWall, ShownAs
  <2>2. DOMAIN u = {"start", "baseCycle", "baseElapsed", "addr", "mode", "test", "reset", "regs", "cmos"}
        /\ DOMAIN u.regs = 0..1
    BY <1>2, Zenon DEF ChipOk
  <2> QED BY SMT, <2>1, <2>2
<1>9. Block(u) = 0
  BY SMT, <1>2 DEF Block
<1>10. ReadRtc(u, cycle) = 240 + Masked(0, reg, ds[reg + 1])
  <2>1. reg < 13 /\ ~(reg = 13) /\ ~(reg > 13) /\ ~(0 >= 2)
    BY SMT
  <2>2. ReadRtc(u, cycle) = 240 + Masked(Block(u), u.addr, Refreshed(u, cycle).regs[Block(u)][u.addr])
    BY SMT, <1>2, <1>9, <2>1 DEF ReadRtc
  <2> QED BY <1>2, <1>4, <1>8, <1>9, <2>2
<1> QED BY <1>1, <1>6, <1>7, <1>10 DEF Digit

\* Likewise the counter of the leap years.
LeapDigit(r, cycle) == ReadRtc([r EXCEPT !.mode = 9, !.addr = LeapYear], cycle)
LeapRead(b) == 240 + Masked(1, LeapYear, b)
LEMMA LeapYearIs ==
  ASSUME NEW r, NEW t, NEW w, NEW cycle \in Int, ChipOk(r, t), Starts(t), WallOk(w), Agrees(r, cycle, w)
  PROVE  LeapDigit(r, cycle) = LeapRead(Fourth(w.year))
<1>1. PICK u : u = [r EXCEPT !.mode = 9, !.addr = LeapYear]
  OBVIOUS
<1>2. /\ ChipOk(u, t) /\ u.regs = r.regs /\ u.mode = 9 /\ u.addr = LeapYear
      /\ u.start = r.start /\ u.baseCycle = r.baseCycle /\ u.baseElapsed = r.baseElapsed
  BY SMT, <1>1 DEF ChipOk
<1>3. Agrees(u, cycle, w)
  BY <1>2, Zenon DEF Agrees, Elapsed
<1>4. Refreshed(u, cycle) = ShownWall(u, w)
  BY <1>2, <1>3, RefreshedIs, Zenon
<1>5. ShownWall(u, w).regs[1][LeapYear] = Fourth(w.year)
  <2>1. PICK ds : ShownWall(u, w) = [u EXCEPT !.regs[0] = ds, !.regs[1][LeapYear] = Fourth(w.year)]
    BY Zenon DEF ShownWall, ShownAs
  <2>2. DOMAIN u = {"start", "baseCycle", "baseElapsed", "addr", "mode", "test", "reset", "regs", "cmos"}
        /\ DOMAIN u.regs = 0..1 /\ DOMAIN u.regs[1] = 0..12
    BY <1>2, Zenon DEF ChipOk
  <2> QED BY SMT, <2>1, <2>2 DEF LeapYear
<1>6. Block(u) = 1
  BY SMT, <1>2 DEF Block
<1>7. ReadRtc(u, cycle) = 240 + Masked(1, LeapYear, Fourth(w.year))
  <2>1. LeapYear < 13 /\ ~(LeapYear = 13) /\ ~(LeapYear > 13) /\ ~(1 >= 2)
    BY SMT DEF LeapYear
  <2>2. ReadRtc(u, cycle) = 240 + Masked(Block(u), u.addr, Refreshed(u, cycle).regs[Block(u)][u.addr])
    BY SMT, <1>2, <1>6, <2>1 DEF ReadRtc
  <2> QED BY <1>2, <1>4, <1>5, <1>6, <2>2
<1> QED BY <1>1, <1>7 DEF LeapDigit, LeapRead

\* The low nibble that a program reads of a register that keeps the values below bits.
Reads(x, bits) == (240 + (x % bits)) % 16

LEMMA ReadsIs ==
  ASSUME NEW x \in Nat
  PROVE  /\ x < 16 => Reads(x, 16) = x
         /\ x < 8 => Reads(x, 8) = x
         /\ x < 4 => Reads(x, 4) = x
         /\ x < 2 => Reads(x, 2) = x
BY SMT DEF Reads

LEMMA DigitsAre ==
  ASSUME NEW r, NEW t, NEW w, NEW cycle \in Int, ChipOk(r, t), Starts(t), WallOk(w), Agrees(r, cycle, w)
  PROVE  /\ Digit(r, cycle, 0) = Reads(w.second % 10, 16) /\ Digit(r, cycle, 1) = Reads(w.second \div 10, 8)
         /\ Digit(r, cycle, 2) = Reads(w.minute % 10, 16) /\ Digit(r, cycle, 3) = Reads(w.minute \div 10, 8)
         /\ Digit(r, cycle, 4) = Reads(EncodedHour(r, w.hour)[1], 16)
         /\ Digit(r, cycle, 5) = Reads(EncodedHour(r, w.hour)[2], 4)
         /\ Digit(r, cycle, 6) = Reads(w.weekday, 8)
         /\ Digit(r, cycle, 7) = Reads(w.day % 10, 16) /\ Digit(r, cycle, 8) = Reads(w.day \div 10, 4)
         /\ Digit(r, cycle, 9) = Reads(w.month % 10, 16) /\ Digit(r, cycle, 10) = Reads(w.month \div 10, 2)
         /\ Digit(r, cycle, 11) = Reads(Hundred(w.year) % 10, 16)
         /\ Digit(r, cycle, 12) = Reads(Hundred(w.year) \div 10, 16)
<1>1. PICK hour : hour = EncodedHour(r, w.hour)
  OBVIOUS
<1>2. PICK ds : ds = ShownDigits(w.year, w.month, w.day, hour, w.minute, w.second, w.weekday)
  OBVIOUS
<1>3. \A reg \in 0..12 : Digit(r, cycle, reg) = (240 + Masked(0, reg, ds[reg + 1])) % 16
  BY <1>1, <1>2, DigitIs
<1>4. /\ ds[1] = w.second % 10 /\ ds[2] = w.second \div 10 /\ ds[3] = w.minute % 10 /\ ds[4] = w.minute \div 10
      /\ ds[5] = hour[1] /\ ds[6] = hour[2] /\ ds[7] = w.weekday
      /\ ds[8] = w.day % 10 /\ ds[9] = w.day \div 10 /\ ds[10] = w.month % 10 /\ ds[11] = w.month \div 10
      /\ ds[12] = Hundred(w.year) % 10 /\ ds[13] = Hundred(w.year) \div 10
  BY SMT, <1>2 DEF ShownDigits
<1>5. \A b : /\ Masked(0, 0, b) = b % 16 /\ Masked(0, 1, b) = b % 8 /\ Masked(0, 2, b) = b % 16 /\ Masked(0, 3, b) = b % 8
             /\ Masked(0, 4, b) = b % 16 /\ Masked(0, 5, b) = b % 4 /\ Masked(0, 6, b) = b % 8
             /\ Masked(0, 7, b) = b % 16 /\ Masked(0, 8, b) = b % 4 /\ Masked(0, 9, b) = b % 16
             /\ Masked(0, 10, b) = b % 2 /\ Masked(0, 11, b) = b % 16 /\ Masked(0, 12, b) = b % 16
  BY SMT DEF Masked, Mask
<1>6. /\ Digit(r, cycle, 0) = (240 + Masked(0, 0, ds[1])) % 16 /\ Digit(r, cycle, 1) = (240 + Masked(0, 1, ds[2])) % 16
      /\ Digit(r, cycle, 2) = (240 + Masked(0, 2, ds[3])) % 16 /\ Digit(r, cycle, 3) = (240 + Masked(0, 3, ds[4])) % 16
      /\ Digit(r, cycle, 4) = (240 + Masked(0, 4, ds[5])) % 16 /\ Digit(r, cycle, 5) = (240 + Masked(0, 5, ds[6])) % 16
      /\ Digit(r, cycle, 6) = (240 + Masked(0, 6, ds[7])) % 16 /\ Digit(r, cycle, 7) = (240 + Masked(0, 7, ds[8])) % 16
      /\ Digit(r, cycle, 8) = (240 + Masked(0, 8, ds[9])) % 16 /\ Digit(r, cycle, 9) = (240 + Masked(0, 9, ds[10])) % 16
      /\ Digit(r, cycle, 10) = (240 + Masked(0, 10, ds[11])) % 16 /\ Digit(r, cycle, 11) = (240 + Masked(0, 11, ds[12])) % 16
      /\ Digit(r, cycle, 12) = (240 + Masked(0, 12, ds[13])) % 16
  BY SMT, <1>3
<1> QED BY SMT, <1>1, <1>4, <1>5, <1>6 DEF Reads

\* The units and tens that show an hour in the mode of the chip.
HourIs(r, hour, units, tens) ==
  LET n == units + (10 * tens)
  IN /\ units \in 0..9 /\ tens \in 0..3
     /\ hour = (IF r.regs[1][HourMode] % 2 = 1 THEN n
                ELSE CASE n = 12 -> 0 [] n = 32 -> 12 [] n < 12 -> n [] OTHER -> n - 8)

LEMMA HourReads ==
  ASSUME NEW r, NEW hour \in Hours
  PROVE  HourIs(r, hour, EncodedHour(r, hour)[1], EncodedHour(r, hour)[2])
<1>1. CASE r.regs[1][HourMode] % 2 = 1
  <2>1. EncodedHour(r, hour)[1] = hour % 10 /\ EncodedHour(r, hour)[2] = hour \div 10
    BY SMT, <1>1 DEF EncodedHour
  <2> QED BY SMT, <1>1, <2>1 DEF Hours, HourIs
<1>2. CASE r.regs[1][HourMode] % 2 # 1
  <2>1. PICK twelve \in 1..12 : twelve = IF hour % 12 = 0 THEN 12 ELSE hour % 12
    BY SMT DEF Hours
  <2>2. /\ EncodedHour(r, hour)[1] = twelve % 10
        /\ EncodedHour(r, hour)[2] = (twelve \div 10) + (IF hour >= 12 THEN 2 ELSE 0)
    BY SMT, <1>2, <2>1 DEF EncodedHour
  <2> QED BY SMT, <1>2, <2>1, <2>2 DEF Hours, HourIs
<1> QED BY <1>1, <1>2

\* The end of a month that a wall time is in has no number that is too low.
LEMMA LateDays ==
  ASSUME NEW y \in Nat, NEW m \in 1..12, NEW d \in 1..DaysIn(y, m), NEW day \in 29..31,
         DaysFromCivil(y, m, d) + DaysBefore1970 >= -1
  PROVE  DaysFromCivil(y, m, day) + DaysBefore1970 >= -1
<1>1. PICK l \in 28..31 : l = DaysIn(y, m)
  BY SMT, DaysInIs
<1>2. d \in 1..l /\ d \in Int /\ day \in Int
  BY SMT, <1>1
<1>3. PICK s : s = YearStart(MarchYear(y, m))
  OBVIOUS
<1>4. /\ DaysFromCivil(y, m, d) + DaysBefore1970 = s + DayOfYear(m, d)
      /\ DaysFromCivil(y, m, day) + DaysBefore1970 = s + DayOfYear(m, day)
  BY <1>2, <1>3, NumberIs
<1>5. PICK b \in Nat : /\ b = DaysBeforeMonth(MarchMonth(m)) /\ (m = 1 => b = 306) /\ (m = 2 => b = 337)
                       /\ DayOfYear(m, d) = (b + d) - 1 /\ DayOfYear(m, day) = (b + day) - 1
  <2>1. MarchMonth(m) = (IF m <= 2 THEN m + 9 ELSE m - 3)
    BY SMT, MarchMonthIs
  <2>2. DaysBeforeMonth(MarchMonth(m)) \in Nat
    BY SMT, <2>1 DEF DaysBeforeMonth
  <2>3. (m = 1 => DaysBeforeMonth(MarchMonth(m)) = 306) /\ (m = 2 => DaysBeforeMonth(MarchMonth(m)) = 337)
    BY SMT, <2>1, MonthsAre
  <2> QED BY SMT, <1>2, <2>2, <2>3 DEF DayOfYear
<1>6. CASE m > 2 \/ y > 0
  <2>1. PICK u \in Nat : u = MarchYear(y, m)
    BY SMT, <1>6 DEF MarchYear
  <2>2. YearStart(u) \in Nat
    BY YearStartAt
  <2> QED BY SMT, <1>3, <1>4, <1>5, <2>1, <2>2
<1>7. CASE m <= 2 /\ y = 0
  <2>1. MarchYear(y, m) = -1
    BY SMT, <1>7 DEF MarchYear
  <2>2. s = -366
    BY <1>3, <2>1, YearStartAt, SMT
  <2> QED BY SMT, <1>2, <1>4, <1>5, <1>7, <2>2
<1> QED BY SMT, <1>6, <1>7

\* A chip that agrees with the wall time shows it.
LEMMA ShowsTheTime ==
  ASSUME RtcInv PROVE ClockRunsOn
<1>1. /\ ChipOk(rtc, rtcJob.start) /\ Starts(rtcJob.start) /\ WallOk(wall) /\ Agrees(rtc, rtcCycle, wall) /\ rtcCycle \in Int
  BY Zenon DEF RtcInv
<1>2. /\ wall \in Walls /\ wall.year \in Nat /\ wall.month \in 1..12 /\ wall.day \in 1..31
      /\ wall.hour \in Hours /\ wall.minute \in Sixty /\ wall.second \in Sixty /\ wall.weekday \in 0..6
  BY SMT, <1>1 DEF WallOk, Walls
<1>3. Digit(rtc, rtcCycle, 0) + (10 * Digit(rtc, rtcCycle, 1)) = wall.second
  <2>1. wall.second % 10 \in 0..9 /\ wall.second \div 10 \in 0..5 /\ (wall.second % 10) + (10 * (wall.second \div 10)) = wall.second
    BY SMT, <1>2 DEF Sixty
  <2>2. Digit(rtc, rtcCycle, 0) = wall.second % 10 /\ Digit(rtc, rtcCycle, 1) = wall.second \div 10
    BY SMT, <1>1, <2>1, DigitsAre, ReadsIs
  <2> QED BY <2>1, <2>2
<1>4. Two(rtc, rtcCycle, 2) = wall.minute
  <2>1. wall.minute % 10 \in 0..9 /\ wall.minute \div 10 \in 0..5 /\ (wall.minute % 10) + (10 * (wall.minute \div 10)) = wall.minute
    BY SMT, <1>2 DEF Sixty
  <2>2. Digit(rtc, rtcCycle, 2) = wall.minute % 10 /\ Digit(rtc, rtcCycle, 3) = wall.minute \div 10
    BY SMT, <1>1, <2>1, DigitsAre, ReadsIs
  <2> QED BY SMT, <2>1, <2>2 DEF Two
<1>5. HourShown(rtc, rtcCycle) = wall.hour
  <2>1. PICK u, v : u = EncodedHour(rtc, wall.hour)[1] /\ v = EncodedHour(rtc, wall.hour)[2]
    OBVIOUS
  <2>2. HourIs(rtc, wall.hour, u, v)
    BY <1>2, <2>1, HourReads, Zenon
  <2>3. u \in 0..9 /\ v \in 0..3
    BY <2>2, Zenon DEF HourIs
  <2>4. Digit(rtc, rtcCycle, 4) = u /\ Digit(rtc, rtcCycle, 5) = v
    BY SMT, <1>1, <2>1, <2>3, DigitsAre, ReadsIs
  <2>5. Two(rtc, rtcCycle, 4) = u + (10 * v)
    BY SMT, <2>4 DEF Two
  <2> QED BY SMT, <2>5, <2>2 DEF HourShown, HourIs
<1>6. Digit(rtc, rtcCycle, 6) = wall.weekday
  BY SMT, <1>1, <1>2, DigitsAre, ReadsIs
<1>7. Two(rtc, rtcCycle, 7) = wall.day
  <2>1. wall.day % 10 \in 0..9 /\ wall.day \div 10 \in 0..3 /\ (wall.day % 10) + (10 * (wall.day \div 10)) = wall.day
    BY SMT, <1>2
  <2>2. Digit(rtc, rtcCycle, 7) = wall.day % 10 /\ Digit(rtc, rtcCycle, 8) = wall.day \div 10
    BY SMT, <1>1, <2>1, DigitsAre, ReadsIs
  <2> QED BY SMT, <2>1, <2>2 DEF Two
<1>8. Two(rtc, rtcCycle, 9) = wall.month
  <2>1. wall.month % 10 \in 0..9 /\ wall.month \div 10 \in 0..1 /\ (wall.month % 10) + (10 * (wall.month \div 10)) = wall.month
    BY SMT, <1>2
  <2>2. Digit(rtc, rtcCycle, 9) = wall.month % 10 /\ Digit(rtc, rtcCycle, 10) = wall.month \div 10
    BY SMT, <1>1, <2>1, DigitsAre, ReadsIs
  <2> QED BY SMT, <2>1, <2>2 DEF Two
<1>9. Two(rtc, rtcCycle, 11) = (wall.year - 1980) % 100
  <2>1. PICK h \in 0..99 : h = Hundred(wall.year)
    BY SMT, <1>2 DEF Hundred, Year80
  <2>2. h % 10 \in 0..9 /\ h \div 10 \in 0..9 /\ (h % 10) + (10 * (h \div 10)) = h
    BY SMT
  <2>3. Digit(rtc, rtcCycle, 11) = h % 10 /\ Digit(rtc, rtcCycle, 12) = h \div 10
    BY SMT, <1>1, <2>1, <2>2, DigitsAre, ReadsIs
  <2> QED BY SMT, <2>1, <2>2, <2>3 DEF Two, Hundred, Year80
<1>10. ReadRtc([rtc EXCEPT !.mode = 9, !.addr = LeapYear], rtcCycle) % 16 = (wall.year - 1980) % 4
  <2>1. PICK q \in 0..3 : q = Fourth(wall.year)
    BY SMT, <1>2 DEF Fourth, Year80
  <2>2. LeapDigit(rtc, rtcCycle) = LeapRead(q)
    BY <1>1, <2>1, LeapYearIs, Zenon
  <2>3. Masked(1, LeapYear, q) = q % 4
    BY SMT DEF Masked, Mask, LeapYear
  <2> QED BY SMT, <2>1, <2>2, <2>3 DEF Fourth, Year80, LeapDigit, LeapRead
<1>11. \A day \in 29..31 :
         wall.year \in StartYears => (CheckStart(<<wall.year, wall.month, day, 0, 0, 0>>) <=> day <= DaysIn(wall.year, wall.month))
  <2> SUFFICES ASSUME NEW day \in 29..31, wall.year \in StartYears
               PROVE  CheckStart(<<wall.year, wall.month, day, 0, 0, 0>>) <=> day <= DaysIn(wall.year, wall.month)
    BY Zenon
  <2>1. day \in 1..31
    BY SMT
  <2>2. DaysFromCivil(wall.year, wall.month, day) + DaysBefore1970 >= -1
    <3>1. Number(wall) + DaysBefore1970 >= -1 /\ wall.day \in 1..DaysIn(wall.year, wall.month)
      BY SMT, <1>1, <1>2, DaysInIs DEF WallOk
    <3> QED BY <1>2, <3>1, LateDays DEF Number
  <2> QED BY <1>2, <2>1, <2>2, StartChecked
<1> QED BY <1>3, <1>4, <1>5, <1>6, <1>7, <1>8, <1>9, <1>10, <1>11, SMT DEF ClockRunsOn
-----------------------------------------------------------------------------
(* Every step keeps the chip and the wall time together.                   *)

\* A time of q whole seconds and p cycles.
LEMMA Quotient ==
  ASSUME NEW k \in Nat \ {0}, NEW q \in Int, NEW p \in Nat, p < k
  PROVE  \A x : x = (q * k) + p => x \div k = q /\ x % k = p
BY SMT

LEMMA Division ==
  ASSUME NEW k \in Nat \ {0}, NEW x \in Int
  PROVE  x \div k \in Int /\ x % k \in Nat /\ x % k < k /\ x = ((x \div k) * k) + (x % k)
BY SMT

\* n seconds more, and p cycles after the second.
Moves(cycle, later, n, w, v) == later + w.part = (cycle + (n * CyclesPerSecond)) + v.part

LEMMA TimeMoves ==
  ASSUME NEW r, NEW t, NEW w, NEW v, NEW cycle \in Int, NEW later \in Int, NEW n \in Int,
         ChipOk(r, t), WallOk(w), WallOk(v), Agrees(r, cycle, w),
         SinceStart(v, t) = SinceStart(w, t) + n,
         Moves(cycle, later, n, w, v)
  PROVE  Agrees(r, later, v)
<1>1. PICK k \in Nat \ {0}, q \in Int : k = CyclesPerSecond /\ q = Elapsed(r, cycle) \div k
  <2>1. CyclesPerSecond \in Nat \ {0} /\ Elapsed(r, cycle) \in Int
    BY SMT, RtcAssumption DEF Elapsed, ChipOk
  <2> QED BY SMT, <2>1, Division
<1>2. PICK p \in Nat, p2 \in Nat : p = w.part /\ p2 = v.part /\ p2 < k
  BY SMT, <1>1 DEF WallOk, Walls
<1>3. PICK a \in Int, b \in Int : a = r.baseElapsed /\ b = r.baseCycle
  BY Zenon DEF ChipOk
<1>4. a + (cycle - b) = (q * k) + p
  <2>1. Elapsed(r, cycle) = a + (cycle - b)
    BY <1>3, Zenon DEF Elapsed
  <2>2. a + (cycle - b) \in Int
    BY SMT
  <2>3. p = (a + (cycle - b)) % k /\ q = (a + (cycle - b)) \div k
    BY <1>1, <1>2, <2>1, Zenon DEF Agrees
  <2> QED BY <2>2, <2>3, Division
<1>5. Elapsed(r, later) = ((q + n) * k) + p2
  <2>1. Elapsed(r, later) = a + (later - b)
    BY <1>3, Zenon DEF Elapsed
  <2>2. later + p = (cycle + (n * k)) + p2
    BY <1>1, <1>2, Zenon DEF Moves
  <2>3. PICK x \in Int, y \in Int : x = q * k /\ y = n * k /\ (q + n) * k = x + y
    BY SMT
  <2> QED BY SMT, <1>4, <2>1, <2>2, <2>3
<1>6. Elapsed(r, later) \div k = q + n /\ Elapsed(r, later) % k = p2
  <2>1. PICK z \in Int : z = q + n
    BY SMT
  <2>2. PICK x : x = Elapsed(r, later)
    OBVIOUS
  <2>3. x = (z * k) + p2
    BY <1>5, <2>1, <2>2, Zenon
  <2>4. x \div k = z /\ x % k = p2
    <3>1. p2 < k
      BY <1>2
    <3> QED BY <2>3, <3>1, Quotient, Zenon
  <2> QED BY <2>1, <2>2, <2>4, Zenon
<1>7. SinceStart(v, r.start) = q + n
  <2>1. SinceStart(w, t) = q
    BY <1>1, Zenon DEF Agrees, ChipOk
  <2>2. r.start = t
    BY Zenon DEF ChipOk
  <2> QED BY <2>1, <2>2, Zenon
<1> QED BY <1>1, <1>2, <1>6, <1>7, Zenon DEF Agrees

LEMMA SinceIsInt ==
  ASSUME NEW w, NEW t, WallOk(w), Starts(t) PROVE SinceStart(w, t) \in Int
<1>1. /\ w.year \in Nat /\ w.month \in 1..12 /\ w.day \in Int
      /\ w.hour \in Hours /\ w.minute \in Sixty /\ w.second \in Sixty
  BY SMT DEF WallOk, Walls
<1>2. Number(w) \in Int
  BY <1>1, NumberIsInt, Zenon DEF Number
<1>3. OfDay(w.hour, w.minute, w.second) \in Nat
  BY <1>1, OfDayIs
<1>4. OfDay(w.hour, w.minute, w.second) \in Int
  BY SMT, <1>3
<1> QED BY <1>2, <1>4, SinceIs DEF SinceStart

LEMMA PartKept ==
  ASSUME NEW w, NEW p \in Nat, WallOk(w), p < CyclesPerSecond, NEW t
  PROVE  /\ WallOk([w EXCEPT !.part = p]) /\ [w EXCEPT !.part = p].part = p
         /\ SinceStart([w EXCEPT !.part = p], t) = SinceStart(w, t)
<1>1. PICK v : v = [w EXCEPT !.part = p]
  OBVIOUS
<1>2. /\ v \in Walls /\ v.year = w.year /\ v.month = w.month /\ v.day = w.day /\ v.weekday = w.weekday
      /\ v.part = p /\ v.hour = w.hour /\ v.minute = w.minute /\ v.second = w.second
  BY SMT, <1>1 DEF WallOk, Walls
<1>3. Number(v) = Number(w)
  BY <1>2, Zenon DEF Number
<1>4. SinceStart(v, t) = SinceStart(w, t)
  BY <1>2, <1>3, Zenon DEF SinceStart
<1>5. WallOk(v)
  BY <1>2, <1>3, Zenon DEF WallOk
<1> QED BY <1>1, <1>2, <1>4, <1>5, Zenon

\* A day more has 86400 seconds more.
LEMMA DayMoves ==
  ASSUME NEW w, NEW t, WallOk(w), Starts(t)
  PROVE  WallOk(NextDay(w)) /\ SinceStart(NextDay(w), t) = SinceStart(w, t) + 86400 /\ NextDay(w).part = w.part
<1>1. /\ WallOk(NextDay(w)) /\ Number(NextDay(w)) = Number(w) + 1
      /\ NextDay(w).hour = w.hour /\ NextDay(w).minute = w.minute /\ NextDay(w).second = w.second
      /\ NextDay(w).part = w.part
  BY NextDayIs, Zenon
<1>2. /\ w.year \in Nat /\ w.month \in 1..12 /\ w.day \in Int
      /\ w.hour \in Hours /\ w.minute \in Sixty /\ w.second \in Sixty
  BY SMT DEF WallOk, Walls
<1>3. Number(w) \in Int
  BY <1>2, NumberIsInt, Zenon DEF Number
<1>4. OfDay(w.hour, w.minute, w.second) \in Nat
  BY <1>2, OfDayIs
<1>5. PICK n \in Int, o \in Int : n = Number(w) /\ o = OfDay(w.hour, w.minute, w.second)
  BY SMT, <1>3, <1>4
<1>6. SinceStart(w, t) = Since(n, o, t) /\ SinceStart(NextDay(w), t) = Since(n + 1, o, t)
  BY <1>1, <1>5, Zenon DEF SinceStart
<1>7. Since(n + 1, o, t) = Since(n, o, t) + 86400
  BY SMT, SinceIs
<1> QED BY SMT, <1>1, <1>6, <1>7

\* What a write and a refresh leave alone.
LEMMA WriteKeeps ==
  ASSUME NEW r, NEW t, NEW a, NEW b, ChipOk(r, t), NEW u, u = WriteRtc(SelectRegister(r, a), b)
  PROVE  ChipOk(u, t) /\ u.baseCycle = r.baseCycle /\ u.baseElapsed = r.baseElapsed
<1>1. PICK s : s = SelectRegister(r, a)
  OBVIOUS
<1>2. ChipOk(s, t) /\ s.baseCycle = r.baseCycle /\ s.baseElapsed = r.baseElapsed
  BY SMT, <1>1 DEF ChipOk, SelectRegister
<1>3. PICK n : n = b % 16
  OBVIOUS
<1>4. \A x : \/ x = [s EXCEPT !.mode = n] \/ x = [s EXCEPT !.test = n] \/ x = [s EXCEPT !.reset = n]
             \/ x = [s EXCEPT !.cmos[Block(s)][s.addr] = n]
             => ChipOk(x, t) /\ x.baseCycle = s.baseCycle /\ x.baseElapsed = s.baseElapsed
  BY SMT, <1>2 DEF ChipOk
<1>5. \A x, m : x = [s EXCEPT !.regs[Block(s)][s.addr] = m]
             => ChipOk(x, t) /\ x.baseCycle = s.baseCycle /\ x.baseElapsed = s.baseElapsed
  BY SMT, <1>2 DEF ChipOk
<1>6. \/ WriteRtc(s, b) = [s EXCEPT !.mode = n] \/ WriteRtc(s, b) = [s EXCEPT !.test = n]
      \/ WriteRtc(s, b) = [s EXCEPT !.reset = n]
      \/ WriteRtc(s, b) = [s EXCEPT !.cmos[Block(s)][s.addr] = n]
      \/ \E m : WriteRtc(s, b) = [s EXCEPT !.regs[Block(s)][s.addr] = m]
  <2>1. PICK m : m = Masked(Block(s), s.addr, n)
    OBVIOUS
  <2>2. WriteRtc(s, b) = CASE s.addr = 13 -> [s EXCEPT !.mode = n]
                           [] s.addr = 14 -> [s EXCEPT !.test = n]
                           [] s.addr = 15 -> [s EXCEPT !.reset = n]
                           [] s.addr < 13 /\ Block(s) >= 2 -> [s EXCEPT !.cmos[Block(s)][s.addr] = n]
                           [] OTHER -> [s EXCEPT !.regs[Block(s)][s.addr] = m]
    BY <1>3, <2>1, Zenon DEF WriteRtc
  <2>3. PICK v1, v2, v3, v4, v5 :
          /\ v1 = [s EXCEPT !.mode = n] /\ v2 = [s EXCEPT !.test = n] /\ v3 = [s EXCEPT !.reset = n]
          /\ v4 = [s EXCEPT !.cmos[Block(s)][s.addr] = n] /\ v5 = [s EXCEPT !.regs[Block(s)][s.addr] = m]
    BY Zenon
  <2>4. WriteRtc(s, b) = CASE s.addr = 13 -> v1 [] s.addr = 14 -> v2 [] s.addr = 15 -> v3
                           [] s.addr < 13 /\ Block(s) >= 2 -> v4 [] OTHER -> v5
    BY <2>2, <2>3, Zenon
  <2>5. WriteRtc(s, b) \in {v1, v2, v3, v4, v5}
    <3> HIDE <1>4, <1>5
    <3> QED BY SMT, <2>4
  <2> QED BY <2>3, <2>5, Zenon
<1>7. ChipOk(WriteRtc(s, b), t) /\ WriteRtc(s, b).baseCycle = s.baseCycle /\ WriteRtc(s, b).baseElapsed = s.baseElapsed
  BY <1>4, <1>5, <1>6, Zenon
<1> QED BY <1>1, <1>2, <1>7, Zenon

LEMMA ReadKeeps ==
  ASSUME NEW r, NEW t, NEW a, NEW cycle, ChipOk(r, t), NEW u, u = ReadRefreshes(SelectRegister(r, a), cycle)
  PROVE  ChipOk(u, t) /\ u.baseCycle = r.baseCycle /\ u.baseElapsed = r.baseElapsed
<1>1. PICK s : s = SelectRegister(r, a)
  OBVIOUS
<1>2. ChipOk(s, t) /\ s.baseCycle = r.baseCycle /\ s.baseElapsed = r.baseElapsed
  BY SMT, <1>1 DEF ChipOk, SelectRegister
<1>3. PICK ds, m : Refreshed(s, cycle) = [s EXCEPT !.regs[0] = ds, !.regs[1][LeapYear] = m]
  BY RefreshedAt, Zenon DEF ShownAt, ShownAs
<1>4. PICK x : x = Refreshed(s, cycle)
  OBVIOUS
<1>5. ChipOk(x, t) /\ x.baseCycle = s.baseCycle /\ x.baseElapsed = s.baseElapsed
  BY SMT, <1>2, <1>3, <1>4 DEF ChipOk
<1>6. u = s \/ u = x
  BY <1>1, <1>4, Zenon DEF ReadRefreshes
<1> QED BY <1>2, <1>5, <1>6, Zenon

\* A clock that starts agrees with the wall time of its start.
LEMMA RtcInvInit == ASSUME RtcInit PROVE RtcInv
<1>1. /\ rtcJob \in RtcJobs /\ CheckStart(rtcJob.start) /\ rtc = NewRtc(rtcJob.start) /\ rtcCycle = 0 /\ rtcSnap = <<>>
      /\ wall = [year |-> rtcJob.start[1], month |-> rtcJob.start[2], day |-> rtcJob.start[3],
                 hour |-> rtcJob.start[4], minute |-> rtcJob.start[5], second |-> rtcJob.start[6],
                 weekday |-> rtcJob.weekday, part |-> 0]
  BY DEF RtcInit
<1>2. "start" \in DOMAIN rtcJob /\ rtcJob.weekday = (StartDay(rtcJob.start) + 4) % 7
  BY <1>1, RtcAssumption, Zenon DEF StartDay
<1>3. PICK t : t = rtcJob.start
  OBVIOUS
<1>4. Starts(t)
  BY <1>1, <1>3, CheckStartIs, Zenon
<1>5. ChipOk(rtc, t) /\ rtc.start = t /\ rtc.baseCycle = 0 /\ rtc.baseElapsed = 0
  BY SMT, <1>1, <1>3 DEF ChipOk, NewRtc
<1>6. /\ wall.year = t[1] /\ wall.month = t[2] /\ wall.day = t[3] /\ wall.hour = t[4] /\ wall.minute = t[5]
      /\ wall.second = t[6] /\ wall.weekday = (StartDay(t) + 4) % 7 /\ wall.part = 0
  BY SMT, <1>1, <1>2, <1>3
<1>7. Number(wall) = StartDay(t) /\ StartDay(t) \in Int
  <2>1. t[3] \in Int /\ t[1] \in Nat /\ t[2] \in 1..12
    BY SMT, <1>4, DaysInIs DEF Starts
  <2> QED BY <1>6, <2>1, NumberIsInt, Zenon DEF StartDay, Number
<1>8. WallOk(wall)
  <2>1. wall \in Walls
    <3>1. /\ t[1] \in Nat /\ t[2] \in 1..12 /\ t[3] \in 1..31 /\ t[4] \in Hours /\ t[5] \in Sixty /\ t[6] \in Sixty
      BY SMT, <1>4, DaysInIs DEF Starts, Hours, Sixty
    <3>2. PICK e \in 0..6 : e = (StartDay(t) + 4) % 7
      BY SMT, <1>7
    <3>3. wall = [year |-> t[1], month |-> t[2], day |-> t[3], hour |-> t[4], minute |-> t[5],
                  second |-> t[6], weekday |-> e, part |-> 0]
      BY <1>1, <1>2, <1>3, <3>2, Zenon
    <3> QED BY SMT, <3>1, <3>3 DEF Walls
  <2>2. wall.day <= DaysIn(wall.year, wall.month)
    BY SMT, <1>4, <1>6, DaysInIs DEF Starts
  <2>3. wall.part < CyclesPerSecond
    BY SMT, <1>6, RtcAssumption
  <2>4. Number(wall) + DaysBefore1970 >= -1
    BY <1>4, <1>7, Zenon DEF Starts, StartDay
  <2> QED BY <1>6, <1>7, <2>1, <2>2, <2>3, <2>4, Zenon DEF WallOk
<1>9. Agrees(rtc, rtcCycle, wall)
  <2>1. Elapsed(rtc, rtcCycle) = 0
    BY SMT, <1>1, <1>5 DEF Elapsed
  <2>2. Elapsed(rtc, rtcCycle) % CyclesPerSecond = 0 /\ Elapsed(rtc, rtcCycle) \div CyclesPerSecond = 0
    BY SMT, <2>1, RtcAssumption
  <2>3. SinceStart(wall, t) = 0
    <3>1. PICK n \in Int, o \in Int : n = StartDay(t) /\ o = OfDay(t[4], t[5], t[6])
      <4>1. t[4] \in Int /\ t[5] \in Int /\ t[6] \in Int
        BY SMT, <1>4 DEF Starts
      <4>2. OfDay(t[4], t[5], t[6]) \in Int
        BY SMT, <4>1 DEF OfDay
      <4> QED BY <1>7, <4>2, Zenon
    <3>2. SinceStart(wall, t) = Since(n, o, t)
      BY <1>6, <1>7, <3>1, Zenon DEF SinceStart
    <3>3. Since(n, o, t) = (((n - n) * 86400) + o) - o
      BY SMT, <3>1 DEF Since, StartDay
    <3> QED BY SMT, <3>2, <3>3
  <2> QED BY <1>5, <1>6, <2>2, <2>3, Zenon DEF Agrees
<1>10. rtcCycle \in Int
  BY SMT, <1>1
<1> QED BY <1>1, <1>2, <1>3, <1>4, <1>5, <1>8, <1>9, <1>10, Zenon DEF RtcInv

\* Time that passes moves the chip and the wall together.
LEMMA TimePasses ==
  ASSUME RtcInv, PassTime
  PROVE  rtcCycle' \in Int /\ WallOk(wall') /\ Agrees(rtc, rtcCycle', wall')
<1>1. /\ Starts(rtcJob.start) /\ rtcCycle \in Int /\ ChipOk(rtc, rtcJob.start) /\ WallOk(wall) /\ Agrees(rtc, rtcCycle, wall)
  BY Zenon DEF RtcInv
<1>2. PICK k \in Nat \ {0} : k = CyclesPerSecond
  BY RtcAssumption, Zenon
<1>3. PICK p \in Nat : p = wall.part /\ p < k
  BY SMT, <1>1, <1>2 DEF WallOk, Walls
<1>4. PICK t : t = rtcJob.start
  OBVIOUS
<1>5. /\ WallOk(NextSecond(wall)) /\ SinceStart(NextSecond(wall), t) = SinceStart(wall, t) + 1
      /\ NextSecond(wall).part = p
  BY <1>1, <1>3, <1>4, NextSecondIs, Zenon
<1>6. CASE rtcCycle' = rtcCycle + PartOfSecond /\ wall' = Later(wall, PartOfSecond)
  <2>1. rtcCycle' = rtcCycle + (k - 1)
    BY SMT, <1>1, <1>2, <1>6 DEF PartOfSecond
  <2>2. rtcCycle' \in Int
    BY SMT, <1>1, <2>1
  <2>3. CASE p = 0
    <3>1. PICK n \in Nat : n = k - 1
      BY SMT
    <3>2. wall' = [wall EXCEPT !.part = n]
      BY SMT, <1>2, <1>3, <1>6, <2>3, <3>1 DEF Later, PartOfSecond
    <3>3. n < CyclesPerSecond
      BY SMT, <1>2, <3>1
    <3>4. WallOk(wall') /\ wall'.part = n /\ SinceStart(wall', t) = SinceStart(wall, t)
      BY <1>1, <3>2, <3>3, PartKept, Zenon
    <3>5. SinceStart(wall', t) = SinceStart(wall, t) + 0
      <4>1. SinceStart(wall, t) \in Int
        BY <1>1, <1>4, SinceIsInt, Zenon
      <4> QED BY SMT, <3>4, <4>1
    <3>6. 0 \in Int /\ Moves(rtcCycle, rtcCycle', 0, wall, wall')
      BY SMT, <1>1, <1>2, <1>3, <2>1, <2>3, <3>1, <3>4 DEF Moves
    <3> QED BY <1>1, <1>4, <2>2, <3>4, <3>5, <3>6, TimeMoves, Zenon
  <2>4. CASE p > 0
    <3>1. PICK n \in Nat : n = p - 1 /\ n < k
      BY SMT, <1>3, <2>4
    <3>2. wall' = [NextSecond(wall) EXCEPT !.part = n]
      <4>1. (p + (k - 1)) - k = n /\ ~(p + (k - 1) < k)
        BY SMT, <2>4, <3>1
      <4>2. PICK v : v = NextSecond(wall)
        OBVIOUS
      <4>3. Later(wall, k - 1) = [v EXCEPT !.part = n]
        BY <1>2, <1>3, <4>1, <4>2, Zenon DEF Later
      <4> QED BY <1>2, <1>6, <4>2, <4>3, Zenon DEF PartOfSecond
    <3>3. WallOk(wall') /\ wall'.part = n /\ SinceStart(wall', t) = SinceStart(NextSecond(wall), t)
      <4>1. PICK v : v = NextSecond(wall)
        OBVIOUS
      <4>2. n < CyclesPerSecond
        BY <1>2, <3>1, Zenon
      <4>3. /\ WallOk([v EXCEPT !.part = n]) /\ [v EXCEPT !.part = n].part = n
            /\ SinceStart([v EXCEPT !.part = n], t) = SinceStart(v, t)
        BY <1>5, <4>1, <4>2, PartKept
      <4> QED BY <3>2, <4>1, <4>3, Zenon
    <3>4. SinceStart(wall', t) = SinceStart(wall, t) + 1
      BY <1>5, <3>3, Zenon
    <3>5. 1 \in Int /\ Moves(rtcCycle, rtcCycle', 1, wall, wall')
      BY SMT, <1>1, <1>2, <1>3, <2>1, <2>4, <3>1, <3>3 DEF Moves
    <3> QED BY <1>1, <1>4, <2>2, <3>3, <3>4, <3>5, TimeMoves, Zenon
  <2> QED BY SMT, <2>3, <2>4
<1>7. CASE rtcCycle' = rtcCycle + CyclesPerSecond /\ wall' = NextSecond(wall)
  <2>1. rtcCycle' \in Int /\ 1 \in Int
    BY SMT, <1>1, <1>2, <1>7
  <2>2. Moves(rtcCycle, rtcCycle', 1, wall, wall')
    BY SMT, <1>1, <1>2, <1>3, <1>5, <1>7 DEF Moves
  <2> QED BY <1>1, <1>4, <1>5, <1>7, <2>1, <2>2, TimeMoves, Zenon
<1>8. CASE rtcCycle' = rtcCycle + (86400 * CyclesPerSecond) /\ wall' = NextDay(wall)
  <2>1. PICK n \in Int : n = 86400
    BY SMT
  <2>2. /\ WallOk(wall') /\ SinceStart(wall', t) = SinceStart(wall, t) + n /\ wall'.part = p
    BY SMT, <1>1, <1>3, <1>4, <1>8, <2>1, DayMoves
  <2>3. PICK m \in Int : m = n * k
    BY SMT
  <2>4. rtcCycle' = rtcCycle + m /\ rtcCycle' \in Int
    BY SMT, <1>1, <1>2, <1>8, <2>1, <2>3
  <2>5. Moves(rtcCycle, rtcCycle', n, wall, wall')
    BY SMT, <1>1, <1>2, <1>3, <2>2, <2>3, <2>4 DEF Moves
  <2> QED BY <1>1, <1>4, <2>2, <2>4, <2>5, TimeMoves, Zenon
<1> QED BY <1>6, <1>7, <1>8, SMT DEF PassTime

\* Every step of the clock keeps the agreement.
LEMMA RtcInvStep == ASSUME RtcInv, RtcNext PROVE RtcInv'
<1>1. /\ "start" \in DOMAIN rtcJob /\ Starts(rtcJob.start) /\ rtcCycle \in Int
      /\ ChipOk(rtc, rtcJob.start) /\ WallOk(wall) /\ Agrees(rtc, rtcCycle, wall)
      /\ rtcSnap # <<>> => /\ ChipOk(rtcSnap.rtc, rtcJob.start) /\ rtcSnap.rtc.baseCycle = 0
                           /\ WallOk(rtcSnap.wall) /\ Agrees(rtcSnap.rtc, 0, rtcSnap.wall)
  BY Zenon DEF RtcInv
<1>2. rtcJob'.start = rtcJob.start /\ "start" \in DOMAIN rtcJob'
  <2>1. RtcStep
    <3>1. PassTime => RtcStep
      BY SMT DEF PassTime
    <3> QED BY <3>1, Zenon DEF RtcNext, WriteRegisters, ReadRegisters, SaveRtc, LoadRtc
  <2> QED BY SMT, <1>1, <2>1 DEF RtcStep
<1>3. CASE PassTime
  <2>1. UNCHANGED <<rtc, rtcSnap>>
    BY SMT, <1>3 DEF PassTime
  <2>2. rtcCycle' \in Int /\ WallOk(wall') /\ Agrees(rtc, rtcCycle', wall')
    BY <1>3, TimePasses
  <2> QED BY <1>1, <1>2, <2>1, <2>2, Zenon DEF RtcInv
<1>4. CASE WriteRegisters
  <2>1. PICK w : rtc' = WriteRtc(SelectRegister(rtc, w[1]), w[2])
    BY Zenon, <1>4 DEF WriteRegisters
  <2>2. UNCHANGED <<rtcCycle, rtcSnap, wall>>
    BY Zenon, <1>4 DEF WriteRegisters
  <2>3. ChipOk(rtc', rtcJob.start) /\ rtc'.baseCycle = rtc.baseCycle /\ rtc'.baseElapsed = rtc.baseElapsed
    <3>1. PICK a, b : a = w[1] /\ b = w[2]
      OBVIOUS
    <3>2. PICK u : u = WriteRtc(SelectRegister(rtc, a), b)
      OBVIOUS
    <3>3. ChipOk(u, rtcJob.start) /\ u.baseCycle = rtc.baseCycle /\ u.baseElapsed = rtc.baseElapsed
      BY <1>1, <3>2, WriteKeeps
    <3> QED BY <2>1, <3>1, <3>2, <3>3, Zenon
  <2>4. Agrees(rtc', rtcCycle, wall)
    BY <1>1, <2>3, Zenon DEF Agrees, Elapsed, ChipOk
  <2> QED BY <1>1, <1>2, <2>2, <2>3, <2>4, Zenon DEF RtcInv
<1>5. CASE ReadRegisters
  <2>1. PICK w : rtc' = ReadRefreshes(SelectRegister(rtc, w[1]), rtcCycle)
    BY Zenon, <1>5 DEF ReadRegisters
  <2>2. UNCHANGED <<rtcCycle, rtcSnap, wall>>
    BY Zenon, <1>5 DEF ReadRegisters
  <2>3. ChipOk(rtc', rtcJob.start) /\ rtc'.baseCycle = rtc.baseCycle /\ rtc'.baseElapsed = rtc.baseElapsed
    <3>1. PICK a, b : a = w[1] /\ b = w[2]
      OBVIOUS
    <3>2. PICK u : u = ReadRefreshes(SelectRegister(rtc, a), rtcCycle)
      OBVIOUS
    <3>3. ChipOk(u, rtcJob.start) /\ u.baseCycle = rtc.baseCycle /\ u.baseElapsed = rtc.baseElapsed
      BY <1>1, <3>2, ReadKeeps
    <3> QED BY <2>1, <3>1, <3>2, <3>3, Zenon
  <2>4. Agrees(rtc', rtcCycle, wall)
    BY <1>1, <2>3, Zenon DEF Agrees, Elapsed, ChipOk
  <2> QED BY <1>1, <1>2, <2>2, <2>3, <2>4, Zenon DEF RtcInv
<1>6. CASE SaveRtc
  <2>1. /\ rtcSnap' = [rtc |-> SavedRtc(rtc, rtcCycle), wall |-> wall]
        /\ UNCHANGED <<rtc, rtcCycle, wall>>
    BY Zenon, <1>6 DEF SaveRtc
  <2>2. PICK s : s = SavedRtc(rtc, rtcCycle)
    OBVIOUS
  <2>3. rtcSnap'.rtc = s /\ rtcSnap'.wall = wall
    BY SMT, <2>1, <2>2
  <2>4. /\ ChipOk(s, rtcJob.start) /\ s.baseCycle = 0 /\ s.baseElapsed = Elapsed(rtc, rtcCycle)
        /\ s.start = rtc.start
    BY SMT, <1>1, <2>2 DEF SavedRtc, ChipOk, Elapsed
  <2>5. Elapsed(s, 0) = Elapsed(rtc, rtcCycle)
    BY SMT, <1>1, <2>4 DEF Elapsed, ChipOk
  <2>6. Agrees(s, 0, wall)
    BY <1>1, <2>4, <2>5, Zenon DEF Agrees
  <2> QED BY <1>1, <1>2, <2>1, <2>3, <2>4, <2>6, Zenon DEF RtcInv
<1>7. CASE LoadRtc
  <2>1. /\ rtcSnap # <<>> /\ rtc' = LoadedRtc(rtcSnap.rtc, rtcCycle) /\ wall' = rtcSnap.wall
        /\ UNCHANGED <<rtcCycle, rtcSnap>>
    BY Zenon, <1>7 DEF LoadRtc
  <2>2. PICK s : s = rtcSnap.rtc
    OBVIOUS
  <2>3. ChipOk(s, rtcJob.start) /\ s.baseCycle = 0 /\ WallOk(wall') /\ Agrees(s, 0, wall')
    BY <1>1, <2>1, <2>2, Zenon
  <2>4. /\ ChipOk(rtc', rtcJob.start) /\ rtc'.baseCycle = rtcCycle /\ rtc'.baseElapsed = s.baseElapsed
        /\ rtc'.start = s.start
    BY SMT, <1>1, <2>1, <2>2, <2>3 DEF LoadedRtc, ChipOk
  <2>5. Elapsed(rtc', rtcCycle) = Elapsed(s, 0)
    BY SMT, <1>1, <2>3, <2>4 DEF Elapsed, ChipOk
  <2>6. Agrees(rtc', rtcCycle, wall')
    BY <2>3, <2>4, <2>5, Zenon DEF Agrees
  <2> QED BY <1>1, <1>2, <2>1, <2>3, <2>4, <2>6, Zenon DEF RtcInv
<1> QED BY <1>3, <1>4, <1>5, <1>6, <1>7, Zenon DEF RtcNext

LEMMA RtcKeepsInv == ASSUME RtcInv, [RtcNext]_rtcVars PROVE RtcInv'
<1>1. CASE RtcNext
  BY <1>1, RtcInvStep, Zenon
<1>2. CASE UNCHANGED rtcVars
  BY <1>2, Zenon DEF rtcVars, RtcInv
<1> QED BY <1>1, <1>2

-----------------------------------------------------------------------------
(* The host's keyboard. The cells of a job's layout, by the job rather     *)
(* than by the variable, so that they are the same before and after a step. *)

Sides        == Shifts \union Ctrls
FunctionKeys == {"f1", "f2"}

KeyCell(j, k) ==
  CASE k \in DOMAIN CommonMatrix -> {CommonMatrix[k]}
    [] j.japanese /\ k \in DOMAIN JapaneseMatrix -> {JapaneseMatrix[k]}
    [] OTHER -> {}

LEMMA CellIs == \A k : CellOf(k) = KeyCell(inputJob, k)
BY DEF CellOf, KeyCell

LEMMA KeysAre ==
  /\ DOMAIN CommonMatrix = {"lshift", "rshift", "lctrl", "rctrl", "zero", "f1", "f2", "home", "w", "up"}
  /\ DOMAIN JapaneseMatrix = {"zero_shift", "ro"}
  /\ DOMAIN JoyMap = {"w", "up"} /\ DOMAIN CtrlFkeyCells = FunctionKeys
BY SMT DEF CommonMatrix, JapaneseMatrix, JoyMap, CtrlFkeyCells, FunctionKeys

LEMMA CellsAre ==
  ASSUME NEW j, j.japanese \in BOOLEAN
  PROVE  /\ \A k \in Sides \union {"zero"} : KeyCell(j, k) # {}
         /\ \A k \in {"f6", "f7", "f10"} : KeyCell(j, k) = {}
         /\ \A k \in Sides \union FunctionKeys \union {"zero", "zero_shift"} :
              \A c \in FunctionKeys : CtrlFkeyCells[c] \notin KeyCell(j, k)
         /\ KeyCell(j, "zero_shift") # {} <=> j.japanese
<1>1. /\ CommonMatrix["lshift"] = <<6, 0>> /\ CommonMatrix["rshift"] = <<6, 0>>
      /\ CommonMatrix["lctrl"] = <<6, 1>> /\ CommonMatrix["rctrl"] = <<6, 1>>
      /\ CommonMatrix["zero"] = <<0, 0>> /\ CommonMatrix["f1"] = <<6, 5>> /\ CommonMatrix["f2"] = <<6, 6>>
  BY SMT DEF CommonMatrix
<1>2. JapaneseMatrix["zero_shift"] = <<2, 5>>
  BY SMT DEF JapaneseMatrix
<1>3. CtrlFkeyCells["f1"] = <<8, 1>> /\ CtrlFkeyCells["f2"] = <<8, 2>>
  BY SMT DEF CtrlFkeyCells
<1>4. /\ KeyCell(j, "lshift") = {<<6, 0>>} /\ KeyCell(j, "rshift") = {<<6, 0>>}
      /\ KeyCell(j, "lctrl") = {<<6, 1>>} /\ KeyCell(j, "rctrl") = {<<6, 1>>}
      /\ KeyCell(j, "zero") = {<<0, 0>>} /\ KeyCell(j, "f1") = {<<6, 5>>} /\ KeyCell(j, "f2") = {<<6, 6>>}
  BY SMT, <1>1, KeysAre DEF KeyCell
<1>5. KeyCell(j, "zero_shift") = IF j.japanese THEN {<<2, 5>>} ELSE {}
  BY SMT, <1>2, KeysAre DEF KeyCell
<1>6. KeyCell(j, "f6") = {} /\ KeyCell(j, "f7") = {} /\ KeyCell(j, "f10") = {}
  BY SMT, KeysAre DEF KeyCell
<1>7. \A k \in Sides : k \in {"lshift", "rshift", "lctrl", "rctrl"}
  BY DEF Sides, Shifts, Ctrls
<1>8. \A k \in Sides \union {"zero"} : KeyCell(j, k) # {}
  <2>1. ASSUME NEW k \in Sides \union {"zero"} PROVE KeyCell(j, k) # {}
    <3>1. k = "lshift" \/ k = "rshift" \/ k = "lctrl" \/ k = "rctrl" \/ k = "zero"
      BY <1>7, <2>1
    <3> QED BY <1>4, <3>1
  <2> QED BY <2>1
<1>9. \A k \in Sides \union FunctionKeys \union {"zero", "zero_shift"} :
        \A c \in FunctionKeys : CtrlFkeyCells[c] \notin KeyCell(j, k)
  <2>1. ASSUME NEW k \in Sides \union FunctionKeys \union {"zero", "zero_shift"}, NEW x \in KeyCell(j, k)
        PROVE  x[1] # 8
    <3>1. \/ k = "lshift" \/ k = "rshift" \/ k = "lctrl" \/ k = "rctrl"
          \/ k = "zero" \/ k = "zero_shift" \/ k = "f1" \/ k = "f2"
      BY <1>7, <2>1 DEF FunctionKeys
    <3>2. \/ x = <<6, 0>> \/ x = <<6, 1>> \/ x = <<0, 0>> \/ x = <<2, 5>> \/ x = <<6, 5>> \/ x = <<6, 6>>
      BY <1>4, <1>5, <2>1, <3>1
    <3> QED BY SMT, <3>2
  <2>2. \A c \in FunctionKeys : CtrlFkeyCells[c][1] = 8
    BY SMT, <1>3 DEF FunctionKeys
  <2> QED BY <2>1, <2>2, Zenon
<1> QED BY <1>5, <1>6, <1>8, <1>9

LEMMA ZerosAre ==
  ASSUME NEW j, j.japanese = TRUE PROVE KeyCell(j, "zero_shift") # KeyCell(j, "zero")
<1>1. CommonMatrix["zero"] = <<0, 0>> /\ JapaneseMatrix["zero_shift"] = <<2, 5>>
  BY SMT DEF CommonMatrix, JapaneseMatrix
<1>2. KeyCell(j, "zero") = {<<0, 0>>} /\ KeyCell(j, "zero_shift") = {<<2, 5>>}
  BY SMT, <1>1, KeysAre DEF KeyCell
<1>3. <<2, 5>> # <<0, 0>>
  BY SMT
<1> QED BY <1>2, <1>3

LEMMA LinesAre ==
  \A k : k \notin {"w", "up"} => JoyLine(k) = {}
BY KeysAre DEF JoyLine

-----------------------------------------------------------------------------
(* What a key of the keyboard changes.                                     *)

InputFields ==
  {"cells", "kbd", "pad", "held", "redirect", "ctrl", "combo", "shift", "active", "ffHold",
   "slots", "turbo", "counter", "releases"}
Shape(h) == DOMAIN h = InputFields /\ h.redirect \in BOOLEAN

SamePads(h, w) ==
  w.pad = h.pad /\ w.slots = h.slots /\ w.turbo = h.turbo /\ w.counter = h.counter /\ w.releases = h.releases
SameFlags(h, w) ==
  w.ctrl = h.ctrl /\ w.combo = h.combo /\ w.shift = h.shift /\ w.active = h.active /\ w.ffHold = h.ffHold

\* The fields of two such states are the same but for some.
Alike(h, w, fields) == DOMAIN h = InputFields /\ DOMAIN w = InputFields /\ \A f \in InputFields \ fields : w[f] = h[f]

KeysOf(j, held) == UNION {KeyCell(j, k) : k \in held}

DownKey(j, h, key) ==
  IF key = "zero" /\ h.held \intersect Shifts # {} /\ KeyCell(j, "zero_shift") # {} THEN "zero_shift" ELSE key
UpKey(h, key) == IF key = "zero" /\ h.redirect THEN "zero_shift" ELSE key

Downed(j, h, key, w) ==
  LET k == DownKey(j, h, key) IN
  /\ Shape(w) /\ SamePads(h, w) /\ SameFlags(h, w)
  /\ w.cells = h.cells \union KeyCell(j, k) /\ w.kbd = h.kbd \union JoyLine(key)
  /\ w.held = (IF KeyCell(j, k) # {} THEN h.held \union {k} ELSE h.held)
  /\ w.redirect <=> (h.redirect \/ k # key)

LEMMA KeyDownIs ==
  ASSUME NEW h, Shape(h), NEW key PROVE Downed(inputJob, h, key, KeyDown(h, key))
<1>1. PICK k : k = DownKey(inputJob, h, key)
  OBVIOUS
<1>2. PICK r \in BOOLEAN : r = (h.redirect \/ k # key)
  OBVIOUS
<1>3. PICK cells, kbd, held : cells = h.cells \union KeyCell(inputJob, k) /\ kbd = h.kbd \union JoyLine(key)
                              /\ held = IF KeyCell(inputJob, k) # {} THEN h.held \union {k} ELSE h.held
  OBVIOUS
<1>4. PICK w : w = [h EXCEPT !.redirect = r, !.cells = cells, !.kbd = kbd, !.held = held]
  OBVIOUS
<1>5. KeyDown(h, key) = w
  BY <1>1, <1>2, <1>3, <1>4, CellIs, Zenon DEF KeyDown, DownKey
<1>6. PICK a : a = [h EXCEPT !.redirect = r]
  OBVIOUS
<1>7. PICK b : b = [a EXCEPT !.cells = cells]
  OBVIOUS
<1>8. PICK c : c = [b EXCEPT !.kbd = kbd]
  OBVIOUS
<1>9. w = [c EXCEPT !.held = held]
  BY <1>4, <1>6, <1>7, <1>8, Zenon
<1>10. Alike(h, a, {"redirect"}) /\ a.redirect = r
  BY SMT, <1>6 DEF Alike, Shape, InputFields
<1>11. Alike(a, b, {"cells"}) /\ b.cells = cells
  BY SMT, <1>7, <1>10 DEF Alike, InputFields
<1>12. Alike(b, c, {"kbd"}) /\ c.kbd = kbd
  BY SMT, <1>8, <1>11 DEF Alike, InputFields
<1>13. Alike(c, w, {"held"}) /\ w.held = held
  BY SMT, <1>9, <1>12 DEF Alike, InputFields
<1>14. DOMAIN w = InputFields /\ \A f \in InputFields \ {"redirect", "cells", "kbd", "held"} : w[f] = h[f]
  BY <1>10, <1>11, <1>12, <1>13, Zenon DEF Alike
<1>15. w.redirect = r /\ w.cells = cells /\ w.kbd = kbd /\ w.held = held
  BY SMT, <1>10, <1>11, <1>12, <1>13 DEF Alike, InputFields
<1>16. SamePads(h, w) /\ SameFlags(h, w) /\ Shape(w)
  BY SMT, <1>2, <1>14, <1>15 DEF SamePads, SameFlags, Shape, InputFields
<1> QED BY <1>1, <1>2, <1>3, <1>5, <1>15, <1>16, Zenon DEF Downed, Shape, InputFields, SamePads, SameFlags

Upped(j, h, key, w) ==
  LET k == UpKey(h, key) IN
  /\ Shape(w) /\ SamePads(h, w) /\ SameFlags(h, w)
  /\ w.held = h.held \ {k} /\ w.kbd = h.kbd \ JoyLine(key)
  /\ w.cells = h.cells \ (KeyCell(j, k) \ KeysOf(j, w.held))
  /\ w.redirect <=> (h.redirect /\ key # "zero")

LEMMA KeyUpIs ==
  ASSUME NEW h, Shape(h), NEW key PROVE Upped(inputJob, h, key, KeyUp(h, key))
<1>1. PICK k : k = UpKey(h, key)
  OBVIOUS
<1>2. PICK r \in BOOLEAN : r = (h.redirect /\ key # "zero")
  OBVIOUS
<1>3. PICK held : held = h.held \ {k}
  OBVIOUS
<1>4. PICK cells, kbd : kbd = h.kbd \ JoyLine(key)
                        /\ cells = h.cells \ (KeyCell(inputJob, k) \ KeysOf(inputJob, held))
  OBVIOUS
<1>5. PICK w : w = [h EXCEPT !.redirect = r, !.held = held, !.kbd = kbd, !.cells = cells]
  OBVIOUS
<1>6. KeyUp(h, key) = w
  <2>1. UNION {CellOf(other) : other \in held} = KeysOf(inputJob, held)
    BY CellIs, SMT DEF KeysOf
  <2>2. KeyUp(h, key) = [h EXCEPT !.redirect = @ /\ key # "zero", !.held = held, !.kbd = @ \ JoyLine(key),
                                  !.cells = @ \ (CellOf(k) \ UNION {CellOf(other) : other \in held})]
    BY <1>1, <1>3, Zenon DEF KeyUp, UpKey
  <2> QED BY <1>2, <1>4, <1>5, <2>1, <2>2, CellIs, Zenon
<1>7. PICK a : a = [h EXCEPT !.redirect = r]
  OBVIOUS
<1>8. PICK b : b = [a EXCEPT !.held = held]
  OBVIOUS
<1>9. PICK c : c = [b EXCEPT !.kbd = kbd]
  OBVIOUS
<1>10. w = [c EXCEPT !.cells = cells]
  BY <1>5, <1>7, <1>8, <1>9, Zenon
<1>11. Alike(h, a, {"redirect"}) /\ a.redirect = r
  BY SMT, <1>7 DEF Alike, Shape, InputFields
<1>12. Alike(a, b, {"held"}) /\ b.held = held
  BY SMT, <1>8, <1>11 DEF Alike, InputFields
<1>13. Alike(b, c, {"kbd"}) /\ c.kbd = kbd
  BY SMT, <1>9, <1>12 DEF Alike, InputFields
<1>14. Alike(c, w, {"cells"}) /\ w.cells = cells
  BY SMT, <1>10, <1>13 DEF Alike, InputFields
<1>15. DOMAIN w = InputFields /\ \A f \in InputFields \ {"redirect", "cells", "kbd", "held"} : w[f] = h[f]
  BY <1>11, <1>12, <1>13, <1>14, Zenon DEF Alike
<1>16. w.redirect = r /\ w.cells = cells /\ w.kbd = kbd /\ w.held = held
  BY SMT, <1>11, <1>12, <1>13, <1>14 DEF Alike, InputFields
<1>17. SamePads(h, w) /\ SameFlags(h, w) /\ Shape(w)
  BY SMT, <1>2, <1>15, <1>16 DEF SamePads, SameFlags, Shape, InputFields
<1> QED BY <1>1, <1>2, <1>3, <1>4, <1>6, <1>16, <1>17, Zenon DEF Upped

\* The cells are those of the keys held, with others of which no count is kept.
Keyed(j, h, others) == Shape(h) /\ h.cells = KeysOf(j, h.held) \union others

LEMMA DownKeeps ==
  ASSUME NEW h, NEW others, Keyed(inputJob, h, others), NEW key
  PROVE  Keyed(inputJob, KeyDown(h, key), others)
<1>1. PICK w : w = KeyDown(h, key)
  OBVIOUS
<1>2. PICK k : k = DownKey(inputJob, h, key)
  OBVIOUS
<1>3. /\ Shape(w) /\ w.cells = h.cells \union KeyCell(inputJob, k)
      /\ w.held = (IF KeyCell(inputJob, k) # {} THEN h.held \union {k} ELSE h.held)
  BY <1>1, <1>2, KeyDownIs, Zenon DEF Keyed, Downed
<1>4. KeysOf(inputJob, w.held) = KeysOf(inputJob, h.held) \union KeyCell(inputJob, k)
  BY <1>3, SMT DEF KeysOf
<1>5. w.cells = KeysOf(inputJob, w.held) \union others
  <2>1. h.cells = KeysOf(inputJob, h.held) \union others
    BY Zenon DEF Keyed
  <2> QED BY <1>3, <1>4, <2>1, SMT
<1> QED BY <1>1, <1>3, <1>5, Zenon DEF Keyed

LEMMA UpKeeps ==
  ASSUME NEW h, NEW others, Keyed(inputJob, h, others), NEW key,
         others \intersect KeyCell(inputJob, UpKey(h, key)) = {}
  PROVE  Keyed(inputJob, KeyUp(h, key), others)
<1>1. PICK w : w = KeyUp(h, key)
  OBVIOUS
<1>2. PICK k : k = UpKey(h, key)
  OBVIOUS
<1>3. /\ Shape(w) /\ w.cells = h.cells \ (KeyCell(inputJob, k) \ KeysOf(inputJob, w.held))
      /\ w.held = h.held \ {k}
  <2>1. Upped(inputJob, h, key, w)
    BY <1>1, KeyUpIs, Zenon DEF Keyed
  <2> QED BY <1>2, <2>1 DEF Upped
<1>4. KeysOf(inputJob, h.held) \subseteq KeysOf(inputJob, w.held) \union KeyCell(inputJob, k)
      /\ KeysOf(inputJob, w.held) \subseteq KeysOf(inputJob, h.held)
  <2>1. \A o : o \in w.held <=> o \in h.held /\ o # k
    BY <1>3, Zenon
  <2>2. ASSUME NEW x \in KeysOf(inputJob, h.held)
        PROVE  x \in KeysOf(inputJob, w.held) \/ x \in KeyCell(inputJob, k)
    <3>1. PICK o \in h.held : x \in KeyCell(inputJob, o)
      BY <2>2, SMT DEF KeysOf
    <3>2. CASE o = k
      BY <3>1, <3>2
    <3>3. CASE o # k
      <4>1. o \in w.held
        BY <2>1, <3>3
      <4> QED BY <3>1, <4>1, SMT DEF KeysOf
    <3> QED BY <3>2, <3>3
  <2>3. ASSUME NEW x \in KeysOf(inputJob, w.held) PROVE x \in KeysOf(inputJob, h.held)
    <3>1. PICK o \in w.held : x \in KeyCell(inputJob, o)
      BY <2>3, SMT DEF KeysOf
    <3> QED BY <2>1, <3>1, SMT DEF KeysOf
  <2> QED BY <2>2, <2>3, Zenon
<1>5. ASSUME NEW x PROVE x \in w.cells <=> x \in KeysOf(inputJob, w.held) \union others
  <2>1. x \in h.cells <=> x \in KeysOf(inputJob, h.held) \/ x \in others
    BY Zenon DEF Keyed
  <2>2. x \in w.cells <=> x \in h.cells /\ ~(x \in KeyCell(inputJob, k) /\ x \notin KeysOf(inputJob, w.held))
    BY <1>3, Zenon
  <2>3. ~(x \in others /\ x \in KeyCell(inputJob, k))
    BY <1>2, Zenon
  <2>4. /\ x \in KeysOf(inputJob, h.held) => x \in KeysOf(inputJob, w.held) \/ x \in KeyCell(inputJob, k)
        /\ x \in KeysOf(inputJob, w.held) => x \in KeysOf(inputJob, h.held)
    BY <1>4, Zenon
  <2> QED BY <2>1, <2>2, <2>3, <2>4, Zenon
<1>6. w.cells = KeysOf(inputJob, w.held) \union others
  BY <1>5, Zenon
<1> QED BY <1>1, <1>3, <1>6, Zenon DEF Keyed

\* The sides of Shift and Ctrl have no line of the ports and no second meaning.
Sided(h, w) == SamePads(h, w) /\ SameFlags(h, w) /\ w.kbd = h.kbd /\ w.redirect = h.redirect

\* w is h with the keys pressed, or released.
Added(j, h, keys, others, w)   == Keyed(j, w, others) /\ Sided(h, w) /\ w.held = h.held \union keys
Removed(j, h, keys, others, w) == Keyed(j, w, others) /\ Sided(h, w) /\ w.held = h.held \ keys

LEMMA SidedOn ==
  ASSUME NEW h, NEW v, NEW w, Sided(h, v), Sided(v, w) PROVE Sided(h, w)
BY Zenon DEF Sided, SamePads, SameFlags

LEMMA SidesAre ==
  /\ \A k \in Sides : k # "zero" /\ k # "zero_shift" /\ JoyLine(k) = {}
  /\ \A k : k \in Sides <=> k = "lshift" \/ k = "rshift" \/ k = "lctrl" \/ k = "rctrl"
<1>1. \A k : k \in Sides <=> k = "lshift" \/ k = "rshift" \/ k = "lctrl" \/ k = "rctrl"
  BY DEF Sides, Shifts, Ctrls
<1>2. \A k \in Sides : k # "zero" /\ k # "zero_shift" /\ k \notin {"w", "up"}
  BY <1>1
<1> QED BY <1>1, <1>2, LinesAre, Zenon

LEMMA SideDown ==
  ASSUME inputJob.japanese \in BOOLEAN, NEW others,
         NEW h, Keyed(inputJob, h, others), NEW k \in Sides, NEW keys
  PROVE  Added(inputJob, h, {k} \intersect keys, others, DownIf(h, k, keys))
<1>1. PICK w : w = DownIf(h, k, keys)
  OBVIOUS
<1>2. CASE k \notin keys
  <2>1. w = h
    BY <1>1, <1>2, Zenon DEF DownIf
  <2>2. h.held = h.held \union ({k} \intersect keys)
    BY <1>2, Zenon
  <2> QED BY <1>1, <2>1, <2>2, Zenon DEF Added, Removed, Sided, SamePads, SameFlags
<1>3. CASE k \in keys
  <2>1. w = KeyDown(h, k)
    BY <1>1, <1>3, Zenon DEF DownIf
  <2>2. Keyed(inputJob, w, others)
    BY <2>1, DownKeeps, Zenon
  <2>3. Downed(inputJob, h, k, w) /\ Shape(h)
    BY <2>1, KeyDownIs, Zenon DEF Keyed
  <2>4. DownKey(inputJob, h, k) = k
    BY SidesAre, Zenon DEF DownKey
  <2>5. KeyCell(inputJob, k) # {}
    BY CellsAre, SMT
  <2>6. /\ w.held = (IF KeyCell(inputJob, k) # {} THEN h.held \union {k} ELSE h.held)
        /\ w.kbd = h.kbd \union JoyLine(k) /\ SamePads(h, w) /\ SameFlags(h, w)
    BY <2>3, <2>4 DEF Downed
  <2>7. w.redirect = h.redirect
    BY <2>3, <2>4, Zenon DEF Downed, Shape
  <2>8. w.kbd = h.kbd /\ w.held = h.held \union {k}
    BY <2>5, <2>6, SidesAre, Zenon
  <2>9. {k} \intersect keys = {k}
    BY <1>3, Zenon
  <2> QED BY <1>1, <2>2, <2>6, <2>7, <2>8, <2>9, Zenon DEF Added, Removed, Sided
<1> QED BY <1>2, <1>3

LEMMA SideUp ==
  ASSUME NEW others, NEW h, Keyed(inputJob, h, others), NEW k \in Sides, NEW keys,
         k \in keys => others \intersect KeyCell(inputJob, k) = {}
  PROVE  Removed(inputJob, h, {k} \intersect keys, others, UpIf(h, k, keys))
<1>1. PICK w : w = UpIf(h, k, keys)
  OBVIOUS
<1>2. CASE k \notin keys
  <2>1. w = h
    BY <1>1, <1>2, Zenon DEF UpIf
  <2>2. h.held = h.held \ ({k} \intersect keys)
    BY <1>2, Zenon
  <2> QED BY <1>1, <2>1, <2>2, Zenon DEF Added, Removed, Sided, SamePads, SameFlags
<1>3. CASE k \in keys
  <2>1. w = KeyUp(h, k)
    BY <1>1, <1>3, Zenon DEF UpIf
  <2>2. UpKey(h, k) = k
    BY SidesAre, Zenon DEF UpKey
  <2>3. Keyed(inputJob, w, others)
    BY <1>3, <2>1, <2>2, UpKeeps, Zenon
  <2>4. Upped(inputJob, h, k, w) /\ Shape(h)
    BY <2>1, KeyUpIs, Zenon DEF Keyed
  <2>5. w.held = h.held \ {k} /\ w.kbd = h.kbd \ {} /\ SamePads(h, w) /\ SameFlags(h, w)
    BY <2>2, <2>4, SidesAre, Zenon DEF Upped
  <2>6. w.redirect = h.redirect
    BY <2>4, SidesAre, Zenon DEF Upped, Shape
  <2>7. w.kbd = h.kbd
    BY <2>5, Zenon
  <2>8. {k} \intersect keys = {k}
    BY <1>3, Zenon
  <2> QED BY <1>1, <2>3, <2>5, <2>6, <2>7, <2>8, Zenon DEF Added, Removed, Sided
<1> QED BY <1>2, <1>3

LEMMA SidesDown ==
  ASSUME inputJob.japanese \in BOOLEAN, NEW others,
         NEW h, Keyed(inputJob, h, others), NEW keys \in SUBSET Sides
  PROVE  Added(inputJob, h, keys, others, AllDown(h, keys))
<1>0. "lshift" \in Sides /\ "rshift" \in Sides /\ "lctrl" \in Sides /\ "rctrl" \in Sides
  BY DEF Sides, Shifts, Ctrls
<1>1. PICK a : a = DownIf(h, "lshift", keys)
  OBVIOUS
<1>2. PICK b : b = DownIf(a, "rshift", keys)
  OBVIOUS
<1>3. PICK c : c = DownIf(b, "lctrl", keys)
  OBVIOUS
<1>4. PICK w : w = DownIf(c, "rctrl", keys)
  OBVIOUS
<1>5. Added(inputJob, h, {"lshift"} \intersect keys, others, a)
  BY <1>0, <1>1, SideDown, Zenon
<1>6. Added(inputJob, a, {"rshift"} \intersect keys, others, b)
  <2>1. Keyed(inputJob, a, others)
    BY <1>5, Zenon DEF Added
  <2> QED BY <1>0, <1>2, <2>1, SideDown, Zenon
<1>7. Added(inputJob, b, {"lctrl"} \intersect keys, others, c)
  <2>1. Keyed(inputJob, b, others)
    BY <1>6, Zenon DEF Added
  <2> QED BY <1>0, <1>3, <2>1, SideDown, Zenon
<1>8. Added(inputJob, c, {"rctrl"} \intersect keys, others, w)
  <2>1. Keyed(inputJob, c, others)
    BY <1>7, Zenon DEF Added
  <2> QED BY <1>0, <1>4, <2>1, SideDown, Zenon
<1>9. Sided(h, w)
  BY <1>5, <1>6, <1>7, <1>8, SidedOn, Zenon DEF Added
<1>10. \A k \in keys : k = "lshift" \/ k = "rshift" \/ k = "lctrl" \/ k = "rctrl"
  BY SidesAre, Zenon
<1>11. w.held = h.held \union keys
  BY SMT, <1>5, <1>6, <1>7, <1>8, <1>10 DEF Added
<1> QED BY <1>1, <1>2, <1>3, <1>4, <1>8, <1>9, <1>11, Zenon DEF Added, AllDown

LEMMA SidesUp ==
  ASSUME NEW others, NEW h, Keyed(inputJob, h, others), NEW keys \in SUBSET Sides,
         \A k \in keys : others \intersect KeyCell(inputJob, k) = {}
  PROVE  Removed(inputJob, h, keys, others, AllUp(h, keys))
<1>0. "lshift" \in Sides /\ "rshift" \in Sides /\ "lctrl" \in Sides /\ "rctrl" \in Sides
  BY DEF Sides, Shifts, Ctrls
<1>1. PICK a : a = UpIf(h, "lshift", keys)
  OBVIOUS
<1>2. PICK b : b = UpIf(a, "rshift", keys)
  OBVIOUS
<1>3. PICK c : c = UpIf(b, "lctrl", keys)
  OBVIOUS
<1>4. PICK w : w = UpIf(c, "rctrl", keys)
  OBVIOUS
<1>5. Removed(inputJob, h, {"lshift"} \intersect keys, others, a)
  BY <1>0, <1>1, SideUp, Zenon
<1>6. Removed(inputJob, a, {"rshift"} \intersect keys, others, b)
  <2>1. Keyed(inputJob, a, others)
    BY <1>5, Zenon DEF Removed
  <2> QED BY <1>0, <1>2, <2>1, SideUp, Zenon
<1>7. Removed(inputJob, b, {"lctrl"} \intersect keys, others, c)
  <2>1. Keyed(inputJob, b, others)
    BY <1>6, Zenon DEF Removed
  <2> QED BY <1>0, <1>3, <2>1, SideUp, Zenon
<1>8. Removed(inputJob, c, {"rctrl"} \intersect keys, others, w)
  <2>1. Keyed(inputJob, c, others)
    BY <1>7, Zenon DEF Removed
  <2> QED BY <1>0, <1>4, <2>1, SideUp, Zenon
<1>9. Sided(h, w)
  BY <1>5, <1>6, <1>7, <1>8, SidedOn, Zenon DEF Removed
<1>10. \A k \in keys : k = "lshift" \/ k = "rshift" \/ k = "lctrl" \/ k = "rctrl"
  BY SidesAre, Zenon
<1>11. w.held = h.held \ keys
  BY SMT, <1>5, <1>6, <1>7, <1>8, <1>10 DEF Removed
<1> QED BY <1>1, <1>2, <1>3, <1>4, <1>8, <1>9, <1>11, Zenon DEF Removed, AllUp

-----------------------------------------------------------------------------
(* The invariant of the keyboard, of the input h and the meanings m of the *)
(* keys held, with the cells that programs press.                          *)

Asks(cells, covers) == [cells |-> cells, covers |-> covers]

\* The flags of the hotkeys and combos are those of the keys held.
Flagged(j, h, m) ==
  /\ DOMAIN m \subseteq j.keys
  /\ h.ctrl = DOMAIN m \intersect Ctrls /\ h.shift = DOMAIN m \intersect Shifts
  /\ h.redirect => "zero" \in DOMAIN m /\ j.japanese
  /\ h.active # NoKey =>
       h.active \in DOMAIN m /\ h.active \in {"f6", "f7"} /\ h.shift # {} /\ m[h.active] = Asks({}, Shifts)
  /\ h.combo # NoKey =>
       /\ h.combo \in DOMAIN m /\ h.combo \in FunctionKeys /\ h.ctrl # {}
       /\ m[h.combo] = Asks({CtrlFkeyCells[h.combo]}, Ctrls)
       /\ \A k \in DOMAIN m : CtrlFkeyCells[h.combo] \notin KeyCell(j, k)
  /\ h.ffHold # NoKey => h.ffHold = "f7" /\ "f7" \in DOMAIN m /\ h.active # "f7"

\* What a key that is held can mean.
Understood(j, h, m, k) ==
  /\ k \in Sides => m[k] = Means(KeyCell(j, k))
  /\ k = "zero" => m[k] = Means(KeyCell(j, IF h.redirect THEN "zero_shift" ELSE "zero"))
  /\ k \notin Sides /\ k # "zero" =>
       \/ m[k] = Means(KeyCell(j, k)) \/ (k \in FunctionKeys /\ m[k] = Means({}))
       \/ k = h.active \/ k = h.combo

\* The keys that SdlKeyboard counts as held.
Counted(j, h, m, x) ==
  \/ x \in DOMAIN m /\ x \in Shifts /\ h.active = NoKey
  \/ x \in DOMAIN m /\ x \in Ctrls /\ h.combo = NoKey
  \/ x \in DOMAIN m /\ x \notin Sides /\ x # "zero" /\ KeyCell(j, x) # {} /\ m[x] = Means(KeyCell(j, x))
  \/ x = "zero" /\ x \in DOMAIN m /\ ~h.redirect
  \/ x = "zero_shift" /\ "zero" \in DOMAIN m /\ h.redirect

\* The joystick lines that keys of the host press.
Lined(h, m) ==
  /\ h.kbd = UNION {JoyLine(k) : k \in DOMAIN m}
  /\ \A k, o \in DOMAIN m : k # o => JoyLine(k) \intersect JoyLine(o) = {}

\* The cell of the combo under way, which no key counts.
ComboCells(h) == IF h.combo = NoKey THEN {} ELSE {CtrlFkeyCells[h.combo]}

\* HostCells, by the job.
CellsAtHand(j) ==
  (UNION {KeyCell(j, k) : k \in j.keys \union {"zero_shift"}})
    \union {CtrlFkeyCells[k] : k \in j.keys \intersect FunctionKeys}

\* What InputAssumption says of a job's keys.
Usable(j) == j.japanese \in BOOLEAN /\ "zero_shift" \notin j.keys /\ NoKey \notin j.keys

\* The keys: the cells are those of the keys that SdlKeyboard counts, of the combo and of
\* the programs, and which keys it counts follows from the meanings and the flags.
KeyInv(j, h, m, programs) ==
  /\ Usable(j) /\ programs \intersect CellsAtHand(j) = {}
  /\ Flagged(j, h, m) /\ Lined(h, m)
  /\ \A k \in DOMAIN m : Understood(j, h, m, k)
  /\ \A x : x \in h.held <=> Counted(j, h, m, x)
  /\ Keyed(j, h, ComboCells(h) \union programs)

LEMMA MeansIs == \A c : Means(c).cells = c /\ Means(c).covers = {}
BY DEF Means

LEMMA AsksIs == \A c, s : Asks(c, s).cells = c /\ Asks(c, s).covers = s
BY DEF Asks

LEMMA MeansApart ==
  /\ \A c, d : Means(c) = Means(d) => c = d
  /\ \A c, d : Asks(c, Shifts) # Means(d) /\ Asks(c, Ctrls) # Means(d)
  /\ Shifts # {} /\ Ctrls # {} /\ Shifts # Ctrls
<1>1. Shifts # {} /\ Ctrls # {} /\ Shifts # Ctrls
  BY SMT DEF Shifts, Ctrls
<1>2. ASSUME NEW c, NEW d, Means(c) = Means(d) PROVE c = d
  <2>1. Means(c).cells = c /\ Means(d).cells = d
    BY MeansIs, Zenon
  <2> QED BY <1>2, <2>1, Zenon
<1>3. ASSUME NEW c, NEW d PROVE Asks(c, Shifts) # Means(d) /\ Asks(c, Ctrls) # Means(d)
  <2>1. Asks(c, Shifts).covers = Shifts /\ Asks(c, Ctrls).covers = Ctrls
    BY AsksIs, Zenon
  <2>2. Means(d).covers = {}
    BY MeansIs, Zenon
  <2> QED BY <1>1, <2>1, <2>2, Zenon
<1> QED BY <1>1, <1>2, <1>3, Zenon

\* What the cells of the combo and of the programs are not.
LEMMA OthersApart ==
  ASSUME NEW j, NEW h, NEW m, NEW programs, KeyInv(j, h, m, programs)
  PROVE  /\ \A k \in j.keys \union {"zero_shift"} : programs \intersect KeyCell(j, k) = {}
         /\ \A k \in j.keys \intersect FunctionKeys : CtrlFkeyCells[k] \notin programs
         /\ \A k \in DOMAIN m \union Sides \union {"zero", "zero_shift"} :
              ComboCells(h) \intersect KeyCell(j, k) = {}
<1>1. programs \intersect CellsAtHand(j) = {} /\ j.japanese \in BOOLEAN
  BY Zenon DEF KeyInv, Usable
<1>2. ASSUME NEW k \in j.keys \union {"zero_shift"} PROVE programs \intersect KeyCell(j, k) = {}
  <2>1. KeyCell(j, k) \subseteq CellsAtHand(j)
    BY SMT DEF CellsAtHand
  <2> QED BY <1>1, <2>1
<1>3. ASSUME NEW k \in j.keys \intersect FunctionKeys PROVE CtrlFkeyCells[k] \notin programs
  <2>1. CtrlFkeyCells[k] \in CellsAtHand(j)
    BY SMT DEF CellsAtHand
  <2> QED BY <1>1, <2>1
<1>4. ASSUME NEW k \in DOMAIN m \union Sides \union {"zero", "zero_shift"}
      PROVE  ComboCells(h) \intersect KeyCell(j, k) = {}
  <2>1. CASE h.combo = NoKey
    BY <2>1 DEF ComboCells
  <2>2. CASE h.combo # NoKey
    <3>1. h.combo \in FunctionKeys /\ \A o \in DOMAIN m : CtrlFkeyCells[h.combo] \notin KeyCell(j, o)
      BY <2>2, Zenon DEF KeyInv, Flagged
    <3>2. CtrlFkeyCells[h.combo] \notin KeyCell(j, k)
      BY <1>1, <1>4, <3>1, CellsAre, SMT
    <3> QED BY <2>2, <3>2 DEF ComboCells
  <2> QED BY <2>1, <2>2
<1> QED BY <1>2, <1>3, <1>4, Zenon

-----------------------------------------------------------------------------
(* The flags.                                                              *)

SameKeys(h, w) ==
  /\ Shape(w) /\ SamePads(h, w)
  /\ w.cells = h.cells /\ w.kbd = h.kbd /\ w.held = h.held /\ w.redirect = h.redirect

FlagsAre(w, ctrl, combo, shift, active, ffHold) ==
  w.ctrl = ctrl /\ w.combo = combo /\ w.shift = shift /\ w.active = active /\ w.ffHold = ffHold

LEMMA FlagsSet ==
  ASSUME NEW h, Shape(h), NEW v
  PROVE  /\ LET w == [h EXCEPT !.ctrl = v]
             IN SameKeys(h, w) /\ FlagsAre(w, v, h.combo, h.shift, h.active, h.ffHold)
         /\ LET w == [h EXCEPT !.combo = v]
             IN SameKeys(h, w) /\ FlagsAre(w, h.ctrl, v, h.shift, h.active, h.ffHold)
         /\ LET w == [h EXCEPT !.shift = v]
             IN SameKeys(h, w) /\ FlagsAre(w, h.ctrl, h.combo, v, h.active, h.ffHold)
         /\ LET w == [h EXCEPT !.active = v]
             IN SameKeys(h, w) /\ FlagsAre(w, h.ctrl, h.combo, h.shift, v, h.ffHold)
         /\ LET w == [h EXCEPT !.ffHold = v]
             IN SameKeys(h, w) /\ FlagsAre(w, h.ctrl, h.combo, h.shift, h.active, v)
<1>1. LET w == [h EXCEPT !.ctrl = v]
      IN SameKeys(h, w) /\ FlagsAre(w, v, h.combo, h.shift, h.active, h.ffHold)
  BY SMT DEF SameKeys, SamePads, FlagsAre, Shape, InputFields
<1>2. LET w == [h EXCEPT !.combo = v]
      IN SameKeys(h, w) /\ FlagsAre(w, h.ctrl, v, h.shift, h.active, h.ffHold)
  BY SMT DEF SameKeys, SamePads, FlagsAre, Shape, InputFields
<1>3. LET w == [h EXCEPT !.shift = v]
      IN SameKeys(h, w) /\ FlagsAre(w, h.ctrl, h.combo, v, h.active, h.ffHold)
  BY SMT DEF SameKeys, SamePads, FlagsAre, Shape, InputFields
<1>4. LET w == [h EXCEPT !.active = v]
      IN SameKeys(h, w) /\ FlagsAre(w, h.ctrl, h.combo, h.shift, v, h.ffHold)
  BY SMT DEF SameKeys, SamePads, FlagsAre, Shape, InputFields
<1>5. LET w == [h EXCEPT !.ffHold = v]
      IN SameKeys(h, w) /\ FlagsAre(w, h.ctrl, h.combo, h.shift, h.active, v)
  BY SMT DEF SameKeys, SamePads, FlagsAre, Shape, InputFields
<1> QED BY <1>1, <1>2, <1>3, <1>4, <1>5, Zenon

-----------------------------------------------------------------------------
(* A key is pressed: what it means joins what the others mean.             *)

Joins(m, k, meaning, n) ==
  /\ k \notin DOMAIN m /\ DOMAIN n = DOMAIN m \union {k}
  /\ n[k] = meaning /\ \A o \in DOMAIN m : n[o] = m[o]

\* Its lines are no other key's.
Free(m, k) == \A o \in DOMAIN m : JoyLine(o) \intersect JoyLine(k) = {}

LEMMA LinedJoins ==
  ASSUME NEW h, NEW w, NEW m, NEW k, NEW meaning, NEW n, Lined(h, m), Joins(m, k, meaning, n), Free(m, k),
         w.kbd = h.kbd \union JoyLine(k)
  PROVE  Lined(w, n)
<1>1. w.kbd = UNION {JoyLine(o) : o \in DOMAIN n}
  <2>1. h.kbd = UNION {JoyLine(o) : o \in DOMAIN m} /\ DOMAIN n = DOMAIN m \union {k}
    BY Zenon DEF Lined, Joins
  <2> QED BY <2>1, SMT
<1>2. ASSUME NEW a \in DOMAIN n, NEW b \in DOMAIN n, a # b PROVE JoyLine(a) \intersect JoyLine(b) = {}
  <2>1. a \in DOMAIN m \union {k} /\ b \in DOMAIN m \union {k}
    BY <1>2, Zenon DEF Joins
  <2>2. CASE a = k
    BY <1>2, <2>1, <2>2, Zenon DEF Free
  <2>3. CASE b = k
    BY <1>2, <2>1, <2>3, Zenon DEF Free
  <2>4. CASE a # k /\ b # k
    BY <1>2, <2>1, <2>4, Zenon DEF Lined
  <2> QED BY <2>2, <2>3, <2>4
<1> QED BY <1>1, <1>2, Zenon DEF Lined

\* A side of Shift or Ctrl, counted as held if no key covers it.
LEMMA SideJoins ==
  ASSUME NEW j, NEW h, NEW m, NEW programs, KeyInv(j, h, m, programs),
         NEW k \in Sides, k \in j.keys, NEW n, Joins(m, k, Means(KeyCell(j, k)), n),
         NEW w, Keyed(j, w, ComboCells(h) \union programs),
         w.held = h.held \union {x \in {k} : IF k \in Shifts THEN h.active = NoKey ELSE h.combo = NoKey},
         w.kbd = h.kbd, w.redirect = h.redirect,
         FlagsAre(w, h.ctrl \union ({k} \intersect Ctrls), h.combo, h.shift \union ({k} \intersect Shifts), h.active, h.ffHold)
  PROVE  KeyInv(j, w, n, programs)
<1>1. Free(m, k) /\ w.kbd = h.kbd \union JoyLine(k)
  BY SidesAre, Zenon DEF Free
<1>2. Lined(w, n)
  BY <1>1, LinedJoins, Zenon DEF KeyInv
<1>3. /\ k \notin DOMAIN m /\ DOMAIN n = DOMAIN m \union {k}
      /\ n[k] = Means(KeyCell(j, k)) /\ \A o \in DOMAIN m : n[o] = m[o]
  BY Zenon DEF Joins
<1>4. k \in Sides /\ k # "zero" /\ k # "zero_shift" /\ k # NoKey /\ k \notin FunctionKeys
      /\ (k \in Shifts <=> k \notin Ctrls)
  BY SMT DEF Sides, Shifts, Ctrls, NoKey, FunctionKeys
<1>5. /\ w.combo = h.combo /\ w.active = h.active /\ w.ffHold = h.ffHold
      /\ w.ctrl = h.ctrl \union ({k} \intersect Ctrls) /\ w.shift = h.shift \union ({k} \intersect Shifts)
  BY Zenon DEF FlagsAre
<1>6. Flagged(j, w, n)
  <2>1. /\ DOMAIN m \subseteq j.keys /\ h.ctrl = DOMAIN m \intersect Ctrls /\ h.shift = DOMAIN m \intersect Shifts
    BY Zenon DEF KeyInv, Flagged
  <2>2. /\ DOMAIN n \subseteq j.keys /\ w.ctrl = DOMAIN n \intersect Ctrls /\ w.shift = DOMAIN n \intersect Shifts
    BY <1>3, <1>5, <2>1
  <2>3. w.redirect => "zero" \in DOMAIN n /\ j.japanese
    BY <1>3, Zenon DEF KeyInv, Flagged
  <2>4. ASSUME w.active # NoKey
        PROVE  w.active \in DOMAIN n /\ w.active \in {"f6", "f7"} /\ w.shift # {} /\ n[w.active] = Asks({}, Shifts)
    <3>1. h.active \in DOMAIN m /\ h.active \in {"f6", "f7"} /\ h.shift # {} /\ m[h.active] = Asks({}, Shifts)
      BY <1>5, <2>4, Zenon DEF KeyInv, Flagged
    <3> QED BY <1>3, <1>5, <3>1
  <2>5. ASSUME w.combo # NoKey
        PROVE  /\ w.combo \in DOMAIN n /\ w.combo \in FunctionKeys /\ w.ctrl # {}
               /\ n[w.combo] = Asks({CtrlFkeyCells[w.combo]}, Ctrls)
               /\ \A o \in DOMAIN n : CtrlFkeyCells[w.combo] \notin KeyCell(j, o)
    <3>1. /\ h.combo \in DOMAIN m /\ h.combo \in FunctionKeys /\ h.ctrl # {}
          /\ m[h.combo] = Asks({CtrlFkeyCells[h.combo]}, Ctrls)
          /\ \A o \in DOMAIN m : CtrlFkeyCells[h.combo] \notin KeyCell(j, o)
      BY <1>5, <2>5, Zenon DEF KeyInv, Flagged
    <3>2. CtrlFkeyCells[h.combo] \notin KeyCell(j, k)
      <4>1. j.japanese \in BOOLEAN
        BY Zenon DEF KeyInv, Usable
      <4> QED BY <1>4, <3>1, <4>1, CellsAre, SMT
    <3> QED BY <1>3, <1>5, <3>1, <3>2
  <2>6. w.ffHold # NoKey => w.ffHold = "f7" /\ "f7" \in DOMAIN n /\ w.active # "f7"
    <3>1. h.ffHold # NoKey => h.ffHold = "f7" /\ "f7" \in DOMAIN m /\ h.active # "f7"
      BY Zenon DEF KeyInv, Flagged
    <3> QED BY <1>3, <1>5, <3>1
  <2> QED BY <2>2, <2>3, <2>4, <2>5, <2>6, Zenon DEF Flagged
<1>7. ASSUME NEW o \in DOMAIN n PROVE Understood(j, w, n, o)
  <2>1. CASE o = k
    BY <1>3, <1>4, <2>1, Zenon DEF Understood
  <2>2. CASE o # k
    <3>1. Understood(j, h, m, o) /\ n[o] = m[o]
      BY <1>3, <1>7, <2>2, Zenon DEF KeyInv
    <3> QED BY <1>5, <3>1, Zenon DEF Understood
  <2> QED BY <2>1, <2>2
<1>8. ASSUME NEW x PROVE x \in w.held <=> Counted(j, w, n, x)
  <2>1. x \in h.held <=> Counted(j, h, m, x)
    BY Zenon DEF KeyInv
  <2>2. CASE x = k
    <3>1. ~Counted(j, h, m, x)
      BY <1>3, <1>4, <2>2, Zenon DEF Counted
    <3>2. x \in w.held <=> IF k \in Shifts THEN h.active = NoKey ELSE h.combo = NoKey
      BY <2>1, <2>2, <3>1
    <3>3. Counted(j, w, n, x) <=> IF k \in Shifts THEN h.active = NoKey ELSE h.combo = NoKey
      BY <1>3, <1>4, <1>5, <2>2 DEF Counted
    <3> QED BY <3>2, <3>3
  <2>3. CASE x # k
    <3>1. Counted(j, w, n, x) <=> Counted(j, h, m, x)
      BY <1>3, <1>4, <1>5, <2>3 DEF Counted
    <3>2. x \in w.held <=> x \in h.held
      BY <2>3
    <3> QED BY <2>1, <3>1, <3>2
  <2> QED BY <2>2, <2>3
<1>9. Keyed(j, w, ComboCells(w) \union programs)
  BY <1>5, Zenon DEF ComboCells
<1> QED BY <1>2, <1>6, <1>7, <1>8, <1>9, Zenon DEF KeyInv

\* A key that counts for its cell, or for that of the underscore.
LEMMA KeyJoins ==
  ASSUME NEW j, NEW h, NEW m, NEW programs, KeyInv(j, h, m, programs),
         NEW k, k \notin Sides, k \in j.keys, NEW n, Joins(m, k, Means(KeyCell(j, DownKey(j, h, k))), n), Free(m, k),
         ComboCells(h) \intersect KeyCell(j, k) = {},
         NEW w, Downed(j, h, k, w), Keyed(j, w, ComboCells(h) \union programs)
  PROVE  KeyInv(j, w, n, programs)
<1>1. Lined(w, n)
  <2>1. w.kbd = h.kbd \union JoyLine(k)
    BY Zenon DEF Downed
  <2> QED BY <2>1, LinedJoins, Zenon DEF KeyInv
<1>2. /\ k \notin DOMAIN m /\ DOMAIN n = DOMAIN m \union {k}
      /\ n[k] = Means(KeyCell(j, DownKey(j, h, k))) /\ \A o \in DOMAIN m : n[o] = m[o]
  BY Zenon DEF Joins
<1>3. k # "zero_shift" /\ k # NoKey /\ "zero_shift" \notin DOMAIN n /\ j.japanese \in BOOLEAN
  <2>1. k # "zero_shift" /\ k # NoKey /\ j.japanese \in BOOLEAN /\ DOMAIN m \subseteq j.keys /\ "zero_shift" \notin j.keys
    BY Zenon DEF KeyInv, Usable, Flagged
  <2> QED BY <1>2, <2>1
<1>4. w.combo = h.combo /\ w.active = h.active /\ w.ffHold = h.ffHold /\ w.ctrl = h.ctrl /\ w.shift = h.shift
  BY Zenon DEF Downed, SameFlags
<1>5. PICK d : d = DownKey(j, h, k)
  OBVIOUS
<1>6. /\ w.held = (IF KeyCell(j, d) # {} THEN h.held \union {d} ELSE h.held)
      /\ (w.redirect <=> (h.redirect \/ d # k)) /\ h.redirect \in BOOLEAN /\ w.redirect \in BOOLEAN
  BY <1>5, Zenon DEF Downed, Shape, KeyInv, Keyed
<1>7. d = k \/ (k = "zero" /\ d = "zero_shift" /\ j.japanese)
  <2>1. KeyCell(j, "zero_shift") # {} <=> j.japanese
    BY <1>3, CellsAre, SMT
  <2> QED BY <1>5, <2>1, Zenon DEF DownKey
<1>8. k = "zero" => ~h.redirect
  BY <1>2, Zenon DEF KeyInv, Flagged
<1>9. "zero" \notin Sides /\ "zero" # "zero_shift" /\ "zero" # NoKey /\ "zero_shift" # NoKey
      /\ "zero_shift" \notin Sides /\ Shifts \subseteq Sides /\ Ctrls \subseteq Sides
  BY SMT DEF Sides, Shifts, Ctrls, NoKey
<1>10. Flagged(j, w, n)
  <2>1. /\ DOMAIN m \subseteq j.keys /\ h.ctrl = DOMAIN m \intersect Ctrls /\ h.shift = DOMAIN m \intersect Shifts
    BY Zenon DEF KeyInv, Flagged
  <2>2. /\ DOMAIN n \subseteq j.keys /\ w.ctrl = DOMAIN n \intersect Ctrls /\ w.shift = DOMAIN n \intersect Shifts
    <3>1. k \notin Shifts /\ k \notin Ctrls
      BY <1>9
    <3> QED BY <1>2, <1>4, <2>1, <3>1
  <2>3. w.redirect => "zero" \in DOMAIN n /\ j.japanese
    <3>1. h.redirect => "zero" \in DOMAIN m /\ j.japanese
      BY Zenon DEF KeyInv, Flagged
    <3> QED BY <1>2, <1>6, <1>7, <3>1
  <2>4. ASSUME w.active # NoKey
        PROVE  w.active \in DOMAIN n /\ w.active \in {"f6", "f7"} /\ w.shift # {} /\ n[w.active] = Asks({}, Shifts)
    <3>1. h.active \in DOMAIN m /\ h.active \in {"f6", "f7"} /\ h.shift # {} /\ m[h.active] = Asks({}, Shifts)
      BY <1>4, <2>4, Zenon DEF KeyInv, Flagged
    <3> QED BY <1>2, <1>4, <3>1
  <2>5. ASSUME w.combo # NoKey
        PROVE  /\ w.combo \in DOMAIN n /\ w.combo \in FunctionKeys /\ w.ctrl # {}
               /\ n[w.combo] = Asks({CtrlFkeyCells[w.combo]}, Ctrls)
               /\ \A o \in DOMAIN n : CtrlFkeyCells[w.combo] \notin KeyCell(j, o)
    <3>1. /\ h.combo \in DOMAIN m /\ h.combo \in FunctionKeys /\ h.ctrl # {}
          /\ m[h.combo] = Asks({CtrlFkeyCells[h.combo]}, Ctrls)
          /\ \A o \in DOMAIN m : CtrlFkeyCells[h.combo] \notin KeyCell(j, o)
      BY <1>4, <2>5, Zenon DEF KeyInv, Flagged
    <3>2. CtrlFkeyCells[h.combo] \notin KeyCell(j, k)
      BY <1>4, <2>5, Zenon DEF ComboCells
    <3> QED BY <1>2, <1>4, <3>1, <3>2
  <2>6. w.ffHold # NoKey => w.ffHold = "f7" /\ "f7" \in DOMAIN n /\ w.active # "f7"
    <3>1. h.ffHold # NoKey => h.ffHold = "f7" /\ "f7" \in DOMAIN m /\ h.active # "f7"
      BY Zenon DEF KeyInv, Flagged
    <3> QED BY <1>2, <1>4, <3>1
  <2> QED BY <2>2, <2>3, <2>4, <2>5, <2>6, Zenon DEF Flagged
<1>11. ASSUME NEW o \in DOMAIN n PROVE Understood(j, w, n, o)
  <2>1. CASE o = k
    <3>1. CASE k = "zero"
      <4>1. d = IF w.redirect THEN "zero_shift" ELSE "zero"
        BY <1>6, <1>7, <1>8, <1>9, <3>1
      <4> QED BY <1>2, <1>5, <1>9, <2>1, <3>1, <4>1, Zenon DEF Understood
    <3>2. CASE k # "zero"
      BY <1>2, <1>5, <1>7, <2>1, <3>2, Zenon DEF Understood
    <3> QED BY <3>1, <3>2
  <2>2. CASE o # k
    <3>1. Understood(j, h, m, o) /\ n[o] = m[o]
      BY <1>2, <1>11, <2>2, Zenon DEF KeyInv
    <3>2. o = "zero" => (w.redirect <=> h.redirect)
      BY <1>6, <1>7, <2>2
    <3> QED BY <1>4, <1>6, <3>1, <3>2 DEF Understood
  <2> QED BY <2>1, <2>2
<1>12. ASSUME NEW x PROVE x \in w.held <=> Counted(j, w, n, x)
  <2>1. x \in h.held <=> Counted(j, h, m, x)
    BY Zenon DEF KeyInv
  <2>2. CASE k = "zero"
    <3>1. KeyCell(j, d) # {}
      <4>1. KeyCell(j, "zero") # {} /\ (KeyCell(j, "zero_shift") # {} <=> j.japanese)
        BY <1>3, CellsAre, SMT
      <4> QED BY <1>7, <2>2, <4>1
    <3>2. x \in w.held <=> x \in h.held \/ x = d
      BY <1>6, <3>1
    <3>3. "zero" \notin DOMAIN m /\ "zero" \in DOMAIN n /\ (w.redirect <=> d = "zero_shift") /\ (d = "zero" \/ d = "zero_shift")
      BY <1>2, <1>6, <1>7, <1>8, <1>9, <2>2
    <3>4. CASE x = "zero" \/ x = "zero_shift"
      <4>1. ~Counted(j, h, m, x)
        BY <1>2, <1>3, <1>9, <3>3, <3>4 DEF Counted
      <4>2. Counted(j, w, n, x) <=> x = d
        BY <1>2, <1>3, <1>9, <3>3, <3>4 DEF Counted
      <4> QED BY <2>1, <3>2, <4>1, <4>2
    <3>5. CASE x # "zero" /\ x # "zero_shift"
      <4>1. Counted(j, w, n, x) <=> Counted(j, h, m, x)
        BY <1>2, <1>4, <1>9, <2>2, <3>5 DEF Counted
      <4> QED BY <2>1, <3>2, <3>3, <3>5, <4>1
    <3> QED BY <3>4, <3>5
  <2>3. CASE k # "zero"
    <3>1. d = k /\ (w.redirect <=> h.redirect)
      BY <1>6, <1>7, <2>3
    <3>2. CASE x = k
      <4>1. ~Counted(j, h, m, x)
        BY <1>2, <1>3, <2>3, <3>2 DEF Counted
      <4>2. Counted(j, w, n, x) <=> KeyCell(j, k) # {}
        BY <1>2, <1>3, <1>5, <1>9, <2>3, <3>1, <3>2 DEF Counted
      <4> QED BY <1>6, <2>1, <3>1, <3>2, <4>1, <4>2
    <3>3. CASE x # k
      <4>1. Counted(j, w, n, x) <=> Counted(j, h, m, x)
        BY <1>2, <1>4, <2>3, <3>1, <3>3 DEF Counted
      <4>2. x \in w.held <=> x \in h.held
        BY <1>6, <3>1, <3>3
      <4> QED BY <2>1, <4>1, <4>2
    <3> QED BY <3>2, <3>3
  <2> QED BY <2>2, <2>3
<1>13. Keyed(j, w, ComboCells(w) \union programs)
  BY <1>4, Zenon DEF ComboCells
<1> QED BY <1>1, <1>10, <1>11, <1>12, <1>13, Zenon DEF KeyInv

\* A function key that means nothing to the matrix: a hotkey, or the second of two combos.
LEMMA NothingJoins ==
  ASSUME NEW j, NEW h, NEW m, NEW programs, KeyInv(j, h, m, programs),
         NEW k, k \in FunctionKeys \union {"f6", "f7", "f10"}, k \in j.keys,
         NEW n, Joins(m, k, Means({}), n),
         NEW w, SameKeys(h, w), NEW hold, hold # h.ffHold => hold = "f7" /\ k = "f7" /\ h.active # "f7",
         FlagsAre(w, h.ctrl, h.combo, h.shift, h.active, hold)
  PROVE  KeyInv(j, w, n, programs)
<1>1. /\ k \notin DOMAIN m /\ DOMAIN n = DOMAIN m \union {k}
      /\ n[k] = Means({}) /\ \A o \in DOMAIN m : n[o] = m[o]
  BY Zenon DEF Joins
<1>2. /\ k \notin Sides /\ k # "zero" /\ k # "zero_shift" /\ k \notin {"w", "up"}
      /\ Shifts \subseteq Sides /\ Ctrls \subseteq Sides /\ "zero" # "zero_shift"
  BY SMT DEF Sides, Shifts, Ctrls, FunctionKeys
<1>3. Lined(w, n)
  <2>1. JoyLine(k) = {}
    BY <1>2, LinesAre, Zenon
  <2>2. w.kbd = h.kbd \union JoyLine(k) /\ Free(m, k)
    BY <2>1, Zenon DEF SameKeys, Free
  <2> QED BY <2>2, LinedJoins, Zenon DEF KeyInv
<1>4. w.combo = h.combo /\ w.active = h.active /\ w.ctrl = h.ctrl /\ w.shift = h.shift /\ w.ffHold = hold
  BY Zenon DEF FlagsAre
<1>5. w.held = h.held /\ w.redirect = h.redirect /\ w.cells = h.cells /\ Shape(w)
  BY Zenon DEF SameKeys
<1>6. j.japanese \in BOOLEAN
  BY Zenon DEF KeyInv, Usable
<1>7. k \in FunctionKeys \/ KeyCell(j, k) = {}
  BY <1>6, CellsAre, SMT
<1>8. Flagged(j, w, n)
  <2>1. /\ DOMAIN m \subseteq j.keys /\ h.ctrl = DOMAIN m \intersect Ctrls /\ h.shift = DOMAIN m \intersect Shifts
    BY Zenon DEF KeyInv, Flagged
  <2>2. /\ DOMAIN n \subseteq j.keys /\ w.ctrl = DOMAIN n \intersect Ctrls /\ w.shift = DOMAIN n \intersect Shifts
    <3>1. k \notin Shifts /\ k \notin Ctrls
      BY <1>2
    <3> QED BY <1>1, <1>4, <2>1, <3>1
  <2>3. w.redirect => "zero" \in DOMAIN n /\ j.japanese
    <3>1. h.redirect => "zero" \in DOMAIN m /\ j.japanese
      BY Zenon DEF KeyInv, Flagged
    <3> QED BY <1>1, <1>5, <3>1
  <2>4. ASSUME w.active # NoKey
        PROVE  w.active \in DOMAIN n /\ w.active \in {"f6", "f7"} /\ w.shift # {} /\ n[w.active] = Asks({}, Shifts)
    <3>1. h.active \in DOMAIN m /\ h.active \in {"f6", "f7"} /\ h.shift # {} /\ m[h.active] = Asks({}, Shifts)
      BY <1>4, <2>4, Zenon DEF KeyInv, Flagged
    <3> QED BY <1>1, <1>4, <3>1
  <2>5. ASSUME w.combo # NoKey
        PROVE  /\ w.combo \in DOMAIN n /\ w.combo \in FunctionKeys /\ w.ctrl # {}
               /\ n[w.combo] = Asks({CtrlFkeyCells[w.combo]}, Ctrls)
               /\ \A o \in DOMAIN n : CtrlFkeyCells[w.combo] \notin KeyCell(j, o)
    <3>1. /\ h.combo \in DOMAIN m /\ h.combo \in FunctionKeys /\ h.ctrl # {}
          /\ m[h.combo] = Asks({CtrlFkeyCells[h.combo]}, Ctrls)
          /\ \A o \in DOMAIN m : CtrlFkeyCells[h.combo] \notin KeyCell(j, o)
      BY <1>4, <2>5, Zenon DEF KeyInv, Flagged
    <3>2. CtrlFkeyCells[h.combo] \notin KeyCell(j, k)
      BY <1>6, <1>7, <3>1, CellsAre, SMT
    <3> QED BY <1>1, <1>4, <3>1, <3>2
  <2>6. w.ffHold # NoKey => w.ffHold = "f7" /\ "f7" \in DOMAIN n /\ w.active # "f7"
    <3>1. h.ffHold # NoKey => h.ffHold = "f7" /\ "f7" \in DOMAIN m /\ h.active # "f7"
      BY Zenon DEF KeyInv, Flagged
    <3> QED BY <1>1, <1>4, <3>1
  <2> QED BY <2>2, <2>3, <2>4, <2>5, <2>6, Zenon DEF Flagged
<1>9. ASSUME NEW o \in DOMAIN n PROVE Understood(j, w, n, o)
  <2>1. CASE o = k
    BY <1>1, <1>2, <1>7, <2>1, Zenon DEF Understood
  <2>2. CASE o # k
    <3>1. Understood(j, h, m, o) /\ n[o] = m[o]
      BY <1>1, <1>9, <2>2, Zenon DEF KeyInv
    <3> QED BY <1>4, <1>5, <3>1, Zenon DEF Understood
  <2> QED BY <2>1, <2>2
<1>10. ASSUME NEW x PROVE x \in w.held <=> Counted(j, w, n, x)
  <2>1. x \in h.held <=> Counted(j, h, m, x)
    BY Zenon DEF KeyInv
  <2>2. CASE x = k
    <3>1. ~Counted(j, h, m, x)
      BY <1>1, <1>2, <2>2 DEF Counted
    <3>2. ~Counted(j, w, n, x)
      <4>1. KeyCell(j, k) = {} \/ Means({}) # Means(KeyCell(j, k))
        BY MeansApart, Zenon
      <4> QED BY <1>1, <1>2, <2>2, <4>1 DEF Counted
    <3> QED BY <1>5, <2>1, <3>1, <3>2
  <2>3. CASE x # k
    <3>1. Counted(j, w, n, x) <=> Counted(j, h, m, x)
      BY <1>1, <1>2, <1>4, <1>5, <2>3 DEF Counted
    <3> QED BY <1>5, <2>1, <3>1
  <2> QED BY <2>2, <2>3
<1>11. Keyed(j, w, ComboCells(w) \union programs)
  BY <1>4, <1>5, Zenon DEF ComboCells, Keyed, KeyInv
<1> QED BY <1>3, <1>8, <1>9, <1>10, <1>11, Zenon DEF KeyInv

\* The first hotkey of Shift covers it.
LEMMA HotkeyJoins ==
  ASSUME NEW j, NEW h, NEW m, NEW programs, KeyInv(j, h, m, programs),
         NEW k \in {"f6", "f7"}, k \in j.keys, h.active = NoKey, h.shift # {},
         NEW n, Joins(m, k, Asks({}, Shifts), n),
         NEW w, Keyed(j, w, ComboCells(h) \union programs), w.held = h.held \ h.shift,
         w.kbd = h.kbd, w.redirect = h.redirect, FlagsAre(w, h.ctrl, h.combo, h.shift, k, h.ffHold)
  PROVE  KeyInv(j, w, n, programs)
<1>1. /\ k \notin DOMAIN m /\ DOMAIN n = DOMAIN m \union {k}
      /\ n[k] = Asks({}, Shifts) /\ \A o \in DOMAIN m : n[o] = m[o]
  BY Zenon DEF Joins
<1>2. /\ k \notin Sides /\ k # "zero" /\ k # "zero_shift" /\ k \notin {"w", "up"} /\ k # NoKey
      /\ Shifts \subseteq Sides /\ Ctrls \subseteq Sides /\ "zero" # "zero_shift"
      /\ "zero_shift" \notin Sides /\ "zero" \notin Sides /\ k \notin FunctionKeys /\ Shifts \intersect Ctrls = {}
  BY SMT DEF Sides, Shifts, Ctrls, FunctionKeys, NoKey
<1>3. Lined(w, n)
  <2>1. JoyLine(k) = {}
    BY <1>2, LinesAre, Zenon
  <2>2. w.kbd = h.kbd \union JoyLine(k) /\ Free(m, k)
    BY <2>1, Zenon DEF Free
  <2> QED BY <2>2, LinedJoins, Zenon DEF KeyInv
<1>4. w.combo = h.combo /\ w.active = k /\ w.ctrl = h.ctrl /\ w.shift = h.shift /\ w.ffHold = h.ffHold
  BY Zenon DEF FlagsAre
<1>6. j.japanese \in BOOLEAN
  BY Zenon DEF KeyInv, Usable
<1>7. KeyCell(j, k) = {}
  BY <1>6, CellsAre, SMT
<1>8. Flagged(j, w, n)
  <2>1. /\ DOMAIN m \subseteq j.keys /\ h.ctrl = DOMAIN m \intersect Ctrls /\ h.shift = DOMAIN m \intersect Shifts
    BY Zenon DEF KeyInv, Flagged
  <2>2. /\ DOMAIN n \subseteq j.keys /\ w.ctrl = DOMAIN n \intersect Ctrls /\ w.shift = DOMAIN n \intersect Shifts
    <3>1. k \notin Shifts /\ k \notin Ctrls
      BY <1>2
    <3> QED BY <1>1, <1>4, <2>1, <3>1
  <2>3. w.redirect => "zero" \in DOMAIN n /\ j.japanese
    <3>1. h.redirect => "zero" \in DOMAIN m /\ j.japanese
      BY Zenon DEF KeyInv, Flagged
    <3> QED BY <1>1, <3>1
  <2>4. w.active \in DOMAIN n /\ w.active \in {"f6", "f7"} /\ w.shift # {} /\ n[w.active] = Asks({}, Shifts)
    BY <1>1, <1>4
  <2>5. ASSUME w.combo # NoKey
        PROVE  /\ w.combo \in DOMAIN n /\ w.combo \in FunctionKeys /\ w.ctrl # {}
               /\ n[w.combo] = Asks({CtrlFkeyCells[w.combo]}, Ctrls)
               /\ \A o \in DOMAIN n : CtrlFkeyCells[w.combo] \notin KeyCell(j, o)
    <3>1. /\ h.combo \in DOMAIN m /\ h.combo \in FunctionKeys /\ h.ctrl # {}
          /\ m[h.combo] = Asks({CtrlFkeyCells[h.combo]}, Ctrls)
          /\ \A o \in DOMAIN m : CtrlFkeyCells[h.combo] \notin KeyCell(j, o)
      BY <1>4, <2>5, Zenon DEF KeyInv, Flagged
    <3> QED BY <1>1, <1>4, <1>7, <3>1
  <2>6. w.ffHold # NoKey => w.ffHold = "f7" /\ "f7" \in DOMAIN n /\ w.active # "f7"
    <3>1. h.ffHold # NoKey => h.ffHold = "f7" /\ "f7" \in DOMAIN m /\ h.active # "f7"
      BY Zenon DEF KeyInv, Flagged
    <3> QED BY <1>1, <1>4, <3>1
  <2> QED BY <2>2, <2>3, <2>4, <2>5, <2>6, Zenon DEF Flagged
<1>9. ASSUME NEW o \in DOMAIN n PROVE Understood(j, w, n, o)
  <2>1. CASE o = k
    BY <1>2, <1>4, <2>1, Zenon DEF Understood
  <2>2. CASE o # k
    <3>1. Understood(j, h, m, o) /\ n[o] = m[o] /\ o # h.active
      <4>1. o \in DOMAIN m /\ n[o] = m[o]
        BY <1>1, <1>9, <2>2
      <4>2. NoKey \notin DOMAIN m
        BY Zenon DEF KeyInv, Usable, Flagged
      <4> QED BY <4>1, <4>2, Zenon DEF KeyInv
    <3> QED BY <1>4, <3>1, Zenon DEF Understood
  <2> QED BY <2>1, <2>2
<1>10. ASSUME NEW x PROVE x \in w.held <=> Counted(j, w, n, x)
  <2>1. x \in h.held <=> Counted(j, h, m, x)
    BY Zenon DEF KeyInv
  <2>2. x \in w.held <=> x \in h.held /\ ~(x \in DOMAIN m /\ x \in Shifts)
    BY DEF KeyInv, Flagged
  <2>3. CASE x = k
    <3>1. ~Counted(j, h, m, x)
      BY <1>1, <1>2, <2>3 DEF Counted
    <3>2. ~Counted(j, w, n, x)
      BY <1>2, <1>7, <2>3 DEF Counted
    <3> QED BY <2>1, <2>2, <3>1, <3>2
  <2>4. CASE x # k
    <3>1. x \in Shifts => ~Counted(j, w, n, x)
      BY <1>2, <1>4 DEF Counted
    <3>2. x \in Shifts /\ Counted(j, h, m, x) => x \in DOMAIN m
      BY <1>2 DEF Counted
    <3>3. x \notin Shifts => (Counted(j, w, n, x) <=> Counted(j, h, m, x))
      BY <1>1, <1>4, <2>4 DEF Counted
    <3> QED BY <2>1, <2>2, <3>1, <3>2, <3>3
  <2> QED BY <2>3, <2>4
<1>11. Keyed(j, w, ComboCells(w) \union programs)
  BY <1>4, Zenon DEF ComboCells
<1> QED BY <1>3, <1>8, <1>9, <1>10, <1>11, Zenon DEF KeyInv

\* The first function key with Ctrl covers it, and is a cell of its own.
LEMMA ComboJoins ==
  ASSUME NEW j, NEW h, NEW m, NEW programs, KeyInv(j, h, m, programs),
         NEW k \in FunctionKeys, k \in j.keys, h.combo = NoKey, h.ctrl # {},
         \A o \in DOMAIN m : CtrlFkeyCells[k] \notin m[o].cells,
         NEW n, Joins(m, k, Asks({CtrlFkeyCells[k]}, Ctrls), n),
         NEW w, Keyed(j, w, {CtrlFkeyCells[k]} \union programs), w.held = h.held \ h.ctrl,
         w.kbd = h.kbd, w.redirect = h.redirect, FlagsAre(w, h.ctrl, k, h.shift, h.active, h.ffHold)
  PROVE  KeyInv(j, w, n, programs)
<1>1. /\ k \notin DOMAIN m /\ DOMAIN n = DOMAIN m \union {k}
      /\ n[k] = Asks({CtrlFkeyCells[k]}, Ctrls) /\ \A o \in DOMAIN m : n[o] = m[o]
  BY Zenon DEF Joins
<1>2. /\ k \notin Sides /\ k # "zero" /\ k # "zero_shift" /\ k \notin {"w", "up"} /\ k # NoKey
      /\ Shifts \subseteq Sides /\ Ctrls \subseteq Sides /\ "zero" # "zero_shift"
      /\ "zero_shift" \notin Sides /\ "zero" \notin Sides /\ k \notin {"f6", "f7"} /\ Shifts \intersect Ctrls = {}
  BY SMT DEF Sides, Shifts, Ctrls, FunctionKeys, NoKey
<1>3. Lined(w, n)
  <2>1. JoyLine(k) = {}
    BY <1>2, LinesAre, Zenon
  <2>2. w.kbd = h.kbd \union JoyLine(k) /\ Free(m, k)
    BY <2>1, Zenon DEF Free
  <2> QED BY <2>2, LinedJoins, Zenon DEF KeyInv
<1>4. w.combo = k /\ w.active = h.active /\ w.ctrl = h.ctrl /\ w.shift = h.shift /\ w.ffHold = h.ffHold
  BY Zenon DEF FlagsAre
<1>6. j.japanese \in BOOLEAN
  BY Zenon DEF KeyInv, Usable
<1>7. ASSUME NEW o \in DOMAIN n PROVE CtrlFkeyCells[k] \notin KeyCell(j, o)
  <2>1. CASE o \in Sides \union FunctionKeys \union {"zero"}
    BY <1>6, <2>1, CellsAre, SMT
  <2>2. CASE o \notin Sides \union FunctionKeys \union {"zero"}
    <3>1. o \in DOMAIN m /\ o # NoKey
      <4>1. NoKey \notin DOMAIN m
        BY Zenon DEF KeyInv, Usable, Flagged
      <4> QED BY <1>1, <1>7, <2>2, <4>1
    <3>2. m[o] = Means(KeyCell(j, o)) \/ o = h.active
      <4>1. Understood(j, h, m, o)
        BY <3>1, Zenon DEF KeyInv
      <4> QED BY <2>2, <3>1, <4>1, SMT DEF Understood
    <3>3. CASE m[o] = Means(KeyCell(j, o))
      <4>1. m[o].cells = KeyCell(j, o)
        BY <3>3, MeansIs, Zenon
      <4> QED BY <3>1, <4>1
    <3>4. CASE o = h.active
      <4>1. o \in {"f6", "f7"}
        BY <3>1, <3>4, Zenon DEF KeyInv, Flagged
      <4>2. KeyCell(j, o) = {}
        BY <1>6, <4>1, CellsAre, SMT
      <4> QED BY <4>2
    <3> QED BY <3>2, <3>3, <3>4
  <2> QED BY <2>1, <2>2
<1>8. Flagged(j, w, n)
  <2>1. /\ DOMAIN m \subseteq j.keys /\ h.ctrl = DOMAIN m \intersect Ctrls /\ h.shift = DOMAIN m \intersect Shifts
    BY Zenon DEF KeyInv, Flagged
  <2>2. /\ DOMAIN n \subseteq j.keys /\ w.ctrl = DOMAIN n \intersect Ctrls /\ w.shift = DOMAIN n \intersect Shifts
    <3>1. k \notin Shifts /\ k \notin Ctrls
      BY <1>2
    <3> QED BY <1>1, <1>4, <2>1, <3>1
  <2>3. w.redirect => "zero" \in DOMAIN n /\ j.japanese
    <3>1. h.redirect => "zero" \in DOMAIN m /\ j.japanese
      BY Zenon DEF KeyInv, Flagged
    <3> QED BY <1>1, <3>1
  <2>4. ASSUME w.active # NoKey
        PROVE  w.active \in DOMAIN n /\ w.active \in {"f6", "f7"} /\ w.shift # {} /\ n[w.active] = Asks({}, Shifts)
    <3>1. h.active \in DOMAIN m /\ h.active \in {"f6", "f7"} /\ h.shift # {} /\ m[h.active] = Asks({}, Shifts)
      BY <1>4, <2>4, Zenon DEF KeyInv, Flagged
    <3> QED BY <1>1, <1>4, <3>1
  <2>5. /\ w.combo \in DOMAIN n /\ w.combo \in FunctionKeys /\ w.ctrl # {}
        /\ n[w.combo] = Asks({CtrlFkeyCells[w.combo]}, Ctrls)
        /\ \A o \in DOMAIN n : CtrlFkeyCells[w.combo] \notin KeyCell(j, o)
    BY <1>1, <1>4, <1>7
  <2>6. w.ffHold # NoKey => w.ffHold = "f7" /\ "f7" \in DOMAIN n /\ w.active # "f7"
    <3>1. h.ffHold # NoKey => h.ffHold = "f7" /\ "f7" \in DOMAIN m /\ h.active # "f7"
      BY Zenon DEF KeyInv, Flagged
    <3> QED BY <1>1, <1>4, <3>1
  <2> QED BY <2>2, <2>3, <2>4, <2>5, <2>6, Zenon DEF Flagged
<1>9. ASSUME NEW o \in DOMAIN n PROVE Understood(j, w, n, o)
  <2>1. CASE o = k
    BY <1>2, <1>4, <2>1, Zenon DEF Understood
  <2>2. CASE o # k
    <3>1. Understood(j, h, m, o) /\ n[o] = m[o] /\ o # h.combo
      <4>1. o \in DOMAIN m /\ n[o] = m[o]
        BY <1>1, <1>9, <2>2
      <4>2. NoKey \notin DOMAIN m
        BY Zenon DEF KeyInv, Usable, Flagged
      <4> QED BY <4>1, <4>2, Zenon DEF KeyInv
    <3> QED BY <1>4, <3>1, Zenon DEF Understood
  <2> QED BY <2>1, <2>2
<1>10. ASSUME NEW x PROVE x \in w.held <=> Counted(j, w, n, x)
  <2>1. x \in h.held <=> Counted(j, h, m, x)
    BY Zenon DEF KeyInv
  <2>2. x \in w.held <=> x \in h.held /\ ~(x \in DOMAIN m /\ x \in Ctrls)
    BY DEF KeyInv, Flagged
  <2>3. CASE x = k
    <3>1. ~Counted(j, h, m, x)
      BY <1>1, <1>2, <2>3 DEF Counted
    <3>2. ~Counted(j, w, n, x)
      <4>1. n[k] # Means(KeyCell(j, k))
        BY <1>1, MeansApart, Zenon
      <4> QED BY <1>2, <2>3, <4>1 DEF Counted
    <3> QED BY <2>1, <2>2, <3>1, <3>2
  <2>4. CASE x # k
    <3>1. x \in Ctrls => ~Counted(j, w, n, x)
      BY <1>2, <1>4 DEF Counted
    <3>2. x \in Ctrls /\ Counted(j, h, m, x) => x \in DOMAIN m
      BY <1>2 DEF Counted
    <3>3. x \notin Ctrls => (Counted(j, w, n, x) <=> Counted(j, h, m, x))
      BY <1>1, <1>2, <1>4, <2>4 DEF Counted
    <3> QED BY <2>1, <2>2, <3>1, <3>2, <3>3
  <2> QED BY <2>3, <2>4
<1>11. Keyed(j, w, ComboCells(w) \union programs)
  <2>1. ComboCells(w) = {CtrlFkeyCells[k]}
    BY <1>2, <1>4 DEF ComboCells
  <2> QED BY <2>1, Zenon
<1> QED BY <1>3, <1>8, <1>9, <1>10, <1>11, Zenon DEF KeyInv

-----------------------------------------------------------------------------
(* What pressing a key means, by the flags of the input.                   *)

Kinds ==
  /\ Shifts \subseteq Sides /\ Ctrls \subseteq Sides /\ Shifts \intersect Ctrls = {}
  /\ \A k \in Sides : k \in Shifts \/ k \in Ctrls
  /\ \A k \in Sides : k \notin FunctionKeys /\ k \notin {"f6", "f7"} /\ k \notin Fixed
                     /\ k # "zero" /\ k # "zero_shift" /\ k # NoKey
  /\ \A k \in FunctionKeys : k \notin {"f6", "f7"} /\ k \notin Fixed /\ k # "zero" /\ k # "zero_shift" /\ k # NoKey
  /\ \A k \in {"f6", "f7"} : k \notin Fixed /\ k # "zero" /\ k # "zero_shift" /\ k # NoKey
  /\ \A k \in Fixed : k # "zero" /\ k # "zero_shift" /\ k # NoKey
  /\ "zero" # "zero_shift" /\ "zero" # NoKey /\ "zero_shift" # NoKey

LEMMA KindsAre == Kinds
BY SMT DEF Kinds, Sides, Shifts, Ctrls, FunctionKeys, Fixed, NoKey

LEMMA BindingsAre == \A k, s : s \in BOOLEAN => (<<k, s>> \in Bindings <=> k \in {"f6", "f7"})
BY DEF Bindings

MeaningBy(j, h, k) ==
  IF k \in Sides THEN Means(KeyCell(j, k))
  ELSE IF h.ctrl = {} /\ k \in {"f6", "f7"}
         THEN IF h.shift # {} /\ h.active = NoKey THEN Asks({}, Shifts) ELSE Means({})
  ELSE IF k \in Fixed THEN Means({})
  ELSE IF k \in FunctionKeys /\ h.ctrl # {}
         THEN IF h.combo # NoKey THEN Means({}) ELSE Asks({CtrlFkeyCells[k]}, Ctrls)
  ELSE IF k = "zero" /\ j.japanese /\ h.shift # {} /\ h.active = NoKey THEN Means(KeyCell(j, "zero_shift"))
  ELSE Means(KeyCell(j, k))

LEMMA CoversIs ==
  ASSUME NEW j, NEW h, NEW m, NEW programs, KeyInv(j, h, m, programs), NEW o \in DOMAIN m
  PROVE  m[o].covers = IF o = h.active THEN Shifts ELSE IF o = h.combo THEN Ctrls ELSE {}
<1>1. Understood(j, h, m, o) /\ o # NoKey
  <2>1. NoKey \notin DOMAIN m
    BY Zenon DEF KeyInv, Usable, Flagged
  <2> QED BY <2>1, Zenon DEF KeyInv
<1>2. CASE o = h.active
  <2>1. m[o] = Asks({}, Shifts)
    BY <1>1, <1>2, Zenon DEF KeyInv, Flagged
  <2>2. Asks({}, Shifts).covers = Shifts
    BY AsksIs, Zenon
  <2> QED BY <1>2, <2>1, <2>2
<1>3. CASE o = h.combo /\ o # h.active
  <2>1. m[o] = Asks({CtrlFkeyCells[o]}, Ctrls)
    BY <1>1, <1>3, Zenon DEF KeyInv, Flagged
  <2>2. Asks({CtrlFkeyCells[o]}, Ctrls).covers = Ctrls
    BY AsksIs, Zenon
  <2> QED BY <1>3, <2>1, <2>2
<1>4. CASE o # h.combo /\ o # h.active
  <2>1. \E c : m[o] = Means(c)
    BY <1>1, <1>4, Zenon DEF Understood
  <2> QED BY <1>4, <2>1, MeansIs, Zenon
<1> QED BY <1>2, <1>3, <1>4

LEMMA CoveredBy ==
  ASSUME NEW programs, KeyInv(inputJob, input, hands.meant, programs), NEW others \in SUBSET HeldKeys
  PROVE  /\ Covers(Shifts, others) <=> input.active # NoKey /\ input.active \in others
         /\ Covers(Ctrls, others) <=> input.combo # NoKey /\ input.combo \in others
<1> DEFINE m == hands.meant
<1>1. \A o \in others : o \in DOMAIN m /\ o # NoKey
  <2>1. NoKey \notin DOMAIN m
    BY Zenon DEF KeyInv, Usable, Flagged
  <2> QED BY <2>1, Zenon DEF HeldKeys
<1>2. \A o \in others : m[o].covers = IF o = input.active THEN Shifts ELSE IF o = input.combo THEN Ctrls ELSE {}
  BY <1>1, CoversIs, Zenon
<1>3. input.combo # NoKey => input.combo # input.active
  <2>1. /\ input.combo # NoKey => input.combo \in FunctionKeys
        /\ input.active # NoKey => input.active \in {"f6", "f7"}
    BY Zenon DEF KeyInv, Flagged
  <2> QED BY <2>1, KindsAre, SMT DEF Kinds
<1>4. Shifts # {} /\ Ctrls # {} /\ Shifts # Ctrls
  BY MeansApart, Zenon
<1> HIDE DEF m
<1>5. \A o \in others : m[o].covers = Shifts <=> o = input.active
  BY <1>2, <1>4
<1>6. \A o \in others : m[o].covers = Ctrls <=> o # input.active /\ o = input.combo
  BY <1>2, <1>4
<1>7. Covers(Shifts, others) <=> \E o \in others : m[o].covers = Shifts
  BY DEF Covers, m
<1>8. Covers(Ctrls, others) <=> \E o \in others : m[o].covers = Ctrls
  BY DEF Covers, m
<1>9. Covers(Shifts, others) <=> input.active # NoKey /\ input.active \in others
  BY <1>1, <1>5, <1>7, Zenon
<1>10. Covers(Ctrls, others) <=> input.combo # NoKey /\ input.combo \in others
  BY <1>1, <1>3, <1>6, <1>8, Zenon
<1> QED BY <1>9, <1>10

LEMMA MeaningIs ==
  ASSUME NEW programs, KeyInv(inputJob, input, hands.meant, programs), NEW k, NEW others \in SUBSET HeldKeys,
         HeldKeys \subseteq others \union {k}, k # NoKey => k # input.active /\ k # input.combo
  PROVE  Meaning(k, others) = MeaningBy(inputJob, input, k)
<1>1. CASE k \in Sides
  <2>1. /\ k \in Shifts \union Ctrls /\ k \notin Fixed /\ k # "zero" /\ k \notin DOMAIN CtrlFkeyCells
        /\ <<k, others \intersect Shifts # {}>> \notin Bindings
    <3>1. k \notin {"f6", "f7"} /\ k \notin FunctionKeys /\ k \notin Fixed /\ k # "zero"
      BY <1>1, KindsAre, Zenon DEF Kinds
    <3>2. <<k, others \intersect Shifts # {}>> \notin Bindings
      BY <3>1, BindingsAre, Zenon
    <3> QED BY <1>1, <3>1, <3>2, KeysAre, Zenon DEF Sides
  <2>2. Meaning(k, others) = Means(CellOf(k))
    BY <2>1, SMT DEF Meaning
  <2> QED BY <1>1, <2>2, CellIs, Zenon DEF MeaningBy
<1>2. CASE k \notin Sides
  <2>1. others \intersect Shifts = input.shift /\ others \intersect Ctrls = input.ctrl
    <3>1. input.ctrl = HeldKeys \intersect Ctrls /\ input.shift = HeldKeys \intersect Shifts
      BY Zenon DEF KeyInv, Flagged, HeldKeys
    <3>2. k \notin Shifts /\ k \notin Ctrls
      BY <1>2, KindsAre, Zenon DEF Kinds
    <3> QED BY <3>1, <3>2
  <2>2. Covers(Shifts, others) <=> input.active # NoKey
    <3>1. input.active # NoKey => input.active \in HeldKeys
      BY Zenon DEF KeyInv, Flagged, HeldKeys
    <3> QED BY <3>1, CoveredBy, Zenon
  <2>3. Covers(Ctrls, others) <=> input.combo # NoKey
    <3>1. input.combo # NoKey => input.combo \in HeldKeys
      BY Zenon DEF KeyInv, Flagged, HeldKeys
    <3> QED BY <3>1, CoveredBy, Zenon
  <2>4. <<k, input.shift # {}>> \in Bindings <=> k \in {"f6", "f7"}
    BY BindingsAre, Zenon
  <2>5. k \notin Shifts \union Ctrls
    BY <1>2, Zenon DEF Sides
  <2>6. k \in FunctionKeys <=> k \in DOMAIN CtrlFkeyCells
    BY KeysAre, Zenon
  <2>7. CASE k \in {"f6", "f7"} /\ input.ctrl = {}
    <3>1. Meaning(k, others) =
            [Means({}) EXCEPT !.covers = IF input.shift # {} /\ ~(input.active # NoKey) THEN Shifts ELSE {}]
      BY <2>1, <2>2, <2>4, <2>5, <2>6, <2>7, KindsAre, SMT DEF Meaning, Kinds
    <3>2. [Means({}) EXCEPT !.covers = Shifts] = Asks({}, Shifts) /\ [Means({}) EXCEPT !.covers = {}] = Means({})
      BY DEF Means, Asks
    <3> QED BY <1>2, <2>7, <3>1, <3>2, Zenon DEF MeaningBy
  <2>8. CASE k \in Fixed
    <3>1. Meaning(k, others) = Means({})
      BY <2>1, <2>4, <2>5, <2>6, <2>8, KindsAre, SMT DEF Meaning, Kinds
    <3> QED BY <1>2, <2>8, <3>1, KindsAre, SMT DEF MeaningBy, Kinds
  <2>9. CASE k \in FunctionKeys /\ input.ctrl # {}
    <3>1. Meaning(k, others) = IF input.combo # NoKey THEN Means({}) ELSE [cells |-> {CtrlFkeyCells[k]}, covers |-> Ctrls]
      <4>1. k \notin {"f6", "f7"} /\ k \notin Fixed /\ k # "zero"
        BY <2>9, KindsAre, Zenon DEF Kinds
      <4>2. k \in DOMAIN CtrlFkeyCells /\ others \intersect Ctrls # {} /\ <<k, others \intersect Shifts # {}>> \notin Bindings
        BY <2>1, <2>4, <2>6, <2>9, <4>1, Zenon
      <4>3. Meaning(k, others) = IF Covers(Ctrls, others) THEN Means({}) ELSE [cells |-> {CtrlFkeyCells[k]}, covers |-> Ctrls]
        BY <2>5, <4>1, <4>2, Zenon DEF Meaning
      <4> QED BY <2>3, <4>3, Zenon
    <3> QED BY <1>2, <2>9, <3>1, KindsAre, SMT DEF MeaningBy, Kinds, Asks
  <2>10. CASE k = "zero" /\ inputJob.japanese /\ input.shift # {} /\ input.active = NoKey
    <3>1. Meaning(k, others) = Means(CellOf("zero_shift"))
      BY <2>1, <2>2, <2>4, <2>5, <2>6, <2>10, KindsAre, SMT DEF Meaning, Kinds
    <3> QED BY <1>2, <2>10, <3>1, KindsAre, CellIs, SMT DEF MeaningBy, Kinds
  <2>11. CASE ~(k \in {"f6", "f7"} /\ input.ctrl = {}) /\ k \notin Fixed /\ ~(k \in FunctionKeys /\ input.ctrl # {})
              /\ ~(k = "zero" /\ inputJob.japanese /\ input.shift # {} /\ input.active = NoKey)
    <3>1. Meaning(k, others) = Means(CellOf(k))
      BY <2>1, <2>2, <2>4, <2>5, <2>6, <2>11, SMT DEF Meaning
    <3> QED BY <1>2, <2>11, <3>1, CellIs, SMT DEF MeaningBy
  <2> QED BY <2>7, <2>8, <2>9, <2>10, <2>11, Zenon
<1> QED BY <1>1, <1>2

\* SdlKeyboard asks the keys it counts whether Shift is held.
LEMMA DownKeyIs ==
  ASSUME NEW j, NEW h, NEW m, NEW programs, KeyInv(j, h, m, programs), NEW k
  PROVE  DownKey(j, h, k) =
           IF k = "zero" /\ j.japanese /\ h.shift # {} /\ h.active = NoKey THEN "zero_shift" ELSE k
<1>1. h.held \intersect Shifts # {} <=> h.shift # {} /\ h.active = NoKey
  <2>1. \A x \in Shifts : x \in h.held <=> x \in DOMAIN m /\ h.active = NoKey
    <3>1. \A x \in Shifts : Counted(j, h, m, x) <=> x \in DOMAIN m /\ h.active = NoKey
      BY KindsAre, SMT DEF Kinds, Counted
    <3> QED BY <3>1, Zenon DEF KeyInv
  <2>2. h.shift = DOMAIN m \intersect Shifts
    BY Zenon DEF KeyInv, Flagged
  <2> QED BY <2>1, <2>2
<1>2. KeyCell(j, "zero_shift") # {} <=> j.japanese
  <2>1. j.japanese \in BOOLEAN
    BY Zenon DEF KeyInv, Usable
  <2> QED BY <2>1, CellsAre, SMT
<1> QED BY <1>1, <1>2, Zenon DEF DownKey

-----------------------------------------------------------------------------
(* PressHostKey.                                                           *)

LEMMA SameKeyed ==
  ASSUME NEW j, NEW h, NEW v, NEW others, Keyed(j, h, others), SameKeys(h, v) PROVE Keyed(j, v, others)
BY Zenon DEF Keyed, SameKeys

LEMMA SidePressed ==
  ASSUME NEW h, NEW m, NEW programs, KeyInv(inputJob, h, m, programs),
         NEW k \in Sides, k \in inputJob.keys, NEW n, Joins(m, k, Means(KeyCell(inputJob, k)), n),
         NEW v, SameKeys(h, v),
         FlagsAre(v, h.ctrl \union ({k} \intersect Ctrls), h.combo, h.shift \union ({k} \intersect Shifts), h.active, h.ffHold),
         NEW w, w = IF (IF k \in Shifts THEN h.active = NoKey ELSE h.combo = NoKey) THEN KeyDown(v, k) ELSE v
  PROVE  KeyInv(inputJob, w, n, programs) /\ SamePads(h, w)
<1> DEFINE uncovered == IF k \in Shifts THEN h.active = NoKey ELSE h.combo = NoKey
           others    == ComboCells(h) \union programs
<1>1. Keyed(inputJob, v, others) /\ inputJob.japanese \in BOOLEAN
  BY SameKeyed, Zenon DEF KeyInv, Usable
<1>2. DownIf(v, k, {x \in {k} : uncovered}) = w
  <2>1. k \in {x \in {k} : uncovered} <=> uncovered
    OBVIOUS
  <2> QED BY <2>1, Zenon DEF DownIf
<1> HIDE DEF uncovered, others
<1>3. PICK keys : keys = {x \in {k} : uncovered}
  OBVIOUS
<1>4. Added(inputJob, v, {k} \intersect keys, others, w)
  BY <1>1, <1>2, <1>3, SideDown, Zenon
<1>5. Keyed(inputJob, w, others) /\ Sided(v, w) /\ w.held = v.held \union ({k} \intersect keys)
  BY <1>4, Zenon DEF Added
<1>6. v.held = h.held /\ v.kbd = h.kbd /\ v.redirect = h.redirect /\ SamePads(h, v)
  BY Zenon DEF SameKeys
<1>7. w.kbd = h.kbd /\ w.redirect = h.redirect /\ SamePads(h, w)
  BY <1>5, <1>6, Zenon DEF Sided, SamePads
<1>8. FlagsAre(w, h.ctrl \union ({k} \intersect Ctrls), h.combo, h.shift \union ({k} \intersect Shifts), h.active, h.ffHold)
  BY <1>5, Zenon DEF Sided, SameFlags, FlagsAre
<1>9. w.held = h.held \union {x \in {k} : IF k \in Shifts THEN h.active = NoKey ELSE h.combo = NoKey}
  <2>1. {k} \intersect keys = {x \in {k} : uncovered}
    BY <1>3
  <2> QED BY <1>5, <1>6, <2>1, Zenon DEF uncovered
<1> QED BY <1>5, <1>7, <1>8, <1>9, SideJoins, Zenon DEF others

LEMMA PressShift ==
  ASSUME NEW h, NEW m, NEW programs, KeyInv(inputJob, h, m, programs),
         NEW k \in Shifts, k \in inputJob.keys, NEW n, Joins(m, k, MeaningBy(inputJob, h, k), n)
  PROVE  KeyInv(inputJob, Pressed(h, k, FALSE), n, programs) /\ SamePads(h, Pressed(h, k, FALSE))
<1>1. PICK v : v = [h EXCEPT !.shift = @ \union {k}]
  OBVIOUS
<1>2. k \in Sides /\ k \notin Ctrls /\ k \notin {"f6", "f7"} /\ k \notin Fixed
  BY KindsAre, Zenon DEF Kinds
<1>3. Shape(h)
  BY Zenon DEF KeyInv, Keyed
<1>4. SameKeys(h, v) /\ FlagsAre(v, h.ctrl, h.combo, h.shift \union {k}, h.active, h.ffHold)
  BY <1>1, <1>3, FlagsSet, Zenon
<1>5. h.ctrl = h.ctrl \union ({k} \intersect Ctrls) /\ h.shift \union {k} = h.shift \union ({k} \intersect Shifts)
  BY <1>2
<1>6. FlagsAre(v, h.ctrl \union ({k} \intersect Ctrls), h.combo, h.shift \union ({k} \intersect Shifts), h.active, h.ffHold)
  BY <1>4, <1>5, Zenon
<1>7. PICK w : w = IF (IF k \in Shifts THEN h.active = NoKey ELSE h.combo = NoKey) THEN KeyDown(v, k) ELSE v
  OBVIOUS
<1>8. Pressed(h, k, FALSE) = w
  <2>1. <<k, h.shift # {}>> \notin Bindings
    BY <1>2, BindingsAre, Zenon
  <2>2. Pressed(h, k, FALSE) = IF h.active = NoKey THEN KeyDown(v, k) ELSE v
    BY <1>1, <1>2, <2>1, Zenon DEF Pressed
  <2> QED BY <1>7, <2>2, Zenon
<1>9. Joins(m, k, Means(KeyCell(inputJob, k)), n)
  BY <1>2, Zenon DEF MeaningBy
<1> QED BY <1>2, <1>4, <1>6, <1>7, <1>8, <1>9, SidePressed, Zenon

LEMMA PressCtrl ==
  ASSUME NEW h, NEW m, NEW programs, KeyInv(inputJob, h, m, programs),
         NEW k \in Ctrls, k \in inputJob.keys, NEW n, Joins(m, k, MeaningBy(inputJob, h, k), n)
  PROVE  KeyInv(inputJob, Pressed(h, k, FALSE), n, programs) /\ SamePads(h, Pressed(h, k, FALSE))
<1>1. PICK v : v = [h EXCEPT !.ctrl = @ \union {k}]
  OBVIOUS
<1>2. k \in Sides /\ k \notin Shifts /\ k \notin {"f6", "f7"} /\ k \notin Fixed /\ k \notin FunctionKeys
  BY KindsAre, Zenon DEF Kinds
<1>3. Shape(h)
  BY Zenon DEF KeyInv, Keyed
<1>4. SameKeys(h, v) /\ FlagsAre(v, h.ctrl \union {k}, h.combo, h.shift, h.active, h.ffHold)
  BY <1>1, <1>3, FlagsSet, Zenon
<1>5. h.shift = h.shift \union ({k} \intersect Shifts) /\ h.ctrl \union {k} = h.ctrl \union ({k} \intersect Ctrls)
  BY <1>2
<1>6. FlagsAre(v, h.ctrl \union ({k} \intersect Ctrls), h.combo, h.shift \union ({k} \intersect Shifts), h.active, h.ffHold)
  BY <1>4, <1>5, Zenon
<1>7. PICK w : w = IF (IF k \in Shifts THEN h.active = NoKey ELSE h.combo = NoKey) THEN KeyDown(v, k) ELSE v
  OBVIOUS
<1>8. Pressed(h, k, FALSE) = w
  <2>1. <<k, h.shift # {}>> \notin Bindings
    BY <1>2, BindingsAre, Zenon
  <2>2. k \notin DOMAIN CtrlFkeyCells
    BY <1>2, KeysAre, Zenon
  <2>3. Pressed(h, k, FALSE) = ComboDown(h, k)
    BY <1>2, <2>1, Zenon DEF Pressed
  <2>4. ComboDown(h, k) = IF h.combo = NoKey THEN KeyDown(v, k) ELSE v
    BY <1>1, <2>2, Zenon DEF ComboDown
  <2> QED BY <1>2, <1>7, <2>3, <2>4, Zenon
<1>9. Joins(m, k, Means(KeyCell(inputJob, k)), n)
  BY <1>2, Zenon DEF MeaningBy
<1> QED BY <1>2, <1>4, <1>6, <1>7, <1>8, <1>9, SidePressed, Zenon

LEMMA HeldApart ==
  ASSUME NEW j, NEW h, NEW m, NEW programs, KeyInv(j, h, m, programs)
  PROVE  /\ h.shift \in SUBSET Sides /\ h.ctrl \in SUBSET Sides
         /\ \A k \in DOMAIN m \union {"zero_shift"} : (ComboCells(h) \union programs) \intersect KeyCell(j, k) = {}
         /\ \A k \in h.shift \union h.ctrl : (ComboCells(h) \union programs) \intersect KeyCell(j, k) = {}
<1>1. h.shift = DOMAIN m \intersect Shifts /\ h.ctrl = DOMAIN m \intersect Ctrls /\ DOMAIN m \subseteq j.keys
  BY Zenon DEF KeyInv, Flagged
<1>2. h.shift \in SUBSET Sides /\ h.ctrl \in SUBSET Sides
  BY <1>1 DEF Sides
<1>3. ASSUME NEW k \in DOMAIN m \union {"zero_shift"}
      PROVE  (ComboCells(h) \union programs) \intersect KeyCell(j, k) = {}
  <2>1. programs \intersect KeyCell(j, k) = {}
    <3>1. k \in j.keys \union {"zero_shift"}
      BY <1>1
    <3> QED BY <3>1, OthersApart, Zenon
  <2>2. ComboCells(h) \intersect KeyCell(j, k) = {}
    <3>1. k \in DOMAIN m \union Sides \union {"zero", "zero_shift"}
      BY <1>3
    <3> QED BY <3>1, OthersApart, Zenon
  <2> QED BY <2>1, <2>2
<1>4. ASSUME NEW k \in h.shift \union h.ctrl
      PROVE  (ComboCells(h) \union programs) \intersect KeyCell(j, k) = {}
  <2>1. k \in DOMAIN m \union {"zero_shift"}
    BY <1>1
  <2> QED BY <1>3, <2>1, Zenon
<1> QED BY <1>2, <1>3, <1>4, Zenon

LEMMA PressHotkey ==
  ASSUME NEW h, NEW m, NEW programs, KeyInv(inputJob, h, m, programs), NEW k \in {"f6", "f7"}, h.ctrl = {},
         k \in inputJob.keys, NEW n, Joins(m, k, MeaningBy(inputJob, h, k), n)
  PROVE  KeyInv(inputJob, Pressed(h, k, FALSE), n, programs) /\ SamePads(h, Pressed(h, k, FALSE))
<1>1. k \notin Sides /\ k \notin Shifts /\ k \notin Fixed
  BY KindsAre, SMT DEF Kinds
<1>2. Shape(h) /\ Keyed(inputJob, h, ComboCells(h) \union programs) /\ h.shift \subseteq Shifts
  BY Zenon DEF KeyInv, Keyed, Flagged
<1>3. <<k, h.shift # {}>> \in Bindings
  BY BindingsAre, Zenon
<1>4. PICK v : v = IF h.shift # {} /\ h.active = NoKey THEN [AllUp(h, h.shift) EXCEPT !.active = k] ELSE h
  OBVIOUS
<1>5. PICK w : w = [v EXCEPT !.ffHold = IF k = "f7" /\ h.shift = {} THEN k ELSE @]
  OBVIOUS
<1>6. Pressed(h, k, FALSE) = w
  BY <1>1, <1>3, <1>4, <1>5, Zenon DEF Pressed
<1>7. CASE h.shift # {} /\ h.active = NoKey
  <2>1. PICK u : u = AllUp(h, h.shift)
    OBVIOUS
  <2>2. v = [u EXCEPT !.active = k]
    BY <1>4, <1>7, <2>1, Zenon
  <2>3. Removed(inputJob, h, h.shift, ComboCells(h) \union programs, u)
    BY <1>2, <2>1, HeldApart, SidesUp, Zenon
  <2>4. Keyed(inputJob, u, ComboCells(h) \union programs) /\ Sided(h, u) /\ u.held = h.held \ h.shift
    BY <2>3, Zenon DEF Removed
  <2>5. SameKeys(u, v) /\ FlagsAre(v, u.ctrl, u.combo, u.shift, k, u.ffHold)
    BY <2>2, <2>4, FlagsSet, Zenon DEF Keyed
  <2>6. Shape(v)
    BY <2>5, Zenon DEF SameKeys
  <2>7. SameKeys(v, w) /\ FlagsAre(w, v.ctrl, v.combo, v.shift, v.active, v.ffHold)
    <3>1. w = [v EXCEPT !.ffHold = v.ffHold]
      BY <1>5, <1>7, Zenon
    <3> QED BY <2>6, <3>1, FlagsSet, Zenon
  <2>8. Keyed(inputJob, w, ComboCells(h) \union programs)
    BY <2>4, <2>5, <2>7, SameKeyed, Zenon
  <2>9. w.held = h.held \ h.shift /\ w.kbd = h.kbd /\ w.redirect = h.redirect /\ SamePads(h, w)
    BY <2>4, <2>5, <2>7, Zenon DEF SameKeys, Sided, SamePads
  <2>10. FlagsAre(w, h.ctrl, h.combo, h.shift, k, h.ffHold)
    BY <2>4, <2>5, <2>7, Zenon DEF FlagsAre, Sided, SameFlags
  <2>11. Joins(m, k, Asks({}, Shifts), n)
    BY <1>1, <1>7, Zenon DEF MeaningBy
  <2> QED BY <1>6, <1>7, <2>8, <2>9, <2>10, <2>11, HotkeyJoins, Zenon
<1>8. CASE ~(h.shift # {} /\ h.active = NoKey)
  <2>1. PICK hold : hold = IF k = "f7" /\ h.shift = {} THEN k ELSE h.ffHold
    OBVIOUS
  <2>2. w = [h EXCEPT !.ffHold = hold]
    BY <1>4, <1>5, <1>8, <2>1, Zenon
  <2>3. SameKeys(h, w) /\ FlagsAre(w, h.ctrl, h.combo, h.shift, h.active, hold)
    BY <1>2, <2>2, FlagsSet, Zenon
  <2>4. hold # h.ffHold => hold = "f7" /\ k = "f7" /\ h.active # "f7"
    <3>1. h.active # NoKey => h.shift # {}
      BY Zenon DEF KeyInv, Flagged
    <3> QED BY <2>1, <3>1, KindsAre DEF Kinds
  <2>5. Joins(m, k, Means({}), n)
    BY <1>1, <1>8, Zenon DEF MeaningBy
  <2>6. k \in FunctionKeys \union {"f6", "f7", "f10"}
    OBVIOUS
  <2>7. KeyInv(inputJob, w, n, programs)
    BY <2>3, <2>4, <2>5, <2>6, NothingJoins, Zenon
  <2> QED BY <1>6, <2>3, <2>7, Zenon DEF SameKeys
<1> QED BY <1>7, <1>8

LEMMA PressCombo ==
  ASSUME NEW h, NEW m, NEW programs, KeyInv(inputJob, h, m, programs), NEW k \in FunctionKeys, h.ctrl # {},
         k \in inputJob.keys, NEW n, Joins(m, k, MeaningBy(inputJob, h, k), n),
         \A o \in DOMAIN m : MeaningBy(inputJob, h, k).cells \intersect m[o].cells # {} =>
                             m[o].covers = {} /\ MeaningBy(inputJob, h, k).covers = {}
  PROVE  KeyInv(inputJob, Pressed(h, k, FALSE), n, programs) /\ SamePads(h, Pressed(h, k, FALSE))
<1>1. k \notin Sides /\ k \notin Shifts /\ k \notin Ctrls /\ k \notin Fixed /\ k \notin {"f6", "f7"} /\ k # "zero"
  BY KindsAre, SMT DEF Kinds
<1>2. Shape(h) /\ Keyed(inputJob, h, ComboCells(h) \union programs)
  BY Zenon DEF KeyInv, Keyed
<1>3. Pressed(h, k, FALSE) = ComboDown(h, k)
  <2>1. <<k, h.shift # {}>> \notin Bindings
    BY <1>1, BindingsAre, Zenon
  <2> QED BY <1>1, <2>1, Zenon DEF Pressed
<1>4. CASE h.combo # NoKey
  <2>1. ComboDown(h, k) = h
    BY <1>1, <1>4, KeysAre, Zenon DEF ComboDown
  <2>2. SameKeys(h, h) /\ FlagsAre(h, h.ctrl, h.combo, h.shift, h.active, h.ffHold)
    BY <1>2, Zenon DEF SameKeys, SamePads, FlagsAre
  <2>3. Joins(m, k, Means({}), n)
    BY <1>1, <1>4, Zenon DEF MeaningBy
  <2>4. k \in FunctionKeys \union {"f6", "f7", "f10"}
    OBVIOUS
  <2>5. KeyInv(inputJob, h, n, programs)
    BY <2>2, <2>3, <2>4, NothingJoins, Zenon
  <2> QED BY <1>3, <2>1, <2>2, <2>5, Zenon DEF SameKeys
<1>5. CASE h.combo = NoKey
  <2>1. PICK u : u = AllUp(h, h.ctrl)
    OBVIOUS
  <2>2. PICK v : v = [u EXCEPT !.cells = @ \union {CtrlFkeyCells[k]}]
    OBVIOUS
  <2>3. PICK w : w = [v EXCEPT !.combo = k]
    OBVIOUS
  <2>4. ComboDown(h, k) = w
    <3>1. w = [u EXCEPT !.cells = @ \union {CtrlFkeyCells[k]}, !.combo = k]
      BY <2>2, <2>3, Zenon
    <3> QED BY <1>1, <1>5, <2>1, <3>1, KeysAre, Zenon DEF ComboDown
  <2>5. Removed(inputJob, h, h.ctrl, ComboCells(h) \union programs, u)
    BY <1>2, <2>1, HeldApart, SidesUp, Zenon
  <2>6. Keyed(inputJob, u, ComboCells(h) \union programs) /\ Sided(h, u) /\ u.held = h.held \ h.ctrl
    BY <2>5, Zenon DEF Removed
  <2>7. /\ Shape(v) /\ SamePads(u, v) /\ SameFlags(u, v)
        /\ v.cells = u.cells \union {CtrlFkeyCells[k]} /\ v.kbd = u.kbd /\ v.held = u.held /\ v.redirect = u.redirect
    <3>1. Shape(u)
      BY <2>6, Zenon DEF Keyed
    <3>2. PICK cells : cells = u.cells \union {CtrlFkeyCells[k]}
      OBVIOUS
    <3>3. v = [u EXCEPT !.cells = cells]
      BY <2>2, <3>2, Zenon
    <3> QED BY SMT, <3>1, <3>2, <3>3 DEF Shape, InputFields, SamePads, SameFlags
  <2>8. SameKeys(v, w) /\ FlagsAre(w, v.ctrl, k, v.shift, v.active, v.ffHold)
    BY <2>3, <2>7, FlagsSet, Zenon
  <2>9. Keyed(inputJob, w, {CtrlFkeyCells[k]} \union programs)
    <3>1. ComboCells(h) = {}
      BY <1>5 DEF ComboCells
    <3>2. u.cells = KeysOf(inputJob, u.held) \union programs
      BY <2>6, <3>1 DEF Keyed
    <3>3. w.cells = u.cells \union {CtrlFkeyCells[k]} /\ w.held = u.held /\ Shape(w)
      BY <2>7, <2>8, Zenon DEF SameKeys
    <3>4. w.cells = KeysOf(inputJob, w.held) \union ({CtrlFkeyCells[k]} \union programs)
      BY <3>2, <3>3
    <3> QED BY <3>3, <3>4, Zenon DEF Keyed
  <2>10. w.held = h.held \ h.ctrl /\ w.kbd = h.kbd /\ w.redirect = h.redirect /\ SamePads(h, w)
    BY <2>6, <2>7, <2>8, Zenon DEF SameKeys, Sided, SamePads
  <2>11. FlagsAre(w, h.ctrl, k, h.shift, h.active, h.ffHold)
    BY <2>6, <2>7, <2>8, Zenon DEF FlagsAre, Sided, SameFlags
  <2>12. MeaningBy(inputJob, h, k) = Asks({CtrlFkeyCells[k]}, Ctrls)
    BY <1>1, <1>5, Zenon DEF MeaningBy
  <2>13. Joins(m, k, Asks({CtrlFkeyCells[k]}, Ctrls), n)
    BY <2>12, Zenon
  <2>14. \A o \in DOMAIN m : CtrlFkeyCells[k] \notin m[o].cells
    <3>1. MeaningBy(inputJob, h, k).cells = {CtrlFkeyCells[k]} /\ MeaningBy(inputJob, h, k).covers # {}
      <4>1. Asks({CtrlFkeyCells[k]}, Ctrls).cells = {CtrlFkeyCells[k]} /\ Asks({CtrlFkeyCells[k]}, Ctrls).covers = Ctrls
        BY AsksIs, Zenon
      <4> QED BY <2>12, <4>1, MeansApart
    <3> QED BY <3>1
  <2>15. KeyInv(inputJob, w, n, programs)
    BY <1>5, <2>9, <2>10, <2>11, <2>13, <2>14, ComboJoins, Zenon
  <2> QED BY <1>3, <2>4, <2>10, <2>15, Zenon
<1> QED BY <1>4, <1>5

LEMMA PressKey ==
  ASSUME NEW h, NEW m, NEW programs, KeyInv(inputJob, h, m, programs), NEW k \in inputJob.keys, k \notin Sides,
         ~(k \in {"f6", "f7"} /\ h.ctrl = {}), k \notin Fixed, ~(k \in FunctionKeys /\ h.ctrl # {}),
         NEW n, Joins(m, k, MeaningBy(inputJob, h, k), n), Free(m, k),
         \A o \in DOMAIN m : MeaningBy(inputJob, h, k).cells \intersect m[o].cells # {} =>
                             m[o].covers = {} /\ MeaningBy(inputJob, h, k).covers = {}
  PROVE  KeyInv(inputJob, Pressed(h, k, FALSE), n, programs) /\ SamePads(h, Pressed(h, k, FALSE))
<1>1. k \notin Shifts /\ k \notin Ctrls
  BY KindsAre, SMT DEF Kinds
<1>2. Shape(h) /\ Keyed(inputJob, h, ComboCells(h) \union programs)
  BY Zenon DEF KeyInv, Keyed
<1>3. PICK w : w = KeyDown(h, k)
  OBVIOUS
<1>4. Pressed(h, k, FALSE) = w
  <2>1. ~(h.ctrl = {} /\ <<k, h.shift # {}>> \in Bindings)
    BY BindingsAre, Zenon
  <2>2. Pressed(h, k, FALSE) = ComboDown(h, k)
    BY <1>1, <2>1, Zenon DEF Pressed
  <2> QED BY <1>1, <1>3, <2>2, KeysAre, Zenon DEF ComboDown
<1>5. MeaningBy(inputJob, h, k) = Means(KeyCell(inputJob, DownKey(inputJob, h, k)))
  <2>1. DownKey(inputJob, h, k) =
          IF k = "zero" /\ inputJob.japanese /\ h.shift # {} /\ h.active = NoKey THEN "zero_shift" ELSE k
    BY DownKeyIs, Zenon
  <2> QED BY <2>1, Zenon DEF MeaningBy
<1>6. Joins(m, k, Means(KeyCell(inputJob, DownKey(inputJob, h, k))), n)
  BY <1>5, Zenon
<1>7. ComboCells(h) \intersect KeyCell(inputJob, k) = {}
  <2>1. CASE k = "zero"
    <3>1. k \in DOMAIN m \union Sides \union {"zero", "zero_shift"}
      BY <2>1
    <3> QED BY <3>1, OthersApart, Zenon
  <2>2. CASE h.combo = NoKey
    BY <2>2 DEF ComboCells
  <2>3. CASE k # "zero" /\ h.combo # NoKey
    <3>1. MeaningBy(inputJob, h, k).cells = KeyCell(inputJob, k)
      <4>1. MeaningBy(inputJob, h, k) = Means(KeyCell(inputJob, k))
        BY <2>3, Zenon DEF MeaningBy
      <4> QED BY <4>1, MeansIs, Zenon
    <3>2. h.combo \in DOMAIN m /\ m[h.combo] = Asks({CtrlFkeyCells[h.combo]}, Ctrls)
      BY <2>3, Zenon DEF KeyInv, Flagged
    <3>3. m[h.combo].cells = {CtrlFkeyCells[h.combo]} /\ m[h.combo].covers # {}
      <4>1. \A c : Asks({c}, Ctrls).cells = {c} /\ Asks({c}, Ctrls).covers = Ctrls
        BY AsksIs, Zenon
      <4> QED BY <3>2, <4>1, MeansApart
    <3>4. KeyCell(inputJob, k) \intersect {CtrlFkeyCells[h.combo]} = {}
      BY <3>1, <3>2, <3>3, Zenon
    <3> QED BY <2>3, <3>4 DEF ComboCells
  <2> QED BY <2>1, <2>2, <2>3
<1>8. Keyed(inputJob, w, ComboCells(h) \union programs)
  BY <1>2, <1>3, DownKeeps, Zenon
<1>9. Downed(inputJob, h, k, w)
  BY <1>2, <1>3, KeyDownIs, Zenon
<1>10. SamePads(h, w)
  BY <1>9, Zenon DEF Downed
<1> QED BY <1>4, <1>6, <1>7, <1>8, <1>9, <1>10, KeyJoins, Zenon

LEMMA PressKeeps ==
  ASSUME NEW h, NEW m, NEW programs, KeyInv(inputJob, h, m, programs), NEW k \in inputJob.keys,
         NEW n, Joins(m, k, MeaningBy(inputJob, h, k), n), Free(m, k),
         \A o \in DOMAIN m : MeaningBy(inputJob, h, k).cells \intersect m[o].cells # {} =>
                             m[o].covers = {} /\ MeaningBy(inputJob, h, k).covers = {}
  PROVE  KeyInv(inputJob, Pressed(h, k, FALSE), n, programs) /\ SamePads(h, Pressed(h, k, FALSE))
<1>1. CASE k \in Shifts
  BY <1>1, PressShift, Zenon
<1>2. CASE k \in Ctrls
  BY <1>2, PressCtrl, Zenon
<1>3. CASE k \in {"f6", "f7"} /\ h.ctrl = {}
  BY <1>3, PressHotkey, Zenon
<1>4. CASE k \in FunctionKeys /\ h.ctrl # {}
  BY <1>4, PressCombo, Zenon
<1>5. CASE k \in Fixed
  <2>1. k \notin Sides /\ k \notin Shifts /\ k \notin {"f6", "f7"} /\ k \notin FunctionKeys
    BY <1>5, KindsAre, SMT DEF Kinds
  <2>2. <<k, h.shift # {}>> \notin Bindings
    BY <2>1, BindingsAre, Zenon
  <2>3. Pressed(h, k, FALSE) = h
    BY <1>5, <2>1, <2>2, Zenon DEF Pressed
  <2>4. Shape(h)
    BY Zenon DEF KeyInv, Keyed
  <2>5. SameKeys(h, h) /\ FlagsAre(h, h.ctrl, h.combo, h.shift, h.active, h.ffHold)
    BY <2>4, Zenon DEF SameKeys, SamePads, FlagsAre
  <2>6. Joins(m, k, Means({}), n)
    BY <1>5, <2>1, Zenon DEF MeaningBy
  <2>7. k \in FunctionKeys \union {"f6", "f7", "f10"}
    BY <1>5 DEF Fixed
  <2>8. KeyInv(inputJob, h, n, programs)
    BY <2>5, <2>6, <2>7, NothingJoins, Zenon
  <2> QED BY <2>3, <2>5, <2>8, Zenon DEF SameKeys
<1>6. CASE k \notin Sides /\ ~(k \in {"f6", "f7"} /\ h.ctrl = {}) /\ k \notin Fixed /\ ~(k \in FunctionKeys /\ h.ctrl # {})
  BY <1>6, PressKey, Zenon
<1> QED BY <1>1, <1>2, <1>3, <1>4, <1>5, <1>6, KindsAre, Zenon DEF Kinds

-----------------------------------------------------------------------------
(* RepeatHostKey: the input stays as it is.                                *)

Same(h, w) == SameKeys(h, w) /\ SameFlags(h, w)

LEMMA SameKeeps ==
  ASSUME NEW j, NEW h, NEW m, NEW programs, KeyInv(j, h, m, programs), NEW w, Same(h, w)
  PROVE  KeyInv(j, w, m, programs) /\ SamePads(h, w)
<1>1. /\ w.cells = h.cells /\ w.kbd = h.kbd /\ w.held = h.held /\ w.redirect = h.redirect
      /\ w.ctrl = h.ctrl /\ w.combo = h.combo /\ w.shift = h.shift /\ w.active = h.active /\ w.ffHold = h.ffHold
      /\ Shape(w) /\ SamePads(h, w)
  BY Zenon DEF Same, SameKeys, SameFlags
<1>2. Flagged(j, w, m)
  <2>1. Flagged(j, h, m)
    BY Zenon DEF KeyInv
  <2> QED BY <1>1, <2>1 DEF Flagged
<1>3. Lined(w, m)
  BY <1>1, Zenon DEF KeyInv, Lined
<1>4. ASSUME NEW k \in DOMAIN m PROVE Understood(j, w, m, k)
  <2>1. Understood(j, h, m, k)
    BY Zenon DEF KeyInv
  <2> QED BY <1>1, <2>1 DEF Understood
<1>5. ASSUME NEW x PROVE x \in w.held <=> Counted(j, w, m, x)
  <2>1. x \in h.held <=> Counted(j, h, m, x)
    BY Zenon DEF KeyInv
  <2> QED BY <1>1, <2>1 DEF Counted
<1>6. Keyed(j, w, ComboCells(w) \union programs)
  BY <1>1, Zenon DEF KeyInv, Keyed, ComboCells
<1> QED BY <1>1, <1>2, <1>3, <1>4, <1>5, <1>6, Zenon DEF KeyInv

LEMMA SameSelf == ASSUME NEW h, Shape(h) PROVE Same(h, h)
BY Zenon DEF Same, SameKeys, SamePads, SameFlags

LEMMA SameOn == ASSUME NEW h, NEW v, NEW w, Same(h, v), Same(v, w) PROVE Same(h, w)
BY Zenon DEF Same, SameKeys, SamePads, SameFlags

LEMMA DownAgain ==
  ASSUME NEW h, NEW m, NEW programs, KeyInv(inputJob, h, m, programs), NEW k \in DOMAIN m,
         NEW d, d = DownKey(inputJob, h, k), KeyCell(inputJob, d) = {} \/ d \in h.held, d # k => h.redirect
  PROVE  Same(h, KeyDown(h, k))
<1>1. Shape(h) /\ h.cells = KeysOf(inputJob, h.held) \union (ComboCells(h) \union programs)
  BY Zenon DEF KeyInv, Keyed
<1>2. PICK w : w = KeyDown(h, k)
  OBVIOUS
<1>3. Downed(inputJob, h, k, w)
  BY <1>1, <1>2, KeyDownIs, Zenon
<1>4. /\ Shape(w) /\ SamePads(h, w) /\ SameFlags(h, w)
      /\ w.cells = h.cells \union KeyCell(inputJob, d) /\ w.kbd = h.kbd \union JoyLine(k)
      /\ w.held = (IF KeyCell(inputJob, d) # {} THEN h.held \union {d} ELSE h.held)
      /\ (w.redirect <=> (h.redirect \/ d # k))
  BY <1>3 DEF Downed
<1>5. w.held = h.held
  BY <1>4
<1>6. w.cells = h.cells
  <2>1. KeyCell(inputJob, d) \subseteq h.cells
    <3>1. CASE KeyCell(inputJob, d) = {}
      BY <3>1
    <3>2. CASE d \in h.held
      <4>1. KeyCell(inputJob, d) \subseteq KeysOf(inputJob, h.held)
        BY <3>2, SMT DEF KeysOf
      <4> QED BY <1>1, <4>1
    <3> QED BY <3>1, <3>2
  <2> QED BY <1>4, <2>1
<1>7. w.kbd = h.kbd
  <2>1. h.kbd = UNION {JoyLine(o) : o \in DOMAIN m}
    BY Zenon DEF KeyInv, Lined
  <2>2. JoyLine(k) \subseteq h.kbd
    BY <2>1, SMT
  <2> QED BY <1>4, <2>2
<1>8. w.redirect = h.redirect
  BY <1>1, <1>4, Zenon DEF Shape
<1> QED BY <1>2, <1>4, <1>5, <1>6, <1>7, <1>8, Zenon DEF Same, SameKeys

LEMMA RepeatSame ==
  ASSUME NEW h, NEW m, NEW programs, KeyInv(inputJob, h, m, programs), NEW k \in DOMAIN m,
         k \in {"f6", "f7"} \/ k = h.combo \/ m[k] = MeaningBy(inputJob, h, k)
  PROVE  Same(h, Pressed(h, k, TRUE))
<1>1. Shape(h) /\ inputJob.japanese \in BOOLEAN /\ k # NoKey /\ k # "zero_shift" /\ "zero_shift" \notin DOMAIN m
  <2>1. NoKey \notin DOMAIN m /\ "zero_shift" \notin DOMAIN m /\ inputJob.japanese \in BOOLEAN
    BY Zenon DEF KeyInv, Usable, Flagged
  <2> QED BY <2>1, Zenon DEF KeyInv, Keyed
<1>2. h.ctrl = DOMAIN m \intersect Ctrls /\ h.shift = DOMAIN m \intersect Shifts
  BY Zenon DEF KeyInv, Flagged
<1>3. \A x : x \in h.held <=> Counted(inputJob, h, m, x)
  BY Zenon DEF KeyInv
<1>4. <<k, h.shift # {}>> \in Bindings <=> k \in {"f6", "f7"}
  BY BindingsAre, Zenon
<1>5. CASE k \in Shifts
  <2>1. PICK v : v = [h EXCEPT !.shift = @ \union {k}]
    OBVIOUS
  <2>2. k \in Sides /\ k \notin Ctrls /\ k \notin {"f6", "f7"} /\ k \notin Fixed /\ k # "zero"
    BY <1>5, KindsAre, Zenon DEF Kinds
  <2>3. Pressed(h, k, TRUE) = IF h.active = NoKey THEN KeyDown(v, k) ELSE v
    BY <1>4, <1>5, <2>1, <2>2, Zenon DEF Pressed
  <2>4. Same(h, v)
    <3>1. v = [h EXCEPT !.shift = h.shift \union {k}] /\ h.shift \union {k} = h.shift
      BY <1>2, <1>5, <2>1
    <3>2. v = [h EXCEPT !.shift = h.shift]
      BY <3>1, Zenon
    <3>3. SameKeys(h, v) /\ FlagsAre(v, h.ctrl, h.combo, h.shift, h.active, h.ffHold)
      BY <1>1, <3>2, FlagsSet, Zenon
    <3> QED BY <3>3, Zenon DEF Same, SameFlags, FlagsAre
  <2>5. CASE h.active = NoKey
    <3>1. KeyInv(inputJob, v, m, programs)
      BY <2>4, SameKeeps, Zenon
    <3>2. k \in v.held
      <4>1. k \in h.held
        BY <1>3, <1>5, <2>5, Zenon DEF Counted
      <4> QED BY <2>4, <4>1, Zenon DEF Same, SameKeys
    <3>3. k = DownKey(inputJob, v, k)
      BY <2>2, Zenon DEF DownKey
    <3>4. Same(v, KeyDown(v, k))
      BY <3>1, <3>2, <3>3, DownAgain, Zenon
    <3> QED BY <2>3, <2>4, <2>5, <3>4, SameOn, Zenon
  <2>6. CASE h.active # NoKey
    BY <2>3, <2>4, <2>6, Zenon
  <2> QED BY <2>5, <2>6
<1>6. CASE k \in Ctrls
  <2>1. PICK v : v = [h EXCEPT !.ctrl = @ \union {k}]
    OBVIOUS
  <2>2. k \in Sides /\ k \notin Shifts /\ k \notin {"f6", "f7"} /\ k \notin Fixed /\ k # "zero" /\ k \notin FunctionKeys
    BY <1>6, KindsAre, Zenon DEF Kinds
  <2>3. Pressed(h, k, TRUE) = IF h.combo = NoKey THEN KeyDown(v, k) ELSE v
    <3>1. Pressed(h, k, TRUE) = ComboDown(h, k)
      BY <1>4, <2>2, Zenon DEF Pressed
    <3> QED BY <1>6, <2>1, <2>2, <3>1, KeysAre, Zenon DEF ComboDown
  <2>4. Same(h, v)
    <3>1. v = [h EXCEPT !.ctrl = h.ctrl \union {k}] /\ h.ctrl \union {k} = h.ctrl
      BY <1>2, <1>6, <2>1
    <3>2. v = [h EXCEPT !.ctrl = h.ctrl]
      BY <3>1, Zenon
    <3>3. SameKeys(h, v) /\ FlagsAre(v, h.ctrl, h.combo, h.shift, h.active, h.ffHold)
      BY <1>1, <3>2, FlagsSet, Zenon
    <3> QED BY <3>3, Zenon DEF Same, SameFlags, FlagsAre
  <2>5. CASE h.combo = NoKey
    <3>1. KeyInv(inputJob, v, m, programs)
      BY <2>4, SameKeeps, Zenon
    <3>2. k \in v.held
      <4>1. k \in h.held
        BY <1>3, <1>6, <2>5, Zenon DEF Counted
      <4> QED BY <2>4, <4>1, Zenon DEF Same, SameKeys
    <3>3. k = DownKey(inputJob, v, k)
      BY <2>2, Zenon DEF DownKey
    <3>4. Same(v, KeyDown(v, k))
      BY <3>1, <3>2, <3>3, DownAgain, Zenon
    <3> QED BY <2>3, <2>4, <2>5, <3>4, SameOn, Zenon
  <2>6. CASE h.combo # NoKey
    BY <2>3, <2>4, <2>6, Zenon
  <2> QED BY <2>5, <2>6
<1>7. CASE (k \in {"f6", "f7"} /\ h.ctrl = {}) \/ k \in Fixed
  <2>1. k \notin Shifts /\ (k \in Fixed => k \notin {"f6", "f7"})
    BY <1>7, KindsAre, SMT DEF Kinds
  <2>2. Pressed(h, k, TRUE) = h
    BY <1>4, <1>7, <2>1, Zenon DEF Pressed
  <2> QED BY <1>1, <2>2, SameSelf, Zenon
<1>8. CASE k \in FunctionKeys /\ h.ctrl # {}
  <2>1. k \notin Sides /\ k \notin Shifts /\ k \notin Ctrls /\ k \notin Fixed /\ k \notin {"f6", "f7"} /\ k # "zero"
    BY <1>8, KindsAre, SMT DEF Kinds
  <2>2. h.combo # NoKey
    <3>1. SUFFICES ASSUME h.combo = NoKey PROVE FALSE
      OBVIOUS
    <3>2. m[k] = Asks({CtrlFkeyCells[k]}, Ctrls)
      BY <1>1, <1>8, <2>1, <3>1, Zenon DEF MeaningBy
    <3>3. m[k].covers = {}
      <4>1. k # h.active
        BY <1>1, <2>1, Zenon DEF KeyInv, Flagged
      <4>2. m[k].covers = IF k = h.active THEN Shifts ELSE IF k = h.combo THEN Ctrls ELSE {}
        BY CoversIs, Zenon
      <4> QED BY <1>1, <3>1, <4>1, <4>2, Zenon
    <3>4. Asks({CtrlFkeyCells[k]}, Ctrls).covers = Ctrls
      BY AsksIs, Zenon
    <3> QED BY <3>2, <3>3, <3>4, MeansApart
  <2>3. Pressed(h, k, TRUE) = ComboDown(h, k)
    BY <1>4, <2>1, Zenon DEF Pressed
  <2>4. ComboDown(h, k) = h
    BY <1>8, <2>1, <2>2, KeysAre, Zenon DEF ComboDown
  <2> QED BY <1>1, <2>3, <2>4, SameSelf, Zenon
<1>9. CASE /\ k \notin Sides /\ ~(k \in {"f6", "f7"} /\ h.ctrl = {}) /\ k \notin Fixed
           /\ ~(k \in FunctionKeys /\ h.ctrl # {})
  <2>1. k \notin Shifts /\ k \notin Ctrls
    BY <1>9, KindsAre, SMT DEF Kinds
  <2>2. Pressed(h, k, TRUE) = KeyDown(h, k)
    <3>1. Pressed(h, k, TRUE) = ComboDown(h, k)
      BY <1>4, <1>9, <2>1, Zenon DEF Pressed
    <3> QED BY <1>9, <2>1, <3>1, KeysAre, Zenon DEF ComboDown
  <2>3. PICK d : d = DownKey(inputJob, h, k)
    OBVIOUS
  <2>4. d = IF k = "zero" /\ inputJob.japanese /\ h.shift # {} /\ h.active = NoKey THEN "zero_shift" ELSE k
    BY <2>3, DownKeyIs, Zenon
  <2>5. (KeyCell(inputJob, d) = {} \/ d \in h.held) /\ (d # k => h.redirect)
    <3>1. CASE k \in {"f6", "f7"}
      <4>1. KeyCell(inputJob, k) = {}
        BY <1>1, <3>1, CellsAre, SMT
      <4>2. d = k
        BY <2>4, <3>1, KindsAre, SMT DEF Kinds
      <4> QED BY <4>1, <4>2
    <3>2. CASE k \notin {"f6", "f7"}
      <4>1. k # h.combo
        BY <1>1, <1>9, Zenon DEF KeyInv, Flagged
      <4>2. m[k] = Means(KeyCell(inputJob, d))
        <5>1. MeaningBy(inputJob, h, k) = Means(KeyCell(inputJob, d))
          BY <1>9, <2>4, Zenon DEF MeaningBy
        <5> QED BY <3>2, <4>1, <5>1
      <4>3. CASE k = "zero"
        <5>1. m[k] = Means(KeyCell(inputJob, IF h.redirect THEN "zero_shift" ELSE "zero"))
          BY <4>3, Zenon DEF KeyInv, Understood
        <5>2. KeyCell(inputJob, d) = KeyCell(inputJob, IF h.redirect THEN "zero_shift" ELSE "zero")
          BY <4>2, <5>1, MeansApart, Zenon
        <5>3. inputJob.japanese => KeyCell(inputJob, "zero_shift") # KeyCell(inputJob, "zero")
          <6>1. inputJob.japanese => inputJob.japanese = TRUE
            BY <1>1
          <6> QED BY <6>1, ZerosAre, Zenon
        <5>4. h.redirect => inputJob.japanese
          BY Zenon DEF KeyInv, Flagged
        <5>5. d = IF h.redirect THEN "zero_shift" ELSE "zero"
          BY <2>4, <4>3, <5>2, <5>3, <5>4
        <5>6. Counted(inputJob, h, m, d)
          BY <4>3, <5>5 DEF Counted
        <5> QED BY <1>3, <4>3, <5>5, <5>6
      <4>4. CASE k # "zero"
        <5>1. d = k
          BY <2>4, <4>4
        <5>2. KeyCell(inputJob, k) # {} => Counted(inputJob, h, m, k)
          BY <1>9, <4>2, <4>4, <5>1, Zenon DEF Counted
        <5> QED BY <1>3, <5>1, <5>2, Zenon
      <4> QED BY <4>3, <4>4
    <3> QED BY <3>1, <3>2
  <2>6. Same(h, KeyDown(h, k))
    BY <2>3, <2>5, DownAgain, Zenon
  <2> QED BY <2>2, <2>6, Zenon
<1> QED BY <1>5, <1>6, <1>7, <1>8, <1>9, KindsAre, Zenon DEF Kinds

-----------------------------------------------------------------------------
(* A key is released: what it means is left out, and what the last side of *)
(* Shift or Ctrl was asked for lapses.                                     *)

Lapses(h, k, o) ==
  \/ o = h.active /\ k \in Shifts /\ h.shift \subseteq {k}
  \/ o = h.combo /\ k \in Ctrls /\ h.ctrl \subseteq {k}

Leaves(h, m, k, n) ==
  /\ k \in DOMAIN m /\ DOMAIN n = DOMAIN m \ {k}
  /\ \A o \in DOMAIN n : n[o] = IF Lapses(h, k, o) THEN Means({}) ELSE m[o]

LEMMA LinedLeaves ==
  ASSUME NEW h, NEW w, NEW m, NEW k, NEW n, Lined(h, m), Leaves(h, m, k, n), w.kbd = h.kbd \ JoyLine(k)
  PROVE  Lined(w, n)
<1>1. k \in DOMAIN m /\ DOMAIN n = DOMAIN m \ {k}
  BY Zenon DEF Leaves
<1>2. /\ h.kbd = UNION {JoyLine(o) : o \in DOMAIN m}
      /\ \A a, b \in DOMAIN m : a # b => JoyLine(a) \intersect JoyLine(b) = {}
  BY Zenon DEF Lined
<1>3. ASSUME NEW x PROVE x \in w.kbd <=> \E o \in DOMAIN n : x \in JoyLine(o)
  <2>1. x \in h.kbd <=> \E o \in DOMAIN m : x \in JoyLine(o)
    BY <1>2, SMT
  <2>2. x \in w.kbd <=> x \in h.kbd /\ x \notin JoyLine(k)
    OBVIOUS
  <2>3. \A o \in DOMAIN n : ~(x \in JoyLine(o) /\ x \in JoyLine(k))
    BY <1>1, <1>2
  <2> QED BY <1>1, <2>1, <2>2, <2>3
<1>4. w.kbd = UNION {JoyLine(o) : o \in DOMAIN n}
  BY <1>3, SMT
<1>5. \A a, b \in DOMAIN n : a # b => JoyLine(a) \intersect JoyLine(b) = {}
  BY <1>1, <1>2
<1> QED BY <1>4, <1>5, Zenon DEF Lined

\* What the flags of Shift and Ctrl say of each other.
LEMMA FlagsApart ==
  ASSUME NEW j, NEW h, NEW m, NEW programs, KeyInv(j, h, m, programs)
  PROVE  /\ DOMAIN m \subseteq j.keys /\ h.ctrl = DOMAIN m \intersect Ctrls /\ h.shift = DOMAIN m \intersect Shifts
         /\ h.redirect => "zero" \in DOMAIN m /\ j.japanese
         /\ h.active # NoKey => h.active \in {"f6", "f7"} /\ KeyCell(j, h.active) = {}
         /\ h.combo # NoKey => h.combo \in FunctionKeys /\ h.combo # h.active
         /\ NoKey \notin DOMAIN m /\ "zero_shift" \notin DOMAIN m /\ j.japanese \in BOOLEAN
<1>1. NoKey \notin DOMAIN m /\ "zero_shift" \notin DOMAIN m /\ j.japanese \in BOOLEAN
  BY Zenon DEF KeyInv, Usable, Flagged
<1>2. /\ h.active # NoKey => h.active \in {"f6", "f7"}
      /\ h.combo # NoKey => h.combo \in FunctionKeys
  BY Zenon DEF KeyInv, Flagged
<1>3. h.active # NoKey => KeyCell(j, h.active) = {}
  BY <1>1, <1>2, CellsAre, SMT
<1>4. h.combo # NoKey => h.combo # h.active
  BY <1>2, KindsAre, SMT DEF Kinds
<1>5. /\ DOMAIN m \subseteq j.keys /\ h.ctrl = DOMAIN m \intersect Ctrls /\ h.shift = DOMAIN m \intersect Shifts
      /\ h.redirect => "zero" \in DOMAIN m /\ j.japanese
  BY Zenon DEF KeyInv, Flagged
<1> QED BY <1>1, <1>2, <1>3, <1>4, <1>5, Zenon

\* A side of Shift, maybe the last.
LEMMA ShiftLeaves ==
  ASSUME NEW j, NEW h, NEW m, NEW programs, KeyInv(j, h, m, programs),
         NEW k \in Shifts, NEW n, Leaves(h, m, k, n),
         NEW w, Keyed(j, w, ComboCells(h) \union programs),
         w.held = h.held \ {k}, w.kbd = h.kbd \ JoyLine(k), w.redirect = h.redirect,
         FlagsAre(w, h.ctrl, h.combo, h.shift \ {k}, IF h.shift \subseteq {k} THEN NoKey ELSE h.active, h.ffHold)
  PROVE  KeyInv(j, w, n, programs)
<1>1. Lined(w, n)
  BY LinedLeaves, Zenon DEF KeyInv
<1>2. k \in Sides /\ k \notin Ctrls /\ k \notin FunctionKeys /\ k \notin {"f6", "f7"} /\ k # "zero" /\ k # "zero_shift"
  BY KindsAre, Zenon DEF Kinds
<1>3. /\ k \in DOMAIN m /\ DOMAIN n = DOMAIN m \ {k}
      /\ \A o \in DOMAIN n : n[o] = IF o = h.active /\ h.shift \subseteq {k} THEN Means({}) ELSE m[o]
  BY <1>2, Zenon DEF Leaves, Lapses
<1>4. /\ w.ctrl = h.ctrl /\ w.combo = h.combo /\ w.shift = h.shift \ {k} /\ w.ffHold = h.ffHold
      /\ w.active = IF h.shift \subseteq {k} THEN NoKey ELSE h.active
  BY Zenon DEF FlagsAre
<1>5. /\ DOMAIN m \subseteq j.keys /\ h.ctrl = DOMAIN m \intersect Ctrls /\ h.shift = DOMAIN m \intersect Shifts
      /\ h.redirect => "zero" \in DOMAIN m /\ j.japanese
      /\ h.active # NoKey => h.active \in {"f6", "f7"} /\ KeyCell(j, h.active) = {}
      /\ h.combo # NoKey => h.combo \in FunctionKeys /\ h.combo # h.active
      /\ NoKey \notin DOMAIN m /\ "zero_shift" \notin DOMAIN m /\ j.japanese \in BOOLEAN
  BY FlagsApart, Zenon
<1>6. Flagged(j, w, n)
  <2>1. /\ DOMAIN n \subseteq j.keys /\ w.ctrl = DOMAIN n \intersect Ctrls /\ w.shift = DOMAIN n \intersect Shifts
    BY <1>2, <1>3, <1>4, <1>5
  <2>2. w.redirect => "zero" \in DOMAIN n /\ j.japanese
    BY <1>2, <1>3, <1>5
  <2>3. ASSUME w.active # NoKey
        PROVE  w.active \in DOMAIN n /\ w.active \in {"f6", "f7"} /\ w.shift # {} /\ n[w.active] = Asks({}, Shifts)
    <3>1. w.active = h.active /\ ~(h.shift \subseteq {k})
      BY <1>4, <2>3
    <3>2. h.active \in DOMAIN m /\ h.active \in {"f6", "f7"} /\ m[h.active] = Asks({}, Shifts)
      BY <2>3, <3>1, Zenon DEF KeyInv, Flagged
    <3> QED BY <1>2, <1>3, <1>4, <3>1, <3>2
  <2>4. ASSUME w.combo # NoKey
        PROVE  /\ w.combo \in DOMAIN n /\ w.combo \in FunctionKeys /\ w.ctrl # {}
               /\ n[w.combo] = Asks({CtrlFkeyCells[w.combo]}, Ctrls)
               /\ \A o \in DOMAIN n : CtrlFkeyCells[w.combo] \notin KeyCell(j, o)
    <3>1. /\ h.combo \in DOMAIN m /\ h.combo \in FunctionKeys /\ h.ctrl # {}
          /\ m[h.combo] = Asks({CtrlFkeyCells[h.combo]}, Ctrls)
          /\ \A o \in DOMAIN m : CtrlFkeyCells[h.combo] \notin KeyCell(j, o)
      BY <1>4, <2>4, Zenon DEF KeyInv, Flagged
    <3> QED BY <1>2, <1>3, <1>4, <1>5, <2>4, <3>1
  <2>5. w.ffHold # NoKey => w.ffHold = "f7" /\ "f7" \in DOMAIN n /\ w.active # "f7"
    <3>1. h.ffHold # NoKey => h.ffHold = "f7" /\ "f7" \in DOMAIN m /\ h.active # "f7"
      BY Zenon DEF KeyInv, Flagged
    <3>2. NoKey # "f7"
      BY SMT DEF NoKey
    <3> QED BY <1>2, <1>3, <1>4, <3>1, <3>2
  <2> QED BY <2>1, <2>2, <2>3, <2>4, <2>5, Zenon DEF Flagged
<1>7. ASSUME NEW o \in DOMAIN n PROVE Understood(j, w, n, o)
  <2>1. Understood(j, h, m, o) /\ o \in DOMAIN m /\ o # NoKey
    BY <1>3, <1>5, <1>7, Zenon DEF KeyInv
  <2>2. CASE o = h.active /\ h.shift \subseteq {k}
    <3>1. n[o] = Means(KeyCell(j, o)) /\ o # "zero"
      BY <1>3, <1>5, <2>1, <2>2
    <3> QED BY <3>1, Zenon DEF Understood
  <2>3. CASE ~(o = h.active /\ h.shift \subseteq {k})
    <3>1. n[o] = m[o] /\ (o = h.active => o = w.active)
      BY <1>3, <1>4, <2>3
    <3> QED BY <1>4, <2>1, <3>1 DEF Understood
  <2> QED BY <2>2, <2>3
<1>8. ASSUME NEW x PROVE x \in w.held <=> Counted(j, w, n, x)
  <2>1. x \in h.held <=> Counted(j, h, m, x)
    BY Zenon DEF KeyInv
  <2>2. CASE x = k
    <3>1. ~Counted(j, w, n, x)
      BY <1>2, <1>3, <2>2 DEF Counted
    <3> QED BY <2>2, <3>1
  <2>3. CASE x # k /\ x \in Shifts
    <3>1. x \notin Ctrls /\ x \in Sides /\ x # "zero" /\ x # "zero_shift"
      BY <2>3, KindsAre, Zenon DEF Kinds
    <3>2. Counted(j, h, m, x) <=> x \in DOMAIN m /\ h.active = NoKey
      BY <2>3, <3>1, Zenon DEF Counted
    <3>3. Counted(j, w, n, x) <=> x \in DOMAIN n /\ w.active = NoKey
      BY <2>3, <3>1, Zenon DEF Counted
    <3> QED BY <1>3, <1>4, <1>5, <2>1, <2>3, <3>2, <3>3
  <2>4. CASE x # k /\ x \notin Shifts
    <3>1. x \in DOMAIN n => (KeyCell(j, x) # {} /\ n[x] = Means(KeyCell(j, x)) <=> KeyCell(j, x) # {} /\ m[x] = Means(KeyCell(j, x)))
      BY <1>3, <1>5
    <3>2. Counted(j, w, n, x) <=> Counted(j, h, m, x)
      BY <1>2, <1>3, <1>4, <2>4, <3>1 DEF Counted
    <3> QED BY <2>1, <2>4, <3>2
  <2> QED BY <2>2, <2>3, <2>4
<1>9. Keyed(j, w, ComboCells(w) \union programs)
  BY <1>4, Zenon DEF ComboCells
<1> QED BY <1>1, <1>6, <1>7, <1>8, <1>9, Zenon DEF KeyInv

\* A side of Ctrl, maybe the last: its combo ends.
LEMMA CtrlLeaves ==
  ASSUME NEW j, NEW h, NEW m, NEW programs, KeyInv(j, h, m, programs),
         NEW k \in Ctrls, NEW n, Leaves(h, m, k, n),
         NEW w, Keyed(j, w, ComboCells(w) \union programs),
         w.held = h.held \ {k}, w.kbd = h.kbd \ JoyLine(k), w.redirect = h.redirect,
         FlagsAre(w, h.ctrl \ {k}, IF h.ctrl \subseteq {k} THEN NoKey ELSE h.combo, h.shift, h.active, h.ffHold)
  PROVE  KeyInv(j, w, n, programs)
<1>1. Lined(w, n)
  BY LinedLeaves, Zenon DEF KeyInv
<1>2. k \in Sides /\ k \notin Shifts /\ k \notin FunctionKeys /\ k \notin {"f6", "f7"} /\ k # "zero" /\ k # "zero_shift"
  BY KindsAre, Zenon DEF Kinds
<1>3. /\ k \in DOMAIN m /\ DOMAIN n = DOMAIN m \ {k}
      /\ \A o \in DOMAIN n : n[o] = IF o = h.combo /\ h.ctrl \subseteq {k} THEN Means({}) ELSE m[o]
  BY <1>2, Zenon DEF Leaves, Lapses
<1>4. /\ w.ctrl = h.ctrl \ {k} /\ w.active = h.active /\ w.shift = h.shift /\ w.ffHold = h.ffHold
      /\ w.combo = IF h.ctrl \subseteq {k} THEN NoKey ELSE h.combo
  BY Zenon DEF FlagsAre
<1>5. /\ DOMAIN m \subseteq j.keys /\ h.ctrl = DOMAIN m \intersect Ctrls /\ h.shift = DOMAIN m \intersect Shifts
      /\ h.redirect => "zero" \in DOMAIN m /\ j.japanese
      /\ h.active # NoKey => h.active \in {"f6", "f7"} /\ KeyCell(j, h.active) = {}
      /\ h.combo # NoKey => h.combo \in FunctionKeys /\ h.combo # h.active
      /\ NoKey \notin DOMAIN m /\ "zero_shift" \notin DOMAIN m /\ j.japanese \in BOOLEAN
  BY FlagsApart, Zenon
<1>6. Flagged(j, w, n)
  <2>1. /\ DOMAIN n \subseteq j.keys /\ w.ctrl = DOMAIN n \intersect Ctrls /\ w.shift = DOMAIN n \intersect Shifts
    BY <1>2, <1>3, <1>4, <1>5
  <2>2. w.redirect => "zero" \in DOMAIN n /\ j.japanese
    BY <1>2, <1>3, <1>5
  <2>3. ASSUME w.active # NoKey
        PROVE  w.active \in DOMAIN n /\ w.active \in {"f6", "f7"} /\ w.shift # {} /\ n[w.active] = Asks({}, Shifts)
    <3>1. h.active \in DOMAIN m /\ h.active \in {"f6", "f7"} /\ h.shift # {} /\ m[h.active] = Asks({}, Shifts)
      BY <1>4, <2>3, Zenon DEF KeyInv, Flagged
    <3>2. h.active # h.combo
      BY <1>4, <1>5, <2>3
    <3> QED BY <1>2, <1>3, <1>4, <3>1, <3>2
  <2>4. ASSUME w.combo # NoKey
        PROVE  /\ w.combo \in DOMAIN n /\ w.combo \in FunctionKeys /\ w.ctrl # {}
               /\ n[w.combo] = Asks({CtrlFkeyCells[w.combo]}, Ctrls)
               /\ \A o \in DOMAIN n : CtrlFkeyCells[w.combo] \notin KeyCell(j, o)
    <3>1. w.combo = h.combo /\ ~(h.ctrl \subseteq {k})
      BY <1>4, <2>4
    <3>2. /\ h.combo \in DOMAIN m /\ h.combo \in FunctionKeys
          /\ m[h.combo] = Asks({CtrlFkeyCells[h.combo]}, Ctrls)
          /\ \A o \in DOMAIN m : CtrlFkeyCells[h.combo] \notin KeyCell(j, o)
      BY <2>4, <3>1, Zenon DEF KeyInv, Flagged
    <3> QED BY <1>2, <1>3, <1>4, <3>1, <3>2
  <2>5. w.ffHold # NoKey => w.ffHold = "f7" /\ "f7" \in DOMAIN n /\ w.active # "f7"
    <3>1. h.ffHold # NoKey => h.ffHold = "f7" /\ "f7" \in DOMAIN m /\ h.active # "f7"
      BY Zenon DEF KeyInv, Flagged
    <3> QED BY <1>2, <1>3, <1>4, <3>1
  <2> QED BY <2>1, <2>2, <2>3, <2>4, <2>5, Zenon DEF Flagged
<1>7. ASSUME NEW o \in DOMAIN n PROVE Understood(j, w, n, o)
  <2>1. Understood(j, h, m, o) /\ o \in DOMAIN m /\ o # NoKey
    BY <1>3, <1>5, <1>7, Zenon DEF KeyInv
  <2>2. CASE o = h.combo /\ h.ctrl \subseteq {k}
    <3>1. n[o] = Means({}) /\ o \in FunctionKeys /\ o # "zero" /\ o \notin Sides
      BY <1>3, <1>5, <2>1, <2>2, KindsAre, SMT DEF Kinds
    <3> QED BY <3>1, Zenon DEF Understood
  <2>3. CASE ~(o = h.combo /\ h.ctrl \subseteq {k})
    <3>1. n[o] = m[o] /\ (o = h.combo => o = w.combo)
      BY <1>3, <1>4, <2>3
    <3> QED BY <1>4, <2>1, <3>1 DEF Understood
  <2> QED BY <2>2, <2>3
<1>8. ASSUME NEW x PROVE x \in w.held <=> Counted(j, w, n, x)
  <2>1. x \in h.held <=> Counted(j, h, m, x)
    BY Zenon DEF KeyInv
  <2>2. CASE x = k
    <3>1. ~Counted(j, w, n, x)
      BY <1>2, <1>3, <2>2 DEF Counted
    <3> QED BY <2>2, <3>1
  <2>3. CASE x # k /\ x \in Ctrls
    <3>1. x \notin Shifts /\ x \in Sides /\ x # "zero" /\ x # "zero_shift"
      BY <2>3, KindsAre, Zenon DEF Kinds
    <3>2. Counted(j, h, m, x) <=> x \in DOMAIN m /\ h.combo = NoKey
      BY <2>3, <3>1, Zenon DEF Counted
    <3>3. Counted(j, w, n, x) <=> x \in DOMAIN n /\ w.combo = NoKey
      BY <2>3, <3>1, Zenon DEF Counted
    <3> QED BY <1>3, <1>4, <1>5, <2>1, <2>3, <3>2, <3>3
  <2>4. CASE x # k /\ x \notin Ctrls
    <3>1. x \in DOMAIN n => (KeyCell(j, x) # {} /\ n[x] = Means(KeyCell(j, x)) <=> KeyCell(j, x) # {} /\ m[x] = Means(KeyCell(j, x)))
      <4>1. CASE x = h.combo /\ h.ctrl \subseteq {k} /\ x \in DOMAIN n
        <5>1. n[x] = Means({}) /\ x \in DOMAIN m /\ x # NoKey
          BY <1>3, <1>5, <4>1
        <5>2. m[x] = Asks({CtrlFkeyCells[x]}, Ctrls)
          BY <4>1, <5>1, Zenon DEF KeyInv, Flagged
        <5>3. m[x] # Means(KeyCell(j, x)) /\ (n[x] = Means(KeyCell(j, x)) => KeyCell(j, x) = {})
          BY <5>1, <5>2, MeansApart, Zenon
        <5> QED BY <5>3
      <4>2. CASE ~(x = h.combo /\ h.ctrl \subseteq {k})
        BY <1>3, <4>2
      <4> QED BY <4>1, <4>2
    <3>2. Counted(j, w, n, x) <=> Counted(j, h, m, x)
      BY <1>2, <1>3, <1>4, <2>4, <3>1 DEF Counted
    <3> QED BY <2>1, <2>4, <3>2
  <2> QED BY <2>2, <2>3, <2>4
<1> QED BY <1>1, <1>6, <1>7, <1>8, Zenon DEF KeyInv

\* The hotkey of Shift: the sides that are still held count again.
LEMMA HotkeyLeaves ==
  ASSUME NEW j, NEW h, NEW m, NEW programs, KeyInv(j, h, m, programs),
         NEW k, k = h.active, k # NoKey, NEW n, Leaves(h, m, k, n),
         NEW w, Keyed(j, w, ComboCells(h) \union programs),
         w.held = h.held \union h.shift, w.kbd = h.kbd \ JoyLine(k), w.redirect = h.redirect,
         FlagsAre(w, h.ctrl, h.combo, h.shift, NoKey, h.ffHold)
  PROVE  KeyInv(j, w, n, programs)
<1>1. Lined(w, n)
  BY LinedLeaves, Zenon DEF KeyInv
<1>2. k \in {"f6", "f7"} /\ KeyCell(j, k) = {}
  BY FlagsApart, Zenon
<1>3. k \notin Sides /\ k \notin Shifts /\ k \notin Ctrls /\ k \notin FunctionKeys /\ k # "zero" /\ k # "zero_shift"
  BY <1>2, KindsAre, SMT DEF Kinds
<1>4. k \in DOMAIN m /\ DOMAIN n = DOMAIN m \ {k} /\ \A o \in DOMAIN n : n[o] = m[o]
  BY <1>3, Zenon DEF Leaves, Lapses
<1>5. w.ctrl = h.ctrl /\ w.combo = h.combo /\ w.shift = h.shift /\ w.ffHold = h.ffHold /\ w.active = NoKey
  BY Zenon DEF FlagsAre
<1>6. /\ DOMAIN m \subseteq j.keys /\ h.ctrl = DOMAIN m \intersect Ctrls /\ h.shift = DOMAIN m \intersect Shifts
      /\ h.redirect => "zero" \in DOMAIN m /\ j.japanese
      /\ h.combo # NoKey => h.combo \in FunctionKeys /\ h.combo # h.active
      /\ NoKey \notin DOMAIN m /\ "zero_shift" \notin DOMAIN m
  BY FlagsApart, Zenon
<1>7. Flagged(j, w, n)
  <2>1. /\ DOMAIN n \subseteq j.keys /\ w.ctrl = DOMAIN n \intersect Ctrls /\ w.shift = DOMAIN n \intersect Shifts
    BY <1>3, <1>4, <1>5, <1>6
  <2>2. w.redirect => "zero" \in DOMAIN n /\ j.japanese
    BY <1>3, <1>4, <1>6
  <2>3. ASSUME w.combo # NoKey
        PROVE  /\ w.combo \in DOMAIN n /\ w.combo \in FunctionKeys /\ w.ctrl # {}
               /\ n[w.combo] = Asks({CtrlFkeyCells[w.combo]}, Ctrls)
               /\ \A o \in DOMAIN n : CtrlFkeyCells[w.combo] \notin KeyCell(j, o)
    <3>1. /\ h.combo \in DOMAIN m /\ h.combo \in FunctionKeys /\ h.ctrl # {}
          /\ m[h.combo] = Asks({CtrlFkeyCells[h.combo]}, Ctrls)
          /\ \A o \in DOMAIN m : CtrlFkeyCells[h.combo] \notin KeyCell(j, o)
      BY <1>5, <2>3, Zenon DEF KeyInv, Flagged
    <3> QED BY <1>3, <1>4, <1>5, <3>1
  <2>4. w.ffHold # NoKey => w.ffHold = "f7" /\ "f7" \in DOMAIN n /\ w.active # "f7"
    <3>1. h.ffHold # NoKey => h.ffHold = "f7" /\ "f7" \in DOMAIN m /\ h.active # "f7"
      BY Zenon DEF KeyInv, Flagged
    <3>2. NoKey # "f7"
      BY SMT DEF NoKey
    <3> QED BY <1>4, <1>5, <3>1, <3>2
  <2> QED BY <1>5, <2>1, <2>2, <2>3, <2>4, Zenon DEF Flagged
<1>8. ASSUME NEW o \in DOMAIN n PROVE Understood(j, w, n, o)
  <2>1. Understood(j, h, m, o) /\ n[o] = m[o] /\ o # h.active
    BY <1>4, <1>8, Zenon DEF KeyInv
  <2> QED BY <1>5, <2>1 DEF Understood
<1>9. ASSUME NEW x PROVE x \in w.held <=> Counted(j, w, n, x)
  <2>1. x \in h.held <=> Counted(j, h, m, x)
    BY Zenon DEF KeyInv
  <2>2. CASE x = k
    <3>1. ~Counted(j, w, n, x) /\ ~Counted(j, h, m, x)
      BY <1>2, <1>3, <1>4, <2>2 DEF Counted
    <3> QED BY <1>3, <1>6, <2>1, <2>2, <3>1
  <2>3. CASE x # k /\ x \in Shifts
    <3>1. x \notin Ctrls /\ x \in Sides /\ x # "zero" /\ x # "zero_shift"
      BY <2>3, KindsAre, Zenon DEF Kinds
    <3>2. Counted(j, h, m, x) => x \in DOMAIN m
      BY <3>1, Zenon DEF Counted
    <3>3. Counted(j, w, n, x) <=> x \in DOMAIN n
      BY <1>5, <2>3, <3>1, Zenon DEF Counted
    <3> QED BY <1>4, <1>6, <2>1, <2>3, <3>2, <3>3
  <2>4. CASE x # k /\ x \notin Shifts
    <3>1. Counted(j, w, n, x) <=> Counted(j, h, m, x)
      BY <1>3, <1>4, <1>5, <2>4 DEF Counted
    <3> QED BY <1>6, <2>1, <2>4, <3>1
  <2> QED BY <2>2, <2>3, <2>4
<1>10. Keyed(j, w, ComboCells(w) \union programs)
  BY <1>5, Zenon DEF ComboCells
<1> QED BY <1>1, <1>7, <1>8, <1>9, <1>10, Zenon DEF KeyInv

\* The function key of the combo: Ctrl counts again for the sides that are still held.
LEMMA ComboLeaves ==
  ASSUME NEW j, NEW h, NEW m, NEW programs, KeyInv(j, h, m, programs),
         NEW k, k = h.combo, k # NoKey, NEW n, Leaves(h, m, k, n),
         NEW w, Keyed(j, w, programs),
         w.held = h.held \union h.ctrl, w.kbd = h.kbd \ JoyLine(k), w.redirect = h.redirect,
         FlagsAre(w, h.ctrl, NoKey, h.shift, h.active, h.ffHold)
  PROVE  KeyInv(j, w, n, programs)
<1>1. Lined(w, n)
  BY LinedLeaves, Zenon DEF KeyInv
<1>2. k \in FunctionKeys
  BY FlagsApart, Zenon
<1>3. k \notin Sides /\ k \notin Shifts /\ k \notin Ctrls /\ k \notin {"f6", "f7"} /\ k # "zero" /\ k # "zero_shift"
  BY <1>2, KindsAre, SMT DEF Kinds
<1>4. k \in DOMAIN m /\ DOMAIN n = DOMAIN m \ {k} /\ \A o \in DOMAIN n : n[o] = m[o]
  BY <1>3, Zenon DEF Leaves, Lapses
<1>5. w.ctrl = h.ctrl /\ w.combo = NoKey /\ w.shift = h.shift /\ w.ffHold = h.ffHold /\ w.active = h.active
  BY Zenon DEF FlagsAre
<1>6. /\ DOMAIN m \subseteq j.keys /\ h.ctrl = DOMAIN m \intersect Ctrls /\ h.shift = DOMAIN m \intersect Shifts
      /\ h.redirect => "zero" \in DOMAIN m /\ j.japanese
      /\ NoKey \notin DOMAIN m /\ "zero_shift" \notin DOMAIN m
  BY FlagsApart, Zenon
<1>7. Flagged(j, w, n)
  <2>1. /\ DOMAIN n \subseteq j.keys /\ w.ctrl = DOMAIN n \intersect Ctrls /\ w.shift = DOMAIN n \intersect Shifts
    BY <1>3, <1>4, <1>5, <1>6
  <2>2. w.redirect => "zero" \in DOMAIN n /\ j.japanese
    BY <1>3, <1>4, <1>6
  <2>3. ASSUME w.active # NoKey
        PROVE  w.active \in DOMAIN n /\ w.active \in {"f6", "f7"} /\ w.shift # {} /\ n[w.active] = Asks({}, Shifts)
    <3>1. h.active \in DOMAIN m /\ h.active \in {"f6", "f7"} /\ h.shift # {} /\ m[h.active] = Asks({}, Shifts)
      BY <1>5, <2>3, Zenon DEF KeyInv, Flagged
    <3> QED BY <1>3, <1>4, <1>5, <3>1
  <2>4. w.ffHold # NoKey => w.ffHold = "f7" /\ "f7" \in DOMAIN n /\ w.active # "f7"
    <3>1. h.ffHold # NoKey => h.ffHold = "f7" /\ "f7" \in DOMAIN m /\ h.active # "f7"
      BY Zenon DEF KeyInv, Flagged
    <3> QED BY <1>3, <1>4, <1>5, <3>1
  <2> QED BY <1>5, <2>1, <2>2, <2>3, <2>4, Zenon DEF Flagged
<1>8. ASSUME NEW o \in DOMAIN n PROVE Understood(j, w, n, o)
  <2>1. Understood(j, h, m, o) /\ n[o] = m[o] /\ o # h.combo
    BY <1>4, <1>8, Zenon DEF KeyInv
  <2> QED BY <1>5, <2>1 DEF Understood
<1>9. ASSUME NEW x PROVE x \in w.held <=> Counted(j, w, n, x)
  <2>1. x \in h.held <=> Counted(j, h, m, x)
    BY Zenon DEF KeyInv
  <2>2. CASE x = k
    <3>1. m[k] # Means(KeyCell(j, k))
      <4>1. m[k] = Asks({CtrlFkeyCells[k]}, Ctrls)
        BY Zenon DEF KeyInv, Flagged
      <4> QED BY <4>1, MeansApart, Zenon
    <3>2. ~Counted(j, w, n, x) /\ ~Counted(j, h, m, x)
      BY <1>3, <1>4, <2>2, <3>1 DEF Counted
    <3> QED BY <1>3, <1>6, <2>1, <2>2, <3>2
  <2>3. CASE x # k /\ x \in Ctrls
    <3>1. x \notin Shifts /\ x \in Sides /\ x # "zero" /\ x # "zero_shift"
      BY <2>3, KindsAre, Zenon DEF Kinds
    <3>2. Counted(j, h, m, x) => x \in DOMAIN m
      BY <3>1, Zenon DEF Counted
    <3>3. Counted(j, w, n, x) <=> x \in DOMAIN n
      BY <1>5, <2>3, <3>1, Zenon DEF Counted
    <3> QED BY <1>4, <1>6, <2>1, <2>3, <3>2, <3>3
  <2>4. CASE x # k /\ x \notin Ctrls
    <3>1. Counted(j, w, n, x) <=> Counted(j, h, m, x)
      BY <1>3, <1>4, <1>5, <2>4 DEF Counted
    <3> QED BY <1>6, <2>1, <2>4, <3>1
  <2> QED BY <2>2, <2>3, <2>4
<1>10. Keyed(j, w, ComboCells(w) \union programs)
  <2>1. ComboCells(w) \union programs = programs
    BY <1>5 DEF ComboCells
  <2> QED BY <2>1, Zenon
<1> QED BY <1>1, <1>7, <1>8, <1>9, <1>10, Zenon DEF KeyInv

\* Fast forward ends.
LEMMA HoldLeaves ==
  ASSUME NEW j, NEW h, NEW m, NEW programs, KeyInv(j, h, m, programs),
         NEW k, k = h.ffHold, k # NoKey, NEW n, Leaves(h, m, k, n),
         NEW w, SameKeys(h, w), FlagsAre(w, h.ctrl, h.combo, h.shift, h.active, NoKey)
  PROVE  KeyInv(j, w, n, programs)
<1>1. /\ w.held = h.held /\ w.redirect = h.redirect /\ w.kbd = h.kbd
      /\ Keyed(j, w, ComboCells(h) \union programs)
  BY SameKeyed, Zenon DEF SameKeys, KeyInv
<1>2. k = "f7" /\ h.active # k /\ KeyCell(j, k) = {} /\ JoyLine(k) = {}
  <2>1. k = "f7" /\ h.active # "f7"
    BY Zenon DEF KeyInv, Flagged
  <2>2. KeyCell(j, "f7") = {}
    <3>1. j.japanese \in BOOLEAN
      BY Zenon DEF KeyInv, Usable
    <3> QED BY <3>1, CellsAre, SMT
  <2>3. JoyLine("f7") = {}
    BY LinesAre, SMT
  <2> QED BY <2>1, <2>2, <2>3
<1>3. k \notin Sides /\ k \notin Shifts /\ k \notin Ctrls /\ k \notin FunctionKeys /\ k # "zero" /\ k # "zero_shift"
  BY <1>2, KindsAre, SMT DEF Kinds
<1>4. k \in DOMAIN m /\ DOMAIN n = DOMAIN m \ {k} /\ \A o \in DOMAIN n : n[o] = m[o]
  BY <1>3, Zenon DEF Leaves, Lapses
<1>5. w.ctrl = h.ctrl /\ w.combo = h.combo /\ w.shift = h.shift /\ w.ffHold = NoKey /\ w.active = h.active
  BY Zenon DEF FlagsAre
<1>6. /\ DOMAIN m \subseteq j.keys /\ h.ctrl = DOMAIN m \intersect Ctrls /\ h.shift = DOMAIN m \intersect Shifts
      /\ w.redirect => "zero" \in DOMAIN m /\ j.japanese
      /\ NoKey \notin DOMAIN m /\ "zero_shift" \notin DOMAIN m
  BY <1>1, FlagsApart, Zenon
<1>7. Flagged(j, w, n)
  <2>1. /\ DOMAIN n \subseteq j.keys /\ w.ctrl = DOMAIN n \intersect Ctrls /\ w.shift = DOMAIN n \intersect Shifts
    BY <1>3, <1>4, <1>5, <1>6
  <2>2. w.redirect => "zero" \in DOMAIN n /\ j.japanese
    BY <1>3, <1>4, <1>6
  <2>3. ASSUME w.active # NoKey
        PROVE  w.active \in DOMAIN n /\ w.active \in {"f6", "f7"} /\ w.shift # {} /\ n[w.active] = Asks({}, Shifts)
    <3>1. h.active \in DOMAIN m /\ h.active \in {"f6", "f7"} /\ h.shift # {} /\ m[h.active] = Asks({}, Shifts)
      BY <1>5, <2>3, Zenon DEF KeyInv, Flagged
    <3> QED BY <1>2, <1>3, <1>4, <1>5, <3>1
  <2>4. ASSUME w.combo # NoKey
        PROVE  /\ w.combo \in DOMAIN n /\ w.combo \in FunctionKeys /\ w.ctrl # {}
               /\ n[w.combo] = Asks({CtrlFkeyCells[w.combo]}, Ctrls)
               /\ \A o \in DOMAIN n : CtrlFkeyCells[w.combo] \notin KeyCell(j, o)
    <3>1. /\ h.combo \in DOMAIN m /\ h.combo \in FunctionKeys /\ h.ctrl # {}
          /\ m[h.combo] = Asks({CtrlFkeyCells[h.combo]}, Ctrls)
          /\ \A o \in DOMAIN m : CtrlFkeyCells[h.combo] \notin KeyCell(j, o)
      BY <1>5, <2>4, Zenon DEF KeyInv, Flagged
    <3> QED BY <1>3, <1>4, <1>5, <3>1
  <2>5. w.ffHold # NoKey => w.ffHold = "f7" /\ "f7" \in DOMAIN n /\ w.active # "f7"
    BY <1>5
  <2> QED BY <1>5, <2>1, <2>2, <2>3, <2>4, <2>5, Zenon DEF Flagged
<1>8. Lined(w, n)
  <2>1. w.kbd = h.kbd \ JoyLine(k)
    BY <1>1, <1>2
  <2> QED BY <2>1, LinedLeaves, Zenon DEF KeyInv
<1>9. ASSUME NEW o \in DOMAIN n PROVE Understood(j, w, n, o)
  <2>1. Understood(j, h, m, o) /\ n[o] = m[o]
    BY <1>4, <1>9, Zenon DEF KeyInv
  <2> QED BY <1>1, <1>5, <2>1 DEF Understood
<1>10. ASSUME NEW x PROVE x \in w.held <=> Counted(j, w, n, x)
  <2>1. x \in h.held <=> Counted(j, h, m, x)
    BY Zenon DEF KeyInv
  <2>2. Counted(j, w, n, x) <=> Counted(j, h, m, x)
    BY <1>1, <1>2, <1>3, <1>4, <1>5 DEF Counted
  <2> QED BY <1>1, <2>1, <2>2
<1>11. Keyed(j, w, ComboCells(w) \union programs)
  BY <1>1, <1>5, Zenon DEF ComboCells
<1> QED BY <1>7, <1>8, <1>9, <1>10, <1>11, Zenon DEF KeyInv

\* Any other key.
LEMMA KeyLeaves ==
  ASSUME NEW j, NEW h, NEW m, NEW programs, KeyInv(j, h, m, programs),
         NEW k, k \notin Sides, k # h.active, k # h.combo, k # h.ffHold, NEW n, Leaves(h, m, k, n),
         NEW w, Upped(j, h, k, w), Keyed(j, w, ComboCells(h) \union programs)
  PROVE  KeyInv(j, w, n, programs)
<1>1. PICK d : d = UpKey(h, k)
  OBVIOUS
<1>2. /\ w.held = h.held \ {d} /\ w.kbd = h.kbd \ JoyLine(k) /\ (w.redirect <=> (h.redirect /\ k # "zero"))
      /\ SameFlags(h, w)
  BY <1>1, Zenon DEF Upped
<1>3. k \notin Shifts /\ k \notin Ctrls /\ (d = IF k = "zero" /\ h.redirect THEN "zero_shift" ELSE k)
  BY <1>1, KindsAre, Zenon DEF Kinds, UpKey
<1>4. k \in DOMAIN m /\ DOMAIN n = DOMAIN m \ {k} /\ \A o \in DOMAIN n : n[o] = m[o]
  BY <1>3, Zenon DEF Leaves, Lapses
<1>5. w.ctrl = h.ctrl /\ w.combo = h.combo /\ w.shift = h.shift /\ w.ffHold = h.ffHold /\ w.active = h.active
  BY <1>2, Zenon DEF SameFlags
<1>6. /\ DOMAIN m \subseteq j.keys /\ h.ctrl = DOMAIN m \intersect Ctrls /\ h.shift = DOMAIN m \intersect Shifts
      /\ w.redirect => "zero" \in DOMAIN m /\ k # "zero" /\ j.japanese
      /\ NoKey \notin DOMAIN m /\ "zero_shift" \notin DOMAIN m
  BY <1>2, FlagsApart, Zenon
<1>7. Flagged(j, w, n)
  <2>1. /\ DOMAIN n \subseteq j.keys /\ w.ctrl = DOMAIN n \intersect Ctrls /\ w.shift = DOMAIN n \intersect Shifts
    BY <1>3, <1>4, <1>5, <1>6
  <2>2. w.redirect => "zero" \in DOMAIN n /\ j.japanese
    BY <1>3, <1>4, <1>6
  <2>3. ASSUME w.active # NoKey
        PROVE  w.active \in DOMAIN n /\ w.active \in {"f6", "f7"} /\ w.shift # {} /\ n[w.active] = Asks({}, Shifts)
    <3>1. h.active \in DOMAIN m /\ h.active \in {"f6", "f7"} /\ h.shift # {} /\ m[h.active] = Asks({}, Shifts)
      BY <1>5, <2>3, Zenon DEF KeyInv, Flagged
    <3> QED BY <1>3, <1>4, <1>5, <3>1
  <2>4. ASSUME w.combo # NoKey
        PROVE  /\ w.combo \in DOMAIN n /\ w.combo \in FunctionKeys /\ w.ctrl # {}
               /\ n[w.combo] = Asks({CtrlFkeyCells[w.combo]}, Ctrls)
               /\ \A o \in DOMAIN n : CtrlFkeyCells[w.combo] \notin KeyCell(j, o)
    <3>1. /\ h.combo \in DOMAIN m /\ h.combo \in FunctionKeys /\ h.ctrl # {}
          /\ m[h.combo] = Asks({CtrlFkeyCells[h.combo]}, Ctrls)
          /\ \A o \in DOMAIN m : CtrlFkeyCells[h.combo] \notin KeyCell(j, o)
      BY <1>5, <2>4, Zenon DEF KeyInv, Flagged
    <3> QED BY <1>3, <1>4, <1>5, <3>1
  <2>5. w.ffHold # NoKey => w.ffHold = "f7" /\ "f7" \in DOMAIN n /\ w.active # "f7"
    <3>1. h.ffHold # NoKey => h.ffHold = "f7" /\ "f7" \in DOMAIN m /\ h.active # "f7"
      BY Zenon DEF KeyInv, Flagged
    <3> QED BY <1>4, <1>5, <3>1
  <2> QED BY <1>5, <2>1, <2>2, <2>3, <2>4, <2>5, Zenon DEF Flagged
<1>8. Lined(w, n)
  BY <1>2, LinedLeaves, Zenon DEF KeyInv
<1>9. ASSUME NEW o \in DOMAIN n PROVE Understood(j, w, n, o)
  <2>1. Understood(j, h, m, o) /\ n[o] = m[o] /\ o # k
    BY <1>4, <1>9, Zenon DEF KeyInv
  <2>2. o = "zero" => (w.redirect <=> h.redirect)
    BY <1>2, <2>1
  <2> QED BY <1>5, <2>1, <2>2 DEF Understood
<1>10. ASSUME NEW x PROVE x \in w.held <=> Counted(j, w, n, x)
  <2>0. "zero" # "zero_shift" /\ "zero" \notin Sides /\ "zero_shift" \notin Sides /\ Shifts \subseteq Sides /\ Ctrls \subseteq Sides
    BY KindsAre, Zenon DEF Kinds
  <2>1. x \in h.held <=> Counted(j, h, m, x)
    BY Zenon DEF KeyInv
  <2>2. CASE k = "zero"
    <3>1. CASE x = "zero" \/ x = "zero_shift"
      <4>1. ~Counted(j, w, n, x)
        BY <1>2, <1>4, <1>6, <2>0, <2>2, <3>1 DEF Counted
      <4>2. Counted(j, h, m, x) => x = d
        BY <1>3, <1>6, <2>0, <2>2, <3>1 DEF Counted
      <4> QED BY <1>2, <2>1, <4>1, <4>2
    <3>2. CASE x # "zero" /\ x # "zero_shift"
      <4>1. Counted(j, w, n, x) <=> Counted(j, h, m, x)
        BY <1>4, <1>5, <2>2, <3>2 DEF Counted
      <4> QED BY <1>2, <1>3, <2>1, <2>2, <3>2, <4>1
    <3> QED BY <3>1, <3>2
  <2>3. CASE k # "zero"
    <3>1. d = k /\ (w.redirect <=> h.redirect) /\ k # "zero_shift"
      BY <1>2, <1>3, <1>4, <1>6, <2>3
    <3>2. CASE x = k
      <4>1. ~Counted(j, w, n, x)
        BY <1>4, <2>3, <3>1, <3>2 DEF Counted
      <4> QED BY <1>2, <3>1, <3>2, <4>1
    <3>3. CASE x # k
      <4>1. Counted(j, w, n, x) <=> Counted(j, h, m, x)
        BY <1>4, <1>5, <2>3, <3>1, <3>3 DEF Counted
      <4> QED BY <1>2, <2>1, <3>1, <3>3, <4>1
    <3> QED BY <3>2, <3>3
  <2> QED BY <2>2, <2>3
<1>11. Keyed(j, w, ComboCells(w) \union programs)
  BY <1>5, Zenon DEF ComboCells
<1> QED BY <1>7, <1>8, <1>9, <1>10, <1>11, Zenon DEF KeyInv

-----------------------------------------------------------------------------
(* ReleaseHostKey.                                                         *)

\* The cell of a combo is no cell of a key that is counted, or of a program.
LEMMA ComboApart ==
  ASSUME NEW j, NEW h, NEW m, NEW programs, KeyInv(j, h, m, programs)
  PROVE  ComboCells(h) \intersect KeysOf(j, h.held) = {} /\ ComboCells(h) \intersect programs = {}
<1>1. ASSUME NEW x \in h.held PROVE ComboCells(h) \intersect KeyCell(j, x) = {}
  <2>1. Counted(j, h, m, x)
    BY <1>1, Zenon DEF KeyInv
  <2>2. x \in DOMAIN m \union Sides \union {"zero", "zero_shift"}
    BY <2>1, Zenon DEF Counted
  <2> QED BY <2>2, OthersApart, Zenon
<1>2. ComboCells(h) \intersect KeysOf(j, h.held) = {}
  <2>1. ASSUME NEW c \in ComboCells(h), c \in KeysOf(j, h.held) PROVE FALSE
    <3>1. PICK x \in h.held : c \in KeyCell(j, x)
      BY <2>1, SMT DEF KeysOf
    <3> QED BY <1>1, <2>1, <3>1, Zenon
  <2> QED BY <2>1, Zenon
<1>3. ComboCells(h) \intersect programs = {}
  <2>1. CASE h.combo = NoKey
    BY <2>1, Zenon DEF ComboCells
  <2>2. CASE h.combo # NoKey
    <3>1. h.combo \in j.keys \intersect FunctionKeys
      <4>1. h.combo \in DOMAIN m /\ h.combo \in FunctionKeys /\ DOMAIN m \subseteq j.keys
        BY <2>2, Zenon DEF KeyInv, Flagged
      <4> QED BY <4>1
    <3>2. CtrlFkeyCells[h.combo] \notin programs
      BY <3>1, OthersApart, Zenon
    <3> QED BY <2>2, <3>2 DEF ComboCells
  <2> QED BY <2>1, <2>2
<1> QED BY <1>2, <1>3

Ended(j, h, programs, w) ==
  /\ Keyed(j, w, programs) /\ SamePads(h, w)
  /\ w.held = h.held /\ w.kbd = h.kbd /\ w.redirect = h.redirect
  /\ FlagsAre(w, h.ctrl, NoKey, h.shift, h.active, h.ffHold)

LEMMA ComboEnds ==
  ASSUME NEW j, NEW h, NEW programs, Keyed(j, h, ComboCells(h) \union programs),
         ComboCells(h) \intersect KeysOf(j, h.held) = {}, ComboCells(h) \intersect programs = {}
  PROVE  Ended(j, h, programs, ComboEnded(h))
<1>0. PICK w : w = ComboEnded(h)
  OBVIOUS
<1>1. Shape(h) /\ h.cells = KeysOf(j, h.held) \union (ComboCells(h) \union programs)
  BY Zenon DEF Keyed
<1>2. PICK v : v = [h EXCEPT !.combo = NoKey]
  OBVIOUS
<1>3. PICK cells : cells = h.cells \ ComboCells(h)
  OBVIOUS
<1>4. SameKeys(h, v) /\ FlagsAre(v, h.ctrl, NoKey, h.shift, h.active, h.ffHold)
  BY <1>1, <1>2, FlagsSet, Zenon
<1>5. w = [v EXCEPT !.cells = cells]
  <2>1. cells = IF h.combo = NoKey THEN h.cells ELSE h.cells \ {CtrlFkeyCells[h.combo]}
    BY <1>3 DEF ComboCells
  <2>2. w = [h EXCEPT !.combo = NoKey, !.cells = cells]
    BY <1>0, <2>1, Zenon DEF ComboEnded
  <2> QED BY <1>2, <2>2, Zenon
<1>6. /\ Shape(w) /\ SamePads(v, w) /\ SameFlags(v, w)
      /\ w.cells = cells /\ w.kbd = v.kbd /\ w.held = v.held /\ w.redirect = v.redirect
  <2>1. Shape(v)
    BY <1>4, Zenon DEF SameKeys
  <2> QED BY SMT, <1>5, <2>1 DEF Shape, InputFields, SamePads, SameFlags
<1>7. w.held = h.held /\ w.kbd = h.kbd /\ w.redirect = h.redirect /\ SamePads(h, w)
  BY <1>4, <1>6, Zenon DEF SameKeys, SamePads
<1>8. FlagsAre(w, h.ctrl, NoKey, h.shift, h.active, h.ffHold)
  BY <1>4, <1>6, Zenon DEF SameFlags, FlagsAre
<1>9. cells = KeysOf(j, h.held) \union programs
  BY <1>1, <1>3
<1>10. Keyed(j, w, programs)
  BY <1>6, <1>7, <1>9, Zenon DEF Keyed
<1> QED BY <1>0, <1>7, <1>8, <1>10, Zenon DEF Ended

\* Which of the arms a release takes, the flags being those of different keys.
LEMMA ReleasedIs ==
  ASSUME NEW h, NEW k, k # h.ffHold
  PROVE  /\ k \in Shifts /\ k \notin Ctrls /\ k # h.active /\ k # h.combo =>
              Released(h, k) = KeyUp([h EXCEPT !.shift = @ \ {k}, !.active = IF h.shift \subseteq {k} THEN NoKey ELSE @], k)
         /\ k \in Ctrls /\ k \notin Shifts /\ k # h.active /\ k # h.combo =>
              Released(h, k) = LET w == [h EXCEPT !.ctrl = @ \ {k}]
                               IN KeyUp(IF w.ctrl = {} THEN ComboEnded(w) ELSE w, k)
         /\ k \notin Ctrls /\ k \notin Shifts /\ k = h.active /\ k # h.combo =>
              Released(h, k) = AllDown([h EXCEPT !.active = NoKey], h.shift)
         /\ k \notin Ctrls /\ k \notin Shifts /\ k # h.active /\ k = h.combo =>
              Released(h, k) = AllDown(ComboEnded(h), h.ctrl)
         /\ k \notin Ctrls /\ k \notin Shifts /\ k # h.active /\ k # h.combo => Released(h, k) = KeyUp(h, k)
<1>1. ASSUME k \in Shifts, k \notin Ctrls, k # h.active, k # h.combo
      PROVE  Released(h, k) = KeyUp([h EXCEPT !.shift = @ \ {k}, !.active = IF h.shift \subseteq {k} THEN NoKey ELSE @], k)
  BY <1>1, Zenon DEF Released
<1>2. ASSUME k \in Ctrls, k \notin Shifts, k # h.active, k # h.combo
      PROVE  Released(h, k) = LET w == [h EXCEPT !.ctrl = @ \ {k}]
                              IN KeyUp(IF w.ctrl = {} THEN ComboEnded(w) ELSE w, k)
  BY <1>2, Zenon DEF Released
<1>3. ASSUME k \notin Ctrls, k \notin Shifts, k = h.active, k # h.combo
      PROVE  Released(h, k) = AllDown([h EXCEPT !.active = NoKey], h.shift)
  BY <1>3, Zenon DEF Released
<1>4. ASSUME k \notin Ctrls, k \notin Shifts, k # h.active, k = h.combo
      PROVE  Released(h, k) = AllDown(ComboEnded(h), h.ctrl)
  BY <1>4, Zenon DEF Released
<1>5. ASSUME k \notin Ctrls, k \notin Shifts, k # h.active, k # h.combo
      PROVE  Released(h, k) = KeyUp(h, k)
  BY <1>5, Zenon DEF Released
<1> QED BY <1>1, <1>2, <1>3, <1>4, <1>5, Zenon

LEMMA ReleaseShift ==
  ASSUME NEW h, NEW m, NEW programs, KeyInv(inputJob, h, m, programs), NEW k \in Shifts, NEW n, Leaves(h, m, k, n)
  PROVE  KeyInv(inputJob, Released(h, k), n, programs) /\ SamePads(h, Released(h, k))
<1>1. k \in Sides /\ k \notin Ctrls /\ k # "zero" /\ k # NoKey /\ k \notin {"f6", "f7"} /\ k \notin FunctionKeys /\ JoyLine(k) = {}
  BY KindsAre, SidesAre, Zenon DEF Kinds
<1>2. k \in DOMAIN m /\ Shape(h) /\ Keyed(inputJob, h, ComboCells(h) \union programs)
  BY Zenon DEF Leaves, KeyInv, Keyed
<1>3. h.ffHold # k /\ h.active # k /\ h.combo # k
  <2>1. /\ h.ffHold # NoKey => h.ffHold = "f7"
        /\ h.active # NoKey => h.active \in {"f6", "f7"}
        /\ h.combo # NoKey => h.combo \in FunctionKeys
    BY Zenon DEF KeyInv, Flagged
  <2> QED BY <1>1, <2>1
<1>4. PICK active : active = IF h.shift \subseteq {k} THEN NoKey ELSE h.active
  OBVIOUS
<1>5. PICK v : v = [h EXCEPT !.shift = @ \ {k}]
  OBVIOUS
<1>6. PICK u : u = [v EXCEPT !.active = active]
  OBVIOUS
<1>7. PICK w : w = KeyUp(u, k)
  OBVIOUS
<1>8. Released(h, k) = w
  <2>1. u = [h EXCEPT !.shift = @ \ {k}, !.active = IF h.shift \subseteq {k} THEN NoKey ELSE @]
    BY <1>4, <1>5, <1>6, Zenon
  <2> QED BY <1>1, <1>3, <1>7, <2>1, ReleasedIs, Zenon
<1>9. SameKeys(h, v) /\ FlagsAre(v, h.ctrl, h.combo, h.shift \ {k}, h.active, h.ffHold)
  BY <1>2, <1>5, FlagsSet, Zenon
<1>10. SameKeys(v, u) /\ FlagsAre(u, v.ctrl, v.combo, v.shift, active, v.ffHold)
  <2>1. Shape(v)
    BY <1>9, Zenon DEF SameKeys
  <2> QED BY <1>6, <2>1, FlagsSet, Zenon
<1>11. Keyed(inputJob, u, ComboCells(h) \union programs)
  BY <1>2, <1>9, <1>10, SameKeyed, Zenon
<1>12. UpKey(u, k) = k
  BY <1>1, Zenon DEF UpKey
<1>13. Keyed(inputJob, w, ComboCells(h) \union programs)
  <2>1. (ComboCells(h) \union programs) \intersect KeyCell(inputJob, k) = {}
    <3>1. k \in DOMAIN m \union {"zero_shift"}
      BY <1>2
    <3> QED BY <3>1, HeldApart, Zenon
  <2> QED BY <1>7, <1>11, <1>12, <2>1, UpKeeps, Zenon
<1>14. Upped(inputJob, u, k, w)
  BY <1>7, <1>11, KeyUpIs, Zenon DEF Keyed
<1>15. w.held = u.held \ {k} /\ w.kbd = u.kbd \ JoyLine(k) /\ (w.redirect <=> u.redirect) /\ SamePads(u, w) /\ SameFlags(u, w)
       /\ w.redirect \in BOOLEAN
  BY <1>1, <1>12, <1>14, Zenon DEF Upped, Shape
<1>16. w.held = h.held \ {k} /\ w.kbd = h.kbd \ JoyLine(k) /\ w.redirect = h.redirect /\ SamePads(h, w)
  <2>1. w.redirect = u.redirect
    <3>1. u.redirect \in BOOLEAN
      BY <1>11, Zenon DEF Keyed, Shape
    <3> QED BY <1>15, <3>1
  <2> QED BY <1>9, <1>10, <1>15, <2>1, Zenon DEF SameKeys, SamePads
<1>17. FlagsAre(w, h.ctrl, h.combo, h.shift \ {k}, IF h.shift \subseteq {k} THEN NoKey ELSE h.active, h.ffHold)
  BY <1>4, <1>9, <1>10, <1>15, Zenon DEF FlagsAre, SameFlags
<1> QED BY <1>8, <1>13, <1>16, <1>17, ShiftLeaves, Zenon

LEMMA ReleaseCtrl ==
  ASSUME NEW h, NEW m, NEW programs, KeyInv(inputJob, h, m, programs), NEW k \in Ctrls, NEW n, Leaves(h, m, k, n)
  PROVE  KeyInv(inputJob, Released(h, k), n, programs) /\ SamePads(h, Released(h, k))
<1>1. k \in Sides /\ k \notin Shifts /\ k # "zero" /\ k # NoKey /\ k \notin {"f6", "f7"} /\ k \notin FunctionKeys /\ JoyLine(k) = {}
  BY KindsAre, SidesAre, Zenon DEF Kinds
<1>2. k \in DOMAIN m /\ Shape(h) /\ Keyed(inputJob, h, ComboCells(h) \union programs)
  BY Zenon DEF Leaves, KeyInv, Keyed
<1>3. h.ffHold # k /\ h.active # k /\ h.combo # k
  <2>1. /\ h.ffHold # NoKey => h.ffHold = "f7"
        /\ h.active # NoKey => h.active \in {"f6", "f7"}
        /\ h.combo # NoKey => h.combo \in FunctionKeys
    BY Zenon DEF KeyInv, Flagged
  <2> QED BY <1>1, <2>1
<1>4. PICK v : v = [h EXCEPT !.ctrl = @ \ {k}]
  OBVIOUS
<1>5. PICK u : u = IF v.ctrl = {} THEN ComboEnded(v) ELSE v
  OBVIOUS
<1>6. PICK w : w = KeyUp(u, k)
  OBVIOUS
<1>7. Released(h, k) = w
  BY <1>1, <1>3, <1>4, <1>5, <1>6, ReleasedIs, Zenon
<1>8. SameKeys(h, v) /\ FlagsAre(v, h.ctrl \ {k}, h.combo, h.shift, h.active, h.ffHold)
  BY <1>2, <1>4, FlagsSet, Zenon
<1>9. v.ctrl = {} <=> h.ctrl \subseteq {k}
  BY <1>8 DEF FlagsAre
<1>10. /\ Keyed(inputJob, u, ComboCells(u) \union programs) /\ SamePads(h, u)
       /\ u.held = h.held /\ u.kbd = h.kbd /\ u.redirect = h.redirect /\ ComboCells(u) \subseteq ComboCells(h)
       /\ FlagsAre(u, h.ctrl \ {k}, IF h.ctrl \subseteq {k} THEN NoKey ELSE h.combo, h.shift, h.active, h.ffHold)
  <2>1. CASE v.ctrl # {}
    <3>1. u = v
      BY <1>5, <2>1, Zenon
    <3>2. ComboCells(v) = ComboCells(h)
      BY <1>8, Zenon DEF ComboCells, FlagsAre
    <3>3. Keyed(inputJob, v, ComboCells(v) \union programs)
      BY <1>2, <1>8, <3>2, SameKeyed, Zenon
    <3>4. SamePads(h, v) /\ v.held = h.held /\ v.kbd = h.kbd /\ v.redirect = h.redirect
      BY <1>8, Zenon DEF SameKeys
    <3>5. FlagsAre(v, h.ctrl \ {k}, IF h.ctrl \subseteq {k} THEN NoKey ELSE h.combo, h.shift, h.active, h.ffHold)
      BY <1>8, <1>9, <2>1, Zenon
    <3>6. ComboCells(v) \subseteq ComboCells(h)
      BY <3>2
    <3> QED BY <3>1, <3>3, <3>4, <3>5, <3>6, Zenon
  <2>2. CASE v.ctrl = {}
    <3>1. u = ComboEnded(v)
      BY <1>5, <2>2, Zenon
    <3>2. ComboCells(v) = ComboCells(h) /\ v.held = h.held /\ v.kbd = h.kbd /\ v.redirect = h.redirect /\ SamePads(h, v)
      BY <1>8, Zenon DEF ComboCells, FlagsAre, SameKeys
    <3>3. Keyed(inputJob, v, ComboCells(v) \union programs)
      BY <1>2, <1>8, <3>2, SameKeyed, Zenon
    <3>4. ComboCells(v) \intersect KeysOf(inputJob, v.held) = {} /\ ComboCells(v) \intersect programs = {}
      BY <3>2, ComboApart, Zenon
    <3>5. /\ Keyed(inputJob, u, programs) /\ SamePads(v, u)
          /\ u.held = v.held /\ u.kbd = v.kbd /\ u.redirect = v.redirect
          /\ FlagsAre(u, v.ctrl, NoKey, v.shift, v.active, v.ffHold)
      BY <3>1, <3>3, <3>4, ComboEnds, Zenon DEF Ended
    <3>6. ComboCells(u) = {}
      BY <3>5, Zenon DEF ComboCells, FlagsAre
    <3>7. FlagsAre(u, h.ctrl \ {k}, IF h.ctrl \subseteq {k} THEN NoKey ELSE h.combo, h.shift, h.active, h.ffHold)
      BY <1>8, <1>9, <2>2, <3>5, Zenon DEF FlagsAre
    <3>8. Keyed(inputJob, u, ComboCells(u) \union programs)
      <4>1. ComboCells(u) \union programs = programs
        BY <3>6
      <4> QED BY <3>5, <4>1, Zenon
    <3>9. SamePads(h, u) /\ u.held = h.held /\ u.kbd = h.kbd /\ u.redirect = h.redirect
      BY <3>2, <3>5, Zenon DEF SamePads
    <3>10. ComboCells(u) \subseteq ComboCells(h)
      BY <3>6
    <3> QED BY <3>7, <3>8, <3>9, <3>10, Zenon
  <2> QED BY <2>1, <2>2, Zenon
<1>11. UpKey(u, k) = k
  BY <1>1, Zenon DEF UpKey
<1>12. Keyed(inputJob, w, ComboCells(u) \union programs)
  <2>1. (ComboCells(h) \union programs) \intersect KeyCell(inputJob, k) = {}
    <3>1. k \in DOMAIN m \union {"zero_shift"}
      BY <1>2
    <3> QED BY <3>1, HeldApart, Zenon
  <2>2. (ComboCells(u) \union programs) \intersect KeyCell(inputJob, k) = {}
    BY <1>10, <2>1
  <2> QED BY <1>6, <1>10, <1>11, <2>2, UpKeeps, Zenon
<1>13. Upped(inputJob, u, k, w)
  BY <1>6, <1>10, KeyUpIs, Zenon DEF Keyed
<1>14. w.held = u.held \ {k} /\ w.kbd = u.kbd \ JoyLine(k) /\ (w.redirect <=> u.redirect) /\ SamePads(u, w) /\ SameFlags(u, w)
       /\ w.redirect \in BOOLEAN
  BY <1>1, <1>11, <1>13, Zenon DEF Upped, Shape
<1>15. w.held = h.held \ {k} /\ w.kbd = h.kbd \ JoyLine(k) /\ w.redirect = h.redirect /\ SamePads(h, w)
  <2>1. w.redirect = u.redirect
    <3>1. u.redirect \in BOOLEAN
      BY <1>10, Zenon DEF Keyed, Shape
    <3> QED BY <1>14, <3>1
  <2> QED BY <1>10, <1>14, <2>1, Zenon DEF SamePads
<1>16. FlagsAre(w, h.ctrl \ {k}, IF h.ctrl \subseteq {k} THEN NoKey ELSE h.combo, h.shift, h.active, h.ffHold)
  BY <1>10, <1>14, Zenon DEF FlagsAre, SameFlags
<1>17. ComboCells(w) = ComboCells(u)
  BY <1>14, Zenon DEF SameFlags, ComboCells
<1>18. Keyed(inputJob, w, ComboCells(w) \union programs)
  BY <1>12, <1>17, Zenon
<1> QED BY <1>7, <1>15, <1>16, <1>18, CtrlLeaves, Zenon

LEMMA ReleaseHotkey ==
  ASSUME NEW h, NEW m, NEW programs, KeyInv(inputJob, h, m, programs), NEW k, k = h.active, k # NoKey,
         k # h.ffHold, NEW n, Leaves(h, m, k, n)
  PROVE  KeyInv(inputJob, Released(h, k), n, programs) /\ SamePads(h, Released(h, k))
<1>1. /\ Shape(h) /\ Keyed(inputJob, h, ComboCells(h) \union programs) /\ inputJob.japanese \in BOOLEAN
      /\ h.active \in {"f6", "f7"}
  BY Zenon DEF KeyInv, Keyed, Usable, Flagged
<1>2. k \notin Shifts /\ k \notin Ctrls /\ k # h.combo
  <2>1. k \notin Sides /\ k \notin FunctionKeys
    BY <1>1, KindsAre, SMT DEF Kinds
  <2>2. h.combo # NoKey => h.combo \in FunctionKeys
    BY Zenon DEF KeyInv, Flagged
  <2> QED BY <2>1, <2>2, KindsAre, Zenon DEF Kinds
<1>3. PICK v : v = [h EXCEPT !.active = NoKey]
  OBVIOUS
<1>4. PICK w : w = AllDown(v, h.shift)
  OBVIOUS
<1>5. Released(h, k) = w
  BY <1>2, <1>3, <1>4, ReleasedIs, Zenon
<1>6. SameKeys(h, v) /\ FlagsAre(v, h.ctrl, h.combo, h.shift, NoKey, h.ffHold)
  BY <1>1, <1>3, FlagsSet, Zenon
<1>7. Keyed(inputJob, v, ComboCells(h) \union programs)
  BY <1>1, <1>6, SameKeyed, Zenon
<1>8. Added(inputJob, v, h.shift, ComboCells(h) \union programs, w)
  BY <1>1, <1>4, <1>7, HeldApart, SidesDown, Zenon
<1>9. Keyed(inputJob, w, ComboCells(h) \union programs) /\ Sided(v, w) /\ w.held = v.held \union h.shift
  BY <1>8, Zenon DEF Added
<1>10. w.held = h.held \union h.shift /\ w.kbd = h.kbd /\ w.redirect = h.redirect /\ SamePads(h, w)
  BY <1>6, <1>9, Zenon DEF SameKeys, Sided, SamePads
<1>11. FlagsAre(w, h.ctrl, h.combo, h.shift, NoKey, h.ffHold)
  BY <1>6, <1>9, Zenon DEF Sided, SameFlags, FlagsAre
<1>12. w.kbd = h.kbd \ JoyLine(k)
  <2>1. JoyLine("f6") = {} /\ JoyLine("f7") = {}
    BY LinesAre, SMT
  <2>2. JoyLine(k) = {}
    BY <1>1, <2>1
  <2> QED BY <1>10, <2>2
<1> QED BY <1>5, <1>9, <1>10, <1>11, <1>12, HotkeyLeaves, Zenon

LEMMA ReleaseCombo ==
  ASSUME NEW h, NEW m, NEW programs, KeyInv(inputJob, h, m, programs), NEW k, k = h.combo, k # NoKey,
         k # h.ffHold, NEW n, Leaves(h, m, k, n)
  PROVE  KeyInv(inputJob, Released(h, k), n, programs) /\ SamePads(h, Released(h, k))
<1>1. /\ Keyed(inputJob, h, ComboCells(h) \union programs) /\ inputJob.japanese \in BOOLEAN
      /\ h.combo \in FunctionKeys
  BY Zenon DEF KeyInv, Keyed, Usable, Flagged
<1>2. k \notin Shifts /\ k \notin Ctrls /\ k # h.active
  <2>1. k \notin Sides /\ k \notin {"f6", "f7"}
    BY <1>1, KindsAre, SMT DEF Kinds
  <2>2. h.active # NoKey => h.active \in {"f6", "f7"}
    BY Zenon DEF KeyInv, Flagged
  <2> QED BY <2>1, <2>2, KindsAre, Zenon DEF Kinds
<1>3. PICK v : v = ComboEnded(h)
  OBVIOUS
<1>4. PICK w : w = AllDown(v, h.ctrl)
  OBVIOUS
<1>5. Released(h, k) = w
  BY <1>2, <1>3, <1>4, ReleasedIs, Zenon
<1>6. /\ Keyed(inputJob, v, programs) /\ SamePads(h, v)
      /\ v.held = h.held /\ v.kbd = h.kbd /\ v.redirect = h.redirect
      /\ FlagsAre(v, h.ctrl, NoKey, h.shift, h.active, h.ffHold)
  <2>1. ComboCells(h) \intersect KeysOf(inputJob, h.held) = {} /\ ComboCells(h) \intersect programs = {}
    BY ComboApart, Zenon
  <2>2. Ended(inputJob, h, programs, v)
    BY <1>1, <1>3, <2>1, ComboEnds, Zenon
  <2> QED BY <2>2, Zenon DEF Ended
<1>7. Added(inputJob, v, h.ctrl, programs, w)
  BY <1>1, <1>4, <1>6, HeldApart, SidesDown, Zenon
<1>8. Keyed(inputJob, w, programs) /\ Sided(v, w) /\ w.held = v.held \union h.ctrl
  BY <1>7, Zenon DEF Added
<1>9. w.held = h.held \union h.ctrl /\ w.kbd = h.kbd /\ w.redirect = h.redirect /\ SamePads(h, w)
  BY <1>6, <1>8, Zenon DEF Sided, SamePads
<1>10. FlagsAre(w, h.ctrl, NoKey, h.shift, h.active, h.ffHold)
  BY <1>6, <1>8, Zenon DEF Sided, SameFlags, FlagsAre
<1>11. w.kbd = h.kbd \ JoyLine(k)
  <2>1. JoyLine("f1") = {} /\ JoyLine("f2") = {}
    BY LinesAre, SMT
  <2>2. JoyLine(k) = {}
    BY <1>1, <2>1 DEF FunctionKeys
  <2> QED BY <1>9, <2>2
<1> QED BY <1>5, <1>8, <1>9, <1>10, <1>11, ComboLeaves, Zenon

LEMMA ReleaseKey ==
  ASSUME NEW h, NEW m, NEW programs, KeyInv(inputJob, h, m, programs),
         NEW k, k \notin Sides, k # h.active, k # h.combo, k # h.ffHold, NEW n, Leaves(h, m, k, n)
  PROVE  KeyInv(inputJob, Released(h, k), n, programs) /\ SamePads(h, Released(h, k))
<1>1. k \in DOMAIN m /\ Keyed(inputJob, h, ComboCells(h) \union programs)
  BY Zenon DEF Leaves, KeyInv
<1>2. k \notin Shifts /\ k \notin Ctrls
  BY KindsAre, Zenon DEF Kinds
<1>3. PICK w : w = KeyUp(h, k)
  OBVIOUS
<1>4. Released(h, k) = w
  BY <1>2, <1>3, ReleasedIs, Zenon
<1>5. Upped(inputJob, h, k, w)
  BY <1>1, <1>3, KeyUpIs, Zenon DEF Keyed
<1>6. Keyed(inputJob, w, ComboCells(h) \union programs)
  <2>1. UpKey(h, k) \in DOMAIN m \union {"zero_shift"}
    BY <1>1 DEF UpKey
  <2>2. (ComboCells(h) \union programs) \intersect KeyCell(inputJob, UpKey(h, k)) = {}
    BY <2>1, HeldApart, Zenon
  <2> QED BY <1>1, <1>3, <2>2, UpKeeps, Zenon
<1>7. KeyInv(inputJob, w, n, programs)
  BY <1>5, <1>6, KeyLeaves, Zenon
<1>8. SamePads(h, w)
  BY <1>5, Zenon DEF Upped
<1> QED BY <1>4, <1>7, <1>8, Zenon

LEMMA ReleaseHold ==
  ASSUME NEW h, NEW m, NEW programs, KeyInv(inputJob, h, m, programs), NEW k, k = h.ffHold, k # NoKey,
         NEW n, Leaves(h, m, k, n)
  PROVE  KeyInv(inputJob, Released(h, k), n, programs) /\ SamePads(h, Released(h, k))
<1>1. Shape(h) /\ k = "f7" /\ h.active # "f7"
  BY Zenon DEF KeyInv, Keyed, Flagged
<1>2. k \notin Shifts /\ k \notin Ctrls /\ k # h.active /\ k # h.combo
  <2>1. k \notin Sides /\ k \notin FunctionKeys
    BY <1>1, KindsAre, SMT DEF Kinds
  <2>2. h.combo # NoKey => h.combo \in FunctionKeys
    BY Zenon DEF KeyInv, Flagged
  <2> QED BY <1>1, <2>1, <2>2, KindsAre, Zenon DEF Kinds
<1>3. PICK w : w = [h EXCEPT !.ffHold = NoKey]
  OBVIOUS
<1>4. SameKeys(h, w) /\ FlagsAre(w, h.ctrl, h.combo, h.shift, h.active, NoKey)
  BY <1>1, <1>3, FlagsSet, Zenon
<1>5. Released(h, k) = w
  <2>1. w.active = h.active /\ w.combo = h.combo
    BY <1>4, Zenon DEF FlagsAre
  <2> QED BY <1>2, <1>3, <2>1, Zenon DEF Released
<1>6. KeyInv(inputJob, w, n, programs)
  BY <1>4, HoldLeaves, Zenon
<1> QED BY <1>4, <1>5, <1>6, Zenon DEF SameKeys

LEMMA ReleaseKeeps ==
  ASSUME NEW h, NEW m, NEW programs, KeyInv(inputJob, h, m, programs), NEW k, NEW n, Leaves(h, m, k, n)
  PROVE  KeyInv(inputJob, Released(h, k), n, programs) /\ SamePads(h, Released(h, k))
<1>1. k # NoKey /\ (k = h.active => k # h.ffHold)
  <2>1. k # NoKey
    BY FlagsApart, Zenon DEF Leaves
  <2>2. h.ffHold # NoKey => h.ffHold = "f7" /\ h.active # "f7"
    BY Zenon DEF KeyInv, Flagged
  <2> QED BY <2>1, <2>2
<1>2. CASE k \in Shifts
  BY <1>2, ReleaseShift, Zenon
<1>3. CASE k \in Ctrls
  BY <1>3, ReleaseCtrl, Zenon
<1>4. CASE k = h.ffHold
  BY <1>1, <1>4, ReleaseHold, Zenon
<1>5. CASE k = h.active
  BY <1>1, <1>5, ReleaseHotkey, Zenon
<1>6. CASE k = h.combo /\ k # h.ffHold
  BY <1>1, <1>6, ReleaseCombo, Zenon
<1>7. CASE k \notin Shifts /\ k \notin Ctrls /\ k # h.ffHold /\ k # h.active /\ k # h.combo
  <2>1. k \notin Sides
    BY <1>7, KindsAre, Zenon DEF Kinds
  <2> QED BY <1>7, <2>1, ReleaseKey, Zenon
<1> QED BY <1>2, <1>3, <1>4, <1>5, <1>6, <1>7, Zenon

\* What releasing a key leaves of the meanings of the others.
LEMMA LapsedIs ==
  ASSUME NEW programs, KeyInv(inputJob, input, hands.meant, programs), NEW k \in HeldKeys,
         NEW n, n = IF k \in Shifts THEN Lapsed(k, Shifts) ELSE Lapsed(k, Ctrls)
  PROVE  Leaves(input, hands.meant, k, n)
<1> DEFINE m == hands.meant
<1>1. k \in DOMAIN m
  BY Zenon DEF HeldKeys
<1>2. DOMAIN n = DOMAIN m \ {k}
  BY DEF Lapsed, HeldKeys
<1>3. /\ input.ctrl = DOMAIN m \intersect Ctrls /\ input.shift = DOMAIN m \intersect Shifts
      /\ input.combo # NoKey => input.combo # input.active
      /\ NoKey \notin DOMAIN m
  <2>1. input.ctrl = DOMAIN m \intersect Ctrls /\ input.shift = DOMAIN m \intersect Shifts
    BY Zenon DEF KeyInv, Flagged
  <2>2. input.combo # NoKey => input.combo # input.active
    BY FlagsApart, Zenon
  <2>3. NoKey \notin DOMAIN m
    BY FlagsApart, Zenon
  <2> QED BY <2>1, <2>2, <2>3
<1>4. Shifts # {} /\ Ctrls # {} /\ Shifts # Ctrls /\ ~(k \in Shifts /\ k \in Ctrls)
  BY MeansApart, KindsAre, Zenon DEF Kinds
<1>5. ASSUME NEW o \in DOMAIN n PROVE n[o] = IF Lapses(input, k, o) THEN Means({}) ELSE m[o]
  <2>1. o \in DOMAIN m /\ o # k /\ o # NoKey
    BY <1>2, <1>3
  <2>2. m[o].covers = IF o = input.active THEN Shifts ELSE IF o = input.combo THEN Ctrls ELSE {}
    BY <2>1, CoversIs, Zenon
  <2>3. /\ m[o].covers = Shifts <=> o = input.active
        /\ m[o].covers = Ctrls <=> o = input.combo
    BY <1>3, <1>4, <2>1, <2>2
  <2>4. /\ (DOMAIN m \ {k}) \intersect Shifts = {} <=> input.shift \subseteq {k}
        /\ (DOMAIN m \ {k}) \intersect Ctrls = {} <=> input.ctrl \subseteq {k}
    BY <1>3
  <2>5. CASE k \in Shifts
    <3>1. n[o] = IF (DOMAIN m \ {k}) \intersect Shifts = {} /\ m[o].covers = Shifts THEN Means({}) ELSE m[o]
      BY <1>2, <1>5, <2>5 DEF Lapsed, HeldKeys
    <3> QED BY <1>4, <2>3, <2>4, <2>5, <3>1, Zenon DEF Lapses
  <2>6. CASE k \notin Shifts
    <3>1. n[o] = IF k \in Ctrls /\ (DOMAIN m \ {k}) \intersect Ctrls = {} /\ m[o].covers = Ctrls THEN Means({}) ELSE m[o]
      BY <1>2, <1>5, <2>6 DEF Lapsed, HeldKeys
    <3> QED BY <2>3, <2>4, <2>6, <3>1, Zenon DEF Lapses
  <2> QED BY <2>5, <2>6
<1> QED BY <1>1, <1>2, <1>5, Zenon DEF Leaves

-----------------------------------------------------------------------------
(* The events of the keyboard. The rest of what the hands do is the same.  *)

HandsFields == {"meant", "plugged", "controls", "rpc", "again", "joystick"}

SameRest(x, y) ==
  /\ DOMAIN y = HandsFields /\ y.plugged = x.plugged /\ y.controls = x.controls
  /\ y.rpc = x.rpc /\ y.again = x.again /\ y.joystick = x.joystick

KeysMove(programs) ==
  KeyInv(inputJob', input', hands'.meant, programs) /\ SamePads(input, input') /\ SameRest(hands, hands')

LEMMA MeantSet ==
  ASSUME DOMAIN hands = HandsFields, NEW n, hands' = [hands EXCEPT !.meant = n]
  PROVE  hands'.meant = n /\ SameRest(hands, hands')
BY SMT DEF HandsFields, SameRest

LEMMA KeyPressed ==
  ASSUME NEW programs, KeyInv(inputJob, input, hands.meant, programs), DOMAIN hands = HandsFields,
         AnyKeys = FALSE, inputJob' = inputJob, PressHostKey
  PROVE  KeysMove(programs)
<1> DEFINE m == hands.meant
<1>1. PICK k \in inputJob.keys \ HeldKeys :
        /\ Clear(k) /\ input' = Pressed(input, k, FALSE)
        /\ hands' = [hands EXCEPT !.meant = [o \in HeldKeys \union {k} |-> IF o = k THEN Meaning(k, HeldKeys) ELSE @[o]]]
  BY Zenon DEF PressHostKey
<1>2. PICK meaning : meaning = Meaning(k, HeldKeys)
  OBVIOUS
<1>3. PICK n : n = [o \in HeldKeys \union {k} |-> IF o = k THEN meaning ELSE m[o]]
  OBVIOUS
<1>4. hands'.meant = n /\ SameRest(hands, hands')
  <2>1. hands' = [hands EXCEPT !.meant = n]
    BY <1>1, <1>2, <1>3, Zenon
  <2> QED BY <2>1, MeantSet, Zenon
<1>5. meaning = MeaningBy(inputJob, input, k)
  <2>1. k # NoKey => k # input.active /\ k # input.combo
    <3>1. /\ input.active # NoKey => input.active \in DOMAIN m
          /\ input.combo # NoKey => input.combo \in DOMAIN m
      BY Zenon DEF KeyInv, Flagged
    <3> QED BY <1>1, <3>1 DEF HeldKeys
  <2>2. HeldKeys \in SUBSET HeldKeys /\ HeldKeys \subseteq HeldKeys \union {k}
    OBVIOUS
  <2> QED BY <1>2, <2>1, <2>2, MeaningIs, Zenon
<1>6. Joins(m, k, meaning, n)
  <2>1. k \notin DOMAIN m /\ DOMAIN n = DOMAIN m \union {k} /\ n[k] = meaning
    BY <1>1, <1>3 DEF HeldKeys
  <2>2. \A o \in DOMAIN m : n[o] = m[o]
    BY <1>1, <1>3 DEF HeldKeys
  <2> QED BY <2>1, <2>2, Zenon DEF Joins
<1>7. /\ Free(m, k)
      /\ \A o \in DOMAIN m : meaning.cells \intersect m[o].cells # {} => m[o].covers = {} /\ meaning.covers = {}
  BY <1>1, <1>2, Zenon DEF Clear, Free, HeldKeys
<1>8. k \in inputJob.keys
  BY <1>1
<1>9. KeyInv(inputJob, Pressed(input, k, FALSE), n, programs) /\ SamePads(input, Pressed(input, k, FALSE))
  BY <1>5, <1>6, <1>7, <1>8, PressKeeps, Zenon
<1> QED BY <1>1, <1>4, <1>9, Zenon DEF KeysMove

LEMMA KeyRepeated ==
  ASSUME NEW programs, KeyInv(inputJob, input, hands.meant, programs), DOMAIN hands = HandsFields,
         AnyKeys = FALSE, inputJob' = inputJob, RepeatHostKey
  PROVE  KeysMove(programs)
<1> DEFINE m == hands.meant
<1>1. PICK k \in HeldKeys :
        /\ <<k, HeldKeys \intersect Shifts # {}>> \in Bindings \/ Meaning(k, HeldKeys \ {k}) = m[k]
        /\ input' = Pressed(input, k, TRUE) /\ hands' = hands
  BY Zenon DEF RepeatHostKey
<1>2. k \in {"f6", "f7"} \/ k = input.combo \/ m[k] = MeaningBy(inputJob, input, k)
  <2>1. CASE <<k, HeldKeys \intersect Shifts # {}>> \in Bindings
    <3>1. (HeldKeys \intersect Shifts # {}) \in BOOLEAN
      OBVIOUS
    <3> QED BY <2>1, <3>1, BindingsAre, Zenon
  <2>2. CASE k = input.active
    <3>1. input.active # NoKey => input.active \in {"f6", "f7"}
      BY FlagsApart, Zenon
    <3>2. k # NoKey
      <4>1. NoKey \notin DOMAIN m
        BY FlagsApart, Zenon
      <4> QED BY <1>1, <4>1, Zenon DEF HeldKeys
    <3> QED BY <2>2, <3>1, <3>2
  <2>3. CASE Meaning(k, HeldKeys \ {k}) = m[k] /\ k # input.active /\ k # input.combo
    <3>1. (HeldKeys \ {k}) \in SUBSET HeldKeys /\ HeldKeys \subseteq (HeldKeys \ {k}) \union {k}
      OBVIOUS
    <3>2. Meaning(k, HeldKeys \ {k}) = MeaningBy(inputJob, input, k)
      BY <2>3, <3>1, MeaningIs, Zenon
    <3> QED BY <2>3, <3>2
  <2> QED BY <1>1, <2>1, <2>2, <2>3
<1>3. Same(input, Pressed(input, k, TRUE))
  <2>1. k \in DOMAIN m
    BY <1>1, Zenon DEF HeldKeys
  <2> QED BY <1>2, <2>1, RepeatSame, Zenon
<1>4. KeyInv(inputJob, input', m, programs) /\ SamePads(input, input')
  BY <1>1, <1>3, SameKeeps, Zenon
<1>5. SameRest(hands, hands')
  BY <1>1, Zenon DEF SameRest
<1> QED BY <1>1, <1>4, <1>5, Zenon DEF KeysMove

LEMMA KeyReleased ==
  ASSUME NEW programs, KeyInv(inputJob, input, hands.meant, programs), DOMAIN hands = HandsFields,
         inputJob' = inputJob, ReleaseHostKey
  PROVE  KeysMove(programs)
<1>1. PICK k \in HeldKeys :
        /\ input' = Released(input, k)
        /\ hands' = [hands EXCEPT !.meant = IF k \in Shifts THEN Lapsed(k, Shifts) ELSE Lapsed(k, Ctrls)]
  BY Zenon DEF ReleaseHostKey
<1>2. PICK n : n = IF k \in Shifts THEN Lapsed(k, Shifts) ELSE Lapsed(k, Ctrls)
  OBVIOUS
<1>3. hands'.meant = n /\ SameRest(hands, hands')
  <2>1. hands' = [hands EXCEPT !.meant = n]
    BY <1>1, <1>2, Zenon
  <2> QED BY <2>1, MeantSet, Zenon
<1>4. Leaves(input, hands.meant, k, n)
  BY <1>2, LapsedIs, Zenon
<1>5. KeyInv(inputJob, Released(input, k), n, programs) /\ SamePads(input, Released(input, k))
  BY <1>4, ReleaseKeeps, Zenon
<1> QED BY <1>1, <1>3, <1>5, Zenon DEF KeysMove

-----------------------------------------------------------------------------
(* What the invariant says of the matrix.                                  *)

\* The keys whose meaning the matrix shows.
Uncovered(h, k) == (k \in Shifts => h.active = NoKey) /\ (k \in Ctrls => h.combo = NoKey)

LEMMA UncoveredIs ==
  ASSUME NEW programs, KeyInv(inputJob, input, hands.meant, programs), NEW k
  PROVE  Uncovered(input, k) <=> ~\E m \in {Shifts, Ctrls} : k \in m /\ Covers(m, HeldKeys)
<1>1. /\ Covers(Shifts, HeldKeys) <=> input.active # NoKey /\ input.active \in HeldKeys
      /\ Covers(Ctrls, HeldKeys) <=> input.combo # NoKey /\ input.combo \in HeldKeys
  <2>1. HeldKeys \in SUBSET HeldKeys
    OBVIOUS
  <2> QED BY <2>1, CoveredBy, Zenon
<1>2. /\ input.active # NoKey => input.active \in HeldKeys
      /\ input.combo # NoKey => input.combo \in HeldKeys
  BY Zenon DEF KeyInv, Flagged, HeldKeys
<1>3. (\E m \in {Shifts, Ctrls} : k \in m /\ Covers(m, HeldKeys))
        <=> (k \in Shifts /\ Covers(Shifts, HeldKeys)) \/ (k \in Ctrls /\ Covers(Ctrls, HeldKeys))
  BY Zenon
<1> QED BY <1>1, <1>2, <1>3, Zenon DEF Uncovered

LEMMA MeantIsCounted ==
  ASSUME NEW j, NEW h, NEW m, NEW programs, KeyInv(j, h, m, programs),
         NEW k \in DOMAIN m, Uncovered(h, k), NEW x \in m[k].cells
  PROVE  x \in KeysOf(j, h.held) \/ x \in ComboCells(h)
<1>1. Understood(j, h, m, k) /\ k # NoKey
  <2>1. NoKey \notin DOMAIN m
    BY FlagsApart, Zenon
  <2> QED BY <2>1, Zenon DEF KeyInv
<1>2. \A o : Counted(j, h, m, o) /\ x \in KeyCell(j, o) => x \in KeysOf(j, h.held)
  <2>1. \A o : o \in h.held <=> Counted(j, h, m, o)
    BY Zenon DEF KeyInv
  <2>2. \A o \in h.held : x \in KeyCell(j, o) => x \in KeysOf(j, h.held)
    BY SMT DEF KeysOf
  <2> QED BY <2>1, <2>2, Zenon
<1>3. CASE k \in Sides
  <2>1. m[k] = Means(KeyCell(j, k))
    BY <1>1, <1>3, Zenon DEF Understood
  <2>2. x \in KeyCell(j, k)
    <3>1. m[k].cells = KeyCell(j, k)
      BY <2>1, MeansIs, Zenon
    <3> QED BY <3>1, Zenon
  <2>3. Counted(j, h, m, k)
    BY <1>3, KindsAre, Zenon DEF Kinds, Counted, Uncovered
  <2> QED BY <1>2, <2>2, <2>3, Zenon
<1>4. CASE k = "zero"
  <2>1. m[k] = Means(KeyCell(j, IF h.redirect THEN "zero_shift" ELSE "zero"))
    BY <1>1, <1>4, Zenon DEF Understood
  <2>2. m[k].cells = KeyCell(j, IF h.redirect THEN "zero_shift" ELSE "zero")
    BY <2>1, MeansIs, Zenon
  <2>3. CASE h.redirect
    <3>1. x \in KeyCell(j, "zero_shift")
      BY <2>2, <2>3, Zenon
    <3>2. Counted(j, h, m, "zero_shift")
      BY <1>4, <2>3, Zenon DEF Counted
    <3> QED BY <1>2, <3>1, <3>2, Zenon
  <2>4. CASE ~h.redirect
    <3>1. x \in KeyCell(j, "zero")
      BY <2>2, <2>4, Zenon
    <3>2. Counted(j, h, m, "zero")
      BY <1>4, <2>4, Zenon DEF Counted
    <3> QED BY <1>2, <3>1, <3>2, Zenon
  <2> QED BY <2>3, <2>4
<1>5. CASE k \notin Sides /\ k # "zero"
  <2>1. \/ m[k] = Means(KeyCell(j, k)) \/ m[k] = Means({}) \/ k = h.active \/ k = h.combo
    BY <1>1, <1>5, Zenon DEF Understood
  <2>2. CASE m[k] = Means(KeyCell(j, k))
    <3>1. m[k].cells = KeyCell(j, k)
      BY <2>2, MeansIs, Zenon
    <3>2. x \in KeyCell(j, k)
      BY <3>1, Zenon
    <3>3. KeyCell(j, k) # {}
      BY <3>2
    <3>4. Counted(j, h, m, k)
      BY <1>5, <2>2, <3>3, Zenon DEF Counted
    <3> QED BY <1>2, <3>2, <3>4, Zenon
  <2>3. CASE m[k] = Means({})
    <3>1. m[k].cells = {}
      BY <2>3, MeansIs, Zenon
    <3> QED BY <3>1
  <2>4. CASE k = h.active
    <3>1. m[k] = Asks({}, Shifts)
      BY <1>1, <2>4, Zenon DEF KeyInv, Flagged
    <3>2. m[k].cells = {}
      BY <3>1, AsksIs, Zenon
    <3> QED BY <3>2
  <2>5. CASE k = h.combo
    <3>1. m[k] = Asks({CtrlFkeyCells[k]}, Ctrls)
      BY <1>1, <2>5, Zenon DEF KeyInv, Flagged
    <3>2. m[k].cells = {CtrlFkeyCells[k]}
      BY <3>1, AsksIs, Zenon
    <3>3. ComboCells(h) = {CtrlFkeyCells[k]}
      BY <1>1, <2>5, Zenon DEF ComboCells
    <3> QED BY <3>2, <3>3, Zenon
  <2> QED BY <2>1, <2>2, <2>3, <2>4, <2>5
<1> QED BY <1>3, <1>4, <1>5

LEMMA CountedIsMeant ==
  ASSUME NEW j, NEW h, NEW m, NEW programs, KeyInv(j, h, m, programs),
         NEW x, x \in KeysOf(j, h.held) \/ x \in ComboCells(h)
  PROVE  \E k \in DOMAIN m : Uncovered(h, k) /\ x \in m[k].cells
<1>1. \A k \in DOMAIN m : Understood(j, h, m, k)
  BY Zenon DEF KeyInv
<1>2. CASE x \in KeysOf(j, h.held)
  <2>1. PICK o \in h.held : x \in KeyCell(j, o)
    BY <1>2, SMT DEF KeysOf
  <2>2. Counted(j, h, m, o)
    BY <2>1, Zenon DEF KeyInv
  <2>3. CASE o \in DOMAIN m /\ o \in Sides
    <3>1. m[o] = Means(KeyCell(j, o))
      BY <1>1, <2>3, Zenon DEF Understood
    <3>2. m[o].cells = KeyCell(j, o)
      BY <3>1, MeansIs, Zenon
    <3>3. Uncovered(h, o)
      BY <2>2, <2>3, KindsAre, SMT DEF Counted, Uncovered, Kinds
    <3> QED BY <2>1, <2>3, <3>2, <3>3, Zenon
  <2>4. CASE o \in DOMAIN m /\ o \notin Sides /\ o # "zero" /\ m[o] = Means(KeyCell(j, o))
    <3>1. m[o].cells = KeyCell(j, o)
      BY <2>4, MeansIs, Zenon
    <3>2. Uncovered(h, o)
      BY <2>4, KindsAre, Zenon DEF Kinds, Uncovered
    <3> QED BY <2>1, <2>4, <3>1, <3>2, Zenon
  <2>5. CASE \/ o = "zero" /\ o \in DOMAIN m /\ ~h.redirect
             \/ o = "zero_shift" /\ "zero" \in DOMAIN m /\ h.redirect
    <3>1. "zero" \in DOMAIN m /\ o = IF h.redirect THEN "zero_shift" ELSE "zero"
      BY <2>5
    <3>2. m["zero"] = Means(KeyCell(j, o))
      BY <1>1, <3>1, Zenon DEF Understood
    <3>3. m["zero"].cells = KeyCell(j, o)
      BY <3>2, MeansIs, Zenon
    <3>4. Uncovered(h, "zero")
      BY KindsAre, Zenon DEF Kinds, Uncovered
    <3> QED BY <2>1, <3>1, <3>3, <3>4, Zenon
  <2> QED BY <2>2, <2>3, <2>4, <2>5, KindsAre, Zenon DEF Counted, Kinds
<1>3. CASE x \in ComboCells(h)
  <2>1. h.combo # NoKey /\ x = CtrlFkeyCells[h.combo]
    BY <1>3 DEF ComboCells
  <2>2. h.combo \in DOMAIN m /\ h.combo \in FunctionKeys /\ m[h.combo] = Asks({CtrlFkeyCells[h.combo]}, Ctrls)
    BY <2>1, Zenon DEF KeyInv, Flagged
  <2>3. m[h.combo].cells = {CtrlFkeyCells[h.combo]}
    BY <2>2, AsksIs, Zenon
  <2>4. Uncovered(h, h.combo)
    <3>1. h.combo \notin Sides
      BY <2>2, KindsAre, Zenon DEF Kinds
    <3> QED BY <3>1, KindsAre, Zenon DEF Kinds, Uncovered
  <2>5. x \in m[h.combo].cells
    BY <2>1, <2>3
  <2> QED BY <2>2, <2>4, <2>5, Zenon
<1> QED BY <1>2, <1>3

RpcCells(rpc) == {r[1] : r \in rpc}

\* What the programs press, the cells of theirs that are down, and the releases pending.
\* The last press of a cell has its release; a cell that is not pressed again too soon
\* is down, and no release of it falls due before that one.
ProgramsOk(down, releases, rpc, again) ==
  /\ \A r \in rpc : r = <<r[1], r[2]>> /\ r[2] \in Nat
  /\ \A r, s \in rpc : r[1] = s[1] => r = s
  /\ \A p \in releases : p = <<p[1], p[2]>> /\ p[1] \in Nat \ {0}
  /\ \A c \in down : \E r \in rpc : r[1] = c
  /\ \A r \in rpc : r[2] # 0 => <<r[2], r[1]>> \in releases
  /\ \A r \in rpc : r[1] \notin again =>
       /\ r[1] \in down
       /\ \A p \in releases : p[2] = r[1] => r[2] # 0 /\ r[2] <= p[1]

\* The keys, and the programs, whose cells are none of the keys'.
ProgramsAre(j, h, m, rpc, again) ==
  /\ \E down : KeyInv(j, h, m, down) /\ ProgramsOk(down, h.releases, rpc, again)
  /\ \A p \in h.releases : p[2] \notin CellsAtHand(j)

\* Every cell is that of a key held, or of a program, and the lines likewise; none
\* of them is lost that no program has pressed again too soon.
LEMMA KeysShown ==
  ASSUME ProgramsAre(inputJob, input, hands.meant, hands.rpc, hands.again)
  PROVE  KeysAreShown
<1>0. PICK down : KeyInv(inputJob, input, hands.meant, down) /\ ProgramsOk(down, input.releases, hands.rpc, hands.again)
  BY Zenon DEF ProgramsAre
<1> DEFINE m == hands.meant
           programs == RpcCells(hands.rpc)
           shown == {o \in HeldKeys : ~\E md \in {Shifts, Ctrls} : o \in md /\ Covers(md, HeldKeys)}
<1>1. input.cells = KeysOf(inputJob, input.held) \union (ComboCells(input) \union down)
  BY <1>0, Zenon DEF KeyInv, Keyed
<1>2. \A k : k \in shown <=> k \in DOMAIN m /\ Uncovered(input, k)
  BY <1>0, UncoveredIs, Zenon DEF HeldKeys
<1>3. ShownCells = (UNION {m[k].cells : k \in shown}) \union programs
  BY Zenon DEF ShownCells, RpcCells
<1> HIDE DEF shown
<1>4. \A x : x \in UNION {m[k].cells : k \in shown} <=> \E k \in shown : x \in m[k].cells
  BY SMT
<1>5. ASSUME NEW x
      PROVE  x \in UNION {m[k].cells : k \in shown} <=> x \in KeysOf(inputJob, input.held) \/ x \in ComboCells(input)
  <2>1. (\E k \in shown : x \in m[k].cells) <=> x \in KeysOf(inputJob, input.held) \/ x \in ComboCells(input)
    BY <1>0, <1>2, MeantIsCounted, CountedIsMeant, Zenon
  <2> QED BY <1>4, <2>1, Zenon
<1>6. /\ \A x \in down : x \in programs
      /\ \A x \in programs : x \notin hands.again => x \in down
  <2>1. /\ \A c \in down : \E r \in hands.rpc : r[1] = c
        /\ \A r \in hands.rpc : r[1] \notin hands.again => r[1] \in down
    BY <1>0, Zenon DEF ProgramsOk
  <2>2. \A c : c \in programs <=> \E r \in hands.rpc : r[1] = c
    BY DEF RpcCells
  <2> QED BY <2>1, <2>2
<1>7. input.cells \subseteq ShownCells
  <2>1. ASSUME NEW x \in input.cells PROVE x \in ShownCells
    BY <1>1, <1>3, <1>5, <1>6, Zenon
  <2> QED BY <2>1, Zenon
<1>8. ShownCells \ hands.again \subseteq input.cells
  <2>1. ASSUME NEW x \in ShownCells, x \notin hands.again PROVE x \in input.cells
    BY <1>1, <1>3, <1>5, <1>6, <2>1, Zenon
  <2> QED BY <2>1, Zenon
<1>9. input.kbd = ShownLines
  BY <1>0, Zenon DEF KeyInv, Lined, ShownLines, HeldKeys
<1> QED BY <1>7, <1>8, <1>9, Zenon DEF KeysAreShown

-----------------------------------------------------------------------------
(* The programs that press cells.                                          *)

LEMMA HostCellsAre == HostCells = CellsAtHand(inputJob)
<1>1. UNION {CellOf(k) : k \in inputJob.keys \union {"zero_shift"}}
        = UNION {KeyCell(inputJob, k) : k \in inputJob.keys \union {"zero_shift"}}
  BY CellIs, Zenon
<1> QED BY <1>1, KeysAre, Zenon DEF HostCells, CellsAtHand

LEMMA CellsHeld ==
  ASSUME NEW j, NEW h, NEW m, NEW programs, KeyInv(j, h, m, programs)
  PROVE  KeysOf(j, h.held) \union ComboCells(h) \subseteq CellsAtHand(j)
<1>1. DOMAIN m \subseteq j.keys /\ (h.combo # NoKey => h.combo \in DOMAIN m /\ h.combo \in FunctionKeys)
  BY Zenon DEF KeyInv, Flagged
<1>2. ASSUME NEW x \in KeysOf(j, h.held) PROVE x \in CellsAtHand(j)
  <2>1. PICK o \in h.held : x \in KeyCell(j, o)
    BY <1>2, SMT DEF KeysOf
  <2>2. Counted(j, h, m, o)
    BY <2>1, Zenon DEF KeyInv
  <2>3. o \in j.keys \union {"zero_shift"}
    BY <1>1, <2>2 DEF Counted
  <2> QED BY <2>1, <2>3, SMT DEF CellsAtHand
<1>3. ASSUME NEW x \in ComboCells(h) PROVE x \in CellsAtHand(j)
  <2>1. h.combo # NoKey /\ x = CtrlFkeyCells[h.combo]
    BY <1>3 DEF ComboCells
  <2>2. h.combo \in j.keys \intersect FunctionKeys
    BY <1>1, <2>1
  <2> QED BY <2>1, <2>2, SMT DEF CellsAtHand
<1> QED BY <1>2, <1>3

\* Programs press and release cells that are none of the keys'.
LEMMA ProgramsKeep ==
  ASSUME NEW j, NEW h, NEW m, NEW programs, KeyInv(j, h, m, programs),
         NEW gone, gone \intersect CellsAtHand(j) = {}, NEW more, more \intersect CellsAtHand(j) = {},
         NEW w, Shape(w), w.cells = (h.cells \ gone) \union more, SameFlags(h, w),
         w.kbd = h.kbd, w.held = h.held, w.redirect = h.redirect,
         NEW after, after = (programs \ gone) \union more
  PROVE  KeyInv(j, w, m, after)
<1>1. PICK v : v = [h EXCEPT !.cells = w.cells]
  OBVIOUS
<1>2. /\ w.kbd = h.kbd /\ w.held = h.held /\ w.redirect = h.redirect
      /\ w.ctrl = h.ctrl /\ w.combo = h.combo /\ w.shift = h.shift /\ w.active = h.active /\ w.ffHold = h.ffHold
  BY Zenon DEF SameFlags
<1>3. Flagged(j, w, m)
  <2>1. Flagged(j, h, m)
    BY Zenon DEF KeyInv
  <2> QED BY <1>2, <2>1 DEF Flagged
<1>4. Lined(w, m)
  BY <1>2, Zenon DEF KeyInv, Lined
<1>5. ASSUME NEW k \in DOMAIN m PROVE Understood(j, w, m, k)
  <2>1. Understood(j, h, m, k)
    BY Zenon DEF KeyInv
  <2> QED BY <1>2, <2>1 DEF Understood
<1>6. ASSUME NEW x PROVE x \in w.held <=> Counted(j, w, m, x)
  <2>1. x \in h.held <=> Counted(j, h, m, x)
    BY Zenon DEF KeyInv
  <2> QED BY <1>2, <2>1 DEF Counted
<1>7. Keyed(j, w, ComboCells(w) \union after)
  <2>1. ComboCells(w) = ComboCells(h)
    BY <1>2, Zenon DEF ComboCells
  <2>2. h.cells = KeysOf(j, h.held) \union (ComboCells(h) \union programs)
    BY Zenon DEF KeyInv, Keyed
  <2>3. KeysOf(j, h.held) \union ComboCells(h) \subseteq CellsAtHand(j)
    BY CellsHeld, Zenon
  <2>4. w.cells = KeysOf(j, h.held) \union (ComboCells(h) \union after)
    BY <2>2, <2>3
  <2> QED BY <1>2, <2>1, <2>4, Zenon DEF Keyed
<1>8. after \intersect CellsAtHand(j) = {} /\ Usable(j)
  <2>1. programs \intersect CellsAtHand(j) = {} /\ Usable(j)
    BY Zenon DEF KeyInv
  <2> QED BY <2>1
<1> QED BY <1>3, <1>4, <1>5, <1>6, <1>7, <1>8, Zenon DEF KeyInv

SameHands(x, y) ==
  DOMAIN y = HandsFields /\ y.plugged = x.plugged /\ y.controls = x.controls /\ y.meant = x.meant /\ y.joystick = x.joystick

ProgramsMove ==
  /\ ProgramsAre(inputJob', input', hands'.meant, hands'.rpc, hands'.again) /\ SameHands(hands, hands')
  /\ input'.pad = input.pad /\ input'.slots = input.slots /\ input'.turbo = input.turbo

RpcChanged(x, rpc, again, y) == y.rpc = rpc /\ y.again = again /\ SameHands(x, y)

LEMMA RpcSet ==
  ASSUME NEW x, DOMAIN x = HandsFields, NEW rpc, NEW again
  PROVE  /\ RpcChanged(x, rpc, x.again, [x EXCEPT !.rpc = rpc])
         /\ RpcChanged(x, rpc, again, [x EXCEPT !.rpc = rpc, !.again = again])
<1>1. RpcChanged(x, rpc, x.again, [x EXCEPT !.rpc = rpc])
  BY SMT DEF HandsFields, SameHands, RpcChanged
<1>2. RpcChanged(x, rpc, again, [x EXCEPT !.rpc = rpc, !.again = again])
  BY SMT DEF HandsFields, SameHands, RpcChanged
<1> QED BY <1>1, <1>2, Zenon

CellsChanged(h, cells, w) ==
  /\ Shape(w) /\ SamePads(h, w) /\ SameFlags(h, w)
  /\ w.cells = cells /\ w.kbd = h.kbd /\ w.held = h.held /\ w.redirect = h.redirect

LEMMA CellsSet ==
  ASSUME NEW h, Shape(h), NEW cells PROVE CellsChanged(h, cells, [h EXCEPT !.cells = cells])
BY SMT DEF CellsChanged, Shape, InputFields, SamePads, SameFlags

ReleasesChanged(h, releases, w) ==
  /\ Shape(w) /\ SameFlags(h, w) /\ w.releases = releases
  /\ w.pad = h.pad /\ w.slots = h.slots /\ w.turbo = h.turbo /\ w.counter = h.counter
  /\ w.cells = h.cells /\ w.kbd = h.kbd /\ w.held = h.held /\ w.redirect = h.redirect

LEMMA ReleasesSet ==
  ASSUME NEW h, Shape(h), NEW releases PROVE ReleasesChanged(h, releases, [h EXCEPT !.releases = releases])
BY SMT DEF ReleasesChanged, Shape, InputFields, SameFlags

\* Cells and releases, one after the other.
BothChanged(h, cells, releases, w) ==
  /\ Shape(w) /\ SameFlags(h, w) /\ w.releases = releases /\ w.cells = cells
  /\ w.kbd = h.kbd /\ w.held = h.held /\ w.redirect = h.redirect
  /\ w.pad = h.pad /\ w.slots = h.slots /\ w.turbo = h.turbo /\ w.counter = h.counter

LEMMA BothSet ==
  ASSUME NEW h, Shape(h), NEW cells, NEW releases
  PROVE  BothChanged(h, cells, releases, [h EXCEPT !.cells = cells, !.releases = releases])
<1>1. PICK v : v = [h EXCEPT !.cells = cells]
  OBVIOUS
<1>2. PICK w : w = [v EXCEPT !.releases = releases]
  OBVIOUS
<1>3. CellsChanged(h, cells, v)
  BY <1>1, CellsSet, Zenon
<1>4. Shape(v) /\ v.pad = h.pad /\ v.slots = h.slots /\ v.turbo = h.turbo /\ v.counter = h.counter
  BY <1>3, Zenon DEF CellsChanged, SamePads
<1>5. ReleasesChanged(v, releases, w)
  BY <1>2, <1>4, ReleasesSet, Zenon
<1>6. SameFlags(h, w)
  BY <1>3, <1>5, Zenon DEF CellsChanged, ReleasesChanged, SameFlags
<1>7. /\ Shape(w) /\ w.releases = releases /\ w.cells = cells
      /\ w.kbd = h.kbd /\ w.held = h.held /\ w.redirect = h.redirect
  BY <1>3, <1>5, Zenon DEF CellsChanged, ReleasesChanged
<1>8. w.pad = h.pad /\ w.slots = h.slots /\ w.turbo = h.turbo /\ w.counter = h.counter
  BY <1>4, <1>5, Zenon DEF ReleasesChanged
<1>9. BothChanged(h, cells, releases, w)
  BY <1>6, <1>7, <1>8, Zenon DEF BothChanged
<1> QED BY <1>1, <1>2, <1>9, Zenon

\* What a press makes of the programs.
PressedNow(rpc, cell, frames)     == {r \in rpc : r[1] # cell} \union {<<cell, frames>>}
Pending(releases, cell, frames)   == IF frames = 0 THEN releases ELSE releases \union {<<frames, cell>>}
TooSoon(releases, cell, frames)   == \E p \in releases : p[2] = cell /\ (frames = 0 \/ p[1] < frames)
Marked(releases, again, cell, frames) ==
  IF TooSoon(releases, cell, frames) THEN again \union {cell} ELSE again \ {cell}

LEMMA PressOk ==
  ASSUME NEW down, NEW releases, NEW rpc, NEW again, ProgramsOk(down, releases, rpc, again),
         NEW cell, NEW frames \in Nat
  PROVE  ProgramsOk(down \union {cell}, Pending(releases, cell, frames), PressedNow(rpc, cell, frames),
                    Marked(releases, again, cell, frames))
<1>0. PICK pending : pending = Pending(releases, cell, frames)
  OBVIOUS
<1>1. PICK now : now = PressedNow(rpc, cell, frames)
  OBVIOUS
<1>2. PICK marked : marked = Marked(releases, again, cell, frames)
  OBVIOUS
<1>3. /\ \A r \in rpc : r = <<r[1], r[2]>> /\ r[2] \in Nat
      /\ \A r, s \in rpc : r[1] = s[1] => r = s
      /\ \A p \in releases : p = <<p[1], p[2]>> /\ p[1] \in Nat \ {0}
      /\ \A c \in down : \E r \in rpc : r[1] = c
      /\ \A r \in rpc : r[2] # 0 => <<r[2], r[1]>> \in releases
      /\ \A r \in rpc : r[1] \notin again =>
           /\ r[1] \in down
           /\ \A p \in releases : p[2] = r[1] => r[2] # 0 /\ r[2] <= p[1]
  BY Zenon DEF ProgramsOk
<1>4. PICK new : new = <<cell, frames>>
  OBVIOUS
<1>5. new[1] = cell /\ new[2] = frames /\ new = <<new[1], new[2]>>
  BY <1>4
<1>6. PICK timed : timed = <<frames, cell>>
  OBVIOUS
<1>7. timed[1] = frames /\ timed[2] = cell /\ timed = <<timed[1], timed[2]>>
  BY <1>6
<1>8. \A r : r \in now <=> r = new \/ (r \in rpc /\ r[1] # cell)
  BY <1>1, <1>4 DEF PressedNow
<1>9. \A p : p \in pending <=> p \in releases \/ (frames # 0 /\ p = timed)
  BY <1>0, <1>6, SMT DEF Pending
<1>10. \A c : c # cell => (c \in marked <=> c \in again)
  BY <1>2, SMT DEF Marked
<1>11. cell \notin marked => \A p \in releases : p[2] = cell => frames # 0 /\ frames <= p[1]
  <2>1. ASSUME cell \notin marked, NEW p \in releases, p[2] = cell PROVE frames # 0 /\ ~(p[1] < frames)
    <3>1. ~TooSoon(releases, cell, frames)
      BY <1>2, <2>1 DEF Marked
    <3> QED BY <2>1, <3>1 DEF TooSoon
  <2>2. ASSUME NEW p \in releases, ~(p[1] < frames) PROVE frames <= p[1]
    <3>1. p[1] \in Nat
      BY <1>3
    <3> QED BY SMT, <2>2, <3>1
  <2> QED BY <2>1, <2>2
<1>12. \A r \in now : r = <<r[1], r[2]>> /\ r[2] \in Nat
  BY <1>3, <1>5, <1>8
<1>13. \A r, s \in now : r[1] = s[1] => r = s
  BY <1>3, <1>5, <1>8
<1>14. \A p \in pending : p = <<p[1], p[2]>> /\ p[1] \in Nat \ {0}
  BY <1>3, <1>7, <1>9
<1>15. \A c \in down \union {cell} : \E r \in now : r[1] = c
  BY <1>3, <1>5, <1>8
<1>16. \A r \in now : r[2] # 0 => <<r[2], r[1]>> \in pending
  BY <1>3, <1>5, <1>6, <1>8, <1>9
<1>17. ASSUME NEW r \in now, r[1] \notin marked
       PROVE  r[1] \in down \union {cell} /\ \A p \in pending : p[2] = r[1] => r[2] # 0 /\ r[2] <= p[1]
  <2>1. CASE r = new
    <3>1. ASSUME NEW p \in pending, p[2] = cell PROVE frames # 0 /\ frames <= p[1]
      <4>1. CASE p \in releases
        BY <1>5, <1>11, <1>17, <2>1, <3>1, <4>1
      <4>2. CASE frames # 0 /\ p = timed
        <5>1. p[1] = frames
          BY <1>7, <4>2
        <5> QED BY SMT, <4>2, <5>1
      <4> QED BY <1>9, <4>1, <4>2
    <3> QED BY <1>5, <2>1, <3>1
  <2>2. CASE r \in rpc /\ r[1] # cell
    <3>1. r[1] \notin again
      BY <1>10, <1>17, <2>2
    <3>2. ASSUME NEW p \in pending, p[2] = r[1] PROVE p \in releases
      BY <1>7, <1>9, <2>2, <3>2
    <3> QED BY <1>3, <2>2, <3>1, <3>2
  <2> QED BY <1>8, <2>1, <2>2
<1>18. ProgramsOk(down \union {cell}, pending, now, marked)
  BY <1>12, <1>13, <1>14, <1>15, <1>16, <1>17, Zenon DEF ProgramsOk
<1> QED BY <1>0, <1>1, <1>2, <1>18, Zenon

\* A press, timed or not, of a cell that is none of the keys'.
LEMMA PressOf ==
  ASSUME ProgramsAre(inputJob, input, hands.meant, hands.rpc, hands.again), DOMAIN hands = HandsFields,
         inputJob' = inputJob, NEW cell, cell \notin CellsAtHand(inputJob), NEW frames \in Nat,
         BothChanged(input, input.cells \union {cell}, Pending(input.releases, cell, frames), input'),
         RpcChanged(hands, PressedNow(hands.rpc, cell, frames), Marked(input.releases, hands.again, cell, frames), hands')
  PROVE  ProgramsMove
<1>1. PICK down : KeyInv(inputJob, input, hands.meant, down) /\ ProgramsOk(down, input.releases, hands.rpc, hands.again)
  BY Zenon DEF ProgramsAre
<1>2. PICK cells : cells = input.cells \union {cell}
  OBVIOUS
<1>3. PICK pending : pending = Pending(input.releases, cell, frames)
  OBVIOUS
<1>4. BothChanged(input, cells, pending, input')
  BY <1>2, <1>3, Zenon
<1>5. /\ Shape(input') /\ SameFlags(input, input') /\ input'.releases = pending /\ input'.cells = cells
      /\ input'.kbd = input.kbd /\ input'.held = input.held /\ input'.redirect = input.redirect
      /\ input'.pad = input.pad /\ input'.slots = input.slots /\ input'.turbo = input.turbo
  BY <1>4, Zenon DEF BothChanged
<1>6. PICK after : after = down \union {cell}
  OBVIOUS
<1>7. KeyInv(inputJob, input', hands.meant, after)
  <2>1. {} \intersect CellsAtHand(inputJob) = {} /\ {cell} \intersect CellsAtHand(inputJob) = {}
    OBVIOUS
  <2>2. input'.cells = (input.cells \ {}) \union {cell} /\ after = (down \ {}) \union {cell}
    BY <1>2, <1>5, <1>6
  <2> QED BY <1>1, <1>5, <2>1, <2>2, ProgramsKeep, Zenon
<1>8. /\ hands'.rpc = PressedNow(hands.rpc, cell, frames)
      /\ hands'.again = Marked(input.releases, hands.again, cell, frames)
      /\ SameHands(hands, hands') /\ hands'.meant = hands.meant
  BY Zenon DEF RpcChanged, SameHands
<1>9. ProgramsOk(after, pending, hands'.rpc, hands'.again)
  <2>1. ProgramsOk(down \union {cell}, Pending(input.releases, cell, frames), PressedNow(hands.rpc, cell, frames),
                   Marked(input.releases, hands.again, cell, frames))
    BY <1>1, PressOk, Zenon
  <2> QED BY <1>3, <1>6, <1>8, <2>1, Zenon
<1>10. \A p \in pending : p[2] \notin CellsAtHand(inputJob)
  <2>1. \A p \in input.releases : p[2] \notin CellsAtHand(inputJob)
    BY Zenon DEF ProgramsAre
  <2>2. <<frames, cell>>[2] = cell
    OBVIOUS
  <2>3. \A p : p \in pending => p \in input.releases \/ p = <<frames, cell>>
    BY <1>3, SMT DEF Pending
  <2> QED BY <2>1, <2>2, <2>3, Zenon
<1>11. ProgramsAre(inputJob, input', hands.meant, hands'.rpc, hands'.again)
  BY <1>5, <1>7, <1>9, <1>10, Zenon DEF ProgramsAre
<1> QED BY <1>5, <1>8, <1>11, Zenon DEF ProgramsMove

LEMMA RpcPressed ==
  ASSUME ProgramsAre(inputJob, input, hands.meant, hands.rpc, hands.again), DOMAIN hands = HandsFields,
         AnyKeys = FALSE, inputJob' = inputJob, RpcPress
  PROVE  ProgramsMove
<1>1. PICK cell \in inputJob.cells :
        /\ Apart(cell)
        /\ input' = [input EXCEPT !.cells = @ \union {cell}]
        /\ hands' = [hands EXCEPT !.rpc = Wanted(cell, UntilReleased), !.again = Again(cell, UntilReleased)]
  BY Zenon DEF RpcPress
<1>2. Shape(input)
  BY Zenon DEF ProgramsAre, KeyInv, Keyed
<1>3. cell \notin CellsAtHand(inputJob)
  BY <1>1, HostCellsAre, Zenon DEF Apart
<1>4. BothChanged(input, input.cells \union {cell}, Pending(input.releases, cell, 0), input')
  <2>1. PICK cells : cells = input.cells \union {cell}
    OBVIOUS
  <2>2. input' = [input EXCEPT !.cells = cells]
    BY <1>1, <2>1, Zenon
  <2>3. CellsChanged(input, cells, input')
    BY <1>2, <2>2, CellsSet, Zenon
  <2>4. Pending(input.releases, cell, 0) = input.releases
    BY SMT DEF Pending
  <2>5. BothChanged(input, cells, input.releases, input')
    BY <2>3, Zenon DEF CellsChanged, SamePads, BothChanged
  <2> QED BY <2>1, <2>4, <2>5, Zenon
<1>5. RpcChanged(hands, PressedNow(hands.rpc, cell, 0), Marked(input.releases, hands.again, cell, 0), hands')
  <2>1. Wanted(cell, UntilReleased) = PressedNow(hands.rpc, cell, 0)
    BY SMT DEF Wanted, PressedNow, UntilReleased
  <2>2. Again(cell, UntilReleased) = Marked(input.releases, hands.again, cell, 0)
    BY SMT DEF Again, Marked, TooSoon, UntilReleased
  <2>3. PICK rpc : rpc = PressedNow(hands.rpc, cell, 0)
    OBVIOUS
  <2>4. PICK again : again = Marked(input.releases, hands.again, cell, 0)
    OBVIOUS
  <2>5. hands' = [hands EXCEPT !.rpc = rpc, !.again = again]
    BY <1>1, <2>1, <2>2, <2>3, <2>4, Zenon
  <2>6. RpcChanged(hands, rpc, again, hands')
    BY <2>5, RpcSet, Zenon
  <2> QED BY <2>3, <2>4, <2>6, Zenon
<1>6. PICK frames : frames = 0
  OBVIOUS
<1>7. frames \in Nat
  BY <1>6, SMT
<1>8. /\ BothChanged(input, input.cells \union {cell}, Pending(input.releases, cell, frames), input')
      /\ RpcChanged(hands, PressedNow(hands.rpc, cell, frames), Marked(input.releases, hands.again, cell, frames), hands')
  BY <1>4, <1>5, <1>6, Zenon
<1> QED BY <1>3, <1>7, <1>8, PressOf, Zenon

LEMMA RpcNamed ==
  ASSUME ProgramsAre(inputJob, input, hands.meant, hands.rpc, hands.again), DOMAIN hands = HandsFields,
         AnyKeys = FALSE, inputJob' = inputJob, RpcPressNamed
  PROVE  ProgramsMove
<1>1. PICK cell \in inputJob.cells, frames \in 1..2 :
        /\ Apart(cell)
        /\ input' = [input EXCEPT !.cells = @ \union {cell}, !.releases = @ \union {<<frames, cell>>}]
        /\ hands' = [hands EXCEPT !.rpc = Wanted(cell, frames), !.again = Again(cell, frames)]
  BY Zenon DEF RpcPressNamed
<1>2. Shape(input) /\ frames \in Nat /\ frames # 0
  <2>1. Shape(input)
    BY Zenon DEF ProgramsAre, KeyInv, Keyed
  <2> QED BY <2>1, SMT
<1>3. cell \notin CellsAtHand(inputJob)
  BY <1>1, HostCellsAre, Zenon DEF Apart
<1>4. BothChanged(input, input.cells \union {cell}, Pending(input.releases, cell, frames), input')
  <2>1. PICK cells : cells = input.cells \union {cell}
    OBVIOUS
  <2>2. PICK pending : pending = Pending(input.releases, cell, frames)
    OBVIOUS
  <2>3. pending = input.releases \union {<<frames, cell>>}
    BY <1>2, <2>2, SMT DEF Pending
  <2>4. input' = [input EXCEPT !.cells = cells, !.releases = pending]
    BY <1>1, <2>1, <2>3, Zenon
  <2>5. BothChanged(input, cells, pending, input')
    BY <1>2, <2>4, BothSet, Zenon
  <2> QED BY <2>1, <2>2, <2>5, Zenon
<1>5. RpcChanged(hands, PressedNow(hands.rpc, cell, frames), Marked(input.releases, hands.again, cell, frames), hands')
  <2>1. Wanted(cell, frames) = PressedNow(hands.rpc, cell, frames)
    BY SMT DEF Wanted, PressedNow
  <2>2. Again(cell, frames) = Marked(input.releases, hands.again, cell, frames)
    BY SMT DEF Again, Marked, TooSoon, UntilReleased
  <2>3. PICK rpc : rpc = PressedNow(hands.rpc, cell, frames)
    OBVIOUS
  <2>4. PICK again : again = Marked(input.releases, hands.again, cell, frames)
    OBVIOUS
  <2>5. hands' = [hands EXCEPT !.rpc = rpc, !.again = again]
    BY <1>1, <2>1, <2>2, <2>3, <2>4, Zenon
  <2>6. RpcChanged(hands, rpc, again, hands')
    BY <2>5, RpcSet, Zenon
  <2> QED BY <2>3, <2>4, <2>6, Zenon
<1> QED BY <1>2, <1>3, <1>4, <1>5, PressOf, Zenon

LEMMA RpcReleased ==
  ASSUME ProgramsAre(inputJob, input, hands.meant, hands.rpc, hands.again), DOMAIN hands = HandsFields,
         AnyKeys = FALSE, inputJob' = inputJob, RpcRelease
  PROVE  ProgramsMove
<1>1. PICK cell \in inputJob.cells :
        /\ Apart(cell)
        /\ input' = [input EXCEPT !.cells = @ \ {cell}]
        /\ hands' = [hands EXCEPT !.rpc = {r \in @ : r[1] # cell}]
  BY Zenon DEF RpcRelease
<1>2. PICK down : KeyInv(inputJob, input, hands.meant, down) /\ ProgramsOk(down, input.releases, hands.rpc, hands.again)
  BY Zenon DEF ProgramsAre
<1>3. Shape(input)
  BY <1>2, Zenon DEF KeyInv, Keyed
<1>4. {cell} \intersect CellsAtHand(inputJob) = {}
  BY <1>1, HostCellsAre DEF Apart
<1>5. PICK cells : cells = input.cells \ {cell}
  OBVIOUS
<1>6. /\ Shape(input') /\ SamePads(input, input') /\ SameFlags(input, input')
      /\ input'.cells = cells /\ input'.kbd = input.kbd /\ input'.held = input.held /\ input'.redirect = input.redirect
  <2>1. input' = [input EXCEPT !.cells = cells]
    BY <1>1, <1>5, Zenon
  <2> QED BY <1>3, <2>1, CellsSet, Zenon DEF CellsChanged
<1>7. PICK rpc : rpc = {r \in hands.rpc : r[1] # cell}
  OBVIOUS
<1>8. hands'.rpc = rpc /\ hands'.again = hands.again /\ SameHands(hands, hands') /\ hands'.meant = hands.meant
  <2>1. hands' = [hands EXCEPT !.rpc = rpc]
    BY <1>1, <1>7, Zenon
  <2>2. RpcChanged(hands, rpc, hands.again, hands')
    BY <2>1, RpcSet, Zenon
  <2> QED BY <2>2, Zenon DEF RpcChanged, SameHands
<1>9. PICK after : after = down \ {cell}
  OBVIOUS
<1>10. KeyInv(inputJob, input', hands.meant, after)
  <2>1. {} \intersect CellsAtHand(inputJob) = {}
    OBVIOUS
  <2>2. input'.cells = (input.cells \ {cell}) \union {} /\ after = (down \ {cell}) \union {}
    BY <1>5, <1>6, <1>9
  <2> QED BY <1>2, <1>4, <1>6, <2>1, <2>2, ProgramsKeep, Zenon
<1>11. ProgramsOk(after, input.releases, rpc, hands.again)
  BY <1>2, <1>7, <1>9, SMT DEF ProgramsOk
<1>12. input'.releases = input.releases /\ input'.pad = input.pad /\ input'.slots = input.slots /\ input'.turbo = input.turbo
  BY <1>6, Zenon DEF SamePads
<1>13. ProgramsAre(inputJob, input', hands.meant, rpc, hands.again)
  <2>1. \A p \in input.releases : p[2] \notin CellsAtHand(inputJob)
    BY Zenon DEF ProgramsAre
  <2> QED BY <1>10, <1>11, <1>12, <2>1, Zenon DEF ProgramsAre
<1> QED BY <1>8, <1>12, <1>13, Zenon DEF ProgramsMove

\* What a frame does to the releases: those that are due are the programs' last.
Passed(rpc) == {IF r[2] = UntilReleased THEN r ELSE <<r[1], r[2] - 1>> : r \in {s \in rpc : s[2] # 1}}

FrameEnds(j, h, m, rpc, again, w) ==
  /\ ProgramsAre(j, w, m, Passed(rpc), again)
  /\ w.pad = h.pad /\ w.slots = h.slots /\ w.turbo = h.turbo

LEMMA ReleasesPass ==
  ASSUME NEW j, NEW h, NEW m, NEW rpc, NEW again, ProgramsAre(j, h, m, rpc, again)
  PROVE  FrameEnds(j, h, m, rpc, again, KeyReleases(h))
<1>0. PICK w : w = KeyReleases(h)
  OBVIOUS
<1>1. PICK later : later = {<<r[1] - 1, r[2]>> : r \in h.releases}
  OBVIOUS
<1>2. PICK due : due = {r[2] : r \in {s \in later : s[1] <= 0}}
  OBVIOUS
<1>3. PICK cells : cells = h.cells \ due
  OBVIOUS
<1>4. PICK releases : releases = {r \in later : r[1] > 0}
  OBVIOUS
<1>5. PICK down : KeyInv(j, h, m, down) /\ ProgramsOk(down, h.releases, rpc, again) /\ Shape(h)
  BY Zenon DEF ProgramsAre, KeyInv, Keyed
<1>6. /\ Shape(w) /\ SameFlags(h, w) /\ w.releases = releases /\ w.cells = cells
      /\ w.kbd = h.kbd /\ w.held = h.held /\ w.redirect = h.redirect
      /\ w.pad = h.pad /\ w.slots = h.slots /\ w.turbo = h.turbo /\ w.counter = h.counter
  <2>1. w = [h EXCEPT !.cells = cells, !.releases = releases]
    BY <1>0, <1>1, <1>2, <1>3, <1>4, Zenon DEF KeyReleases
  <2>2. BothChanged(h, cells, releases, [h EXCEPT !.cells = cells, !.releases = releases])
    BY <1>5, BothSet, Zenon
  <2>3. BothChanged(h, cells, releases, w)
    BY <2>1, <2>2
  <2> QED BY <2>3, Zenon DEF BothChanged
<1>7. /\ \A r \in rpc : r = <<r[1], r[2]>> /\ r[2] \in Nat
      /\ \A r, s \in rpc : r[1] = s[1] => r = s
      /\ \A p \in h.releases : p = <<p[1], p[2]>> /\ p[1] \in Nat \ {0}
      /\ \A c \in down : \E r \in rpc : r[1] = c
      /\ \A r \in rpc : r[2] # 0 => <<r[2], r[1]>> \in h.releases
      /\ \A r \in rpc : r[1] \notin again =>
           /\ r[1] \in down
           /\ \A p \in h.releases : p[2] = r[1] => r[2] # 0 /\ r[2] <= p[1]
  BY <1>5, Zenon DEF ProgramsOk
<1>8. ASSUME NEW p \in h.releases, NEW x, x = <<p[1] - 1, p[2]>>
      PROVE  /\ x[1] = p[1] - 1 /\ x[2] = p[2] /\ x = <<x[1], x[2]>>
             /\ (x[1] <= 0 <=> p[1] = 1) /\ (x[1] > 0 <=> p[1] # 1) /\ (p[1] # 1 => x[1] \in Nat \ {0})
  <2>1. p[1] \in Nat /\ p[1] # 0
    BY <1>7
  <2>2. x[1] = p[1] - 1 /\ x[2] = p[2] /\ x = <<x[1], x[2]>>
    BY <1>8
  <2> QED BY SMT, <2>1, <2>2
<1>9. ASSUME NEW c PROVE c \in due <=> \E p \in h.releases : p[1] = 1 /\ c = p[2]
  <2>1. c \in due <=> \E x \in later : x[1] <= 0 /\ c = x[2]
    BY <1>2
  <2>2. \A x : x \in later <=> \E p \in h.releases : x = <<p[1] - 1, p[2]>>
    BY <1>1, Zenon
  <2>3. ASSUME c \in due PROVE \E p \in h.releases : p[1] = 1 /\ c = p[2]
    <3>1. PICK x \in later : x[1] <= 0 /\ c = x[2]
      BY <2>1, <2>3, Zenon
    <3>2. PICK p \in h.releases : x = <<p[1] - 1, p[2]>>
      BY <2>2, <3>1, Zenon
    <3>3. p[1] = 1 /\ x[2] = p[2]
      BY <1>8, <3>1, <3>2, Zenon
    <3> QED BY <3>1, <3>3
  <2>4. ASSUME NEW p \in h.releases, p[1] = 1, c = p[2] PROVE c \in due
    <3>1. PICK x : x = <<p[1] - 1, p[2]>>
      OBVIOUS
    <3>2. x[1] <= 0 /\ x[2] = p[2]
      BY <1>8, <2>4, <3>1, Zenon
    <3> QED BY <2>1, <2>2, <2>4, <3>1, <3>2, Zenon
  <2> QED BY <2>3, <2>4, Zenon
<1>10. ASSUME NEW x PROVE x \in releases <=> \E p \in h.releases : p[1] # 1 /\ x = <<p[1] - 1, p[2]>>
  <2>1. x \in releases <=> x \in later /\ x[1] > 0
    BY <1>4
  <2>2. x \in later <=> \E p \in h.releases : x = <<p[1] - 1, p[2]>>
    BY <1>1, Zenon
  <2> QED BY <1>8, <2>1, <2>2, Zenon
<1>11. ASSUME NEW y
       PROVE  y \in Passed(rpc) <=> \E r \in rpc : r[2] # 1 /\ y = <<r[1], IF r[2] = 0 THEN 0 ELSE r[2] - 1>>
  <2>1. y \in Passed(rpc) <=> \E r \in rpc : r[2] # 1 /\ y = (IF r[2] = UntilReleased THEN r ELSE <<r[1], r[2] - 1>>)
    BY Zenon DEF Passed
  <2>2. ASSUME NEW r \in rpc
        PROVE  (IF r[2] = UntilReleased THEN r ELSE <<r[1], r[2] - 1>>) = <<r[1], IF r[2] = 0 THEN 0 ELSE r[2] - 1>>
    <3>1. r = <<r[1], r[2]>>
      BY <1>7, Zenon
    <3>2. CASE r[2] = 0
      BY <3>1, <3>2 DEF UntilReleased
    <3>3. CASE r[2] # 0
      BY <3>3 DEF UntilReleased
    <3> QED BY <3>2, <3>3
  <2> QED BY <2>1, <2>2, Zenon
<1>12. ASSUME NEW r \in rpc, NEW y, y = <<r[1], IF r[2] = 0 THEN 0 ELSE r[2] - 1>>, r[2] # 1
       PROVE  /\ y[1] = r[1] /\ y[2] = (IF r[2] = 0 THEN 0 ELSE r[2] - 1)
              /\ y = <<y[1], y[2]>> /\ y[2] \in Nat /\ (y[2] # 0 <=> r[2] > 1)
  <2>1. y[1] = r[1] /\ y[2] = IF r[2] = 0 THEN 0 ELSE r[2] - 1
    BY <1>12
  <2>2. y = <<y[1], y[2]>>
    BY <1>12, <2>1, Zenon
  <2>3. r[2] \in Nat
    BY <1>7
  <2> QED BY SMT, <1>12, <2>1, <2>2, <2>3
<1>13. PICK after : after = down \ due
  OBVIOUS
<1>14. KeyInv(j, w, m, after)
  <2>1. due \intersect CellsAtHand(j) = {}
    <3>1. \A p \in h.releases : p[2] \notin CellsAtHand(j)
      BY Zenon DEF ProgramsAre
    <3> QED BY <1>9, <3>1
  <2>2. {} \intersect CellsAtHand(j) = {}
    OBVIOUS
  <2>3. after = (down \ due) \union {} /\ w.cells = (h.cells \ due) \union {}
    BY <1>3, <1>6, <1>13
  <2>4. Shape(w) /\ SameFlags(h, w) /\ w.kbd = h.kbd /\ w.held = h.held /\ w.redirect = h.redirect
    BY <1>6, Zenon
  <2> QED BY <1>5, <2>1, <2>2, <2>3, <2>4, ProgramsKeep, Zenon
<1>15. ProgramsOk(after, releases, Passed(rpc), again)
  <2>1. ASSUME NEW y \in Passed(rpc) PROVE y = <<y[1], y[2]>> /\ y[2] \in Nat
    <3>1. PICK r \in rpc : r[2] # 1 /\ y = <<r[1], IF r[2] = 0 THEN 0 ELSE r[2] - 1>>
      BY <1>11, <2>1, Zenon
    <3> QED BY <1>12, <3>1, Zenon
  <2>2. ASSUME NEW y \in Passed(rpc), NEW z \in Passed(rpc), y[1] = z[1] PROVE y = z
    <3>1. PICK r \in rpc : r[2] # 1 /\ y = <<r[1], IF r[2] = 0 THEN 0 ELSE r[2] - 1>>
      BY <1>11, <2>2, Zenon
    <3>2. PICK s \in rpc : s[2] # 1 /\ z = <<s[1], IF s[2] = 0 THEN 0 ELSE s[2] - 1>>
      BY <1>11, <2>2, Zenon
    <3>3. r[1] = s[1]
      BY <1>12, <2>2, <3>1, <3>2, Zenon
    <3> QED BY <1>7, <3>1, <3>2, <3>3, Zenon
  <2>3. ASSUME NEW x \in releases PROVE x = <<x[1], x[2]>> /\ x[1] \in Nat \ {0}
    <3>1. PICK p \in h.releases : p[1] # 1 /\ x = <<p[1] - 1, p[2]>>
      BY <1>10, Zenon
    <3> QED BY <1>8, <3>1
  <2>4. ASSUME NEW c \in after PROVE \E y \in Passed(rpc) : y[1] = c
    <3>1. c \in down /\ c \notin due
      BY <1>13
    <3>2. PICK r \in rpc : r[1] = c
      BY <1>7, <3>1, Zenon
    <3>3. r[2] # 1
      <4>1. ASSUME r[2] = 1 PROVE FALSE
        <5>1. r[2] # 0
          BY SMT, <4>1
        <5>2. <<r[2], r[1]>> \in h.releases
          BY <1>7, <5>1, Zenon
        <5>3. <<r[2], r[1]>>[1] = 1 /\ <<r[2], r[1]>>[2] = c
          BY <3>2, <4>1
        <5> QED BY <1>9, <3>1, <5>2, <5>3, Zenon
      <4> QED BY <4>1
    <3>4. PICK y : y = <<r[1], IF r[2] = 0 THEN 0 ELSE r[2] - 1>>
      OBVIOUS
    <3>5. y[1] = r[1]
      BY <3>4
    <3> QED BY <1>11, <3>2, <3>3, <3>4, <3>5, Zenon
  <2>5. ASSUME NEW y \in Passed(rpc), y[2] # 0 PROVE <<y[2], y[1]>> \in releases
    <3>1. PICK r \in rpc : r[2] # 1 /\ y = <<r[1], IF r[2] = 0 THEN 0 ELSE r[2] - 1>>
      BY <1>11, <2>5, Zenon
    <3>2. y[1] = r[1] /\ y[2] = (IF r[2] = 0 THEN 0 ELSE r[2] - 1) /\ r[2] > 1
      BY <1>12, <2>5, <3>1, Zenon
    <3>3. r[2] # 0 /\ y[2] = r[2] - 1
      BY <2>5, <3>2
    <3>4. PICK p : p = <<r[2], r[1]>>
      OBVIOUS
    <3>5. p \in h.releases
      BY <1>7, <3>3, <3>4, Zenon
    <3>6. p[1] = r[2] /\ p[2] = r[1]
      BY <3>4
    <3>7. <<y[2], y[1]>> = <<p[1] - 1, p[2]>>
      BY <3>2, <3>3, <3>6
    <3> QED BY <1>10, <3>1, <3>5, <3>6, <3>7, Zenon
  <2>6. ASSUME NEW y \in Passed(rpc), y[1] \notin again
        PROVE  y[1] \in after /\ \A x \in releases : x[2] = y[1] => y[2] # 0 /\ y[2] <= x[1]
    <3>1. PICK r \in rpc : r[2] # 1 /\ y = <<r[1], IF r[2] = 0 THEN 0 ELSE r[2] - 1>>
      BY <1>11, <2>6, Zenon
    <3>2. y[1] = r[1] /\ y[2] = (IF r[2] = 0 THEN 0 ELSE r[2] - 1) /\ r[2] \in Nat
      <4>1. r[2] \in Nat
        BY <1>7
      <4> QED BY <1>12, <3>1, <4>1, Zenon
    <3>3. r[1] \in down /\ \A p \in h.releases : p[2] = r[1] => r[2] # 0 /\ r[2] <= p[1]
      BY <1>7, <2>6, <3>2, Zenon
    <3>4. r[1] \notin due
      <4>1. ASSUME NEW p \in h.releases, p[1] = 1, r[1] = p[2] PROVE FALSE
        <5>1. r[2] # 0 /\ r[2] <= p[1]
          BY <3>3, <4>1, Zenon
        <5> QED BY SMT, <3>1, <3>2, <4>1, <5>1
      <4> QED BY <1>9, <4>1, Zenon
    <3>5. ASSUME NEW x \in releases, x[2] = y[1] PROVE y[2] # 0 /\ y[2] <= x[1]
      <4>1. PICK p \in h.releases : p[1] # 1 /\ x = <<p[1] - 1, p[2]>>
        BY <1>10, <3>5, Zenon
      <4>2. x[1] = p[1] - 1 /\ x[2] = p[2]
        BY <1>8, <4>1, Zenon
      <4>3. r[2] # 0 /\ r[2] <= p[1] /\ p[1] \in Nat
        <5>1. p[2] = r[1]
          BY <3>2, <3>5, <4>2, Zenon
        <5> QED BY <1>7, <3>3, <5>1
      <4> QED BY SMT, <3>1, <3>2, <4>2, <4>3
    <3> QED BY <1>13, <3>2, <3>3, <3>4, <3>5
  <2> QED BY <2>1, <2>2, <2>3, <2>4, <2>5, <2>6, Zenon DEF ProgramsOk
<1>16. \A x \in w.releases : x[2] \notin CellsAtHand(j)
  <2>1. \A p \in h.releases : p[2] \notin CellsAtHand(j)
    BY Zenon DEF ProgramsAre
  <2>2. ASSUME NEW x \in releases PROVE x[2] \notin CellsAtHand(j)
    <3>1. PICK p \in h.releases : p[1] # 1 /\ x = <<p[1] - 1, p[2]>>
      BY <1>10, Zenon
    <3>2. x[2] = p[2]
      BY <1>8, <3>1
    <3> QED BY <2>1, <3>2
  <2> QED BY <1>6, <2>2, Zenon
<1>17. ProgramsAre(j, w, m, Passed(rpc), again)
  BY <1>6, <1>14, <1>15, <1>16, Zenon DEF ProgramsAre
<1> QED BY <1>0, <1>6, <1>17, Zenon DEF FrameEnds

-----------------------------------------------------------------------------
(* The pads. A line is down only while a control of the pad in its port,   *)
(* or a program, holds it.                                                 *)

\* The bits that a control can drive.
Reach(name) ==
  IF name \in {"a", "y"} THEN {4} ELSE IF name = "dpup" THEN {0} ELSE IF name = "axis" THEN {0, 1} ELSE {0, 3}

\* A control of the pad in the port holds the line.
Driven(slots, controls, p, b) == slots[p] # 0 /\ \E o \in controls[slots[p]] : b \in o[2]

\* Autofire runs for the button of the pad in the port.
Firing(slots, controls, line) ==
  \E p \in {0, 1} : line = <<p, 4>> /\ slots[p] # 0 /\ <<"y", {4}>> \in controls[slots[p]]

\* The pads: autofire and lines only for controls that are held, or for a program.
PadOk(pads, slots, pad, turbo, plugged, controls, joystick) ==
  /\ 0 \notin pads /\ plugged \subseteq pads
  /\ slots \in [{0, 1} -> {0} \union plugged] /\ (slots[0] = slots[1] => slots[0] = 0)
  /\ DOMAIN controls = pads
  /\ \A d \in pads : d \notin plugged => controls[d] = {}
  /\ \A d \in pads : \A o \in controls[d] : o[2] \subseteq Reach(o[1])
  /\ \A line \in turbo : Firing(slots, controls, line)
  /\ \A p \in {0, 1} : \A b : <<p, b>> \in pad => <<p, b>> \in joystick \/ Driven(slots, controls, p, b)

\* All but the pads stays.
KeepsTheKeys(h, w) ==
  /\ Shape(w) /\ SameFlags(h, w) /\ w.releases = h.releases
  /\ w.cells = h.cells /\ w.kbd = h.kbd /\ w.held = h.held /\ w.redirect = h.redirect

PadChanged(h, slots, pad, turbo, w) == KeepsTheKeys(h, w) /\ w.slots = slots /\ w.pad = pad /\ w.turbo = turbo

LEMMA PadSet ==
  ASSUME NEW h, Shape(h), NEW v
  PROVE  /\ PadChanged(h, v, h.pad, h.turbo, [h EXCEPT !.slots = v])
         /\ PadChanged(h, h.slots, v, h.turbo, [h EXCEPT !.pad = v])
         /\ PadChanged(h, h.slots, h.pad, v, [h EXCEPT !.turbo = v])
         /\ PadChanged(h, h.slots, h.pad, h.turbo, [h EXCEPT !.counter = v])
<1>1. PadChanged(h, v, h.pad, h.turbo, [h EXCEPT !.slots = v])
  BY SMT DEF PadChanged, KeepsTheKeys, Shape, InputFields, SameFlags
<1>2. PadChanged(h, h.slots, v, h.turbo, [h EXCEPT !.pad = v])
  BY SMT DEF PadChanged, KeepsTheKeys, Shape, InputFields, SameFlags
<1>3. PadChanged(h, h.slots, h.pad, v, [h EXCEPT !.turbo = v])
  BY SMT DEF PadChanged, KeepsTheKeys, Shape, InputFields, SameFlags
<1>4. PadChanged(h, h.slots, h.pad, h.turbo, [h EXCEPT !.counter = v])
  BY SMT DEF PadChanged, KeepsTheKeys, Shape, InputFields, SameFlags
<1> QED BY <1>1, <1>2, <1>3, <1>4, Zenon

LEMMA PadOn ==
  ASSUME NEW h, NEW v, NEW w, NEW slots, NEW pad, NEW turbo, NEW a, NEW b, NEW c,
         PadChanged(h, a, b, c, v), PadChanged(v, slots, pad, turbo, w)
  PROVE  PadChanged(h, slots, pad, turbo, w)
BY Zenon DEF PadChanged, KeepsTheKeys, SameFlags

LEMMA KeepsKeys ==
  ASSUME NEW j, NEW h, NEW m, NEW programs, KeyInv(j, h, m, programs), NEW w, KeepsTheKeys(h, w)
  PROVE  KeyInv(j, w, m, programs)
<1>1. /\ Shape(w) /\ SameFlags(h, w) /\ w.kbd = h.kbd /\ w.held = h.held /\ w.redirect = h.redirect
      /\ w.cells = (h.cells \ {}) \union {}
  BY DEF KeepsTheKeys
<1>2. {} \intersect CellsAtHand(j) = {} /\ programs = (programs \ {}) \union {}
  OBVIOUS
<1> QED BY <1>1, <1>2, ProgramsKeep, Zenon

\* A pad is plugged in.
LEMMA OpensPad ==
  ASSUME NEW pads, NEW slots, NEW pad, NEW turbo, NEW plugged, NEW controls, NEW joystick,
         PadOk(pads, slots, pad, turbo, plugged, controls, joystick),
         NEW d \in pads, d \notin plugged, NEW q \in {0, 1}, slots[q] = 0, NEW after, after = [slots EXCEPT ![q] = d]
  PROVE  PadOk(pads, after, pad, turbo, plugged \union {d}, controls, joystick)
<1>1. /\ 0 \notin pads /\ plugged \subseteq pads
      /\ slots \in [{0, 1} -> {0} \union plugged] /\ (slots[0] = slots[1] => slots[0] = 0)
      /\ DOMAIN controls = pads
      /\ \A e \in pads : e \notin plugged => controls[e] = {}
      /\ \A e \in pads : \A o \in controls[e] : o[2] \subseteq Reach(o[1])
  BY Zenon DEF PadOk
<1>2. /\ \A line \in turbo : Firing(slots, controls, line)
      /\ \A p \in {0, 1} : \A b : <<p, b>> \in pad => <<p, b>> \in joystick \/ Driven(slots, controls, p, b)
  BY Zenon DEF PadOk
<1>3. after[q] = d /\ (\A p \in {0, 1} : p # q => after[p] = slots[p]) /\ after \in [{0, 1} -> {0} \union (plugged \union {d})]
  BY SMT, <1>1
<1>4. after[0] = after[1] => after[0] = 0
  BY SMT, <1>1, <1>3
<1>5. \A p \in {0, 1} : slots[p] # 0 => after[p] = slots[p]
  BY <1>3
<1>6. \A line \in turbo : Firing(after, controls, line)
  BY <1>2, <1>5, Zenon DEF Firing
<1>7. \A p \in {0, 1} : \A b : Driven(slots, controls, p, b) => Driven(after, controls, p, b)
  BY <1>5, Zenon DEF Driven
<1>8. \A p \in {0, 1} : \A b : <<p, b>> \in pad => <<p, b>> \in joystick \/ Driven(after, controls, p, b)
  BY <1>2, <1>7, Zenon
<1>9. plugged \union {d} \subseteq pads /\ \A e \in pads : e \notin plugged \union {d} => controls[e] = {}
  BY <1>1
<1> QED BY <1>1, <1>3, <1>4, <1>6, <1>8, <1>9, Zenon DEF PadOk

\* A pad is unplugged: its lines go up, and its autofire ends.
LEMMA ClosesPad ==
  ASSUME NEW pads, NEW slots, NEW pad, NEW turbo, NEW plugged, NEW controls, NEW joystick,
         PadOk(pads, slots, pad, turbo, plugged, controls, joystick),
         NEW d \in plugged, NEW after, after = [p \in {0, 1} |-> IF slots[p] = d THEN 0 ELSE slots[p]],
         NEW lines, \A p \in {0, 1} : \A b : <<p, b>> \in lines <=> slots[p] = d /\ b \in 0..5,
         NEW now, now = [controls EXCEPT ![d] = {}]
  PROVE  PadOk(pads, after, pad \ lines, turbo \ lines, plugged \ {d}, now, joystick)
<1>1. /\ 0 \notin pads /\ plugged \subseteq pads
      /\ slots \in [{0, 1} -> {0} \union plugged] /\ (slots[0] = slots[1] => slots[0] = 0)
      /\ DOMAIN controls = pads
      /\ \A e \in pads : e \notin plugged => controls[e] = {}
      /\ \A e \in pads : \A o \in controls[e] : o[2] \subseteq Reach(o[1])
  BY Zenon DEF PadOk
<1>2. /\ \A line \in turbo : Firing(slots, controls, line)
      /\ \A p \in {0, 1} : \A b : <<p, b>> \in pad => <<p, b>> \in joystick \/ Driven(slots, controls, p, b)
  BY Zenon DEF PadOk
<1>3. \A p \in {0, 1} : after[p] = IF slots[p] = d THEN 0 ELSE slots[p]
  OBVIOUS
<1>4. after \in [{0, 1} -> {0} \union (plugged \ {d})]
  BY SMT, <1>1
<1>5. after[0] = after[1] => after[0] = 0
  BY SMT, <1>1, <1>3
<1>6. DOMAIN now = pads /\ now[d] = {} /\ \A e \in pads : e # d => now[e] = controls[e]
  BY <1>1
<1>7. \A p \in {0, 1} : slots[p] # 0 => slots[p] \in pads
  BY SMT, <1>1
<1>8. \A p \in {0, 1} : slots[p] # 0 /\ slots[p] # d => after[p] = slots[p] /\ now[slots[p]] = controls[slots[p]]
  BY <1>3, <1>6, <1>7, Zenon
<1>9. ASSUME NEW line \in turbo \ lines PROVE Firing(after, now, line)
  <2>1. PICK p \in {0, 1} : line = <<p, 4>> /\ slots[p] # 0 /\ <<"y", {4}>> \in controls[slots[p]]
    BY <1>2, <1>9, Zenon DEF Firing
  <2>2. slots[p] # d
    <3>1. 4 \in 0..5
      BY SMT
    <3> QED BY <1>9, <2>1, <3>1
  <2>3. line = <<p, 4>> /\ after[p] # 0 /\ <<"y", {4}>> \in now[after[p]]
    BY SMT, <1>8, <2>1, <2>2
  <2> QED BY <2>3, Zenon DEF Firing
<1>10. ASSUME NEW p \in {0, 1}, NEW b, <<p, b>> \in pad \ lines PROVE <<p, b>> \in joystick \/ Driven(after, now, p, b)
  <2>1. CASE Driven(slots, controls, p, b)
    <3>1. slots[p] # 0 /\ slots[p] \in pads /\ \E o \in controls[slots[p]] : b \in o[2]
      BY <1>7, <2>1, Zenon DEF Driven
    <3>2. b \in 0..5
      <4>1. PICK o \in controls[slots[p]] : b \in o[2]
        BY <3>1, Zenon
      <4>2. b \in Reach(o[1])
        BY <1>1, <3>1, <4>1
      <4> QED BY <4>2, SMT DEF Reach
    <3>3. slots[p] # d
      BY <1>10, <3>2
    <3>4. after[p] # 0 /\ \E o \in now[after[p]] : b \in o[2]
      BY SMT, <1>8, <3>1, <3>3
    <3> QED BY <3>4, Zenon DEF Driven
  <2> QED BY <1>2, <1>10, <2>1
<1>11. /\ plugged \ {d} \subseteq pads
       /\ \A e \in pads : e \notin plugged \ {d} => now[e] = {}
       /\ \A e \in pads : \A o \in now[e] : o[2] \subseteq Reach(o[1])
  BY <1>1, <1>6
<1> QED BY <1>1, <1>4, <1>5, <1>6, <1>9, <1>10, <1>11, Zenon DEF PadOk

\* A control of the pad in port p moves: the lines that it reaches are those it drives.
Moved(p, name, drives, pad, turbo, padNow, turboNow) ==
  /\ \A x \in padNow : \/ x \in pad /\ \A b \in Reach(name) : b \notin drives => x # <<p, b>>
                       \/ \E b \in drives : x = <<p, b>>
  /\ \A x \in turboNow : \/ x \in turbo /\ (name = "y" /\ drives # {4} => x # <<p, 4>>)
                         \/ x = <<p, 4>> /\ name = "y" /\ drives = {4}

\* Of pad d, in whatever port; the pad of a third device is not heard.
MovedOf(d, slots, name, drives, pad, turbo, padNow, turboNow) ==
  \/ (\A p \in {0, 1} : slots[p] # d) /\ padNow = pad /\ turboNow = turbo
  \/ \E p \in {0, 1} : slots[p] = d /\ Moved(p, name, drives, pad, turbo, padNow, turboNow)

HeldNow(controls, d, name, drives) ==
  [controls EXCEPT ![d] = {o \in controls[d] : o[1] # name} \union {<<name, drives>>}]

LEMMA MovesPad ==
  ASSUME NEW pads, NEW slots, NEW pad, NEW turbo, NEW plugged, NEW controls, NEW joystick,
         PadOk(pads, slots, pad, turbo, plugged, controls, joystick),
         NEW d \in plugged, NEW name, NEW drives \in SUBSET Reach(name), NEW padNow, NEW turboNow,
         MovedOf(d, slots, name, drives, pad, turbo, padNow, turboNow)
  PROVE  PadOk(pads, slots, padNow, turboNow, plugged, HeldNow(controls, d, name, drives), joystick)
<1>0. PICK now : now = HeldNow(controls, d, name, drives)
  OBVIOUS
<1>1. /\ 0 \notin pads /\ plugged \subseteq pads
      /\ slots \in [{0, 1} -> {0} \union plugged] /\ (slots[0] = slots[1] => slots[0] = 0)
      /\ DOMAIN controls = pads
      /\ \A e \in pads : e \notin plugged => controls[e] = {}
      /\ \A e \in pads : \A o \in controls[e] : o[2] \subseteq Reach(o[1])
  BY Zenon DEF PadOk
<1>2. /\ \A line \in turbo : Firing(slots, controls, line)
      /\ \A p \in {0, 1} : \A b : <<p, b>> \in pad => <<p, b>> \in joystick \/ Driven(slots, controls, p, b)
  BY Zenon DEF PadOk
<1>3. DOMAIN now = pads /\ \A e \in pads : e # d => now[e] = controls[e]
  BY <1>0, <1>1 DEF HeldNow
<1>4. \A o : o \in now[d] <=> (o \in controls[d] /\ o[1] # name) \/ o = <<name, drives>>
  BY <1>0, <1>1 DEF HeldNow
<1>5. /\ \A e \in pads : e \notin plugged => now[e] = {}
      /\ \A e \in pads : \A o \in now[e] : o[2] \subseteq Reach(o[1])
  <2>1. \A e \in pads : e \notin plugged => now[e] = {}
    BY <1>1, <1>3
  <2>2. ASSUME NEW o \in now[d] PROVE o[2] \subseteq Reach(o[1])
    <3>1. CASE o = <<name, drives>>
      <4>1. o[1] = name /\ o[2] = drives
        BY <3>1
      <4> QED BY <4>1
    <3>2. CASE o \in controls[d]
      BY <1>1, <3>2
    <3> QED BY <1>4, <2>2, <3>1, <3>2
  <2> QED BY <1>1, <1>3, <2>1, <2>2
<1>6. \A p \in {0, 1} : slots[p] # 0 => slots[p] \in pads
  BY SMT, <1>1
<1>7. ASSUME \A p \in {0, 1} : slots[p] # d, padNow = pad, turboNow = turbo
      PROVE  /\ \A line \in turboNow : Firing(slots, now, line)
             /\ \A p \in {0, 1} : \A b : <<p, b>> \in padNow => <<p, b>> \in joystick \/ Driven(slots, now, p, b)
  <2>1. \A p \in {0, 1} : slots[p] # 0 => now[slots[p]] = controls[slots[p]]
    BY <1>3, <1>6, <1>7, Zenon
  <2>2. \A line : Firing(slots, controls, line) => Firing(slots, now, line)
    BY <2>1, Zenon DEF Firing
  <2>3. \A p \in {0, 1} : \A b : Driven(slots, controls, p, b) => Driven(slots, now, p, b)
    BY <2>1, Zenon DEF Driven
  <2> QED BY <1>2, <1>7, <2>2, <2>3, Zenon
<1>8. ASSUME NEW p \in {0, 1}, slots[p] = d, Moved(p, name, drives, pad, turbo, padNow, turboNow)
      PROVE  /\ \A line \in turboNow : Firing(slots, now, line)
             /\ \A q \in {0, 1} : \A b : <<q, b>> \in padNow => <<q, b>> \in joystick \/ Driven(slots, now, q, b)
  <2>1. d # 0 /\ d \in pads
    BY <1>1
  <2>2. \A q \in {0, 1} : q # p /\ slots[q] # 0 => slots[q] # d /\ now[slots[q]] = controls[slots[q]]
    BY SMT, <1>1, <1>3, <1>6, <1>8, <2>1
  <2>3. <<name, drives>> \in now[slots[p]] /\ <<name, drives>>[2] = drives
    BY <1>4, <1>8
  <2>4. ASSUME NEW line \in turboNow PROVE Firing(slots, now, line)
    <3>1. CASE line = <<p, 4>> /\ name = "y" /\ drives = {4}
      <4>1. line = <<p, 4>> /\ slots[p] # 0 /\ <<"y", {4}>> \in now[slots[p]]
        BY SMT, <1>8, <2>1, <2>3, <3>1
      <4> QED BY <4>1, Zenon DEF Firing
    <3>2. CASE line \in turbo /\ (name = "y" /\ drives # {4} => line # <<p, 4>>)
      <4>1. PICK q \in {0, 1} : line = <<q, 4>> /\ slots[q] # 0 /\ <<"y", {4}>> \in controls[slots[q]]
        BY <1>2, <3>2, Zenon DEF Firing
      <4>2. CASE q # p
        BY <2>2, <4>1, <4>2, Zenon DEF Firing
      <4>3. CASE q = p /\ name # "y"
        <5>1. <<"y", {4}>>[1] = "y"
          OBVIOUS
        <5>2. <<"y", {4}>> \in now[slots[q]]
          BY <1>4, <1>8, <4>1, <4>3, <5>1
        <5> QED BY <4>1, <5>2, Zenon DEF Firing
      <4>4. CASE q = p /\ name = "y"
        <5>1. drives = {4}
          BY <3>2, <4>1, <4>4
        <5> QED BY <3>1, <4>1, <4>4, <5>1
      <4> QED BY <4>2, <4>3, <4>4
    <3>3. \/ line \in turbo /\ (name = "y" /\ drives # {4} => line # <<p, 4>>)
          \/ line = <<p, 4>> /\ name = "y" /\ drives = {4}
      BY <1>8, <2>4, Zenon DEF Moved
    <3> QED BY <3>1, <3>2, <3>3
  <2>5. ASSUME NEW q \in {0, 1}, NEW b, <<q, b>> \in padNow PROVE <<q, b>> \in joystick \/ Driven(slots, now, q, b)
    <3>1. CASE \E e \in drives : <<q, b>> = <<p, e>>
      <4>1. q = p /\ b \in drives
        BY <3>1
      <4>2. slots[q] # 0 /\ \E o \in now[slots[q]] : b \in o[2]
        BY <1>8, <2>1, <2>3, <4>1
      <4> QED BY <4>2, Zenon DEF Driven
    <3>2. CASE <<q, b>> \in pad /\ \A e \in Reach(name) : e \notin drives => <<q, b>> # <<p, e>>
      <4>1. CASE <<q, b>> \in joystick
        BY <4>1
      <4>2. CASE Driven(slots, controls, q, b)
        <5>1. slots[q] # 0 /\ \E o \in controls[slots[q]] : b \in o[2]
          BY <4>2, Zenon DEF Driven
        <5>2. CASE q # p
          BY <2>2, <5>1, <5>2, Zenon DEF Driven
        <5>3. CASE q = p
          <6>1. PICK o \in controls[d] : b \in o[2]
            BY <1>8, <5>1, <5>3
          <6>2. CASE o[1] # name
            <7>1. o \in now[slots[q]]
              BY <1>4, <1>8, <5>3, <6>1, <6>2
            <7> QED BY <5>1, <6>1, <7>1, Zenon DEF Driven
          <6>3. CASE o[1] = name
            <7>1. b \in Reach(name)
              BY <1>1, <2>1, <6>1, <6>3
            <7>2. b \in drives
              BY <3>2, <5>3, <7>1
            <7> QED BY <2>3, <5>1, <5>3, <7>2, Zenon DEF Driven
          <6> QED BY <6>2, <6>3
        <5> QED BY <5>2, <5>3
      <4> QED BY <1>2, <3>2, <4>1, <4>2
    <3>3. \/ <<q, b>> \in pad /\ \A e \in Reach(name) : e \notin drives => <<q, b>> # <<p, e>>
          \/ \E e \in drives : <<q, b>> = <<p, e>>
      BY <1>8, <2>5, Zenon DEF Moved
    <3> QED BY <3>1, <3>2, <3>3
  <2> QED BY <2>4, <2>5, Zenon
<1>9. /\ \A line \in turboNow : Firing(slots, now, line)
      /\ \A p \in {0, 1} : \A b : <<p, b>> \in padNow => <<p, b>> \in joystick \/ Driven(slots, now, p, b)
  BY <1>7, <1>8, Zenon DEF MovedOf
<1> QED BY <1>0, <1>1, <1>3, <1>5, <1>9, Zenon DEF PadOk

\* Lines that are held, or that autofire presses, come and go.
LEMMA LinesMove ==
  ASSUME NEW pads, NEW slots, NEW pad, NEW turbo, NEW plugged, NEW controls, NEW joystick,
         PadOk(pads, slots, pad, turbo, plugged, controls, joystick),
         NEW padNow, padNow \subseteq pad \union turbo
  PROVE  PadOk(pads, slots, padNow, turbo, plugged, controls, joystick)
<1>1. /\ \A line \in turbo : Firing(slots, controls, line)
      /\ \A p \in {0, 1} : \A b : <<p, b>> \in pad => <<p, b>> \in joystick \/ Driven(slots, controls, p, b)
  BY Zenon DEF PadOk
<1>2. ASSUME NEW p \in {0, 1}, NEW b, <<p, b>> \in padNow PROVE <<p, b>> \in joystick \/ Driven(slots, controls, p, b)
  <2>1. CASE <<p, b>> \in turbo
    <3>1. PICK q \in {0, 1} : <<p, b>> = <<q, 4>> /\ slots[q] # 0 /\ <<"y", {4}>> \in controls[slots[q]]
      BY <1>1, <2>1, Zenon DEF Firing
    <3>2. b = 4 /\ q = p
      BY <3>1
    <3>3. <<"y", {4}>>[2] = {4}
      OBVIOUS
    <3>4. \E o \in controls[slots[p]] : b \in o[2]
      BY SMT, <3>1, <3>2, <3>3
    <3> QED BY <3>1, <3>2, <3>4 DEF Driven
  <2> QED BY <1>1, <1>2, <2>1
<1> QED BY <1>2, Zenon DEF PadOk

\* A program sets the lines of a port.
LEMMA JoystickMoves ==
  ASSUME NEW pads, NEW slots, NEW pad, NEW turbo, NEW plugged, NEW controls, NEW joystick,
         PadOk(pads, slots, pad, turbo, plugged, controls, joystick),
         NEW gone, NEW more, NEW padNow, padNow = (pad \ gone) \union more,
         NEW now, now = (joystick \ gone) \union more
  PROVE  PadOk(pads, slots, padNow, turbo, plugged, controls, now)
<1>1. \A p \in {0, 1} : \A b : <<p, b>> \in pad => <<p, b>> \in joystick \/ Driven(slots, controls, p, b)
  BY Zenon DEF PadOk
<1>2. \A p \in {0, 1} : \A b : <<p, b>> \in padNow => <<p, b>> \in now \/ Driven(slots, controls, p, b)
  BY <1>1
<1> QED BY <1>2, Zenon DEF PadOk

Controls == ({"a", "dpup", "y"} \X {0, 1}) \union ({"axis"} \X Int) \union ({"hat"} \X SUBSET {0, 3})

LEMMA BitsAre ==
  /\ DOMAIN ButtonBit = {"a", "dpup"} /\ ButtonBit["a"] = 4 /\ ButtonBit["dpup"] = 0
  /\ DOMAIN TurboBit = {"y"} /\ TurboBit["y"] = 4
  /\ AxisBits[1] = 1 /\ AxisBits[2] = 0 /\ HatBits = {0, 3}
BY SMT DEF ButtonBit, TurboBit, AxisBits, HatBits

\* Mapped, by the control's name.
LEMMA DrivesAre ==
  ASSUME NEW c \in Controls
  PROVE  /\ c[1] \in {"a", "dpup"} => Drives(c) = IF c[2] = 1 THEN {ButtonBit[c[1]]} ELSE {}
         /\ c[1] = "y" => Drives(c) = IF c[2] = 1 THEN {4} ELSE {}
         /\ c[1] = "axis" => Drives(c) = IF c[2] < 0 THEN {1} ELSE IF c[2] > 0 THEN {0} ELSE {}
         /\ c[1] = "hat" => Drives(c) = c[2]
         /\ Drives(c) \subseteq Reach(c[1])
         /\ c[1] \in {"a", "dpup", "y", "axis", "hat"}
<1>1. c[1] \in {"a", "dpup", "y", "axis", "hat"} /\ (c[1] = "axis" => c[2] \in Int) /\ (c[1] = "hat" => c[2] \in SUBSET {0, 3})
  BY SMT DEF Controls
<1>2. c[1] \in {"a", "dpup"} => Drives(c) = IF c[2] = 1 THEN {ButtonBit[c[1]]} ELSE {}
  BY SMT, BitsAre DEF Drives
<1>3. c[1] = "y" => Drives(c) = IF c[2] = 1 THEN {4} ELSE {}
  BY SMT, BitsAre DEF Drives
<1>4. c[1] = "axis" => Drives(c) = IF c[2] < 0 THEN {1} ELSE IF c[2] > 0 THEN {0} ELSE {}
  BY SMT, <1>1, BitsAre DEF Drives
<1>5. c[1] = "hat" => Drives(c) = c[2]
  BY SMT, BitsAre DEF Drives
<1>6. Drives(c) \subseteq Reach(c[1])
  <2>1. CASE c[1] \in {"a", "dpup"}
    BY SMT, <1>2, <2>1, BitsAre DEF Reach
  <2>2. CASE c[1] = "y"
    BY SMT, <1>3, <2>2 DEF Reach
  <2>3. CASE c[1] = "axis"
    BY SMT, <1>4, <2>3 DEF Reach
  <2>4. CASE c[1] = "hat"
    BY SMT, <1>1, <1>5, <2>4 DEF Reach
  <2> QED BY <1>1, <2>1, <2>2, <2>3, <2>4
<1> QED BY <1>1, <1>2, <1>3, <1>4, <1>5, <1>6

ControlMoves(h, p, c, w) ==
  KeepsTheKeys(h, w) /\ w.slots = h.slots /\ Moved(p, c[1], Drives(c), h.pad, h.turbo, w.pad, w.turbo)

LEMMA ControlledIs ==
  ASSUME NEW h, Shape(h), NEW p \in {0, 1}, NEW c \in Controls
  PROVE  ControlMoves(h, p, c, Controlled(h, p, c[1], c[2]))
<1>1. PICK w : w = Controlled(h, p, c[1], c[2])
  OBVIOUS
<1>2. PICK drives : drives = Drives(c)
  OBVIOUS
<1>3. CASE c[1] \in {"a", "dpup"}
  <2>1. PICK b : b = ButtonBit[c[1]]
    OBVIOUS
  <2>2. PICK pad : pad = IF c[2] = 1 THEN h.pad \union {<<p, b>>} ELSE h.pad \ {<<p, b>>}
    OBVIOUS
  <2>3. w = [h EXCEPT !.pad = pad]
    <3>1. c[1] \in DOMAIN ButtonBit /\ c[1] \notin DOMAIN TurboBit /\ c[1] # "axis" /\ c[1] # "hat"
      BY SMT, <1>3, BitsAre
    <3> QED BY <1>1, <2>1, <2>2, <3>1, Zenon DEF Controlled
  <2>4. PadChanged(h, h.slots, pad, h.turbo, w)
    BY <2>3, PadSet, Zenon
  <2>5. drives = (IF c[2] = 1 THEN {b} ELSE {}) /\ Reach(c[1]) = {b} /\ c[1] # "y"
    BY SMT, <1>2, <1>3, <2>1, DrivesAre, BitsAre DEF Reach
  <2>6. Moved(p, c[1], drives, h.pad, h.turbo, pad, h.turbo)
    BY <2>2, <2>5 DEF Moved
  <2> QED BY <1>1, <1>2, <2>4, <2>6, Zenon DEF PadChanged, ControlMoves
<1>4. CASE c[1] = "y"
  <2>1. PICK line : line = <<p, 4>>
    OBVIOUS
  <2>2. w = SetTurbo(h, line, c[2] = 1)
    BY SMT, <1>1, <1>4, <2>1, BitsAre DEF Controlled
  <2>3. drives = (IF c[2] = 1 THEN {4} ELSE {}) /\ Reach(c[1]) = {4}
    BY SMT, <1>2, <1>4, DrivesAre DEF Reach
  <2>4. CASE c[2] = 1
    <3>1. PICK counter : counter = IF h.turbo = {} THEN 0 ELSE h.counter
      OBVIOUS
    <3>2. PICK v : v = [h EXCEPT !.counter = counter]
      OBVIOUS
    <3>3. w = [v EXCEPT !.turbo = h.turbo \union {line}]
      BY <2>2, <2>4, <3>1, <3>2, Zenon DEF SetTurbo
    <3>4. PadChanged(h, h.slots, h.pad, h.turbo, v)
      BY <3>2, PadSet, Zenon
    <3>5. PadChanged(v, v.slots, v.pad, h.turbo \union {line}, w)
      <4>1. Shape(v)
        BY <3>4, Zenon DEF PadChanged, KeepsTheKeys
      <4> QED BY <3>3, <4>1, PadSet, Zenon
    <3>6. PadChanged(h, h.slots, h.pad, h.turbo \union {line}, w)
      BY <3>4, <3>5, PadOn, Zenon DEF PadChanged
    <3>7. Moved(p, c[1], drives, h.pad, h.turbo, h.pad, h.turbo \union {line})
      <4>1. drives = {4} /\ Reach(c[1]) = drives
        BY <2>3, <2>4, Zenon
      <4>2. \A x \in h.turbo \union {line} : x \in h.turbo \/ (x = <<p, 4>> /\ c[1] = "y" /\ drives = {4})
        BY <1>4, <2>1, <4>1
      <4> QED BY <4>1, <4>2, Zenon DEF Moved
    <3> QED BY <1>1, <1>2, <3>6, <3>7, Zenon DEF PadChanged, ControlMoves
  <2>5. CASE c[2] # 1
    <3>1. PICK v : v = [h EXCEPT !.turbo = h.turbo \ {line}]
      OBVIOUS
    <3>2. w = [v EXCEPT !.pad = h.pad \ {line}]
      BY <2>2, <2>5, <3>1, Zenon DEF SetTurbo
    <3>3. PadChanged(h, h.slots, h.pad, h.turbo \ {line}, v)
      BY <3>1, PadSet, Zenon
    <3>4. PadChanged(v, v.slots, h.pad \ {line}, v.turbo, w)
      <4>1. Shape(v)
        BY <3>3, Zenon DEF PadChanged, KeepsTheKeys
      <4> QED BY <3>2, <4>1, PadSet, Zenon
    <3>5. PadChanged(h, h.slots, h.pad \ {line}, h.turbo \ {line}, w)
      BY <3>3, <3>4, PadOn, Zenon DEF PadChanged
    <3>6. Moved(p, c[1], drives, h.pad, h.turbo, h.pad \ {line}, h.turbo \ {line})
      <4>1. drives = {} /\ Reach(c[1]) = {4}
        BY <2>3, <2>5, Zenon
      <4>2. \A x \in h.pad \ {line} : x \in h.pad /\ \A b \in Reach(c[1]) : b \notin drives => x # <<p, b>>
        BY <2>1, <4>1
      <4>3. \A x \in h.turbo \ {line} : x \in h.turbo /\ (c[1] = "y" /\ drives # {4} => x # <<p, 4>>)
        BY <2>1
      <4> QED BY <4>2, <4>3, Zenon DEF Moved
    <3> QED BY <1>1, <1>2, <3>5, <3>6, Zenon DEF PadChanged, ControlMoves
  <2> QED BY <2>4, <2>5
<1>5. CASE c[1] = "axis"
  <2>1. PICK pad : pad = (h.pad \ {<<p, AxisBits[i]>> : i \in 1..2}) \union
                           (CASE c[2] < 0 -> {<<p, AxisBits[1]>>} [] c[2] > 0 -> {<<p, AxisBits[2]>>} [] OTHER -> {})
    OBVIOUS
  <2>2. w = [h EXCEPT !.pad = pad]
    <3>1. c[1] \notin DOMAIN ButtonBit /\ c[1] \notin DOMAIN TurboBit /\ c[1] # "hat"
      BY SMT, <1>5, BitsAre
    <3> QED BY <1>1, <1>5, <2>1, <3>1, Zenon DEF Controlled
  <2>3. PadChanged(h, h.slots, pad, h.turbo, w)
    BY <2>2, PadSet, Zenon
  <2>4. /\ drives = (IF c[2] < 0 THEN {1} ELSE IF c[2] > 0 THEN {0} ELSE {})
        /\ Reach(c[1]) = {0, 1} /\ c[1] # "y" /\ c[2] \in Int
    BY SMT, <1>2, <1>5, DrivesAre DEF Reach, Controls
  <2>5. {<<p, AxisBits[i]>> : i \in 1..2} = {<<p, 0>>, <<p, 1>>}
    <3>1. 1..2 = {1, 2}
      BY SMT
    <3> QED BY SMT, <3>1, BitsAre
  <2>6. pad = (h.pad \ {<<p, 0>>, <<p, 1>>}) \union {<<p, b>> : b \in drives}
    BY SMT, <2>1, <2>4, <2>5, BitsAre
  <2>7. Moved(p, c[1], drives, h.pad, h.turbo, pad, h.turbo)
    BY <2>4, <2>6 DEF Moved
  <2> QED BY <1>1, <1>2, <2>3, <2>7, Zenon DEF PadChanged, ControlMoves
<1>6. CASE c[1] = "hat"
  <2>1. PICK pad : pad = (h.pad \ ({p} \X HatBits)) \union ({p} \X c[2])
    OBVIOUS
  <2>2. w = [h EXCEPT !.pad = pad]
    <3>1. c[1] \notin DOMAIN ButtonBit /\ c[1] \notin DOMAIN TurboBit /\ c[1] # "axis"
      BY SMT, <1>6, BitsAre
    <3> QED BY <1>1, <1>6, <2>1, <3>1, Zenon DEF Controlled
  <2>3. PadChanged(h, h.slots, pad, h.turbo, w)
    BY <2>2, PadSet, Zenon
  <2>4. drives = c[2] /\ Reach(c[1]) = {0, 3} /\ c[1] # "y" /\ HatBits = {0, 3}
    BY SMT, <1>2, <1>6, DrivesAre, BitsAre DEF Reach
  <2>5. Moved(p, c[1], drives, h.pad, h.turbo, pad, h.turbo)
    BY SMT, <2>1, <2>4 DEF Moved
  <2> QED BY <1>1, <1>2, <2>3, <2>5, Zenon DEF PadChanged, ControlMoves
<1> QED BY <1>3, <1>4, <1>5, <1>6, DrivesAre, Zenon

-----------------------------------------------------------------------------
(* The inductive invariant, and every action.                              *)

PadsAre == PadOk(inputJob.pads, input.slots, input.pad, input.turbo, hands.plugged, hands.controls, hands.joystick)

\* The inductive invariant of HostInput.
InputInv ==
  /\ inputJob \in InputJobs /\ DOMAIN hands = HandsFields
  /\ ProgramsAre(inputJob, input, hands.meant, hands.rpc, hands.again)
  /\ PadsAre

LEMMA JobsAre ==
  ASSUME NEW j \in InputJobs
  PROVE  Usable(j) /\ 0 \notin j.pads /\ j.controls \subseteq Controls
<1>1. /\ {"zero_shift", "none"} \intersect j.keys = {} /\ 0 \notin j.pads
      /\ j.controls \subseteq ({"a", "dpup", "y"} \X {0, 1}) \union ({"axis"} \X Int) \union ({"hat"} \X SUBSET {0, 3})
      /\ j.japanese \in BOOLEAN
  BY InputAssumption, Zenon
<1>2. Usable(j)
  BY <1>1 DEF Usable, NoKey
<1> QED BY <1>1, <1>2, Zenon DEF Controls

LEMMA InputInvInit == ASSUME InputInit PROVE InputInv
<1>1. PICK h : h = [cells |-> {}, kbd |-> {}, pad |-> {}, held |-> {}, redirect |-> FALSE,
                    ctrl |-> {}, combo |-> NoKey, shift |-> {}, active |-> NoKey, ffHold |-> NoKey,
                    slots |-> [p \in {0, 1} |-> 0], turbo |-> {}, counter |-> 0, releases |-> {}]
  OBVIOUS
<1>2. PICK m : m = [k \in {} |-> Means({})]
  OBVIOUS
<1>3. PICK slots : slots = [p \in {0, 1} |-> 0]
  OBVIOUS
<1>4. PICK controls : controls = [d \in inputJob.pads |-> {}]
  OBVIOUS
<1>5. /\ inputJob \in InputJobs /\ input = h
      /\ hands = [meant |-> m, plugged |-> {}, controls |-> controls, rpc |-> {}, again |-> {}, joystick |-> {}]
  BY <1>1, <1>2, <1>4, Zenon DEF InputInit
<1>6. /\ DOMAIN hands = HandsFields /\ hands.meant = m /\ hands.plugged = {} /\ hands.controls = controls
      /\ hands.rpc = {} /\ hands.again = {} /\ hands.joystick = {}
  BY SMT, <1>5 DEF HandsFields
<1>7. /\ Shape(h) /\ h.redirect = FALSE /\ h.cells = {} /\ h.kbd = {} /\ h.held = {} /\ h.pad = {}
      /\ h.ctrl = {} /\ h.combo = NoKey /\ h.shift = {} /\ h.active = NoKey /\ h.ffHold = NoKey
      /\ h.slots = slots /\ h.turbo = {} /\ h.releases = {}
  BY SMT, <1>1, <1>3 DEF Shape, InputFields
<1>8. DOMAIN m = {}
  BY <1>2
<1>9. Usable(inputJob) /\ 0 \notin inputJob.pads
  BY <1>5, JobsAre, Zenon
<1>11. KeyInv(inputJob, h, m, {})
  <2>1. Flagged(inputJob, h, m)
    BY <1>7, <1>8 DEF Flagged
  <2>2. Lined(h, m)
    BY <1>7, <1>8 DEF Lined
  <2>3. \A k \in DOMAIN m : Understood(inputJob, h, m, k)
    BY <1>8
  <2>4. ASSUME NEW x PROVE x \in h.held <=> Counted(inputJob, h, m, x)
    BY <1>7, <1>8 DEF Counted
  <2>5. Keyed(inputJob, h, ComboCells(h) \union {})
    <3>1. ComboCells(h) = {} /\ KeysOf(inputJob, h.held) = {}
      BY <1>7 DEF ComboCells, KeysOf
    <3>2. h.cells = KeysOf(inputJob, h.held) \union (ComboCells(h) \union {})
      BY <1>7, <3>1
    <3> QED BY <1>7, <3>2, Zenon DEF Keyed
  <2>6. {} \intersect CellsAtHand(inputJob) = {}
    OBVIOUS
  <2> QED BY <1>9, <2>1, <2>2, <2>3, <2>4, <2>5, <2>6, Zenon DEF KeyInv
<1>12. ProgramsAre(inputJob, h, m, {}, {})
  <2>1. ProgramsOk({}, {}, {}, {})
    BY Zenon DEF ProgramsOk
  <2> QED BY <1>7, <1>11, <2>1, Zenon DEF ProgramsAre
<1>13. PadOk(inputJob.pads, slots, {}, {}, {}, controls, {})
  <2>1. slots \in [{0, 1} -> {0} \union {}] /\ slots[0] = 0
    BY SMT, <1>3
  <2>2. DOMAIN controls = inputJob.pads /\ \A d \in inputJob.pads : controls[d] = {}
    BY <1>4
  <2> QED BY <1>9, <2>1, <2>2 DEF PadOk
<1> QED BY <1>5, <1>6, <1>7, <1>12, <1>13, Zenon DEF InputInv, PadsAre

LEMMA KeysStep ==
  ASSUME InputInv, inputJob' = inputJob,
         \A down : KeyInv(inputJob, input, hands.meant, down) => KeysMove(down)
  PROVE  InputInv'
<1>1. PICK down : KeysMove(down) /\ ProgramsOk(down, input.releases, hands.rpc, hands.again)
  BY Zenon DEF InputInv, ProgramsAre
<1>2. /\ KeyInv(inputJob', input', hands'.meant, down) /\ DOMAIN hands' = HandsFields
      /\ hands'.plugged = hands.plugged /\ hands'.controls = hands.controls
      /\ hands'.rpc = hands.rpc /\ hands'.again = hands.again /\ hands'.joystick = hands.joystick
      /\ input'.pad = input.pad /\ input'.slots = input.slots /\ input'.turbo = input.turbo
      /\ input'.releases = input.releases
  BY <1>1, Zenon DEF KeysMove, SamePads, SameRest
<1>3. inputJob' \in InputJobs
  BY Zenon DEF InputInv
<1>4. ProgramsAre(inputJob', input', hands'.meant, hands'.rpc, hands'.again)
  <2>1. \A p \in input.releases : p[2] \notin CellsAtHand(inputJob)
    BY Zenon DEF InputInv, ProgramsAre
  <2>2. ProgramsOk(down, input'.releases, hands'.rpc, hands'.again)
    BY <1>1, <1>2, Zenon
  <2>3. \A p \in input'.releases : p[2] \notin CellsAtHand(inputJob')
    BY <1>2, <2>1, Zenon
  <2> QED BY <1>2, <2>2, <2>3, Zenon DEF ProgramsAre
<1>5. PadsAre'
  BY <1>2, Zenon DEF InputInv, PadsAre
<1> QED BY <1>2, <1>3, <1>4, <1>5, Zenon DEF InputInv

LEMMA ProgramsStep ==
  ASSUME InputInv, inputJob' = inputJob, ProgramsMove PROVE InputInv'
<1>1. /\ ProgramsAre(inputJob', input', hands'.meant, hands'.rpc, hands'.again)
      /\ DOMAIN hands' = HandsFields
      /\ hands'.plugged = hands.plugged /\ hands'.controls = hands.controls /\ hands'.joystick = hands.joystick
      /\ input'.pad = input.pad /\ input'.slots = input.slots /\ input'.turbo = input.turbo
  BY Zenon DEF ProgramsMove, SameHands
<1>2. inputJob' \in InputJobs
  BY Zenon DEF InputInv
<1>3. PadsAre'
  BY <1>1, Zenon DEF InputInv, PadsAre
<1> QED BY <1>1, <1>2, <1>3, Zenon DEF InputInv

\* What keeps the keys keeps the programs.
LEMMA KeepsCells ==
  ASSUME NEW j, NEW h, NEW m, NEW rpc, NEW again, ProgramsAre(j, h, m, rpc, again), NEW w, KeepsTheKeys(h, w)
  PROVE  ProgramsAre(j, w, m, rpc, again)
<1>1. PICK down : KeyInv(j, h, m, down) /\ ProgramsOk(down, h.releases, rpc, again)
  BY Zenon DEF ProgramsAre
<1>2. KeyInv(j, w, m, down)
  BY <1>1, KeepsKeys, Zenon
<1>3. w.releases = h.releases /\ \A p \in h.releases : p[2] \notin CellsAtHand(j)
  BY Zenon DEF KeepsTheKeys, ProgramsAre
<1> QED BY <1>1, <1>2, <1>3, Zenon DEF ProgramsAre

\* What the hands do with pads.
PadsMove ==
  /\ KeepsTheKeys(input, input') /\ PadsAre'
  /\ DOMAIN hands' = HandsFields /\ hands'.meant = hands.meant /\ hands'.rpc = hands.rpc /\ hands'.again = hands.again

LEMMA PadsStep ==
  ASSUME InputInv, inputJob' = inputJob, PadsMove PROVE InputInv'
<1>1. /\ KeepsTheKeys(input, input') /\ PadsAre'
      /\ DOMAIN hands' = HandsFields /\ hands'.meant = hands.meant /\ hands'.rpc = hands.rpc /\ hands'.again = hands.again
  BY Zenon DEF PadsMove
<1>2. inputJob' \in InputJobs /\ ProgramsAre(inputJob, input, hands.meant, hands.rpc, hands.again)
  BY Zenon DEF InputInv
<1>3. ProgramsAre(inputJob, input', hands.meant, hands.rpc, hands.again)
  BY <1>1, <1>2, KeepsCells, Zenon
<1> QED BY <1>1, <1>2, <1>3, Zenon DEF InputInv

HandsSet(x, plugged, controls, joystick, y) ==
  /\ DOMAIN y = HandsFields /\ y.meant = x.meant /\ y.rpc = x.rpc /\ y.again = x.again
  /\ y.plugged = plugged /\ y.controls = controls /\ y.joystick = joystick

LEMMA HandsAre ==
  ASSUME NEW x, DOMAIN x = HandsFields, NEW v, NEW u
  PROVE  /\ HandsSet(x, v, x.controls, x.joystick, [x EXCEPT !.plugged = v])
         /\ HandsSet(x, x.plugged, v, x.joystick, [x EXCEPT !.controls = v])
         /\ HandsSet(x, x.plugged, x.controls, v, [x EXCEPT !.joystick = v])
         /\ HandsSet(x, v, u, x.joystick, [x EXCEPT !.plugged = v, !.controls = u])
<1>1. HandsSet(x, v, x.controls, x.joystick, [x EXCEPT !.plugged = v])
  BY SMT DEF HandsSet, HandsFields
<1>2. HandsSet(x, x.plugged, v, x.joystick, [x EXCEPT !.controls = v])
  BY SMT DEF HandsSet, HandsFields
<1>3. HandsSet(x, x.plugged, x.controls, v, [x EXCEPT !.joystick = v])
  BY SMT DEF HandsSet, HandsFields
<1>4. HandsSet(x, v, u, x.joystick, [x EXCEPT !.plugged = v, !.controls = u])
  BY SMT DEF HandsSet, HandsFields
<1> QED BY <1>1, <1>2, <1>3, <1>4, Zenon

LEMMA PadPlugged ==
  ASSUME InputInv, inputJob' = inputJob, PlugPad PROVE PadsMove
<1>1. PICK d \in inputJob.pads \ hands.plugged :
        /\ input' = OpenDevice(input, d) /\ hands' = [hands EXCEPT !.plugged = @ \union {d}]
  BY Zenon DEF PlugPad
<1>2. Shape(input) /\ DOMAIN hands = HandsFields
  BY Zenon DEF InputInv, ProgramsAre, KeyInv, Keyed
<1>3. PadOk(inputJob.pads, input.slots, input.pad, input.turbo, hands.plugged, hands.controls, hands.joystick)
  BY Zenon DEF InputInv, PadsAre
<1>4. HandsSet(hands, hands.plugged \union {d}, hands.controls, hands.joystick, hands')
  BY <1>1, <1>2, HandsAre, Zenon
<1>5. CASE {p \in {0, 1} : input.slots[p] = 0} = {}
  <2>1. input' = input
    BY <1>1, <1>5, Zenon DEF OpenDevice
  <2>2. PadOk(inputJob.pads, input.slots, input.pad, input.turbo, hands.plugged \union {d}, hands.controls, hands.joystick)
    <3>1. /\ hands.plugged \subseteq inputJob.pads /\ input.slots \in [{0, 1} -> {0} \union hands.plugged]
          /\ \A e \in inputJob.pads : e \notin hands.plugged => hands.controls[e] = {}
      BY <1>3, Zenon DEF PadOk
    <3>2. /\ hands.plugged \union {d} \subseteq inputJob.pads
          /\ \A e \in inputJob.pads : e \notin hands.plugged \union {d} => hands.controls[e] = {}
      BY <1>1, <3>1
    <3>3. input.slots \in [{0, 1} -> {0} \union (hands.plugged \union {d})]
      BY SMT, <3>1
    <3> QED BY <1>3, <3>2, <3>3, Zenon DEF PadOk
  <2>3. KeepsTheKeys(input, input)
    BY <1>2, Zenon DEF KeepsTheKeys, SameFlags
  <2> QED BY <1>4, <2>1, <2>2, <2>3, Zenon DEF PadsMove, PadsAre, HandsSet
<1>6. CASE {p \in {0, 1} : input.slots[p] = 0} # {}
  <2>1. PICK q : q = IF input.slots[0] = 0 THEN 0 ELSE 1
    OBVIOUS
  <2>2. q \in {0, 1} /\ input.slots[q] = 0
    BY SMT, <1>6, <2>1
  <2>3. PICK slots : slots = [input.slots EXCEPT ![q] = d]
    OBVIOUS
  <2>4. input' = [input EXCEPT !.slots = slots]
    BY <1>1, <1>6, <2>1, <2>3, Zenon DEF OpenDevice
  <2>5. PadChanged(input, slots, input.pad, input.turbo, input')
    BY <1>2, <2>4, PadSet, Zenon
  <2>6. d \in inputJob.pads /\ d \notin hands.plugged
    BY <1>1
  <2>7. PadOk(inputJob.pads, slots, input.pad, input.turbo, hands.plugged \union {d}, hands.controls, hands.joystick)
    BY <1>3, <2>2, <2>3, <2>6, OpensPad, Zenon
  <2> QED BY <1>4, <2>5, <2>7, Zenon DEF PadsMove, PadsAre, HandsSet, PadChanged
<1> QED BY <1>5, <1>6

LEMMA PadUnplugged ==
  ASSUME InputInv, inputJob' = inputJob, UnplugPad PROVE PadsMove
<1>1. PICK d \in hands.plugged :
        /\ input' = CloseDevice(input, d)
        /\ hands' = [hands EXCEPT !.plugged = @ \ {d}, !.controls[d] = {}]
  BY Zenon DEF UnplugPad
<1>2. Shape(input) /\ DOMAIN hands = HandsFields
  BY Zenon DEF InputInv, ProgramsAre, KeyInv, Keyed
<1>3. PadOk(inputJob.pads, input.slots, input.pad, input.turbo, hands.plugged, hands.controls, hands.joystick)
  BY Zenon DEF InputInv, PadsAre
<1>4. PICK now : now = [hands.controls EXCEPT ![d] = {}]
  OBVIOUS
<1>5. HandsSet(hands, hands.plugged \ {d}, now, hands.joystick, hands')
  <2>1. hands' = [hands EXCEPT !.plugged = hands.plugged \ {d}, !.controls = now]
    BY <1>1, <1>4, Zenon
  <2> QED BY <1>2, <2>1, HandsAre, Zenon
<1>6. PICK slots : slots = [p \in {0, 1} |-> IF input.slots[p] = d THEN 0 ELSE input.slots[p]]
  OBVIOUS
<1>7. PICK lines : lines = UNION {LinesOf(p) : p \in PortOf(input, d)}
  OBVIOUS
<1>8. \A p \in {0, 1} : \A b : <<p, b>> \in lines <=> input.slots[p] = d /\ b \in 0..5
  <2>1. \A x : x \in lines <=> \E p \in {0, 1} : input.slots[p] = d /\ x \in LinesOf(p)
    BY <1>7, SMT DEF PortOf
  <2>2. ASSUME NEW p \in {0, 1}, NEW q, NEW b PROVE <<p, b>> \in LinesOf(q) <=> q = p /\ b \in 0..5
    BY DEF LinesOf
  <2> QED BY <2>1, <2>2, Zenon
<1>9. PICK u : u = [input EXCEPT !.slots = slots]
  OBVIOUS
<1>10. PICK v : v = [u EXCEPT !.pad = input.pad \ lines]
  OBVIOUS
<1>11. input' = [v EXCEPT !.turbo = input.turbo \ lines]
  <2>1. input' = [input EXCEPT !.slots = slots, !.pad = input.pad \ lines, !.turbo = input.turbo \ lines]
    BY <1>1, <1>6, <1>7, Zenon DEF CloseDevice
  <2> QED BY <1>9, <1>10, <2>1, Zenon
<1>12. PadChanged(input, slots, input.pad, input.turbo, u)
  BY <1>2, <1>9, PadSet, Zenon
<1>13. Shape(u) /\ u.slots = slots /\ u.turbo = input.turbo
  BY <1>12, Zenon DEF PadChanged, KeepsTheKeys
<1>14. PadChanged(u, u.slots, input.pad \ lines, u.turbo, v)
  BY <1>10, <1>13, PadSet, Zenon
<1>15. PadChanged(input, slots, input.pad \ lines, input.turbo, v)
  <2>1. PadChanged(u, slots, input.pad \ lines, input.turbo, v)
    BY <1>13, <1>14, Zenon
  <2> QED BY <1>12, <2>1, PadOn, Zenon
<1>16. Shape(v) /\ v.slots = slots /\ v.pad = input.pad \ lines
  BY <1>15, Zenon DEF PadChanged, KeepsTheKeys
<1>17. PadChanged(v, v.slots, v.pad, input.turbo \ lines, input')
  BY <1>11, <1>16, PadSet, Zenon
<1>18. PadChanged(input, slots, input.pad \ lines, input.turbo \ lines, input')
  <2>1. PadChanged(v, slots, input.pad \ lines, input.turbo \ lines, input')
    BY <1>16, <1>17, Zenon
  <2> QED BY <1>15, <2>1, PadOn, Zenon
<1>19. PadOk(inputJob.pads, slots, input.pad \ lines, input.turbo \ lines, hands.plugged \ {d}, now, hands.joystick)
  BY <1>3, <1>4, <1>6, <1>8, ClosesPad, Zenon
<1> QED BY <1>5, <1>18, <1>19, Zenon DEF PadsMove, PadsAre, HandsSet, PadChanged

LEMMA PadMoved ==
  ASSUME InputInv, inputJob' = inputJob, MovePad PROVE PadsMove
<1>1. PICK d \in hands.plugged, c \in inputJob.controls :
        /\ \/ PortOf(input, d) = {} /\ input' = input
           \/ \E p \in PortOf(input, d) : input' = Controlled(input, p, c[1], c[2])
        /\ hands' = [hands EXCEPT !.controls[d] = {o \in @ : o[1] # c[1]} \union {<<c[1], Drives(c)>>}]
  BY Zenon DEF MovePad
<1>2. Shape(input) /\ DOMAIN hands = HandsFields /\ c \in Controls
  <2>1. Shape(input) /\ DOMAIN hands = HandsFields /\ inputJob \in InputJobs
    BY Zenon DEF InputInv, ProgramsAre, KeyInv, Keyed
  <2> QED BY <1>1, <2>1, JobsAre
<1>3. PadOk(inputJob.pads, input.slots, input.pad, input.turbo, hands.plugged, hands.controls, hands.joystick)
  BY Zenon DEF InputInv, PadsAre
<1>4. PICK name : name = c[1]
  OBVIOUS
<1>5. PICK drives : drives = Drives(c)
  OBVIOUS
<1>6. drives \in SUBSET Reach(name)
  BY <1>2, <1>4, <1>5, DrivesAre
<1>7. PICK now : now = HeldNow(hands.controls, d, name, drives)
  OBVIOUS
<1>8. HandsSet(hands, hands.plugged, now, hands.joystick, hands')
  <2>1. hands' = [hands EXCEPT !.controls = now]
    BY <1>1, <1>4, <1>5, <1>7, Zenon DEF HeldNow
  <2> QED BY <1>2, <2>1, HandsAre, Zenon
<1>9. /\ KeepsTheKeys(input, input') /\ input'.slots = input.slots
      /\ MovedOf(d, input.slots, name, drives, input.pad, input.turbo, input'.pad, input'.turbo)
  <2>1. CASE PortOf(input, d) = {} /\ input' = input
    <3>1. \A p \in {0, 1} : input.slots[p] # d
      BY <2>1 DEF PortOf
    <3>2. KeepsTheKeys(input, input)
      BY <1>2, Zenon DEF KeepsTheKeys, SameFlags
    <3> QED BY <2>1, <3>1, <3>2, Zenon DEF MovedOf
  <2>2. ASSUME NEW p \in PortOf(input, d), input' = Controlled(input, p, c[1], c[2])
        PROVE  /\ KeepsTheKeys(input, input') /\ input'.slots = input.slots /\ p \in {0, 1} /\ input.slots[p] = d
               /\ Moved(p, name, drives, input.pad, input.turbo, input'.pad, input'.turbo)
    <3>1. p \in {0, 1} /\ input.slots[p] = d
      BY DEF PortOf
    <3>2. ControlMoves(input, p, c, input')
      BY <1>2, <2>2, <3>1, ControlledIs, Zenon
    <3> QED BY <1>4, <1>5, <3>1, <3>2, Zenon DEF ControlMoves
  <2> QED BY <1>1, <2>1, <2>2, Zenon DEF MovedOf
<1>10. PadOk(inputJob.pads, input.slots, input'.pad, input'.turbo, hands.plugged, now, hands.joystick)
  <2>1. MovedOf(d, input.slots, name, drives, input.pad, input.turbo, input'.pad, input'.turbo)
    BY <1>9, Zenon
  <2> QED BY <1>3, <1>6, <1>7, <2>1, MovesPad, Zenon
<1> QED BY <1>8, <1>9, <1>10, Zenon DEF PadsMove, PadsAre, HandsSet

LEMMA JoystickSet ==
  ASSUME InputInv, inputJob' = inputJob, RpcJoystick PROVE PadsMove
<1>1. PICK p \in {0, 1}, lines \in {{}, {0, 4}} :
        /\ input' = [input EXCEPT !.pad = (@ \ LinesOf(p)) \union ({p} \X lines)]
        /\ hands' = [hands EXCEPT !.joystick = (@ \ LinesOf(p)) \union ({p} \X lines)]
  BY Zenon DEF RpcJoystick
<1>2. Shape(input) /\ DOMAIN hands = HandsFields
  BY Zenon DEF InputInv, ProgramsAre, KeyInv, Keyed
<1>3. PadOk(inputJob.pads, input.slots, input.pad, input.turbo, hands.plugged, hands.controls, hands.joystick)
  BY Zenon DEF InputInv, PadsAre
<1>4. PICK gone : gone = LinesOf(p)
  OBVIOUS
<1>5. PICK more : more = {p} \X lines
  OBVIOUS
<1>6. PICK pad : pad = (input.pad \ gone) \union more
  OBVIOUS
<1>7. PICK joystick : joystick = (hands.joystick \ gone) \union more
  OBVIOUS
<1>8. PadChanged(input, input.slots, pad, input.turbo, input')
  <2>1. input' = [input EXCEPT !.pad = pad]
    BY <1>1, <1>4, <1>5, <1>6, Zenon
  <2> QED BY <1>2, <2>1, PadSet, Zenon
<1>9. HandsSet(hands, hands.plugged, hands.controls, joystick, hands')
  <2>1. hands' = [hands EXCEPT !.joystick = joystick]
    BY <1>1, <1>4, <1>5, <1>7, Zenon
  <2> QED BY <1>2, <2>1, HandsAre, Zenon
<1>10. PadOk(inputJob.pads, input.slots, pad, input.turbo, hands.plugged, hands.controls, joystick)
  BY <1>3, <1>6, <1>7, JoystickMoves, Zenon
<1> QED BY <1>8, <1>9, <1>10, Zenon DEF PadsMove, PadsAre, HandsSet, PadChanged

LEMMA AutofireTicks ==
  ASSUME NEW h, Shape(h), NEW w, w = AutofireTick(h)
  PROVE  KeepsTheKeys(h, w) /\ w.slots = h.slots /\ w.turbo = h.turbo /\ w.pad \subseteq h.pad \union h.turbo
<1>1. CASE h.turbo = {}
  <2>1. w = h
    BY <1>1, Zenon DEF AutofireTick
  <2> QED BY <2>1 DEF KeepsTheKeys, SameFlags
<1>2. CASE h.turbo # {}
  <2>1. PICK pad : pad = IF h.counter = 0 THEN h.pad \union h.turbo ELSE h.pad \ h.turbo
    OBVIOUS
  <2>2. PICK counter : counter = (h.counter + 1) % TurboPeriod
    OBVIOUS
  <2>3. PICK v : v = [h EXCEPT !.pad = pad]
    OBVIOUS
  <2>4. w = [v EXCEPT !.counter = counter]
    <3>1. w = [h EXCEPT !.pad = pad, !.counter = counter]
      BY <1>2, <2>1, <2>2, Zenon DEF AutofireTick
    <3> QED BY <2>3, <3>1, Zenon
  <2>5. PadChanged(h, h.slots, pad, h.turbo, v)
    BY <2>3, PadSet, Zenon
  <2>6. PadChanged(v, v.slots, v.pad, v.turbo, w)
    <3>1. Shape(v)
      BY <2>5, Zenon DEF PadChanged, KeepsTheKeys
    <3>2. PadChanged(v, v.slots, v.pad, v.turbo, [v EXCEPT !.counter = counter])
      BY <3>1, PadSet, Zenon
    <3> QED BY <2>4, <3>2, Zenon
  <2>7. PadChanged(h, h.slots, pad, h.turbo, w)
    <3>1. PadChanged(v, h.slots, pad, h.turbo, w)
      BY <2>5, <2>6, Zenon DEF PadChanged
    <3> QED BY <2>5, <3>1, PadOn, Zenon
  <2>8. pad \subseteq h.pad \union h.turbo
    BY <2>1
  <2> QED BY <2>7, <2>8, Zenon DEF PadChanged
<1> QED BY <1>1, <1>2

LEMMA FramePassed ==
  ASSUME InputInv, inputJob' = inputJob, HostFrame PROVE InputInv'
<1>1. PICK h : h = AutofireTick(input)
  OBVIOUS
<1>2. input' = KeyReleases(h) /\ hands' = [hands EXCEPT !.rpc = Passed(hands.rpc)]
  BY <1>1, Zenon DEF HostFrame, Passed
<1>3. Shape(input) /\ DOMAIN hands = HandsFields /\ inputJob \in InputJobs
  BY Zenon DEF InputInv, ProgramsAre, KeyInv, Keyed
<1>4. KeepsTheKeys(input, h) /\ h.slots = input.slots /\ h.turbo = input.turbo /\ h.pad \subseteq input.pad \union input.turbo
  BY <1>1, <1>3, AutofireTicks, Zenon
<1>5. ProgramsAre(inputJob, h, hands.meant, hands.rpc, hands.again)
  BY <1>4, KeepsCells, Zenon DEF InputInv
<1>6. FrameEnds(inputJob, h, hands.meant, hands.rpc, hands.again, input')
  BY <1>2, <1>5, ReleasesPass, Zenon
<1>7. hands'.rpc = Passed(hands.rpc) /\ hands'.again = hands.again /\ SameHands(hands, hands')
  <2>1. RpcChanged(hands, Passed(hands.rpc), hands.again, hands')
    BY <1>2, <1>3, RpcSet, Zenon
  <2> QED BY <2>1, Zenon DEF RpcChanged
<1>8. PadOk(inputJob.pads, input.slots, h.pad, input.turbo, hands.plugged, hands.controls, hands.joystick)
  BY <1>4, LinesMove, Zenon DEF InputInv, PadsAre
<1>9. PadsAre'
  BY <1>4, <1>6, <1>7, <1>8, Zenon DEF PadsAre, FrameEnds, SameHands
<1> QED BY <1>3, <1>6, <1>7, <1>9, Zenon DEF InputInv, FrameEnds, SameHands

LEMMA InputInvStep == ASSUME InputInv, AnyKeys = FALSE, InputNext PROVE InputInv'
<1>1. inputJob' = inputJob
  BY Zenon DEF InputNext
<1>2. /\ ProgramsAre(inputJob, input, hands.meant, hands.rpc, hands.again)
      /\ DOMAIN hands = HandsFields
  BY Zenon DEF InputInv
<1>3. CASE PressHostKey
  BY <1>1, <1>2, <1>3, KeyPressed, KeysStep, Zenon
<1>4. CASE RepeatHostKey
  BY <1>1, <1>2, <1>4, KeyRepeated, KeysStep, Zenon
<1>5. CASE ReleaseHostKey
  BY <1>1, <1>2, <1>5, KeyReleased, KeysStep, Zenon
<1>6. CASE PlugPad
  BY <1>1, <1>6, PadPlugged, PadsStep, Zenon
<1>7. CASE UnplugPad
  BY <1>1, <1>7, PadUnplugged, PadsStep, Zenon
<1>8. CASE MovePad
  BY <1>1, <1>8, PadMoved, PadsStep, Zenon
<1>9. CASE RpcPress
  BY <1>1, <1>2, <1>9, RpcPressed, ProgramsStep, Zenon
<1>10. CASE RpcRelease
  BY <1>1, <1>2, <1>10, RpcReleased, ProgramsStep, Zenon
<1>11. CASE RpcPressNamed
  BY <1>1, <1>2, <1>11, RpcNamed, ProgramsStep, Zenon
<1>12. CASE RpcJoystick
  BY <1>1, <1>12, JoystickSet, PadsStep, Zenon
<1>13. CASE HostFrame
  BY <1>1, <1>13, FramePassed, Zenon
<1> QED BY <1>3, <1>4, <1>5, <1>6, <1>7, <1>8, <1>9, <1>10, <1>11, <1>12, <1>13, Zenon DEF InputNext

LEMMA InputKeepsInv == ASSUME InputInv, AnyKeys = FALSE, [InputNext]_inputVars PROVE InputInv'
<1>1. CASE InputNext
  BY <1>1, InputInvStep, Zenon
<1>2. CASE UNCHANGED inputVars
  BY <1>2, Zenon DEF inputVars, InputInv, PadsAre
<1> QED BY <1>1, <1>2

\* What the hands hold is what the machine is shown.
LEMMA HandsShown == ASSUME InputInv PROVE KeysAreShown /\ NothingHangs
<1>1. KeysAreShown
  BY KeysShown, Zenon DEF InputInv
<1>2. \A p \in {0, 1} : \A b : <<p, b>> \in input.pad => <<p, b>> \in hands.joystick \/ Driven(input.slots, hands.controls, p, b)
  BY Zenon DEF InputInv, PadsAre, PadOk
<1>3. ASSUME NEW p \in {0, 1}, NEW line, line \in input.pad, line \in LinesOf(p)
      PROVE  line \in HeldLines(p) \/ line \in hands.joystick
  <2>1. PICK b \in 0..5 : line = <<p, b>>
    BY <1>3 DEF LinesOf
  <2>2. CASE Driven(input.slots, hands.controls, p, b)
    <3>1. input.slots[p] # 0 /\ \E o \in hands.controls[input.slots[p]] : b \in o[2]
      BY <2>2, Zenon DEF Driven
    <3>2. b \in UNION {c[2] : c \in hands.controls[input.slots[p]]}
      BY <3>1, SMT
    <3>3. <<p, b>> \in {p} \X UNION {c[2] : c \in hands.controls[input.slots[p]]}
      BY <3>2
    <3> QED BY <2>1, <3>1, <3>3, Zenon DEF HeldLines
  <2> QED BY <1>2, <1>3, <2>1, <2>2
<1>4. NothingHangs
  BY <1>3, Zenon DEF NothingHangs
<1> QED BY <1>1, <1>4
=============================================================================

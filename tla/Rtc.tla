-------------------------------- MODULE Rtc --------------------------------
(***************************************************************************)
(* The real-time clock of an MSX2 (src/msx/rtc.py): a start time that the  *)
(* host gives once and the emulated cycles since then, from which every    *)
(* read of a time digit computes the date; a mode and four blocks of 13    *)
(* nibbles, two of time and settings, two of battery-backed memory.        *)
(***************************************************************************)
EXTENDS Integers, Sequences

CONSTANTS
  RtcJobs,      \* records [start, weekday, writes, spans, fuel]: the start time with its
                \* day of the week, the nibbles written, the days or seconds that pass
  CyclesPerSecond   \* 3,579,545 in the code

VARIABLES
  rtc,          \* [start, baseCycle, baseElapsed, addr, mode, test, reset, regs, cmos]
  rtcCycle,     \* the machine's cycle count
  rtcSnap,      \* the latest save state
  wall,         \* history: the date and time of a calendar that steps with the seconds
  rtcJob        \* what is done, with the steps that are left (a bound)

rtcVars == <<rtc, rtcCycle, rtcSnap, wall, rtcJob>>

-----------------------------------------------------------------------------
(* The calendar arithmetic of the chip.                                    *)

DaysBefore1970 == 719468

\* Mutant: a February of a century counts as any other.
DaysFromJulian(year, month, day) ==
  LET y   == IF month <= 2 THEN year - 1 ELSE year
      era == (IF y >= 0 THEN y ELSE y - 399) \div 400
      yoe == y - (era * 400)
      doy == ((((153 * ((month + 9) % 12)) + 2) \div 5) + day) - 1
  IN (era * 146097) + (yoe * 365) + (yoe \div 4) + doy - DaysBefore1970

DaysFromCivil(year, month, day) ==
  LET y   == IF month <= 2 THEN year - 1 ELSE year
      era == (IF y >= 0 THEN y ELSE y - 399) \div 400
      yoe == y - (era * 400)
      doy == ((((153 * ((month + 9) % 12)) + 2) \div 5) + day) - 1
  IN (era * 146097) + (((yoe * 365) + (yoe \div 4)) - (yoe \div 100)) + doy - DaysBefore1970

\* The era of 400 years, its day, the year in it, the day of that year and its month,
\* each from the first of March. The division rounds down, and a negative day is moved
\* down before it as well: from the second day before March of the year 0 the era is one
\* too low.
EraOf(days) ==
  LET z == days + DaysBefore1970
  IN (IF z >= 0 THEN z ELSE z - 146096) \div 146097
DayOfEra(days, era) == (days + DaysBefore1970) - (era * 146097)
YearOfEra(doe)      == ((doe - (doe \div 1460)) + (doe \div 36524) - (doe \div 146096)) \div 365
DayInYear(doe, yoe) == doe - (((365 * yoe) + (yoe \div 4)) - (yoe \div 100))
MonthOf(doy)        == ((5 * doy) + 2) \div 153

CivilOf(era, yoe, doy, mp) ==
  LET month == IF mp < 10 THEN mp + 3 ELSE mp - 9
  IN <<yoe + (era * 400) + (IF month <= 2 THEN 1 ELSE 0), month, (doy - (((153 * mp) + 2) \div 5)) + 1>>

CivilFromDays(days) ==
  LET era == EraOf(days)
      doe == DayOfEra(days, era)
      yoe == YearOfEra(doe)
      doy == DayInYear(doe, yoe)
  IN CivilOf(era, yoe, doy, MonthOf(doy))

\* check_start: a date and time that exist, found by going there and back.
StartYears == 0..9999
CheckStart(t) ==
  /\ t[1] \in StartYears /\ t[2] \in 1..12 /\ t[3] \in 1..31
  /\ t[4] \in 0..23 /\ t[5] \in 0..59 /\ t[6] \in 0..59
  /\ CivilFromDays(DaysFromCivil(t[1], t[2], t[3])) = <<t[1], t[2], t[3]>>

\* The day of the week of a start goes on from Thursday, the first of January 1970.
ASSUME RtcAssumption ==
  /\ CyclesPerSecond \in Nat \ {0}
  /\ \A j \in RtcJobs :
       /\ "start" \in DOMAIN j
       /\ CheckStart(j.start) => j.weekday = (DaysFromCivil(j.start[1], j.start[2], j.start[3]) + 4) % 7

-----------------------------------------------------------------------------
(* The registers.                                                          *)

Mask ==
  <<<<15, 7, 15, 7, 15, 3, 7, 15, 3, 15, 1, 15, 15>>, <<0, 0, 15, 7, 15, 3, 7, 15, 3, 0, 1, 3, 0>>>>
HourMode == 10
LeapYear == 11

\* Every mask is a run of low bits.
Masked(block, reg, b) == IF block < 2 THEN b % (Mask[block + 1][reg + 1] + 1) ELSE b

Block(r) == r.mode % 4
Elapsed(r, cycle) == r.baseElapsed + (cycle - r.baseCycle)

NewRtc(start) ==
  [start |-> start, baseCycle |-> 0, baseElapsed |-> 0, addr |-> 0, mode |-> 8, test |-> 0, reset |-> 0,
   regs |-> [block \in 0..1 |-> [reg \in 0..12 |-> IF block = 1 /\ reg = HourMode THEN 1 ELSE 0]],
   cmos |-> [block \in 2..3 |-> [reg \in 0..12 |-> 0]]]

\* Units and tens; with 12 hours the afternoon has 2 more in the tens.
EncodedHour(r, hour) ==
  LET twelve == IF hour % 12 = 0 THEN 12 ELSE hour % 12
  IN IF r.regs[1][HourMode] % 2 = 1 THEN <<hour % 10, hour \div 10>>
     ELSE <<twelve % 10, (twelve \div 10) + (IF hour >= 12 THEN 2 ELSE 0)>>

\* The digits of block 0 and the leap counter are the time whatever was written there.
\* (The code adds the start day in seconds too, whose integers have no bound.)
Refreshed(r, cycle) ==
  LET t     == r.start
      total == (t[4] * 3600) + (t[5] * 60) + t[6] + (Elapsed(r, cycle) \div CyclesPerSecond)
      days  == DaysFromCivil(t[1], t[2], t[3]) + (total \div 86400)
      secs  == total % 86400
      date  == CivilFromDays(days)
      hour  == EncodedHour(r, secs \div 3600)
      minute == (secs \div 60) % 60
      second == secs % 60
      year  == (date[1] - 1980) % 100
      digits == <<second % 10, second \div 10, minute % 10, minute \div 10, hour[1], hour[2], (days + 4) % 7,
                  date[3] % 10, date[3] \div 10, date[2] % 10, date[2] \div 10, year % 10, year \div 10>>
  IN [r EXCEPT !.regs[0] = [reg \in 0..12 |-> digits[reg + 1]], !.regs[1][LeapYear] = (date[1] - 1980) % 4]

\* A read of the time or the settings refreshes them. Test and reset read as 15.
ReadRefreshes(r, cycle) == IF r.addr < 13 /\ Block(r) < 2 THEN Refreshed(r, cycle) ELSE r
ReadRtc(r, cycle) ==
  240 + CASE r.addr = 13 -> r.mode
          [] r.addr > 13 -> 15
          [] r.addr < 13 /\ Block(r) >= 2 -> r.cmos[Block(r)][r.addr]
          [] OTHER -> Masked(Block(r), r.addr, Refreshed(r, cycle).regs[Block(r)][r.addr])

SelectRegister(r, b) == [r EXCEPT !.addr = b % 16]

WriteRtc(r, b) ==
  LET n == b % 16
  IN CASE r.addr = 13 -> [r EXCEPT !.mode = n]
       [] r.addr = 14 -> [r EXCEPT !.test = n]
       [] r.addr = 15 -> [r EXCEPT !.reset = n]
       [] r.addr < 13 /\ Block(r) >= 2 -> [r EXCEPT !.cmos[Block(r)][r.addr] = n]
       [] OTHER -> [r EXCEPT !.regs[Block(r)][r.addr] = Masked(Block(r), r.addr, n)]

\* A save state has the elapsed cycles; a load counts on from the cycle it is at.
SavedRtc(r, cycle) == [r EXCEPT !.baseElapsed = Elapsed(r, cycle), !.baseCycle = 0]
LoadedRtc(s, cycle) == [s EXCEPT !.baseCycle = cycle]

-----------------------------------------------------------------------------
(* A calendar that steps by a second or a day.                             *)

Leap(y) == (y % 4 = 0 /\ y % 100 # 0) \/ y % 400 = 0
DaysIn(y, m) == CASE m = 2 -> IF Leap(y) THEN 29 ELSE 28 [] m \in {4, 6, 9, 11} -> 30 [] OTHER -> 31

NextDay(t) ==
  [t EXCEPT !.weekday = (@ + 1) % 7,
            !.day = IF @ = DaysIn(t.year, t.month) THEN 1 ELSE @ + 1,
            !.month = IF t.day < DaysIn(t.year, t.month) THEN @ ELSE IF @ = 12 THEN 1 ELSE @ + 1,
            !.year = IF t.month = 12 /\ t.day = 31 THEN @ + 1 ELSE @]

NextSecond(t) ==
  LET s == [t EXCEPT !.second = (@ + 1) % 60]
      m == [s EXCEPT !.minute = (@ + 1) % 60]
      h == [m EXCEPT !.hour = (@ + 1) % 24]
  IN CASE t.second < 59 -> s
       [] t.second = 59 /\ t.minute < 59 -> m
       [] t.second = 59 /\ t.minute = 59 /\ t.hour < 23 -> h
       [] OTHER -> NextDay(h)

PartOfSecond == CyclesPerSecond - 1
Later(t, cycles) ==
  IF t.part + cycles < CyclesPerSecond THEN [t EXCEPT !.part = @ + cycles]
  ELSE [NextSecond(t) EXCEPT !.part = (t.part + cycles) - CyclesPerSecond]

\* The time a program puts together of the digits it reads.
Digit(r, cycle, reg) == ReadRtc([r EXCEPT !.mode = 8, !.addr = reg], cycle) % 16
Two(r, cycle, reg)   == Digit(r, cycle, reg) + (10 * Digit(r, cycle, reg + 1))
HourShown(r, cycle) ==
  LET n == Two(r, cycle, 4)
  IN IF r.regs[1][HourMode] % 2 = 1 THEN n
     ELSE CASE n = 12 -> 0 [] n = 32 -> 12 [] n < 12 -> n [] OTHER -> n - 8

-----------------------------------------------------------------------------

RtcStep == rtcJob.fuel > 0 /\ rtcJob' = [rtcJob EXCEPT !.fuel = @ - 1]

\* Part of a second, a second, or a day passes.
PassTime ==
  /\ RtcStep
  /\ \/ /\ "cycles" \in rtcJob.spans
        /\ rtcCycle' = rtcCycle + PartOfSecond /\ wall' = Later(wall, PartOfSecond)
     \/ /\ "seconds" \in rtcJob.spans
        /\ rtcCycle' = rtcCycle + CyclesPerSecond /\ wall' = NextSecond(wall)
     \/ /\ "days" \in rtcJob.spans
        /\ rtcCycle' = rtcCycle + (86400 * CyclesPerSecond) /\ wall' = NextDay(wall)
  /\ UNCHANGED <<rtc, rtcSnap>>

WriteRegisters ==
  /\ RtcStep
  /\ \E w \in rtcJob.writes : rtc' = WriteRtc(SelectRegister(rtc, w[1]), w[2])
  /\ UNCHANGED <<rtcCycle, rtcSnap, wall>>

ReadRegisters ==
  /\ RtcStep
  /\ \E w \in rtcJob.writes : rtc' = ReadRefreshes(SelectRegister(rtc, w[1]), rtcCycle)
  /\ UNCHANGED <<rtcCycle, rtcSnap, wall>>

SaveRtc ==
  /\ RtcStep
  /\ rtcSnap' = [rtc |-> SavedRtc(rtc, rtcCycle), wall |-> wall]
  /\ UNCHANGED <<rtc, rtcCycle, wall>>

\* The emulated time goes back with the state.
LoadRtc ==
  /\ RtcStep /\ rtcSnap # <<>>
  /\ rtc' = LoadedRtc(rtcSnap.rtc, rtcCycle) /\ wall' = rtcSnap.wall
  /\ UNCHANGED <<rtcCycle, rtcSnap>>

RtcInit ==
  /\ rtcJob \in RtcJobs /\ CheckStart(rtcJob.start)
  /\ rtc = NewRtc(rtcJob.start) /\ rtcCycle = 0 /\ rtcSnap = <<>>
  /\ LET t == rtcJob.start
     IN wall = [year |-> t[1], month |-> t[2], day |-> t[3], hour |-> t[4], minute |-> t[5], second |-> t[6],
                weekday |-> rtcJob.weekday, part |-> 0]

RtcNext == PassTime \/ WriteRegisters \/ ReadRegisters \/ SaveRtc \/ LoadRtc

-----------------------------------------------------------------------------

\* The clock runs on as a calendar does: at every time the digits that a program reads,
\* with 12 or 24 hours, are the start time stepped by the seconds since then, also
\* after writes to the digits, a save state and a load, before 1970, in leap years and
\* at the ends of months, years and centuries; and of the last days of a month exactly
\* those that exist can be loaded.
ClockRunsOn ==
  /\ Digit(rtc, rtcCycle, 0) + (10 * Digit(rtc, rtcCycle, 1)) = wall.second
  /\ Two(rtc, rtcCycle, 2) = wall.minute
  /\ HourShown(rtc, rtcCycle) = wall.hour
  /\ Digit(rtc, rtcCycle, 6) = wall.weekday
  /\ Two(rtc, rtcCycle, 7) = wall.day
  /\ Two(rtc, rtcCycle, 9) = wall.month
  /\ Two(rtc, rtcCycle, 11) = (wall.year - 1980) % 100
  /\ ReadRtc([rtc EXCEPT !.mode = 9, !.addr = LeapYear], rtcCycle) % 16 = (wall.year - 1980) % 4
  /\ \A day \in 29..31 :
       wall.year \in StartYears => (CheckStart(<<wall.year, wall.month, day, 0, 0, 0>>) <=> day <= DaysIn(wall.year, wall.month))
=============================================================================

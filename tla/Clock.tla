--------------------------------- MODULE Clock ---------------------------------
(***************************************************************************)
(* How a process sleeps: wait_seconds() (Kernel/drivers/time.c) reads the  *)
(* real-time clock (Kernel/drivers/clock.c) again and again and yields in  *)
(* between.  A date takes six reads, and rtc() turns interrupts on between *)
(* choosing a register and reading it, so that time passes and others      *)
(* choose registers in between.  One sleeper is followed; the other        *)
(* processes are what they do to the clock's index.                        *)
(***************************************************************************)
EXTENDS Integers, Sequences

CONSTANTS
  Minute, Hour, Day,  \* 60 seconds, 60 minutes, 24 hours
  daytab,             \* days of the months, of a year and of a leap year
  Century,            \* 100: the year register has two digits
  Y2K,
  Millis,             \* 1000
  MonthDays,          \* 30: what diffTimeMillis() takes a month for
  YearDays,           \* 365
  Word,               \* 2^32: the count of an int wraps around there
  Begins,             \* bound: the dates at which waits begin
  Waits,              \* bound: seconds that are waited for
  Patience,           \* bound: seconds from the first read to the end of a wait
  MaxTouches,         \* bound: how often others choose a register during a wait
  Strays              \* bound: what may lie around daytab on the stack

ASSUME ClockAssumption ==
  /\ {Minute, Hour, Day, Century, Millis, MonthDays, YearDays, Word} \subseteq Nat \ {0}
  /\ Y2K \in Nat /\ Patience \in 0 .. Minute * Hour * Day
  /\ Waits \subseteq 1 .. Minute * Hour * Day - 1
  /\ Strays \subseteq Int
  /\ daytab \in Seq(Seq(Nat \ {0}))
  /\ Len(daytab) = 2 /\ Len(daytab[1]) = Len(daytab[2]) /\ Len(daytab[1]) > 1

VARIABLES
  now,      \* the date the hardware counts
  index,    \* the register the clock shows, once the sleeper has chosen one; else 0
  at,       \* where the sleeper is: "idle", or reading its "start" or a "check"
  asked,    \* secondsToWait
  fields,   \* what it has read of the current date
  start,    \* curr, in milliseconds
  slept,    \* history: seconds since the first read
  touches,  \* bound: how often others chose a register in this wait
  steady,   \* history: has nothing happened between the reads of this date?
  trusted,  \* history: was curr read steadily ("steady"), or judged by a steady
            \* check before a second went by ("prompt")?
  seam      \* history: have the months or the count of milliseconds turned over since?

sleeper == <<at, asked, fields, start, trusted>>
clockVars == <<now, index, sleeper, slept, touches, steady, seam>>

(* SECONDS, MINUTES, HOURS, DAY_OF_MONTH, MONTH, YEAR, in the order of getTime(). *)
RTC_REGS == 1 .. 6
NoIndex == 0
chosen == index # NoIndex
Reading == chosen \/ fields # <<>>

isLeapYear(year) == (year % 4 = 0 /\ year % 100 # 0) \/ year % 400 = 0

Months == DOMAIN daytab[1]
DaysOf(month, year) == daytab[IF isLeapYear(year) THEN 2 ELSE 1][month]

ClockInit ==
  /\ now \in Begins /\ index = NoIndex
  /\ at = "idle" /\ asked = 0 /\ fields = <<>> /\ start = 0
  /\ slept = 0 /\ touches = 0 /\ steady = TRUE /\ trusted = "no" /\ seam = FALSE

-----------------------------------------------------------------------------
(* The hardware: registers in binary-coded decimal digits.                  *)

(* The date a second later: the first field that is not full goes up, those *)
(* before it start again.                                                   *)
Lowest(r) == IF r \in {4, 5} THEN 1 ELSE 0
Highest(date) ==
  <<Minute - 1, Hour - 1, Day - 1, DaysOf(date[5], date[6] + Y2K), Len(daytab[1]), Century - 1>>

NextSecond(date) ==
  LET full(r) == \A s \in 1 .. r : date[s] = Highest(date)[s]
  IN [r \in RTC_REGS |-> IF full(r) THEN Lowest(r)
                         ELSE IF r = 1 \/ full(r - 1) THEN date[r] + 1 ELSE date[r]]

Date == {d \in [RTC_REGS -> Nat] : d[5] \in Months /\ \A r \in RTC_REGS : d[r] \in Lowest(r) .. Highest(d)[r]}

ASSUME BeginsAssumption == Begins \subseteq Date

register(r) == (now[r] \div 10) * 16 + (now[r] % 10)

BCDToDecimal(time) == (time \div 16) * 10 + (time % 16)

-----------------------------------------------------------------------------
(* getTime(0), from the fields that were read.                              *)

(* daytab[leap][month]: a field that was read from another's register may   *)
(* lie outside the table.                                                   *)
DayLimits(month, year) ==
  IF month \in Months THEN {DaysOf(month, year)} ELSE IF month = 0 THEN {0} ELSE Strays

Adjusted(f) ==
  IF f[3] >= Day THEN [f EXCEPT ![3] = @ - Day, ![4] = @ + 1] ELSE f

(* checkDay(): what becomes of day, month and year.                         *)
IntoNextMonth(f) ==
  IF f[5] + 1 > Len(daytab[1]) THEN [f EXCEPT ![4] = 1, ![5] = 1, ![6] = @ + 1]
  ELSE [f EXCEPT ![4] = 1, ![5] = @ + 1]

MonthBefore(f) ==
  IF f[5] - 1 <= 0 THEN [f EXCEPT ![5] = Len(daytab[1]), ![6] = @ - 1] ELSE [f EXCEPT ![5] = @ - 1]

checkDay(f) ==
  UNION {IF f[4] > limit THEN {IntoNextMonth(f)}
         ELSE IF f[4] > 0 THEN {f}
         ELSE {[MonthBefore(f) EXCEPT ![4] = d] : d \in DayLimits(MonthBefore(f)[5], MonthBefore(f)[6] + Y2K)} :
           limit \in DayLimits(f[5], f[6] + Y2K)}

getTime(f) == checkDay(Adjusted(f))

(* The seconds of a date as diffTimeMillis() counts them, and its milliseconds *)
(* in an int.                                                               *)
Seconds(f) ==
  f[1] + f[2] * Minute + f[3] * Hour * Minute + f[4] * Day * Hour * Minute
    + f[5] * MonthDays * Day * Hour * Minute + f[6] * YearDays * Day * Hour * Minute

Turn(seconds) == (seconds * Millis + Word \div 2) \div Word
toMillis(f) == Seconds(f) * Millis - Turn(Seconds(f)) * Word

(* Every month counts for 30 days: the seconds that the end of another one  *)
(* skips or counts again.                                                   *)
MonthEnd(month, year) == <<Minute - 1, Hour - 1, Day - 1, DaysOf(month, year + Y2K), month, year>>
Jump(month, year) == Seconds(NextSecond(MonthEnd(month, year))) - Seconds(MonthEnd(month, year)) - 1

(* Bound: waits are over before the clock has caught up with what the end   *)
(* of a month counts again, a day for a month of 31, modulo 2^32.           *)
ASSUME SeamAssumption ==
  \A time \in Waits :
    /\ (Patience + time + 1) * Millis <= Word
    /\ \A month \in Months, year \in 0 .. Century - 1 :
         ((Jump(month, year) * Millis) % Word) + (Patience + time + 1) * Millis <= Word

(* The test of the loop: the difference is divided as a signed number and   *)
(* compared as an unsigned one.                                             *)
Quotient(d) == IF d < 0 THEN -((-d) \div Millis) ELSE d \div Millis

\* Faulty: both are compared as signed numbers.
GoesOn_Signed(end) == Quotient(end - start) < asked

GoesOn(end) == Quotient(end - start) \in 0 .. asked - 1

-----------------------------------------------------------------------------
(* The sleeper.                                                             *)

wait_seconds ==
  /\ at = "idle" /\ at' = "start"
  /\ now \in Begins /\ asked' \in Waits
  /\ UNCHANGED <<now, index, fields, start, slept, touches, steady, trusted, seam>>

(* rtc(): interrupts are off up to the choice of the register.              *)
rtcChoose ==
  /\ at # "idle" /\ ~chosen
  /\ index' = Len(fields) + 1
  /\ UNCHANGED <<now, at, asked, fields, start, slept, touches, steady, trusted, seam>>

rtcRead ==
  /\ chosen /\ index' = NoIndex
  /\ Len(fields) < 5
  /\ fields' = Append(fields, BCDToDecimal(register(index)))
  /\ UNCHANGED <<now, at, asked, start, slept, touches, steady, trusted, seam>>

(* The last field completes a date, the start's or a check's.               *)
Dates == {toMillis(f) : f \in getTime(Append(fields, BCDToDecimal(register(index))))}

Completes == chosen /\ Len(fields) = 5 /\ index' = NoIndex /\ fields' = <<>> /\ steady' = TRUE

startRead ==
  /\ at = "start" /\ Completes
  /\ start' \in Dates /\ at' = "check"
  /\ trusted' = IF steady THEN "steady" ELSE "unjudged"
  /\ UNCHANGED <<now, asked, slept, touches, seam>>

Returns ==
  /\ at' = "idle" /\ asked' = 0 /\ start' = 0
  /\ trusted' = "no" /\ slept' = 0 /\ touches' = 0 /\ seam' = FALSE

GoesToSleepAgain ==
  /\ trusted' = IF trusted # "unjudged" THEN trusted ELSE IF steady /\ slept = 0 THEN "prompt" ELSE "no"
  /\ UNCHANGED <<at, asked, start, slept, touches, seam>>

checkRead ==
  /\ at = "check" /\ Completes
  /\ \E end \in Dates : IF GoesOn(end) THEN GoesToSleepAgain ELSE Returns
  /\ UNCHANGED now

-----------------------------------------------------------------------------
(* What happens between its steps.                                          *)

Disturbs == steady' = (steady /\ ~Reading)

Counting == at = "check" \/ Reading

Tick ==
  /\ slept < Patience /\ (at = "start" => Reading)
  /\ now' = NextSecond(now)
  /\ slept' = IF Counting THEN slept + 1 ELSE slept
  /\ seam' = (seam \/ (Counting /\ (now'[5] # now[5] \/ Turn(Seconds(now')) # Turn(Seconds(now)))))
  /\ Disturbs
  /\ UNCHANGED <<index, touches, sleeper>>

(* Another process in rtc(), before the sleeper has read its register.      *)
OtherChooses ==
  /\ chosen /\ touches < MaxTouches /\ index' \in RTC_REGS \ {index}
  /\ touches' = touches + 1 /\ Disturbs
  /\ UNCHANGED <<now, sleeper, slept, seam>>

ClockNext == wait_seconds \/ rtcChoose \/ rtcRead \/ startRead \/ checkRead \/ Tick \/ OtherChooses

ClockSpec == ClockInit /\ [][ClockNext]_clockVars

-----------------------------------------------------------------------------
(* A wait is as long as was asked, in dates that are read steadily.         *)
(* A check that finds the time over ends it (time.c:35), and within a       *)
(* second even when the start was read from registers that another process  *)
(* had chosen, as long as the next date was read steadily within the same   *)
(* second: a start in the future makes a difference below zero, which the   *)
(* comparison takes for a huge one, unless it is less than a second.        *)
(* Neither months of 31 days nor a count that wraps around makes a wait     *)
(* longer.  Nor is it too short, unless the month changes or the count      *)
(* wraps around (clock.c:178), whatever minutes, hours and days begin       *)
(* meanwhile.                                                               *)
SleepsAsAsked ==
  [][checkRead /\ steady =>
       /\ at' = "check" /\ trusted' = "steady" => slept < asked
       /\ at' = "check" /\ trusted' = "prompt" => slept <= asked
       /\ at' = "idle" /\ trusted = "steady" /\ ~seam => slept >= asked]_clockVars
=============================================================================

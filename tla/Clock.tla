------------------------------- MODULE Clock --------------------------------
(***************************************************************************)
(* The clocks: INIT_RTC of kernel/src/time.c reads the battery clock once, *)
(* register by register, with interrupts off; afterwards PIT_TICK of pit.c *)
(* adds the length of a tick to TimeSinceBoot and calls                    *)
(* SYSTEM_TIME_INCREMENT when a second has passed.                         *)
(*                                                                         *)
(* Time is counted in hundredths of a period of the timer's oscillator, in *)
(* which both a tick (1.01 periods of the divided frequency) and a second  *)
(* are whole numbers; the rounding of the code's double is left out.       *)
(***************************************************************************)
EXTENDS Integers

CONSTANTS
    PowerOnTimes,   \* what the battery clock may show at the start
    Frequencies,    \* arguments of SET_PIT_FREQUENCY
    MaxTime         \* bound on TimeSinceBoot

VARIABLES
    rtc,            \* the battery clock's registers, as numbers
    bcd,            \* it shows them in binary coded decimal (register B)
    updating,       \* its update in progress flag
    grace,          \* it has shown the flag down and cannot change yet
    clockPc,        \* the next register to read, or what comes after
    registers,      \* the locals of INIT_RTC
    SYSTEM_TIME, TimeSinceBoot, Divisor,
    shown           \* history: the battery clock when INIT_RTC began to read

rtcVars == <<rtc, bcd, updating, grace>>
clockVars == <<rtcVars, clockPc, registers, SYSTEM_TIME, TimeSinceBoot, Divisor, shown>>

BaseFrequency == 1193182
Second == 100 * BaseFrequency

Fields == {"second", "minute", "hour", "day", "month", "year"}
NoTime == [f \in Fields |-> 0]

\* The battery clock shows a time, and the timer's frequency is not zero.
ASSUME ClockAssumption ==
    /\ \A t \in PowerOnTimes :
         /\ t \in [Fields -> Nat]
         /\ t.second < 60 /\ t.minute < 60 /\ t.hour < 24
         /\ t.day \in 1 .. 31 /\ t.month \in 1 .. 12 /\ t.year < 100
    /\ Frequencies \subseteq Nat \ {0}

\* The order in which INIT_RTC reads the registers.
After == [second |-> "minute", minute |-> "hour", hour |-> "day",
          day |-> "month", month |-> "year", year |-> "store"]

-----------------------------------------------------------------------------
\* The code has cleared memory, the battery clock runs on by itself.
ClockInit ==
    /\ rtc = NoTime /\ bcd = FALSE /\ updating = FALSE /\ grace = FALSE
    /\ clockPc = "off" /\ registers = NoTime
    /\ SYSTEM_TIME = NoTime /\ TimeSinceBoot = 0 /\ Divisor = 65535
    /\ shown = NoTime

\* SET_PIT_DIVISOR takes 16 bits, and no less than 100.
SET_PIT_FREQUENCY(f) ==
    LET divisor == (BaseFrequency \div f) % 65536
    IN  Divisor' = IF divisor < 100 THEN 100 ELSE divisor

\* The machine is switched on; kernel.c sets the timer, then calls INIT_RTC.
PowerOn ==
    /\ clockPc = "off"
    /\ rtc' \in PowerOnTimes /\ bcd' \in BOOLEAN
    /\ \E f \in Frequencies : SET_PIT_FREQUENCY(f)
    /\ clockPc' = "wait"
    /\ UNCHANGED <<updating, grace, registers, SYSTEM_TIME, TimeSinceBoot, shown>>

\* The battery clock, until nobody reads it any more.  Its flag goes up some
\* time before the registers change, longer than it takes to read them all.
RtcFlag ==
    /\ clockPc \notin {"off", "run"} /\ ~updating
    /\ updating' = TRUE
    /\ UNCHANGED <<rtc, bcd, grace, clockPc, registers, SYSTEM_TIME, TimeSinceBoot, Divisor, shown>>

NextSecond(t) ==
    LET s == t.second + 1
        m == t.minute + s \div 60
        h == t.hour + m \div 60
    IN  [t EXCEPT !.second = s % 60, !.minute = m % 60, !.hour = h % 24, !.day = @ + h \div 24]

\* Once, to bound the run.
RtcUpdate ==
    /\ clockPc \notin {"off", "run"} /\ updating /\ ~grace
    /\ rtc \in PowerOnTimes
    /\ rtc' = NextSecond(rtc) /\ updating' = FALSE
    /\ UNCHANGED <<bcd, grace, clockPc, registers, SYSTEM_TIME, TimeSinceBoot, Divisor, shown>>

ToBcd(n) == ((n \div 10) * 16) + (n % 10)

READ_RTC_REGISTER(f) == IF bcd THEN ToBcd(rtc[f]) ELSE rtc[f]

bcd_to_int(b) == (b % 16) + ((b \div 16) * 10)

\* Mutant: the flag is not looked at.
InitRtcAtOnce ==
    /\ clockPc = "wait"
    /\ clockPc' = "second" /\ grace' = ~updating /\ shown' = rtc
    /\ UNCHANGED <<rtc, bcd, updating, registers, SYSTEM_TIME, TimeSinceBoot, Divisor>>

\* INIT_RTC: the wait, the reads, the rest.
INIT_RTC_wait ==
    /\ clockPc = "wait" /\ ~updating
    /\ clockPc' = "second" /\ grace' = TRUE /\ shown' = rtc
    /\ UNCHANGED <<rtc, bcd, updating, registers, SYSTEM_TIME, TimeSinceBoot, Divisor>>

INIT_RTC_read ==
    /\ clockPc \in Fields
    /\ registers' = [registers EXCEPT ![clockPc] = READ_RTC_REGISTER(clockPc)]
    /\ clockPc' = After[clockPc]
    /\ UNCHANGED <<rtcVars, SYSTEM_TIME, TimeSinceBoot, Divisor, shown>>

INIT_RTC_store ==
    /\ clockPc = "store"
    /\ LET t == IF bcd THEN [f \in Fields |-> bcd_to_int(registers[f])] ELSE registers
           y == [t EXCEPT !.year = 2000 + @]
       IN  SYSTEM_TIME' = IF t.hour > 8 THEN [y EXCEPT !.hour = @ - 8]
                          ELSE [y EXCEPT !.hour = @ + 16, !.day = @ - 1]
    /\ clockPc' = "run" /\ grace' = FALSE
    /\ UNCHANGED <<rtc, bcd, updating, registers, TimeSinceBoot, Divisor, shown>>

\* The carries of SYSTEM_TIME_INCREMENT, one after the other.
Carry(t, low, limit, high) ==
    IF t[low] >= limit THEN [t EXCEPT ![low] = 0, ![high] = @ + 1] ELSE t

SYSTEM_TIME_INCREMENT(t) ==
    LET s == Carry([t EXCEPT !.second = @ + 1], "second", 60, "minute")
        h == Carry(Carry(s, "minute", 60, "hour"), "hour", 24, "day")
    IN  Carry(Carry(h, "day", 30, "month"), "month", 12, "year")

\* 1.01 / GET_PIT_FREQUENCY()
TickLength == 101 * Divisor

\* The timer interrupt, once start_scheduler has enabled interrupts.
PIT_TICK ==
    /\ clockPc = "run" /\ TimeSinceBoot + TickLength <= MaxTime
    /\ TimeSinceBoot' = TimeSinceBoot + TickLength
    /\ SYSTEM_TIME' = IF TimeSinceBoot' \div Second > TimeSinceBoot \div Second
                      THEN SYSTEM_TIME_INCREMENT(SYSTEM_TIME) ELSE SYSTEM_TIME
    /\ UNCHANGED <<rtcVars, clockPc, registers, Divisor, shown>>

ClockNext ==
    \/ PowerOn \/ RtcFlag \/ RtcUpdate
    \/ INIT_RTC_wait \/ INIT_RTC_read \/ INIT_RTC_store \/ PIT_TICK

ClockSpec == ClockInit /\ [][ClockNext]_clockVars

-----------------------------------------------------------------------------
SecondsOfMonth(t) == ((t.day * 24 + t.hour) * 60 + t.minute) * 60 + t.second

\* The last second of the hour that INIT_RTC turns into hour 24: the carry
\* makes it hour 25, and then 0.
LosesHour(t) == t.hour = 8 /\ t.minute = 59 /\ t.second = 59

(***************************************************************************)
(* The time of day is right: until the first change of month it is what    *)
(* the battery clock showed when INIT_RTC looked, eight hours earlier, and *)
(* the whole seconds of TimeSinceBoot since.  A read that straddles an     *)
(* update of the battery clock, a second counted twice or not at all, the  *)
(* shift to the day before (hour 24, day 0) or a carry out of place would  *)
(* break it.  The change comes after day 29, whatever the month: a machine *)
(* started on the 31st, or in December, which counts as the month after    *)
(* the last, changes month at the first second.  One second of the day is  *)
(* excepted (LosesHour).                                                   *)
(***************************************************************************)
ClockAgrees ==
    (clockPc = "run" /\ ~LosesHour(shown)) =>
        \/ /\ SYSTEM_TIME.month = shown.month /\ SYSTEM_TIME.year = 2000 + shown.year
           /\ SecondsOfMonth(SYSTEM_TIME) + 8 * 3600
                = SecondsOfMonth(shown) + (TimeSinceBoot \div Second)
           /\ TimeSinceBoot >= Second => SYSTEM_TIME.hour < 24 /\ SYSTEM_TIME.day < 30
        \/ SecondsOfMonth(shown) + (TimeSinceBoot \div Second) >= (30 * 24 + 8) * 3600
        \/ shown.month = 12 /\ TimeSinceBoot >= Second
=============================================================================

------------------------------- MODULE Clock -------------------------------
(***************************************************************************)
(* The clock and the calendar: rtc_init and rtc_intr of                    *)
(* kernel/arch/i386/cpu/clock.c, lib/time.c, and the clock chip of the     *)
(* virtual machine, hw/mc146818rtc.c of sysvm, which rtc_init reads.       *)
(*                                                                         *)
(* The chip advances its time and copies it to its registers in two steps. *)
(* rtc_init reads six registers, each twice (BCD2HEXB evaluates its        *)
(* argument for either digit), while the chip goes on.  Interrupts are off *)
(* until the time is set; from then on rtc_intr counts ticks.              *)
(*                                                                         *)
(* A time_t is <<days, seconds of the day>>: 32 bits hold it until 2106.   *)
(***************************************************************************)
EXTENDS Integers, Sequences, FiniteSets, Functions

CONSTANTS
    Starts,          \* dates and times the chip may show at the beginning
    MaxSeconds,      \* bound: seconds the chip advances
    RTC_FREQUENCY,
    Width,           \* rtc_time has Width bits
    MaxRtcTicks      \* bound: ticks counted

VARIABLES
    current_tm, uip,         \* of the chip; uip: the copy is still to come
    shown,                   \* the date and time its registers are a copy of
    seconds,                 \* seconds the chip has advanced
    reg,                     \* the register rtc_init reads, 7: all read, 8: done
    digits,                  \* digits of that register read already
    rtc_tm,                  \* the struct tm of rtc_init
    rtc_time, rtc_second,
    seen,                    \* history: what the registers showed at the reads
    start, rtc_ticks         \* history: rtc_second after rtc_init; ticks since

clock_vars == <<current_tm, uip, shown, seconds, reg, digits, rtc_tm, rtc_time,
                rtc_second, seen, start, rtc_ticks>>

\* The registers in the order they are read.
Field == <<"sec", "min", "hour", "mday", "mon", "year">>
Modulus == 2^Width
Day == 86400
Date == [year : Int, mon : Int, mday : Int, hour : Int, min : Int, sec : Int, wday : Int]

ASSUME ClockAssumption ==
    /\ Starts \subseteq Date
    /\ RTC_FREQUENCY \in Nat \ {0} /\ Modulus \in Nat \ {0}
-----------------------------------------------------------------------------
(* The chip.                                                               *)

days_tab == <<31, 28, 31, 30, 31, 30, 31, 31, 30, 31, 30, 31>>

isleap(year) == year % 4 = 0 /\ (year % 100 # 0 \/ year % 400 = 0)

get_days_in_month(month, year) ==
    days_tab[month + 1] + (IF month = 1 /\ isleap(year) THEN 1 ELSE 0)

rtc_next_day(tm) ==
    LET wday == (tm.wday + 1) % 7
        last == tm.mday + 1 > get_days_in_month(tm.mon, tm.year + 1900)
        december == tm.mon + 1 >= 12
    IN [tm EXCEPT !.hour = 0, !.wday = wday,
                  !.mday = IF last THEN 1 ELSE @ + 1,
                  !.mon  = IF last THEN (IF december THEN 0 ELSE @ + 1) ELSE @,
                  !.year = IF last /\ december THEN @ + 1 ELSE @]

rtc_next_second(tm) ==
    CASE tm.sec < 59 -> [tm EXCEPT !.sec = @ + 1]
      [] tm.sec = 59 /\ tm.min < 59 -> [tm EXCEPT !.sec = 0, !.min = @ + 1]
      [] tm.sec = 59 /\ tm.min = 59 /\ tm.hour < 23 ->
           [tm EXCEPT !.sec = 0, !.min = 0, !.hour = @ + 1]
      [] OTHER -> rtc_next_day([tm EXCEPT !.sec = 0, !.min = 0])

to_bcd(a) == ((a \div 10) * 16) + (a % 10)

rtc_copy_date(tm) ==
    [sec |-> to_bcd(tm.sec), min |-> to_bcd(tm.min), hour |-> to_bcd(tm.hour),
     mday |-> to_bcd(tm.mday), mon |-> to_bcd(tm.mon + 1), year |-> to_bcd(tm.year % 100)]

cmos == rtc_copy_date(shown)

rtc_update_second ==
    /\ ~uip /\ seconds < MaxSeconds
    /\ seconds' = seconds + 1
    /\ current_tm' = rtc_next_second(current_tm)
    /\ uip' = TRUE
    /\ UNCHANGED <<shown, reg, digits, rtc_tm, rtc_time, rtc_second, seen, start, rtc_ticks>>

rtc_update_second2 ==
    /\ uip
    /\ shown' = current_tm
    /\ uip' = FALSE
    /\ UNCHANGED <<current_tm, seconds, reg, digits, rtc_tm, rtc_time, rtc_second, seen,
                   start, rtc_ticks>>
-----------------------------------------------------------------------------
(* lib/time.c.                                                             *)

mon_yday(leap) ==
    IF leap THEN <<0, 31, 60, 91, 121, 152, 182, 213, 244, 274, 305, 335, 366>>
            ELSE <<0, 31, 59, 90, 120, 151, 181, 212, 243, 273, 304, 334, 365>>

\* Seconds beyond a day are carried over; below zero, the 32 bits of the result
\* wrap around (2^32 seconds are 49710 days and 23296 seconds).
Seconds(days, secs) ==
    LET d == days + (secs \div Day)
        s == secs % Day
    IN IF d >= 0 THEN <<d, s>>
       ELSE <<d + 49710 + ((s + 23296) \div Day), (s + 23296) % Day>>

\* Mutant: in January and February the leap day of the year is counted already.
Days_EarlyLeap(year, month, mday) ==
    (year - 1970) * 365 + mon_yday(FALSE)[month + 1]
    + ((year - 1968) \div 4) - ((year - 1900) \div 100) + ((year - 1600) \div 400)
    + mday - 1

\* The days of a date since 1970-01-01.
Days(year, month, mday) ==
    LET y == IF month <= 1 THEN year - 1 ELSE year
    IN (year - 1970) * 365 + mon_yday(FALSE)[month + 1]
       + ((y - 1968) \div 4) - ((y - 1900) \div 100) + ((y - 1600) \div 400)
       + mday - 1

\* A month outside 0 .. 11 (rtc_init may have put one together from two readings)
\* is one of another year.
mktime(tm) ==
    LET year == tm.year + (tm.mon \div 12) + (IF tm.year < 70 THEN 2000 ELSE 1900)
    IN Seconds(Days(year, tm.mon % 12, tm.mday), (tm.hour * 60 + tm.min) * 60 + tm.sec)

LEAPS_THRU_END_OF(y) == ((y \div 4) - (y \div 100)) + (y \div 400)

\* The year of day number days of year y, and the day in it; a guess may be a
\* year too late, and leave a negative number of days.
FindYear[days \in Int, y \in Int] ==
    IF days >= 0 /\ days < (IF isleap(y) THEN 366 ELSE 365) THEN <<y, days>>
    ELSE LET yg == y + (days \div 365)
         IN FindYear[days - ((yg - y) * 365 + LEAPS_THRU_END_OF(yg - 1)
                             - LEAPS_THRU_END_OF(y - 1)), yg]

\* gettime, that is __offtime without an offset.
gettime(time) ==
    LET rem == time[2]
        yd == FindYear[time[1], 1970]
        ip == mon_yday(isleap(yd[1]))
        mon == CHOOSE k \in 0 .. 11 : ip[k + 1] <= yd[2] /\ yd[2] < ip[k + 2]
    IN [hour |-> rem \div 3600, min |-> (rem % 3600) \div 60, sec |-> rem % 60,
        wday |-> (4 + time[1]) % 7, year |-> yd[1] - 1900,
        mon |-> mon, mday |-> yd[2] - ip[mon + 1] + 1]
-----------------------------------------------------------------------------
(* clock.c.                                                                *)

ClockInit ==
    /\ current_tm \in Starts
    /\ shown = current_tm /\ uip = FALSE
    /\ seconds = 0
    /\ reg = 1 /\ digits = {}
    /\ rtc_tm = [f \in {Field[k] : k \in 1 .. 6} |-> 0]
    /\ rtc_time = 0 /\ rtc_second = <<0, 0>>
    /\ seen = {} /\ start = <<0, 0>> /\ rtc_ticks = 0

\* Mutant: the register is taken for binary.
Digit_Binary(f, unit) == IF unit = 1 THEN cmos[f] ELSE 0

\* The ones or the tens of a register.
Digit(f, unit) == IF unit = 1 THEN cmos[f] % 16 ELSE ((cmos[f] \div 16) % 16) * 10

\* One of the two reads of BCD2HEXB; C leaves their order open.
ReadDigit ==
    /\ reg \in 1 .. 6
    /\ \E unit \in {1, 10} \ digits :
         /\ rtc_tm' = [rtc_tm EXCEPT ![Field[reg]] = @ + Digit(Field[reg], unit)]
         /\ IF digits = {} THEN reg' = reg /\ digits' = {unit}
                           ELSE reg' = reg + 1 /\ digits' = {}
    /\ seen' = seen \union {shown}
    /\ UNCHANGED <<current_tm, uip, shown, seconds, rtc_time, rtc_second, start, rtc_ticks>>

\* The product with 1000 loses its high bits.
Thousandfold(time) == ((((time[1] % Modulus) * Day + time[2]) % Modulus) * 1000) % Modulus

SetTime ==
    /\ reg = 7
    /\ rtc_second' = mktime([rtc_tm EXCEPT !.mon = @ - 1])
    /\ rtc_time' = Thousandfold(rtc_second')
    /\ start' = rtc_second'
    /\ reg' = 8
    /\ UNCHANGED <<current_tm, uip, shown, seconds, digits, rtc_tm, seen, rtc_ticks>>

\* Mutant: a second takes a tick too many.
SecondOver_Long(time) == time % (RTC_FREQUENCY + 1) = 0

SecondOver(time) == time % RTC_FREQUENCY = 0

rtc_intr ==
    /\ reg = 8 /\ rtc_ticks < MaxRtcTicks
    /\ rtc_ticks' = rtc_ticks + 1
    /\ rtc_time' = (rtc_time + 1) % Modulus
    /\ rtc_second' = IF SecondOver(rtc_time')
                       THEN Seconds(rtc_second[1], rtc_second[2] + 1) ELSE rtc_second
    /\ UNCHANGED <<current_tm, uip, shown, seconds, reg, digits, rtc_tm, seen, start>>

ClockNext ==
    \/ rtc_update_second \/ rtc_update_second2
    \/ ReadDigit \/ SetTime
    \/ rtc_intr

ClockSpec == ClockInit /\ [][ClockNext]_clock_vars
-----------------------------------------------------------------------------
(* Properties.  CalendarTime counts the days of the years and months gone   *)
(* by; every fourth year from 1970 to 2069 is a leap year.                 *)

MonthDays(year) == <<31, IF year % 4 = 0 THEN 29 ELSE 28, 31, 30, 31, 30, 31, 31, 30, 31, 30, 31>>

NewYear(year) == (year - 1970) * 365 + Cardinality({y \in 1970 .. year - 1 : y % 4 = 0})

CalendarTime(tm) ==
    LET year == tm.year + 1900
    IN <<NewYear(year) + SumFunctionOnSet(MonthDays(year), 1 .. tm.mon) + tm.mday - 1,
         tm.hour * 3600 + tm.min * 60 + tm.sec>>

\* The dates differ in the last digit of the seconds at most.
SameTenSeconds(a, b) == [a EXCEPT !.sec = @ \div 10] = [b EXCEPT !.sec = @ \div 10]

\* Unless a digit other than the last of the seconds changed while rtc_init read
\* the registers (it does not look at the update flag, nor read twice), the
\* system time it sets is one the chip showed, on every date of 1970 to 2069.
TimeRight ==
    reg = 8 /\ (\A a, b \in seen : SameTenSeconds(a, b)) =>
        start \in {CalendarTime(tm) : tm \in seen}

\* gettime undoes mktime for every second the chip counts, through the ends of
\* months, leap years and the century, and agrees with its day of the week.
RoundTrip == gettime(mktime([current_tm EXCEPT !.year = @ % 100])) = current_tm

\* Overflows of rtc_time since rtc_init.
Overflows == (Thousandfold(start) + rtc_ticks) \div Modulus

\* Seconds are counted by ticks to within one, although the first second is cut
\* short (rtc_time starts with the low bits of a product); every overflow of
\* rtc_time cuts another one short.
SecondsByTicks ==
    reg = 8 =>
        \E n \in (rtc_ticks \div RTC_FREQUENCY) .. ((rtc_ticks \div RTC_FREQUENCY) + 1 + Overflows) :
            rtc_second = Seconds(start[1], start[2] + n)
=============================================================================

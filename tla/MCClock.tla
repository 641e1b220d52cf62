------------------------------ MODULE MCClock ------------------------------
(* The last second of every month of some years and of every February and   *)
(* December from 1970 to 2069, and of some days, hours and minutes.         *)
EXTENDS Clock

MCYears == {1970, 1971, 1972, 1999, 2000, 2001, 2004, 2038, 2068}

MCMonthEnd(year, mon, back) ==
    LET date == [year |-> year - 1900, mon |-> mon, mday |-> MonthDays(year)[mon + 1] - back,
                 hour |-> 23, min |-> 59, sec |-> 59, wday |-> 0]
    IN [date EXCEPT !.wday = (CalendarTime(date)[1] + 4) % 7]

MCStarts ==
    {MCMonthEnd(year, mon, 0) : year \in MCYears, mon \in 0 .. 11}
    \union {MCMonthEnd(year, mon, 0) : year \in 1970 .. 2068, mon \in {1, 11}}
    \union {MCMonthEnd(year, 1, 1) : year \in 1970 .. 2069}
    \union {[MCMonthEnd(2010, 5, 12) EXCEPT !.hour = h, !.min = m, !.sec = s] :
              h \in {0, 9, 19}, m \in {9, 59}, s \in {8, 9, 59}}
=============================================================================

------------------------------- MODULE Clock -------------------------------
(***************************************************************************)
(* Time: reading the real-time clock (kernel/src/driver/rtc.c), counting   *)
(* ticks (kernel/src/driver/timer.c), the calendar of libc                 *)
(* (time/mktime.c, time/gmtime.c) and the date stamps of FAT32.            *)
(*                                                                         *)
(* The clock's registers are read one at a time while the clock goes on.   *)
(* A minute has MINUTE seconds and an hour HOUR minutes, 60 in the code,   *)
(* so that the seconds of 130 years stay small numbers and carries are     *)
(* frequent.                                                               *)
(***************************************************************************)
EXTENDS Integers, Sequences, FiniteSets

CONSTANTS
    MINUTE, HOUR,
    FREQUENCY,     \* TIMER_FREQUENCY
    Starts,        \* times at which the machine is started: <<year, month, day,
                   \* hour, minute, second>>
    RTC_TICKS,     \* bound on the seconds that pass during the first read
    SECONDS, DAYS  \* bounds on the time the machine runs: tick by tick at
                   \* first, then a day of ticks at a time

VARIABLES
    now,        \* the time of the real-time clock
    mode,       \* register B: BCD or binary, 12 or 24 hours
    uip,        \* update in progress
    passed,     \* seconds since the machine was started, until the read is done
    pc,         \* rtc_get_current_time: waiting, reading register pc, or done
    last, cur,  \* the registers read in the pass before and in this one
    seen,       \* history: the times shown since the read began
    start,      \* start_timestamp
    ticks, seconds_since_start,
    date        \* the date it is by the calendar, counted on from the start

vars == <<now, mode, uip, passed, pc, last, cur, seen, start, ticks, seconds_since_start, date>>

-----------------------------------------------------------------------------
(* The calendar the code is compared with. *)
Leap(y) == y % 4 = 0 /\ (y % 100 # 0 \/ y % 400 = 0)
MonthLength(y, m) ==
    <<31, IF Leap(y) THEN 29 ELSE 28, 31, 30, 31, 30, 31, 31, 30, 31, 30, 31>>[m]

DayAfter(d) ==
    IF d[3] < MonthLength(d[1], d[2]) THEN [d EXCEPT ![3] = @ + 1]
    ELSE IF d[2] < 12 THEN [d EXCEPT ![3] = 1, ![2] = @ + 1]
    ELSE [d EXCEPT ![3] = 1, ![2] = 1, ![1] = @ + 1]

SecondAfter(d) ==
    IF d[6] < MINUTE - 1 THEN [d EXCEPT ![6] = @ + 1]
    ELSE IF d[5] < HOUR - 1 THEN [d EXCEPT ![6] = 0, ![5] = @ + 1]
    ELSE IF d[4] < 23 THEN [d EXCEPT ![6] = 0, ![5] = 0, ![4] = @ + 1]
    ELSE DayAfter([d EXCEPT ![6] = 0, ![5] = 0, ![4] = 0])

YEARS == 140     \* bound: years behind 1970 that are explored

(* The days before each year, counted from the 1st of January 1970. *)
DaysBefore[y \in 1970..1970 + YEARS] ==
    IF y = 1970 THEN 0 ELSE DaysBefore[y - 1] + (IF Leap(y - 1) THEN 366 ELSE 365)

DayOfYear(d) ==
    LET before[m \in 1..12] == IF m = 1 THEN 0 ELSE before[m - 1] + MonthLength(d[1], m - 1)
    IN before[d[2]] + d[3] - 1

SecondsOf(d) ==
    (((DaysBefore[d[1]] + DayOfYear(d)) * 24 + d[4]) * HOUR + d[5]) * MINUTE + d[6]

-----------------------------------------------------------------------------
(* libc. *)
SECS_PER_DAY == 24 * HOUR * MINUTE

is_leap_year(year) ==
    IF year % 400 = 0 THEN TRUE ELSE IF year % 4 = 0 THEN year % 100 # 0 ELSE FALSE

days_in_month(month, leap_year) ==
    IF month <= 7
    THEN IF month % 2 = 1 THEN 31 ELSE IF month = 2 THEN 28 + (IF leap_year THEN 1 ELSE 0) ELSE 30
    ELSE IF month % 2 = 0 THEN 31 ELSE 30

(* Days from 1970 to the beginning of a year, in mktime and in gmtime. *)
EpochDays(year) ==
    (year - 1970) * 365 + ((year - 1) \div 4) - (1970 \div 4)
                        - (((year - 1) \div 100) - (1970 \div 100))
                        + (((year - 1) \div 400) - (1970 \div 400))

mktime(d) ==
    LET months[m \in 1..12] ==
            IF m = 1 THEN 0 ELSE months[m - 1] + days_in_month(m - 1, is_leap_year(d[1]))
    IN (EpochDays(d[1]) + months[d[2]] + d[3] - 1) * SECS_PER_DAY
          + d[6] + d[5] * MINUTE + d[4] * HOUR * MINUTE

(* The loops of gmtime, with what is left and the year or the month reached. *)
YearLoop[clone \in Nat, year \in 1970..1970 + YEARS] ==
    LET sec == (365 + (IF is_leap_year(year) THEN 1 ELSE 0)) * SECS_PER_DAY
    IN IF clone >= sec THEN YearLoop[clone - sec, year + 1] ELSE <<clone, year>>

MonthLoop[clone \in Nat, mon \in 1..12, leap_year \in BOOLEAN] ==
    LET sec == days_in_month(mon, leap_year) * SECS_PER_DAY
    IN IF clone >= sec THEN MonthLoop[clone - sec, mon + 1, leap_year] ELSE <<clone, mon>>

gmtime(timer) ==
    LET y    == YearLoop[timer, 1970]
        m    == MonthLoop[y[1], 1, is_leap_year(y[2])]
        rest == m[1] % SECS_PER_DAY
        yday == y[1] \div SECS_PER_DAY
    IN [date |-> <<y[2], m[2], 1 + (m[1] \div SECS_PER_DAY), rest \div (HOUR * MINUTE),
                   (rest % (HOUR * MINUTE)) \div MINUTE, rest % MINUTE>>,
        yday |-> yday,
        wday |-> (4 + EpochDays(y[2]) + yday) % 7]

(* The FAT32 date and time of an entry: parse_timestamp, parse_datetime. *)
parse_timestamp(d) ==
    [date |-> d[3] + d[2] * 32 + (IF d[1] >= 1980 THEN d[1] - 1980 ELSE 0) * 512,
     time |-> (d[6] \div 2) + d[5] * 32 + d[4] * 2048]

parse_datetime(s) ==
    mktime(<<(s.date \div 512) + 1980, (s.date \div 32) % 16, s.date % 32,
             s.time \div 2048, (s.time \div 32) % 64, (s.time % 32) * 2>>)

-----------------------------------------------------------------------------
(* The real-time clock.  In BCD the digits are apart; a 12-hour clock shows *)
(* 12 for 0 and sets bit 7 in the afternoon.                                *)
Digits(v) == IF mode.bcd THEN (v \div 10) * 16 + (v % 10) ELSE v

HourRegister(h) ==
    IF mode.h24 THEN Digits(h)
    ELSE Digits(IF h % 12 = 0 THEN 12 ELSE h % 12) + (IF h >= 12 THEN 128 ELSE 0)

(* The registers in the order in which they are read. *)
Register(d, i) ==
    CASE i = 1 -> Digits(d[6]) [] i = 2 -> Digits(d[5]) [] i = 3 -> HourRegister(d[4])
      [] i = 4 -> Digits(d[3]) [] i = 5 -> Digits(d[2]) [] i = 6 -> Digits(d[1] % 100)

UpdateBegins ==
    /\ pc # 0 /\ ~uip
    /\ passed < RTC_TICKS
    /\ uip' = TRUE
    /\ UNCHANGED <<now, mode, passed, pc, last, cur, seen, start, ticks, seconds_since_start, date>>

UpdateEnds ==
    /\ pc # 0 /\ uip
    /\ now' = SecondAfter(now)
    /\ seen' = seen \cup {now'}
    /\ passed' = passed + 1
    /\ uip' = FALSE
    /\ UNCHANGED <<mode, pc, last, cur, start, ticks, seconds_since_start, date>>

-----------------------------------------------------------------------------
(* rtc_get_current_time: the registers are read until two passes agree.     *)
Waiting == 7

WaitForUpdate ==
    /\ pc = Waiting
    /\ ~uip
    /\ pc' = 1 /\ cur' = << >>
    /\ UNCHANGED <<now, mode, uip, passed, last, seen, start, ticks, seconds_since_start, date>>

ReadRegister ==
    /\ pc \in 1..5
    /\ cur' = Append(cur, Register(now, pc))
    /\ pc' = pc + 1
    /\ UNCHANGED <<now, mode, uip, passed, last, seen, start, ticks, seconds_since_start, date>>

FromBcd(r) == (r % 16) + (r \div 16) * 10

(* What is made of the registers. *)
Hour12(h) == IF ~mode.h24 /\ h >= 128 THEN ((h % 128) + 12) % 24 ELSE h

Decode(r) ==
    LET v(i) == IF mode.bcd THEN FromBcd(r[i]) ELSE r[i]
        hour == IF mode.bcd THEN FromBcd(r[3] % 128) + (r[3] \div 128) * 128 ELSE r[3]
    IN <<2000 + v(6), v(5), v(4), Hour12(hour), v(2), v(1)>>

Agree_seconds(r, s) == s # << >> /\ r[1] = s[1]     \* mutant: only the seconds are compared

Agree(r, s) == r = s

(* The last register; if the passes agree the kernel takes the time and     *)
(* starts to count: timer_init.                                             *)
LastRegister ==
    /\ pc = 6
    /\ LET r == Append(cur, Register(now, 6))
       IN IF ~Agree(r, last)
          THEN /\ last' = r /\ cur' = << >> /\ pc' = Waiting
               /\ UNCHANGED <<start, date>>
          ELSE /\ pc' = 0 /\ cur' = r
               /\ start' = mktime(Decode(r)) /\ date' = Decode(r)
               /\ UNCHANGED last
    /\ UNCHANGED <<now, mode, uip, passed, seen, ticks, seconds_since_start>>

(* tick_handler, n times. *)
TickHandler(n) ==
    /\ pc = 0
    /\ ticks' = (ticks + n) % FREQUENCY
    /\ seconds_since_start' = seconds_since_start + ((ticks + n) \div FREQUENCY)
    /\ date' = CASE n = 1 -> IF ticks' = 0 THEN SecondAfter(date) ELSE date
                 [] OTHER -> DayAfter(date)
    /\ last' = << >> /\ cur' = << >> /\ seen' = {}
    /\ UNCHANGED <<now, mode, uip, passed, pc, start>>

timer_get_current_time == start + seconds_since_start

-----------------------------------------------------------------------------
Init ==
    /\ now \in Starts
    /\ mode \in [bcd : BOOLEAN, h24 : BOOLEAN]
    /\ uip = FALSE /\ passed = 0
    /\ pc = Waiting /\ last = << >> /\ cur = << >>
    /\ seen = {now}
    /\ start = 0 /\ ticks = 0 /\ seconds_since_start = 0 /\ date = now

Next ==
    \/ UpdateBegins \/ UpdateEnds
    \/ WaitForUpdate \/ ReadRegister \/ LastRegister
    \/ seconds_since_start < SECONDS /\ TickHandler(1)
    \/ /\ ticks = 0 /\ seconds_since_start < DAYS * SECS_PER_DAY
       /\ TickHandler(FREQUENCY * SECS_PER_DAY)

-----------------------------------------------------------------------------
(* 12 o'clock of a 12-hour clock is taken for the other one: noon becomes   *)
(* 0 and midnight stays 12.                                                 *)
TakenFor(d) == IF ~mode.h24 /\ d[4] % 12 = 0 THEN [d EXCEPT ![4] = (@ + 12) % 24] ELSE d

(* The time the kernel starts with is one the clock showed during the read, *)
(* all registers from the same second, in every format of the registers but *)
(* for 12 o'clock on a 12-hour clock, which is twelve hours off.            *)
ReadWasShown ==
    pc = 0 /\ seconds_since_start = 0 /\ ticks = 0 => \E d \in seen : date = TakenFor(d)

(* Counting seconds and counting days is the same: the kernel's time is the *)
(* time since 1970 of the date it is, gmtime gives that date back with the  *)
(* day of the year and of the week, and mktime the time.                    *)
CalendarAgrees ==
    pc = 0 =>
        LET t == timer_get_current_time
        IN /\ t = SecondsOf(date)
           /\ mktime(date) = t
           /\ gmtime(t) = [date |-> date, yday |-> DayOfYear(date),
                           wday |-> (4 + DaysBefore[date[1]] + DayOfYear(date)) % 7]

(* A time stored in a directory entry is read back, to two seconds. *)
StampKept ==
    pc = 0 =>
        LET t == timer_get_current_time
        IN parse_datetime(parse_timestamp(gmtime(t).date)) = t - (date[6] % 2)
=============================================================================

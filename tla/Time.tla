-------------------------------- MODULE Time --------------------------------
(***************************************************************************)
(* The clock of time.c: get_time, which fetches six fields of the CMOS     *)
(* clock one after the other while the clock runs, and sleep, which polls  *)
(* get_time. External: the clock chip, which keeps its registers in BCD,   *)
(* counts seconds and knows the lengths of the months.                     *)
(*                                                                         *)
(* Each get_ function dumps all registers and uses its own, so it is one   *)
(* step of this model: the moment it reads that register.                  *)
(***************************************************************************)
EXTENDS Integers, Sequences

CONSTANTS
  Starts,     \* moments at which sleep is called
  Beyond,     \* what may lie behind days_in_month[11]
  Naps,       \* arguments of sleep, in seconds
  MaxTicks    \* bound: seconds in one behaviour

\* Until this year, and with at most 300 behind the array, the sum of
\* get_time fits an int32_t.
LastYear == 2067

Date == [sec : 0 .. 59, min : 0 .. 59, hour : 0 .. 23,
         day : 1 .. 31, month : 1 .. 12, year : 2000 .. LastYear]

ASSUME TimeAssumption == /\ Starts \subseteq Date /\ Beyond \subseteq 0 .. 300
                         /\ Naps \subseteq Nat /\ MaxTicks \in Nat

VARIABLES
  clock,     \* what the clock shows
  ticks,     \* seconds passed
  beyond,    \* the 16 bits behind days_in_month
  pc,        \* "first" (sleep's first get_time), "poll" or "done"
  got,       \* the fields this get_time has fetched so far
  k,         \* how many they are
  from,      \* history: the clock when this get_time began
  now,       \* what the latest finished get_time returned
  span,      \* history: the clock when that one began, and when it ended
  time, t,   \* sleep's variable and argument
  first      \* history: the span of sleep's first get_time

vars == <<clock, ticks, beyond, pc, got, k, from, now, span, time, t, first>>

-----------------------------------------------------------------------------
(* The clock chip.                                                         *)

Leap(year) == year % 4 = 0
Length(month, year) == CASE month \in {4, 6, 9, 11} -> 30
                         [] month = 2 -> IF Leap(year) THEN 29 ELSE 28
                         [] OTHER -> 31

\* The next second: each field that is full starts over and carries.
NextMonth(c) == IF c.month < 12 THEN [c EXCEPT !.month = c.month + 1]
                                ELSE [[c EXCEPT !.month = 1] EXCEPT !.year = c.year + 1]
NextDay(c)   == IF c.day < Length(c.month, c.year) THEN [c EXCEPT !.day = c.day + 1]
                                                   ELSE NextMonth([c EXCEPT !.day = 1])
NextHour(c)  == IF c.hour < 23 THEN [c EXCEPT !.hour = c.hour + 1]
                               ELSE NextDay([c EXCEPT !.hour = 0])
NextMin(c)   == IF c.min < 59 THEN [c EXCEPT !.min = c.min + 1]
                              ELSE NextHour([c EXCEPT !.min = 0])
Succ(c)      == IF c.sec < 59 THEN [c EXCEPT !.sec = c.sec + 1]
                              ELSE NextMin([c EXCEPT !.sec = 0])

Bcd(n) == (n \div 10) * 16 + (n % 10)

\* The registers that the code looks at.
cmos_dump(c) ==
  [r \in {0, 2, 4, 7, 8, 9, 50} |->
     Bcd(CASE r = 0 -> c.sec [] r = 2 -> c.min [] r = 4 -> c.hour
           [] r = 7 -> c.day [] r = 8 -> c.month
           [] r = 9 -> c.year % 100 [] r = 50 -> c.year \div 100)]

-----------------------------------------------------------------------------
(* get_time.                                                               *)

\* Mutant: the digits are taken for a binary number.
from_bcd_raw(val) == val

from_bcd(val) == (val \div 16) * 10 + (val % 16)

\* The value the getter of a field takes from a dump.
get(field, values) ==
  CASE field = "hour"  -> from_bcd(values[4])
    [] field = "min"   -> from_bcd(values[2])
    [] field = "sec"   -> from_bcd(values[0])
    [] field = "month" -> from_bcd(values[8])
    [] field = "day"   -> from_bcd(values[7])
    [] field = "year"  -> from_bcd(values[9]) + from_bcd(values[50]) * 100

\* Mutant: the seconds first.
OrderReversed == <<"sec", "min", "hour", "month", "day", "year">>

\* The order of the six calls.
Order == <<"hour", "min", "sec", "month", "day", "year">>

\* The array starts with January at 0 and get_time indexes it with 1 to 12.
days_in_month(m) ==
  IF m = 12 THEN beyond
            ELSE <<31, 28, 31, 30, 31, 30, 31, 31, 30, 31, 30, 31>>[m + 1]

YearSeconds == 31557600     \* 365.25 days

\* The sum get_time returns.
Seconds(f) ==
  f.sec + f.min * 60 + f.hour * 60 * 60 + f.day * 24 * 60 * 60
        + days_in_month(f.month) * 24 * 60 * 60 + (f.year - 2000) * YearSeconds

TypeOK ==
  /\ {clock, got, from, span.from, span.to, first.from, first.to} \subseteq Date
  /\ ticks \in 0 .. MaxTicks /\ beyond \in Beyond
  /\ pc \in {"first", "poll", "done"} /\ k \in 0 .. 6
  /\ now \in Int /\ time \in Int /\ t \in Naps

Init ==
  /\ clock \in Starts /\ beyond \in Beyond /\ t \in Naps
  /\ ticks = 0 /\ pc = "first" /\ k = 0
  /\ got = clock /\ from = clock
  /\ span = [from |-> clock, to |-> clock] /\ first = span
  /\ now = Seconds(clock) /\ time = now

Tick ==
  /\ ticks < MaxTicks /\ pc # "done" /\ (clock.month = 12 => clock.year < LastYear)
  /\ ticks' = ticks + 1
  /\ clock' = Succ(clock)
  /\ UNCHANGED <<beyond, pc, got, k, from, now, span, time, t, first>>

Fetch ==
  /\ pc # "done" /\ k < 6
  /\ got' = [got EXCEPT ![Order[k + 1]] = get(Order[k + 1], cmos_dump(clock))]
  /\ from' = IF k = 0 THEN clock ELSE from
  /\ k' = k + 1
  /\ UNCHANGED <<clock, ticks, beyond, pc, now, span, time, t, first>>

\* Mutant: a nap that is a second too short is enough.
SleptNearly(n) == n - time + 1 >= t

\* Mutant: the nap must be exceeded.
SleptMore(n) == n - time > t

\* The test of sleep's loop.
Slept(n) == n - time >= t

\* get_time returns to sleep, which keeps its first result and then polls.
Return ==
  /\ pc # "done" /\ k = 6 /\ k' = 0
  /\ now' = Seconds(got)
  /\ span' = [from |-> from, to |-> clock]
  /\ IF pc = "first"
       THEN time' = now' /\ first' = span' /\ pc' = "poll"
       ELSE /\ pc' = IF Slept(now') THEN "done" ELSE "poll"
            /\ UNCHANGED <<time, first>>
  /\ UNCHANGED <<clock, ticks, beyond, got, from, t>>

get_time == Fetch \/ Return

\* sleep does nothing but call get_time; once it has returned, time passes
\* without it.
Next == Tick \/ get_time \/ (pc = "done" /\ UNCHANGED vars)

\* The CPU keeps polling; the clock need not tick.
Spec == Init /\ [][Next]_vars /\ WF_vars(get_time)

-----------------------------------------------------------------------------
(* Properties.                                                             *)

SameMonth(a, b) == a.month = b.month /\ a.year = b.year
SameDay(a, b)   == a.day = b.day /\ SameMonth(a, b)
SameMinute(a, b) == a.min = b.min /\ a.hour = b.hour /\ SameDay(a, b)

\* The six fields are fetched at six moments, so get_time can return a time
\* that never was. Within a day it is never ahead of the clock, because the
\* hours are fetched before the minutes and these before the seconds, and
\* less than an hour behind; over a midnight it is off by less than a day.
TornTimeBounded ==
  /\ SameDay(span.from, span.to) =>
       /\ now <= Seconds(span.to)
       /\ now > Seconds(span.from) - 60 * 60
  /\ SameMonth(span.from, span.to) =>
       /\ now < Seconds(span.to) + 24 * 60 * 60
       /\ now > Seconds(span.from) - 24 * 60 * 60

\* sleep(t) does not return before t seconds have passed, unless its first
\* get_time met a full minute or the day has ended: polls torn by a carry
\* only prolong it.
SleepNotShort ==
  (pc = "done" /\ SameMinute(first.from, first.to) /\ SameDay(first.from, span.to)) =>
    Seconds(span.to) - Seconds(first.from) >= t

\* sleep(t) returns once the clock has come t seconds past the end of its
\* first get_time and stays there, if neither a midnight in that call nor a
\* month's end later, at which get_time goes back, interferes.
SleepReturns ==
  <>[](pc # "first" /\ SameDay(first.from, first.to) /\ SameMonth(first.to, clock)
       /\ Seconds(clock) - Seconds(first.to) >= t)
    => <>(pc = "done")
=============================================================================

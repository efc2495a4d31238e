----------------------------- MODULE TimeProofs -----------------------------
(***************************************************************************)
(* Proofs about Time, for every moment at which sleep is called, every nap *)
(* and every number of ticks: how wrong a torn time can be, and that torn  *)
(* polls never cut a sleep short.                                          *)
(***************************************************************************)
EXTENDS Time, TLAPS

\* The order of days, and of times within a day.
MonthBefore(a, b) == a.year < b.year \/ (a.year = b.year /\ a.month < b.month)
DayNotAfter(a, b) == MonthBefore(a, b) \/ (SameMonth(a, b) /\ a.day <= b.day)
MinNotAfter(a, b) == a.hour < b.hour \/ (a.hour = b.hour /\ a.min <= b.min)
SecNotAfter(a, b) == \/ a.hour < b.hour
                     \/ a.hour = b.hour /\ a.min < b.min
                     \/ a.hour = b.hour /\ a.min = b.min /\ a.sec <= b.sec

TypeInv ==
  /\ clock \in Date /\ got \in Date /\ from \in Date
  /\ span \in [from : Date, to : Date] /\ first \in [from : Date, to : Date]
  /\ ticks \in 0 .. MaxTicks /\ beyond \in Beyond
  /\ pc \in {"first", "poll", "done"} /\ k \in 0 .. 6
  /\ now \in Int /\ time \in Int /\ t \in Naps

\* What the fields fetched so far have to do with the clock.
FetchInv ==
  k >= 1 =>
    /\ DayNotAfter(from, clock)
    /\ got.hour = from.hour
    /\ SameDay(from, clock) =>
         /\ SecNotAfter(from, clock)
         /\ k >= 2 => MinNotAfter(got, clock)
         /\ k >= 3 => SecNotAfter(got, clock)
    /\ SameMinute(from, clock) =>
         /\ k >= 2 => got.min = from.min
         /\ k >= 3 => got.sec >= from.sec
    /\ SameMonth(from, clock) =>
         /\ k >= 4 => got.month = clock.month
         /\ k >= 5 => from.day <= got.day /\ got.day <= clock.day
         /\ k >= 6 => got.year = clock.year

\* sleep's first call lies before all others, and its time is not early if
\* no minute ended in it.
SleepInv ==
  pc # "first" =>
    /\ DayNotAfter(first.from, clock)
    /\ k >= 1 => DayNotAfter(first.from, from)
    /\ DayNotAfter(first.from, span.from) /\ DayNotAfter(span.from, span.to)
    /\ SameMinute(first.from, first.to) => time >= Seconds(first.from)
    /\ pc = "done" => now - time >= t

IInv == TypeInv /\ FetchInv /\ TornTimeBounded /\ SleepInv

-----------------------------------------------------------------------------
\* The digits of a register give back the number in it.
LEMMA BcdRoundTrip == ASSUME NEW n \in 0 .. 99 PROVE from_bcd(Bcd(n)) = n
<1>1. PICK d \in 0 .. 9, u \in 0 .. 9 : n = 10 * d + u /\ n \div 10 = d /\ n % 10 = u
  OBVIOUS
<1>2. (16 * d + u) \div 16 = d /\ (16 * d + u) % 16 = u
  OBVIOUS
<1> QED
  BY <1>1, <1>2 DEF from_bcd, Bcd

\* Each getter returns its field of the clock.
LEMMA GetField ==
  ASSUME NEW c \in Date
  PROVE  /\ get("hour", cmos_dump(c)) = c.hour
         /\ get("min", cmos_dump(c)) = c.min
         /\ get("sec", cmos_dump(c)) = c.sec
         /\ get("month", cmos_dump(c)) = c.month
         /\ get("day", cmos_dump(c)) = c.day
         /\ get("year", cmos_dump(c)) = c.year
<1> DEFINE v == cmos_dump(c)
<1>1. /\ v[0] = Bcd(c.sec) /\ v[2] = Bcd(c.min) /\ v[4] = Bcd(c.hour)
      /\ v[7] = Bcd(c.day) /\ v[8] = Bcd(c.month)
      /\ v[9] = Bcd(c.year % 100) /\ v[50] = Bcd(c.year \div 100)
  BY DEF cmos_dump
<1>2. /\ c.sec \in 0 .. 99 /\ c.min \in 0 .. 99 /\ c.hour \in 0 .. 99
      /\ c.day \in 0 .. 99 /\ c.month \in 0 .. 99 /\ c.year \in 2000 .. 2067
  BY DEF Date, LastYear
<1>3. c.year % 100 \in 0 .. 99 /\ c.year \div 100 = 20
      /\ (c.year % 100) + 20 * 100 = c.year
  BY <1>2
<1> HIDE DEF v
<1>4. /\ from_bcd(v[0]) = c.sec /\ from_bcd(v[2]) = c.min /\ from_bcd(v[4]) = c.hour
      /\ from_bcd(v[7]) = c.day /\ from_bcd(v[8]) = c.month
      /\ from_bcd(v[9]) = c.year % 100 /\ from_bcd(v[50]) = 20
  BY <1>1, <1>2, <1>3, BcdRoundTrip
<1> QED
  BY <1>3, <1>4 DEF get, v

\* A date is its six fields.
LEMMA DateFields ==
  ASSUME NEW c \in Date
  PROVE  /\ c.sec \in 0 .. 59 /\ c.min \in 0 .. 59 /\ c.hour \in 0 .. 23
         /\ c.day \in 1 .. 31 /\ c.month \in 1 .. 12 /\ c.year \in 2000 .. 2067
BY DEF Date, LastYear

\* A new day is later, whatever the time.
LEMMA NextDayLater ==
  ASSUME NEW c \in Date, c.month = 12 => c.year < LastYear
  PROVE  /\ NextDay(c) \in Date
         /\ DayNotAfter(c, NextDay(c)) /\ ~SameDay(c, NextDay(c))
<1>0. /\ c.day \in 1 .. 31 /\ c.month \in 1 .. 12 /\ c.year \in 2000 .. 2067
  BY DateFields
<1> DEFINE len == Length(c.month, c.year)
<1>1. len \in 28 .. 31
  BY DEF Length
<1> HIDE DEF len
<1>2. CASE c.day < len
  <2> DEFINE n == [c EXCEPT !.day = c.day + 1]
  <2>1. c.day + 1 \in 1 .. 31
    BY <1>0, <1>1, <1>2
  <2>2. n \in Date /\ n.day = c.day + 1 /\ n.month = c.month /\ n.year = c.year
    BY <2>1 DEF Date
  <2>3. NextDay(c) = n
    BY <1>2 DEF NextDay, len
  <2> HIDE DEF n
  <2> QED
    BY <2>2, <2>3, <1>0 DEF DayNotAfter, MonthBefore, SameDay, SameMonth
<1>3. CASE ~(c.day < len)
  <2> DEFINE d == [c EXCEPT !.day = 1]
  <2>1. d \in Date /\ d.day = 1 /\ d.month = c.month /\ d.year = c.year
    BY DEF Date
  <2>2. NextDay(c) = NextMonth(d)
    BY <1>3 DEF NextDay, len
  <2> HIDE DEF d
  <2>3. CASE c.month < 12
    <3> DEFINE n == [d EXCEPT !.month = d.month + 1]
    <3>1. d.month + 1 \in 1 .. 12
      BY <2>1, <2>3, <1>0
    <3>2. n \in Date /\ n.month = c.month + 1 /\ n.year = c.year
      BY <3>1, <2>1 DEF Date
    <3>3. NextDay(c) = n
      BY <2>1, <2>2, <2>3 DEF NextMonth
    <3> HIDE DEF n
    <3> QED
      BY <3>2, <3>3, <1>0 DEF DayNotAfter, MonthBefore, SameDay, SameMonth
  <2>4. CASE c.month = 12
    <3> DEFINE j == [d EXCEPT !.month = 1]
               n == [j EXCEPT !.year = d.year + 1]
    <3>1. j \in Date
      BY <2>1 DEF Date
    <3>2. d.year + 1 \in 2000 .. LastYear
      BY <2>1, <2>4, <1>0 DEF LastYear
    <3>3. NextDay(c) = n
      BY <2>1, <2>2, <2>4 DEF NextMonth
    <3> HIDE DEF j
    <3>4. n \in Date /\ n.year = c.year + 1
      BY <3>1, <3>2, <2>1 DEF Date
    <3> HIDE DEF n
    <3> QED
      BY <3>3, <3>4, <1>0 DEF DayNotAfter, MonthBefore, SameDay, SameMonth
  <2> QED
    BY <2>3, <2>4, <1>0
<1> QED
  BY <1>2, <1>3

\* Every second moves the clock forwards.
LEMMA SuccForward ==
  ASSUME NEW c \in Date, c.month = 12 => c.year < LastYear
  PROVE  LET s == Succ(c) IN
         /\ s \in Date /\ DayNotAfter(c, s)
         /\ SameDay(c, s) => SecNotAfter(c, s)
<1> DEFINE s == Succ(c)
<1>0. /\ c.sec \in 0 .. 59 /\ c.min \in 0 .. 59 /\ c.hour \in 0 .. 23
      /\ c.day \in 1 .. 31 /\ c.month \in 1 .. 12 /\ c.year \in 2000 .. 2067
  BY DateFields
<1> USE DEF DayNotAfter, MonthBefore, SameDay, SameMonth, SecNotAfter
<1>1. CASE c.sec < 59
  <2>1. c.sec + 1 \in 0 .. 59 /\ s = [c EXCEPT !.sec = c.sec + 1]
    BY <1>1, <1>0 DEF Succ
  <2> HIDE DEF s
  <2>2. /\ s \in Date /\ s.sec = c.sec + 1 /\ s.min = c.min /\ s.hour = c.hour
        /\ s.day = c.day /\ s.month = c.month /\ s.year = c.year
    BY <2>1 DEF Date
  <2> QED
    BY <2>2, <1>0 DEF s
<1>2. CASE ~(c.sec < 59)
  <2> DEFINE m == [c EXCEPT !.sec = 0]
  <2>1. /\ m \in Date /\ m.min = c.min /\ m.hour = c.hour
        /\ m.day = c.day /\ m.month = c.month /\ m.year = c.year
    BY DEF Date
  <2>2. s = NextMin(m)
    BY <1>2 DEF Succ
  <2> HIDE DEF s, m
  <2>3. CASE c.min < 59
    <3>1. c.min + 1 \in 0 .. 59 /\ s = [m EXCEPT !.min = c.min + 1]
      BY <2>1, <2>2, <2>3, <1>0 DEF NextMin
    <3>2. /\ s \in Date /\ s.min = c.min + 1 /\ s.hour = c.hour
          /\ s.day = c.day /\ s.month = c.month /\ s.year = c.year
      BY <3>1, <2>1 DEF Date
    <3> QED
      BY <3>2, <1>0 DEF s
  <2>4. CASE ~(c.min < 59)
    <3> DEFINE h == [m EXCEPT !.min = 0]
    <3>1. /\ h \in Date /\ h.hour = c.hour
          /\ h.day = c.day /\ h.month = c.month /\ h.year = c.year
      BY <2>1 DEF Date
    <3>2. s = NextHour(h)
      BY <2>1, <2>2, <2>4 DEF NextMin
    <3> HIDE DEF h
    <3>3. CASE c.hour < 23
      <4>1. c.hour + 1 \in 0 .. 23 /\ s = [h EXCEPT !.hour = c.hour + 1]
        BY <3>1, <3>2, <3>3, <1>0 DEF NextHour
      <4>2. /\ s \in Date /\ s.hour = c.hour + 1
            /\ s.day = c.day /\ s.month = c.month /\ s.year = c.year
        BY <4>1, <3>1 DEF Date
      <4> QED
        BY <4>2, <1>0 DEF s
    <3>4. CASE ~(c.hour < 23)
      <4> DEFINE d == [h EXCEPT !.hour = 0]
      <4>1. d \in Date /\ d.day = c.day /\ d.month = c.month /\ d.year = c.year
        BY <3>1 DEF Date
      <4>2. s = NextDay(d)
        BY <3>1, <3>2, <3>4 DEF NextHour
      <4> HIDE DEF d
      <4>3. s \in Date /\ DayNotAfter(d, s) /\ ~SameDay(d, s)
        BY <4>1, <4>2, NextDayLater
      <4> QED
        BY <4>1, <4>3 DEF s
    <3> QED
      BY <3>3, <3>4
  <2> QED
    BY <2>3, <2>4
<1> QED
  BY <1>1, <1>2

\* What the code adds for a month is a number.
LEMMA MonthDays == ASSUME NEW m \in 1 .. 12, beyond \in Beyond PROVE days_in_month(m) \in Nat
<1>1. beyond \in Nat
  BY TimeAssumption
<1> QED
  BY <1>1 DEF days_in_month

\* The sum of get_time over numbers, with the years already in seconds.
Sum(s, m, h, d, x, y) ==
  s + m * 60 + h * 60 * 60 + d * 24 * 60 * 60 + x * 24 * 60 * 60 + y

\* How two such sums compare.
SumsCompare(s, m, h, d, s2, m2, h2, d2, x, y) ==
  LET A == Sum(s, m, h, d, x, y)
      B == Sum(s2, m2, h2, d2, x, y)
  IN  /\ A \in Int
      /\ d <= d2 => A < B + 24 * 60 * 60
      /\ d = d2 /\ h = h2 => A < B + 60 * 60
      /\ d = d2 /\ h < h2 => A <= B
      /\ d = d2 /\ h = h2 /\ m < m2 => A <= B
      /\ d = d2 /\ h = h2 /\ m = m2 /\ s <= s2 => A <= B

\* How the sums of fields in range compare, as a fact about integers.
LEMMA SumInts ==
  ASSUME NEW s \in 0 .. 59, NEW m \in 0 .. 59, NEW h \in 0 .. 23, NEW d \in 1 .. 31,
         NEW s2 \in 0 .. 59, NEW m2 \in 0 .. 59, NEW h2 \in 0 .. 23, NEW d2 \in 1 .. 31,
         NEW x \in Int, NEW y \in Int
  PROVE  SumsCompare(s, m, h, d, s2, m2, h2, d2, x, y)
BY SMT DEF Sum, SumsCompare

\* The sums of two dates with the same month and year, by what they differ in.
LEMMA SumOrder ==
  ASSUME NEW a \in Date, NEW b \in Date, SameMonth(a, b), beyond \in Beyond
  PROVE  /\ Seconds(a) \in Int
         /\ a.day <= b.day => Seconds(a) < Seconds(b) + 24 * 60 * 60
         /\ a.day = b.day /\ a.hour = b.hour => Seconds(a) < Seconds(b) + 60 * 60
         /\ a.day = b.day /\ SecNotAfter(a, b) => Seconds(a) <= Seconds(b)
<1> DEFINE x == days_in_month(a.month)
           y == (a.year - 2000) * YearSeconds
<1>1. x \in Int
  BY MonthDays, DateFields
<1>2. y \in Int
  <2>1. YearSeconds \in Int
    BY SMT DEF YearSeconds
  <2>2. a.year - 2000 \in Int
    BY DateFields
  <2>3. ASSUME NEW i \in Int, NEW j \in Int PROVE i * j \in Int
    OBVIOUS
  <2> QED
    BY <2>1, <2>2, <2>3
<1>3. /\ Seconds(a) = Sum(a.sec, a.min, a.hour, a.day, x, y)
      /\ Seconds(b) = Sum(b.sec, b.min, b.hour, b.day, x, y)
  BY DEF Seconds, SameMonth, Sum
<1>4. /\ a.sec \in 0 .. 59 /\ a.min \in 0 .. 59 /\ a.hour \in 0 .. 23 /\ a.day \in 1 .. 31
      /\ b.sec \in 0 .. 59 /\ b.min \in 0 .. 59 /\ b.hour \in 0 .. 23 /\ b.day \in 1 .. 31
  BY DateFields
<1> HIDE DEF x, y
<1>5. SumsCompare(a.sec, a.min, a.hour, a.day, b.sec, b.min, b.hour, b.day, x, y)
  BY <1>1, <1>2, <1>4, SumInts
<1> QED
  BY <1>3, <1>5, Zenon DEF SumsCompare, SecNotAfter

\* sleep begins with nothing fetched.
LEMMA InitInv == Init => IInv
<1> SUFFICES ASSUME Init PROVE IInv
  OBVIOUS
<1>1. clock \in Date /\ beyond \in Beyond /\ beyond \in Nat
  BY TimeAssumption DEF Init
<1>2. SameMonth(clock, clock) /\ SecNotAfter(clock, clock) /\ clock.day <= clock.day
  BY <1>1, DateFields DEF SameMonth, SecNotAfter
<1>3. Seconds(clock) \in Int
  BY <1>1, <1>2, SumOrder
<1>4. TypeInv
  BY <1>1, <1>3, TimeAssumption DEF Init, TypeInv
<1>5. TornTimeBounded
  BY <1>3 DEF Init, TornTimeBounded
<1> QED
  BY <1>4, <1>5 DEF Init, IInv, FetchInv, SleepInv

-----------------------------------------------------------------------------
(* The orders.                                                             *)

\* The order of days is transitive, and days between two of one month are of that month.
LEMMA DayOrder ==
  ASSUME NEW a \in Date, NEW b \in Date, NEW c \in Date,
         DayNotAfter(a, b), DayNotAfter(b, c)
  PROVE  /\ DayNotAfter(a, c)
         /\ SameMonth(a, c) => SameMonth(a, b) /\ SameMonth(b, c)
         /\ SameDay(a, c) => SameDay(a, b) /\ SameDay(b, c)
<1>1. /\ a.day \in Int /\ a.month \in Int /\ a.year \in Int
      /\ b.day \in Int /\ b.month \in Int /\ b.year \in Int
      /\ c.day \in Int /\ c.month \in Int /\ c.year \in Int
  BY DateFields
<1> QED
  BY <1>1 DEF DayNotAfter, MonthBefore, SameMonth, SameDay

\* The orders within a day are transitive.
LEMMA TimeOrder ==
  ASSUME NEW a \in Date, NEW b \in Date, NEW c \in Date, SecNotAfter(b, c)
  PROVE  /\ MinNotAfter(a, b) => MinNotAfter(a, c)
         /\ SecNotAfter(a, b) => SecNotAfter(a, c)
         /\ SecNotAfter(a, b) /\ a.hour = c.hour /\ a.min = c.min
              => b.hour = a.hour /\ b.min = a.min
<1>1. /\ a.sec \in Int /\ a.min \in Int /\ a.hour \in Int
      /\ b.sec \in Int /\ b.min \in Int /\ b.hour \in Int
      /\ c.sec \in Int /\ c.min \in Int /\ c.hour \in Int
  BY DateFields
<1> QED
  BY <1>1 DEF MinNotAfter, SecNotAfter

\* What the sum of the fetched fields has to do with the clock at both ends
\* of the call.
LEMMA TornSum ==
  ASSUME TypeInv, FetchInv, k = 6
  PROVE  /\ Seconds(got) \in Int
         /\ SameDay(from, clock) => /\ Seconds(got) <= Seconds(clock)
                                    /\ Seconds(got) > Seconds(from) - 60 * 60
         /\ SameMonth(from, clock) => /\ Seconds(got) < Seconds(clock) + 24 * 60 * 60
                                      /\ Seconds(got) > Seconds(from) - 24 * 60 * 60
         /\ SameMinute(from, clock) => Seconds(got) >= Seconds(from)
<1>0. /\ clock \in Date /\ got \in Date /\ from \in Date /\ beyond \in Beyond
  BY DEF TypeInv
<1>1. /\ clock.day \in Int /\ got.day \in Int /\ from.day \in Int
      /\ got.sec \in Int /\ from.sec \in Int
  BY <1>0, DateFields
<1>2. /\ SameMonth(got, got) /\ SameMonth(from, from) /\ SameMonth(clock, clock)
  BY DEF SameMonth
<1>3. /\ Seconds(got) \in Int /\ Seconds(from) \in Int /\ Seconds(clock) \in Int
  BY <1>0, <1>2, SumOrder
<1>4. ASSUME SameMonth(from, clock)
      PROVE  /\ SameMonth(got, clock) /\ SameMonth(from, got)
             /\ from.day <= got.day /\ got.day <= clock.day
  BY <1>4 DEF FetchInv, SameMonth
<1>5. ASSUME SameMonth(from, clock)
      PROVE  /\ Seconds(got) < Seconds(clock) + 24 * 60 * 60
             /\ Seconds(got) > Seconds(from) - 24 * 60 * 60
  <2>1. Seconds(got) < Seconds(clock) + 24 * 60 * 60
    BY <1>0, <1>4, <1>5, SumOrder
  <2>2. Seconds(from) < Seconds(got) + 24 * 60 * 60
    BY <1>0, <1>4, <1>5, SumOrder
  <2> QED
    BY <2>1, <2>2, <1>3
<1>6. ASSUME SameDay(from, clock)
      PROVE  /\ Seconds(got) <= Seconds(clock)
             /\ Seconds(got) > Seconds(from) - 60 * 60
  <2>1. /\ SameMonth(from, clock) /\ from.day = got.day /\ got.day = clock.day
        /\ SameMonth(got, clock) /\ SameMonth(from, got)
    BY <1>1, <1>4, <1>6 DEF SameDay
  <2>2. SecNotAfter(got, clock) /\ got.hour = from.hour
    BY <1>6 DEF FetchInv
  <2>3. Seconds(got) <= Seconds(clock)
    BY <1>0, <2>1, <2>2, SumOrder
  <2>4. Seconds(from) < Seconds(got) + 60 * 60
    BY <1>0, <2>1, <2>2, SumOrder
  <2> QED
    BY <2>3, <2>4, <1>3
<1>7. ASSUME SameMinute(from, clock) PROVE Seconds(got) >= Seconds(from)
  <2>1. /\ SameMonth(from, got) /\ from.day = got.day
    BY <1>1, <1>4, <1>7 DEF SameMinute, SameDay
  <2>2. SecNotAfter(from, got)
    BY <1>7, <1>1 DEF FetchInv, SecNotAfter
  <2>3. Seconds(from) <= Seconds(got)
    BY <1>0, <2>1, <2>2, SumOrder
  <2> QED
    BY <2>3, <1>3
<1> QED
  BY <1>3, <1>5, <1>6, <1>7

-----------------------------------------------------------------------------
(* The steps.                                                              *)

\* A tick of the clock between two fetches keeps the invariant.
LEMMA TickInv == IInv /\ Tick => IInv'
<1> SUFFICES ASSUME IInv, Tick PROVE IInv'
  OBVIOUS
<1>1. /\ clock \in Date /\ from \in Date /\ got \in Date /\ first.from \in Date
      /\ beyond \in Beyond /\ ticks \in 0 .. MaxTicks /\ MaxTicks \in Nat
  BY TimeAssumption DEF IInv, TypeInv
<1>2. /\ clock' \in Date /\ DayNotAfter(clock, clock')
      /\ SameDay(clock, clock') => SecNotAfter(clock, clock')
  BY <1>1, SuccForward DEF Tick
<1>3. TypeInv'
  BY <1>1, <1>2 DEF IInv, TypeInv, Tick
<1>4. FetchInv'
  <2> SUFFICES ASSUME k >= 1 PROVE FetchInv'
    BY DEF FetchInv, Tick
  <2>1. /\ DayNotAfter(from, clock')
        /\ SameMonth(from, clock') => SameMonth(from, clock) /\ SameMonth(clock, clock')
        /\ SameDay(from, clock') => SameDay(from, clock) /\ SameDay(clock, clock')
    BY <1>1, <1>2, DayOrder DEF IInv, FetchInv
  <2>2. ASSUME SameDay(from, clock')
        PROVE  /\ SecNotAfter(from, clock')
               /\ k >= 2 => MinNotAfter(got, clock')
               /\ k >= 3 => SecNotAfter(got, clock')
    BY <1>1, <1>2, <2>1, <2>2, TimeOrder DEF IInv, FetchInv
  <2>3. ASSUME SameMinute(from, clock') PROVE SameMinute(from, clock)
    <3>1. SameDay(from, clock') /\ from.hour = clock'.hour /\ from.min = clock'.min
      BY <2>3 DEF SameMinute
    <3>2. SecNotAfter(from, clock) /\ SecNotAfter(clock, clock')
      BY <3>1, <2>1, <1>2 DEF IInv, FetchInv
    <3>3. clock.hour = from.hour /\ clock.min = from.min
      BY <3>1, <3>2, <1>1, <1>2, TimeOrder
    <3> QED
      BY <3>1, <3>3, <2>1 DEF SameMinute
  <2>4. ASSUME SameMonth(from, clock')
        PROVE  /\ k >= 4 => got.month = clock'.month
               /\ k >= 5 => from.day <= got.day /\ got.day <= clock'.day
               /\ k >= 6 => got.year = clock'.year
    <3>1. SameMonth(from, clock) /\ clock.month = clock'.month /\ clock.year = clock'.year
      BY <2>1, <2>4 DEF SameMonth
    <3>2. /\ clock.day \in Int /\ clock'.day \in Int /\ got.day \in Int
          /\ clock.month \in Int /\ clock.year \in Int
      BY <1>1, <1>2, DateFields
    <3>3. clock.day <= clock'.day
      BY <1>2, <3>1, <3>2 DEF DayNotAfter, MonthBefore
    <3> QED
      BY <3>1, <3>2, <3>3 DEF IInv, FetchInv
  <2>5. UNCHANGED <<from, got, k>>
    BY DEF Tick
  <2>6. got.hour = from.hour /\ (SameMinute(from, clock) =>
             (k >= 2 => got.min = from.min) /\ (k >= 3 => got.sec >= from.sec))
    BY DEF IInv, FetchInv
  <2> QED
    BY <2>1, <2>2, <2>3, <2>4, <2>5, <2>6
       DEF FetchInv, SameMonth, SameDay, SameMinute, SecNotAfter, MinNotAfter, DayNotAfter, MonthBefore
<1>5. TornTimeBounded'
  BY DEF IInv, TornTimeBounded, Tick, Seconds, days_in_month, SameMonth, SameDay
<1>6. SleepInv'
  <2>1. pc # "first" => DayNotAfter(first.from, clock')
    BY <1>1, <1>2, DayOrder DEF IInv, SleepInv
  <2> QED
    BY <2>1 DEF IInv, SleepInv, Tick, Seconds, days_in_month,
                SameMonth, SameDay, SameMinute, DayNotAfter, MonthBefore
<1> QED
  BY <1>3, <1>4, <1>5, <1>6 DEF IInv

\* The six calls of get_time, each with the field it sets.
LEMMA FetchCases ==
  ASSUME clock \in Date, k \in 0 .. 6, Fetch
  PROVE  \/ k = 0 /\ got' = [got EXCEPT !.hour = clock.hour]
         \/ k = 1 /\ got' = [got EXCEPT !.min = clock.min]
         \/ k = 2 /\ got' = [got EXCEPT !.sec = clock.sec]
         \/ k = 3 /\ got' = [got EXCEPT !.month = clock.month]
         \/ k = 4 /\ got' = [got EXCEPT !.day = clock.day]
         \/ k = 5 /\ got' = [got EXCEPT !.year = clock.year]
<1>1. k \in 0 .. 5 /\ got' = [got EXCEPT ![Order[k + 1]] = get(Order[k + 1], cmos_dump(clock))]
  BY DEF Fetch
<1>2. /\ Order[1] = "hour" /\ Order[2] = "min" /\ Order[3] = "sec"
      /\ Order[4] = "month" /\ Order[5] = "day" /\ Order[6] = "year"
  BY DEF Order
<1>3. CASE k = 0
  <2>1. Order[k + 1] = "hour"
    BY <1>2, <1>3
  <2> QED
    BY <1>1, <1>3, <2>1, GetField
<1>4. CASE k = 1
  <2>1. Order[k + 1] = "min"
    BY <1>2, <1>4
  <2> QED
    BY <1>1, <1>4, <2>1, GetField
<1>5. CASE k = 2
  <2>1. Order[k + 1] = "sec"
    BY <1>2, <1>5
  <2> QED
    BY <1>1, <1>5, <2>1, GetField
<1>6. CASE k = 3
  <2>1. Order[k + 1] = "month"
    BY <1>2, <1>6
  <2> QED
    BY <1>1, <1>6, <2>1, GetField
<1>7. CASE k = 4
  <2>1. Order[k + 1] = "day"
    BY <1>2, <1>7
  <2> QED
    BY <1>1, <1>7, <2>1, GetField
<1>8. CASE k = 5
  <2>1. Order[k + 1] = "year"
    BY <1>2, <1>8
  <2> QED
    BY <1>1, <1>8, <2>1, GetField
<1> QED
  BY <1>1, <1>3, <1>4, <1>5, <1>6, <1>7, <1>8

\* The fetch of one field keeps the invariant.
LEMMA FetchStep == IInv /\ Fetch => IInv'
<1> SUFFICES ASSUME IInv, Fetch PROVE IInv'
  OBVIOUS
<1>1. /\ clock \in Date /\ from \in Date /\ got \in Date /\ k \in 0 .. 6
  BY DEF IInv, TypeInv
<1>2. /\ UNCHANGED <<clock, ticks, beyond, pc, now, span, time, t, first>>
      /\ k' = k + 1 /\ from' = (IF k = 0 THEN clock ELSE from)
  BY DEF Fetch
<1>3. got' \in Date
  BY <1>1, FetchCases DEF Date
<1>4. TypeInv'
  BY <1>1, <1>2, <1>3, FetchCases DEF IInv, TypeInv
<1>5. FetchInv'
  <2>1. /\ from.sec \in Int /\ from.min \in Int /\ from.hour \in Int
        /\ from.day \in Int /\ from.month \in Int /\ from.year \in Int
        /\ clock.sec \in Int /\ clock.min \in Int /\ clock.hour \in Int
        /\ clock.day \in Int /\ clock.month \in Int /\ clock.year \in Int
        /\ got.sec \in Int /\ got.min \in Int /\ got.hour \in Int
        /\ got.day \in Int /\ got.month \in Int /\ got.year \in Int
    BY <1>1, DateFields
  <2> USE DEF FetchInv, DayNotAfter, MonthBefore, SameMonth, SameDay, SameMinute,
              MinNotAfter, SecNotAfter
  <2>2. CASE k = 0
    <3>1. got'.hour = clock.hour
      BY <1>1, <2>2, FetchCases DEF Date
    <3> QED
      BY <1>2, <2>1, <2>2, <3>1
  <2>3. CASE k = 1
    <3>1. got'.min = clock.min /\ got'.hour = got.hour
      BY <1>1, <2>3, FetchCases DEF Date
    <3> QED
      BY <1>2, <2>1, <2>3, <3>1 DEF IInv
  <2>4. CASE k = 2
    <3>1. got'.sec = clock.sec /\ got'.min = got.min /\ got'.hour = got.hour
      BY <1>1, <2>4, FetchCases DEF Date
    <3> QED
      BY <1>2, <2>1, <2>4, <3>1 DEF IInv
  <2>5. CASE k = 3
    <3>1. got'.sec = got.sec /\ got'.min = got.min /\ got'.hour = got.hour
          /\ got'.month = clock.month
      BY <1>1, <2>5, FetchCases DEF Date
    <3> QED
      BY <1>2, <2>1, <2>5, <3>1 DEF IInv
  <2>6. CASE k = 4
    <3>1. got'.sec = got.sec /\ got'.min = got.min /\ got'.hour = got.hour
          /\ got'.month = got.month /\ got'.day = clock.day
      BY <1>1, <2>6, FetchCases DEF Date
    <3> QED
      BY <1>2, <2>1, <2>6, <3>1 DEF IInv
  <2>7. CASE k = 5
    <3>1. got'.sec = got.sec /\ got'.min = got.min /\ got'.hour = got.hour
          /\ got'.month = got.month /\ got'.day = got.day /\ got'.year = clock.year
      BY <1>1, <2>7, FetchCases DEF Date
    <3> QED
      BY <1>2, <2>1, <2>7, <3>1 DEF IInv
  <2> QED
    BY <1>1, <2>2, <2>3, <2>4, <2>5, <2>6, <2>7 DEF Fetch
<1>6. TornTimeBounded'
  BY <1>2 DEF IInv, TornTimeBounded, Seconds, days_in_month, SameMonth, SameDay
<1>7. SleepInv'
  BY <1>1, <1>2 DEF IInv, SleepInv, Seconds, days_in_month,
                    SameMonth, SameDay, SameMinute, DayNotAfter, MonthBefore
<1> QED
  BY <1>4, <1>5, <1>6, <1>7 DEF IInv

\* A finished get_time, and what sleep does with it, keep the invariant.
LEMMA ReturnStep == IInv /\ Return => IInv'
<1> SUFFICES ASSUME IInv, Return PROVE IInv'
  OBVIOUS
<1>1. /\ clock \in Date /\ from \in Date /\ got \in Date /\ k = 6 /\ pc \in {"first", "poll"}
  BY DEF IInv, TypeInv, Return
<1>2. /\ UNCHANGED <<clock, ticks, beyond, got, from, t>> /\ k' = 0
      /\ now' = Seconds(got) /\ span' = [from |-> from, to |-> clock]
  BY DEF Return
<1>3. \/ pc = "first" /\ time' = now' /\ first' = span' /\ pc' = "poll"
      \/ /\ pc = "poll" /\ pc' \in {"poll", "done"} /\ UNCHANGED <<time, first>>
         /\ pc' = "done" => Slept(now')
  BY <1>1 DEF Return
<1>4. /\ now' \in Int
      /\ SameDay(from, clock) => now' <= Seconds(clock) /\ now' > Seconds(from) - 60 * 60
      /\ SameMonth(from, clock) => /\ now' < Seconds(clock) + 24 * 60 * 60
                                   /\ now' > Seconds(from) - 24 * 60 * 60
      /\ SameMinute(from, clock) => now' >= Seconds(from)
  BY <1>1, <1>2, TornSum DEF IInv
<1>5. span'.from = from /\ span'.to = clock
  BY <1>2
<1>6. Seconds(from)' = Seconds(from) /\ Seconds(clock)' = Seconds(clock)
  BY <1>2 DEF Seconds, days_in_month
<1>7. TypeInv'
  BY <1>1, <1>2, <1>3, <1>4 DEF IInv, TypeInv
<1>8. FetchInv'
  BY <1>2 DEF FetchInv
<1>9. Seconds(span.from)' = Seconds(from) /\ Seconds(span.to)' = Seconds(clock)
  BY <1>2, <1>5 DEF Seconds, days_in_month
<1>10. TornTimeBounded'
  <2>1. SameDay(span.from, span.to)' => SameDay(from, clock)
    BY <1>5 DEF SameDay, SameMonth
  <2>2. SameMonth(span.from, span.to)' => SameMonth(from, clock)
    BY <1>5 DEF SameMonth
  <2> QED
    BY <1>4, <1>9, <2>1, <2>2 DEF TornTimeBounded
<1>11. SleepInv'
  <2>1. DayNotAfter(from, clock) /\ DayNotAfter(from, from)
    BY <1>1, DateFields DEF IInv, FetchInv, DayNotAfter, SameMonth
  <2>2. CASE pc = "first" /\ time' = now' /\ first' = span' /\ pc' = "poll"
    <3>1. first'.from = from /\ first'.to = clock
      BY <2>2, <1>5
    <3>2. SameMinute(first.from, first.to)' => SameMinute(from, clock)
      BY <3>1 DEF SameMinute, SameDay, SameMonth
    <3>3. Seconds(first.from)' = Seconds(from)
      BY <1>2, <3>1 DEF Seconds, days_in_month
    <3>4. SameMinute(first.from, first.to)' => time' >= Seconds(first.from)'
      BY <1>4, <2>2, <3>2, <3>3
    <3> QED
      BY <2>1, <2>2, <3>1, <3>4, <1>2, <1>5 DEF SleepInv, DayNotAfter, MonthBefore, SameMonth
  <2>3. CASE /\ pc = "poll" /\ pc' \in {"poll", "done"} /\ UNCHANGED <<time, first>>
             /\ pc' = "done" => Slept(now')
    <3>1. DayNotAfter(first.from, from) /\ DayNotAfter(first.from, clock)
      BY <1>1, <2>3 DEF IInv, SleepInv
    <3>2. SameMinute(first.from, first.to)' => time' >= Seconds(first.from)'
      BY <1>2, <2>3 DEF IInv, SleepInv, SameMinute, SameDay, SameMonth, Seconds, days_in_month
    <3>3. pc' = "done" => now' - time' >= t'
      BY <1>2, <2>3 DEF Slept
    <3> QED
      BY <2>1, <2>3, <3>1, <3>2, <3>3, <1>2, <1>5 DEF SleepInv, DayNotAfter, MonthBefore, SameMonth
  <2> QED
    BY <1>3, <2>2, <2>3
<1> QED
  BY <1>7, <1>8, <1>10, <1>11 DEF IInv

\* A step that changes nothing keeps the invariant.
LEMMA StutterStep == IInv /\ UNCHANGED vars => IInv'
BY DEF IInv, TypeInv, FetchInv, TornTimeBounded, SleepInv, vars, Seconds, days_in_month,
       SameMonth, SameDay, SameMinute, DayNotAfter, MonthBefore, MinNotAfter, SecNotAfter

\* The invariant holds in every state sleep reaches.
THEOREM Invariance == Spec => []IInv
<1>1. IInv /\ [Next]_vars => IInv'
  BY TickInv, FetchStep, ReturnStep, StutterStep DEF Next, get_time
<1> QED
  BY InitInv, <1>1, PTL DEF Spec

\* The getters and the clock stay in their ranges: whatever get_time fetches
\* is a date.
THEOREM TypeCorrect == Spec => []TypeOK
<1>1. IInv => TypeOK
  BY DEF IInv, TypeInv, TypeOK
<1> QED
  BY Invariance, <1>1, PTL

\* A torn time of get_time is off by less than an hour within a day and by
\* less than a day within a month, wherever the clock stands.
THEOREM TornBounded == Spec => []TornTimeBounded
<1>1. IInv => TornTimeBounded
  BY DEF IInv
<1> QED
  BY Invariance, <1>1, PTL

\* sleep is never short for a torn poll.
THEOREM NotShort == Spec => []SleepNotShort
<1>1. IInv => SleepNotShort
  <2> SUFFICES ASSUME IInv, pc = "done", SameMinute(first.from, first.to),
                      SameDay(first.from, span.to)
               PROVE  Seconds(span.to) - Seconds(first.from) >= t
    BY DEF SleepNotShort
  <2>1. /\ first.from \in Date /\ span.from \in Date /\ span.to \in Date
        /\ beyond \in Beyond /\ t \in Nat /\ now \in Int /\ time \in Int
    BY TimeAssumption DEF IInv, TypeInv
  <2>2. DayNotAfter(first.from, span.from) /\ DayNotAfter(span.from, span.to)
    BY DEF IInv, SleepInv
  <2>3. SameDay(span.from, span.to)
    BY <2>1, <2>2, DayOrder
  <2>4. now <= Seconds(span.to)
    BY <2>3 DEF IInv, TornTimeBounded
  <2>5. time >= Seconds(first.from) /\ now - time >= t
    BY DEF IInv, SleepInv
  <2>6. Seconds(first.from) \in Int /\ Seconds(span.to) \in Int
    BY <2>1, SumOrder DEF SameMonth
  <2> QED
    BY <2>1, <2>4, <2>5, <2>6
<1> QED
  BY Invariance, <1>1, PTL

=============================================================================

-------------------------------- MODULE Time --------------------------------
(***************************************************************************)
(* time.c, sleep of unistd.c and the sleep command: clocks that count      *)
(* their readings, a calendar of twelve months of 31 days, and waiting by  *)
(* counting.  The counter of delay is narrower than what it is compared    *)
(* with; sleep of unistd.c compares counters of one width.                 *)
(***************************************************************************)
EXTENDS Integers, Sequences

CONSTANTS CounterBits,  \* width of the loops' counters: 32 in the code
          LoopsPerMs, LoopsPerSecond,  \* 10000 for delay, 1000000 for sleep
          MsPerSecond,  \* 1000 in the code
          SleepTimes,   \* <<seconds, milliseconds>> asked for
          Times,        \* values of time_t that are converted
          MaxReadings   \* bound on the readings of the clocks

ASSUME TimeAssumption ==
  /\ {CounterBits, LoopsPerMs, LoopsPerSecond, MsPerSecond} \subseteq Nat \ {0}
  /\ SleepTimes \subseteq Nat \X Nat
  /\ (\A t \in Times : t \in Nat /\ t <= 2100000000) /\ MaxReadings \in Nat

VARIABLES current_time,  \* of time
          clock_counter, \* of clock_gettime
          nap,           \* the loop that is running
          time_ret       \* the last conversion or reading
time_vars == <<current_time, clock_counter, nap, time_ret>>

Largest == 2 ^ CounterBits - 1
DAY == 86400

Calendar(t, hour) ==
  [sec |-> t % 60, min |-> (t \div 60) % 60, hour |-> hour,
   mday |-> 1 + ((t \div DAY) % 31), mon |-> (t \div 2678400) % 12,
   year |-> 70 + (t \div 32140800), wday |-> (t \div DAY) % 7]
\* Mutant: a clock of twelve hours.
gmtimeHalfDay(t) == Calendar(t, (t \div 3600) % 12)

gmtime(t) == Calendar(t, (t \div 3600) % 24)
mktime(tm) == tm.sec + tm.min * 60 + tm.hour * 3600 + tm.mday * DAY
                + tm.mon * 2678400 + (tm.year - 70) * 32140800
\* The characters that asctime writes, the newline included: a number takes
\* the places its format asks for, or as many as it has.
Places(n, width) ==
  LET digits == IF n > 999 THEN 4 ELSE IF n > 99 THEN 3 ELSE IF n > 9 THEN 2 ELSE 1
  IN IF digits < width THEN width ELSE digits
AsctimeLength(tm) == 3 + 1 + 3 + Places(tm.mday, 3) + 1 + Places(tm.hour, 2) + 1
  + Places(tm.min, 2) + 1 + Places(tm.sec, 2) + 1 + Places(1900 + tm.year, 0) + 1

TimeInit ==
  /\ current_time = 0 /\ clock_counter = 0
  /\ nap = [on |-> FALSE, i |-> 0, limit |-> 0]
  /\ time_ret = [call |-> "none"]

ReadTime ==
  /\ ~nap.on /\ current_time < MaxReadings
  /\ current_time' = current_time + 1
  /\ time_ret' = [call |-> "time", ret |-> current_time']
  /\ UNCHANGED <<clock_counter, nap>>
clock_gettime ==
  /\ ~nap.on /\ clock_counter < MaxReadings
  /\ clock_counter' = clock_counter + 1
  /\ time_ret' = [call |-> "clock_gettime", sec |-> clock_counter \div 10,
                  tenths |-> clock_counter % 10]
  /\ UNCHANGED <<current_time, nap>>
clock_settime ==
  /\ ~nap.on /\ time_ret' = [call |-> "clock_settime", ret |-> -1]
  /\ UNCHANGED <<current_time, clock_counter, nap>>
\* gmtime and what mktime and asctime make of it.
Convert(t) ==
  /\ ~nap.on
  /\ time_ret' = [call |-> "gmtime", t |-> t, tm |-> gmtime(t),
                  back |-> mktime(gmtime(t)), length |-> AsctimeLength(gmtime(t))]
  /\ UNCHANGED <<current_time, clock_counter, nap>>

\* The loop is entered with a limit, which a counter may not reach.
Loops(limit) ==
  /\ ~nap.on
  /\ nap' = [on |-> TRUE, i |-> 0, limit |-> limit]
  /\ time_ret' = [call |-> "none"] /\ UNCHANGED <<current_time, clock_counter>>

sleep(seconds) == Loops((seconds * LoopsPerSecond) % 2 ^ CounterBits)
delay(ms) == Loops(ms * LoopsPerMs)
\* The milliseconds are computed in the counter's width; what is less than
\* one is lost.  It never fails, so that sleep_main calls it once.
nanosleep(sec, ms) == delay((sec * MsPerSecond + ms) % 2 ^ CounterBits)
\* The command sleeps for its argument, in seconds, unless it is negative.
sleep_main(sec, ms) == sec >= 0 /\ nanosleep(sec, ms)
LoopStep ==
  /\ nap.on
  /\ nap' = IF nap.i < nap.limit THEN [nap EXCEPT !.i = (@ + 1) % 2 ^ CounterBits]
            ELSE [nap EXCEPT !.on = FALSE]
  /\ UNCHANGED <<current_time, clock_counter, time_ret>>

TimeNext ==
  \/ ReadTime \/ clock_gettime \/ clock_settime \/ LoopStep
  \/ \E t \in Times : Convert(t)
  \/ \E d \in SleepTimes : sleep_main(d[1], d[2]) \/ sleep(d[1])
TimeSpec == TimeInit /\ [][TimeNext]_time_vars

-----------------------------------------------------------------------------
\* A time that was converted and converted back is a day late, whatever it is
\* (tm_mday counts from 1 and mktime takes it as a number of days), so that
\* times stay apart and in order; the fields are in the ranges of the names
\* that asctime looks up, and its text and the terminator fit 26 bytes.
\* (gmtime, mktime and asctime of time.c.)
TimesConvert ==
  time_ret.call = "gmtime" =>
    /\ time_ret.back = time_ret.t + DAY
    /\ time_ret.tm.mon \in 0..11 /\ time_ret.tm.wday \in 0..6
    /\ time_ret.tm.mday \in 1..31 /\ time_ret.tm.hour \in 0..23
    /\ time_ret.length + 1 <= 26

\* A wait ends when its limit is one that the counter can reach: every sleep,
\* and delay and nanosleep below 2^32 rounds.  Any other wait never ends, since the
\* counter wraps in front of its limit.  (delay of time.c; sleep of unistd.c.)
WaitsEnd ==
  /\ (nap.on /\ nap.limit <= Largest) ~> ~nap.on
  /\ [](nap.on /\ nap.limit > Largest => []nap.on)
=============================================================================

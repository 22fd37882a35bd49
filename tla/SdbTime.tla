------------------------------- MODULE SdbTime -------------------------------
(***************************************************************************)
(* Times and timed waits (Time.c, and SdbSemWait, SdbMutexLock and         *)
(* SdbCondWait of Thread.c).  A wait with a timeout is given the absolute  *)
(* time at which it ends, a time of CLOCK_REALTIME in seconds and          *)
(* nanoseconds, and SocketRecvWithTimeout gives select a struct timeval.   *)
(* Times here are small, so the arithmetic in double that the macros of    *)
(* Time.h do is exact.                                                     *)
(***************************************************************************)
EXTENDS Integers

CONSTANTS
    Instants,    \* the times the clock shows, <<seconds, nanoseconds>>
    Timeouts,    \* the timeouts of waits, in nanoseconds
    LastStart,   \* bound: the second by which calls begin
    RecvTimeout  \* the timeout of SocketRecvWithTimeout (Modbus.c)

NsPerS == 1000000000
UsPerS == 1000000
NsPerUs == 1000
Timespec == [s : Nat, ns : Nat]
Ns(t) == t.s * NsPerS + t.ns
Normal(t) == t.ns < NsPerS

ClockTime == {[s |-> i[1], ns |-> i[2]] : i \in Instants}

ASSUME TimeAssumption ==
    /\ \A i \in Instants : i[1] \in Nat /\ i[2] \in 0 .. NsPerS - 1
    /\ Timeouts \subseteq Nat /\ RecvTimeout \in Nat /\ LastStart \in Nat

TIMEOUT_NONE == 0
TIMEOUT_MAX == -1   \* UINT64_MAX

VARIABLES
    clock,    \* CLOCK_REALTIME
    timer     \* the call that waits, or its result

timeVars == <<clock, timer>>

NoTime == [s |-> 0, ns |-> 0]
Idle == [does |-> "idle", timeout |-> 0, began |-> NoTime, until |-> NoTime]
Ends == {"timed", "select", "timedout"}

TimeTypeOK ==
    /\ clock \in ClockTime
    /\ timer.does \in Ends \cup {"idle", "forever", "granted", "busy", "invalid"}
    /\ timer.timeout \in Timeouts \cup {TIMEOUT_NONE, TIMEOUT_MAX, RecvTimeout}
    /\ timer.began \in ClockTime \cup {NoTime} /\ timer.until \in Timespec

TimeInit == clock \in ClockTime /\ timer = Idle

-----------------------------------------------------------------------------
\* Faulty variant: the nanoseconds are not carried.
TimeAddUncarried(t, delta) == [s |-> t.s + (delta \div NsPerS), ns |-> t.ns + (delta % NsPerS)]

\* SdbTimeAdd
TimeAdd(t, delta) ==
    LET s == t.s + (delta \div NsPerS)
        ns == t.ns + (delta % NsPerS)
    IN IF ns >= NsPerS THEN [s |-> s + 1, ns |-> ns % NsPerS] ELSE [s |-> s, ns |-> ns]

\* The bit of value b in x, and the bits of x that 1000000 has.
Bit(x, b) == IF (x \div b) % 2 = 1 THEN b ELSE 0
Masked(x) == Bit(x, 524288) + Bit(x, 262144) + Bit(x, 131072) + Bit(x, 65536)
             + Bit(x, 16384) + Bit(x, 512) + Bit(x, 64)

\* SdbTimeval masks the microseconds where the others take a remainder.
Timeval(delta) ==
    [s |-> delta \div NsPerS, us |-> Masked(delta \div NsPerUs)]

\* SdbTimePrintSpecDiffWT
SpecDiff(start, end) ==
    IF end.ns < start.ns
    THEN [s |-> end.s - start.s - 1, ns |-> NsPerS + end.ns - start.ns]
    ELSE [s |-> end.s - start.s, ns |-> end.ns - start.ns]

\* LastStart keeps Ns within the checker's integers.
MayCall == timer = Idle /\ clock.s <= LastStart

Calling(does, timeout, until) ==
    timer' = [does |-> does, timeout |-> timeout, began |-> clock, until |-> until]

\* SdbSemWait and SdbMutexLock: try, wait for as long as it takes, or until
\* CreateTimeout's time.
WaitOrLock ==
    /\ MayCall
    /\ \E timeout \in Timeouts \cup {TIMEOUT_NONE, TIMEOUT_MAX} :
         CASE timeout = TIMEOUT_NONE ->
                \E result \in {"granted", "busy"} : Calling(result, timeout, NoTime)
           [] timeout = TIMEOUT_MAX -> Calling("forever", timeout, NoTime)
           [] OTHER -> Calling("timed", timeout, TimeAdd(clock, timeout))
    /\ UNCHANGED clock

\* SdbCondWait refuses not to wait.
CondWait ==
    /\ MayCall
    /\ \E timeout \in Timeouts \cup {TIMEOUT_NONE, TIMEOUT_MAX} :
         CASE timeout = TIMEOUT_NONE -> Calling("invalid", timeout, NoTime)
           [] timeout = TIMEOUT_MAX -> Calling("forever", timeout, NoTime)
           [] OTHER -> Calling("timed", timeout, TimeAdd(clock, timeout))
    /\ UNCHANGED clock

\* SocketRecvWithTimeout: select fails when the microseconds are a second or more.
RecvWithTimeout ==
    /\ MayCall
    /\ LET tv == Timeval(RecvTimeout) IN
       IF tv.us >= UsPerS THEN Calling("invalid", RecvTimeout, NoTime)
       ELSE Calling("select", RecvTimeout, TimeAdd(clock, tv.s * NsPerS + tv.us * NsPerUs))
    /\ UNCHANGED clock

\* What was waited for is there.
Grant ==
    /\ timer.does \in {"forever", "timed", "select"}
    /\ timer' = [timer EXCEPT !.does = "granted"]
    /\ UNCHANGED clock

\* The kernel ends the wait at the first time it sees that is not before its end.
TimeOut ==
    /\ timer.does \in {"timed", "select"}
    /\ clock.s > timer.until.s \/ (clock.s = timer.until.s /\ clock.ns >= timer.until.ns)
    /\ timer' = [timer EXCEPT !.does = "timedout"]
    /\ UNCHANGED clock

Tick ==
    /\ clock' \in {t \in ClockTime : Ns(t) > Ns(clock)}
    /\ UNCHANGED timer

TimeNext == WaitOrLock \/ CondWait \/ RecvWithTimeout \/ Grant \/ TimeOut \/ Tick

TimeSpec == TimeInit /\ [][TimeNext]_timeVars

-----------------------------------------------------------------------------
\* The end that a wait is given is a proper time (the kernel refuses others).
\* For a semaphore, a mutex and a condition variable it is exactly the timeout
\* after the beginning, and a timeout is not reported before it has passed.  And
\* the time a copy took is reported as it was, seconds and nanoseconds both
\* (Time.c:34-44, 59-81; Thread.c:68, 118, 161).  How long SocketRecvWithTimeout
\* waits is no part of this: SdbTimeval makes 458.752 ms of the 500 ms asked for
\* (Time.c:94).
TimesExact ==
    LET asked == Ns(timer.began) + timer.timeout
        took == SpecDiff(timer.began, clock)
    IN
    /\ timer.does \in Ends => Normal(timer.until)
    /\ timer.does = "timed" => Ns(timer.until) = asked
    /\ timer.does = "timedout" /\ timer.timeout # RecvTimeout => Ns(clock) >= asked
    /\ timer.does # "idle" => Normal(took) /\ Ns(took) = Ns(clock) - Ns(timer.began)
=============================================================================

------------------------------ MODULE LogSignals ------------------------------
(***************************************************************************)
(* Logging (Sdb__WriteLog__ in Sdb.h) and the signal handler that logs     *)
(* (SignalHandler in Signals.c).  A log module has one buffer and one      *)
(* mutex, which is not recursive.  A signal interrupts a thread wherever   *)
(* it is, in a log call too, and the handler logs to the module Signals;   *)
(* sa_mask is empty, so a different signal can interrupt the handler.      *)
(*                                                                         *)
(* stack[t] are the frames of thread t, the running one last: the thread   *)
(* itself, which logs to its own module App until a shutdown is requested, *)
(* and the handlers on top of it.  A termination signal is logged, sets    *)
(* the flag and is logged again.  A crash (SIGSEGV, SIGFPE) is logged,     *)
(* dumps the process and then the pipe, each with a message, and raises    *)
(* its signal again: that is blocked until the handler returns, and then   *)
(* runs the handler once more.  A failed assertion (SIGABRT) and SIGILL    *)
(* do the same without the pipe.                                           *)
(* localtime_r and localtime hold a lock of the C library (external).      *)
(***************************************************************************)
EXTENDS Integers, Sequences, SequencesExt

CONSTANTS
    ThreadCount,   \* bound: threads that log
    MaxLogs,       \* bound: messages of a thread
    MaxFrames,     \* bound: frames of a thread
    MaxFaults      \* bound: failures of a call within a log call, and crashes

ASSUME LogAssumption ==
    /\ ThreadCount \in Nat /\ MaxLogs \in Nat /\ MaxFrames \in Nat \ {0}
    /\ MaxFaults \in Nat

VARIABLES
    logBuild,    \* "debug" asserts that logging succeeds, "release" does not
    stack,       \* the frames of every thread
    holder,      \* the frame that has taken a lock, or NoFrame
    leaked,      \* log modules whose lock an error return has kept
    buffer,      \* the frame whose message a log module's buffer holds
    requested,   \* GShutdownRequested
    sent,        \* termination signals that have been sent
    logs,        \* messages every thread has still to log
    faults       \* failures and crashes that are still to come

logVars == <<logBuild, stack, holder, leaked, buffer, requested, sent, logs, faults>>

Thread == 1 .. ThreadCount
LogModule == {"App", "Signals"}
Lock == LogModule \cup {"tz"}
Termination == {"INT", "TERM"}
Crash == {"crash", "abort"}
Run == {"thread"} \cup Crash \cup Termination
LogPc == {"work", "lock", "time", "zone", "zoned", "write", "unlock", "aborted", "dump", "dumped",
          "ended"}
LogFrame == [run: Run, pc: LogPc, stage: 1 .. 3]

\* Frame d of thread t.
At(t, d) == [thread |-> t, level |-> d]
NoFrame == At(0, 0)
FrameName == {NoFrame} \cup {At(t, d) : t \in Thread, d \in 1 .. MaxFrames}

LogTypeOK ==
    /\ logBuild \in {"debug", "release"}
    /\ stack \in [Thread -> Seq(LogFrame)]
    /\ \A t \in Thread : Len(stack[t]) \in 1 .. MaxFrames
    /\ holder \in [Lock -> FrameName]
    /\ leaked \subseteq LogModule
    /\ buffer \in [LogModule -> FrameName]
    /\ requested \in BOOLEAN
    /\ sent \subseteq Termination
    /\ logs \in [Thread -> 0 .. MaxLogs]
    /\ faults \in 0 .. MaxFaults

LogInit ==
    /\ logBuild \in {"debug", "release"}
    /\ stack = [t \in Thread |-> <<[run |-> "thread", pc |-> "work", stage |-> 1]>>]
    /\ holder = [l \in Lock |-> NoFrame]
    /\ leaked = {}
    /\ buffer = [m \in LogModule |-> NoFrame]
    /\ requested = FALSE
    /\ sent = {}
    /\ logs = [t \in Thread |-> MaxLogs]
    /\ faults = MaxFaults

-----------------------------------------------------------------------------
level(t) == Len(stack[t])
running(t) == Last(stack[t])
me(t) == At(t, level(t))
ModuleOf(run) == IF run = "thread" THEN "App" ELSE "Signals"
module(t) == ModuleOf(running(t).run)
AtPc(t, pc) == running(t).pc = pc

\* The stack of t when its running frame goes on at pc.
Going(t, pc) == [stack[t] EXCEPT ![level(t)].pc = pc]
LogGoto(t, pc) == stack' = [stack EXCEPT ![t] = Going(t, pc)]

HandlerFrame(run) == [run |-> run, pc |-> "lock", stage |-> 1]

\* Faulty variant: a lock its own thread holds is taken again.
LockFreeRecursive(l, t) == holder[l].thread \in {0, t}

LockFree(l, t) == holder[l] = NoFrame

Take(l, t) == LockFree(l, t) /\ holder' = [holder EXCEPT ![l] = me(t)]
Release(l) == holder' = [holder EXCEPT ![l] = NoFrame]

\* A thread logs while no shutdown is requested, and ends.
Work(t) ==
    /\ AtPc(t, "work")
    /\ IF requested \/ logs[t] = 0
       THEN LogGoto(t, "ended") /\ UNCHANGED logs
       ELSE LogGoto(t, "lock") /\ logs' = [logs EXCEPT ![t] = @ - 1]
    /\ UNCHANGED <<logBuild, holder, leaked, buffer, requested, sent, faults>>

\* Sdb__WriteLog__: the module's lock, the time, the local time, the message
\* in the module's buffer, the write, the unlock.
TakeLogLock(t) ==
    /\ AtPc(t, "lock")
    /\ Take(module(t), t)
    /\ LogGoto(t, "time")
    /\ UNCHANGED <<logBuild, leaked, buffer, requested, sent, logs, faults>>

GetTime(t) ==
    /\ AtPc(t, "time")
    /\ LogGoto(t, "zone")
    /\ UNCHANGED <<logBuild, holder, leaked, buffer, requested, sent, logs, faults>>

TakeZoneLock(t) ==
    /\ AtPc(t, "zone")
    /\ Take("tz", t)
    /\ LogGoto(t, "zoned")
    /\ UNCHANGED <<logBuild, leaked, buffer, requested, sent, logs, faults>>

FormatMessage(t) ==
    /\ AtPc(t, "zoned")
    /\ Release("tz")
    /\ buffer' = [buffer EXCEPT ![module(t)] = me(t)]
    /\ LogGoto(t, "write")
    /\ UNCHANGED <<logBuild, leaked, requested, sent, logs, faults>>

WriteMessage(t) ==
    /\ AtPc(t, "write")
    /\ LogGoto(t, "unlock")
    /\ UNCHANGED <<logBuild, holder, leaked, buffer, requested, sent, logs, faults>>

\* Faulty variant: only an interrupt from the keyboard is a request.
RequestsByKeyboard(signal) == signal = "INT"

\* The cases of the handler's switch that set the flag.
Requests(signal) == signal \in Termination

\* The messages of a crash handler: its first, and one after each dump.
LastStage(run) == IF run = "abort" THEN 2 ELSE 3

\* What follows a log call: a thread works on; a termination handler sets the
\* flag, logs again and returns; a crash handler dumps, logs, and after its
\* last message raises the signal and starts over.
AfterLog(t) ==
    LET f == running(t)
        Top(g) == stack' = [stack EXCEPT ![t] = [@ EXCEPT ![level(t)] = g]]
    IN  \/ f.run = "thread" /\ LogGoto(t, "work") /\ UNCHANGED requested
        \/ /\ f.run \in Termination /\ f.stage = 1
           /\ requested' = (requested \/ Requests(f.run))
           /\ Top([run |-> f.run, pc |-> "lock", stage |-> 2])
        \/ /\ f.run \in Termination /\ f.stage = 2
           /\ stack' = [stack EXCEPT ![t] = Front(@)]
           /\ UNCHANGED requested
        \/ /\ f.run \in Crash /\ f.stage = LastStage(f.run)
           /\ Top(HandlerFrame(f.run))
           /\ UNCHANGED requested
        \/ /\ f.run \in Crash /\ f.stage # LastStage(f.run)
           /\ Top([run |-> f.run, pc |-> "dump", stage |-> f.stage + 1])
           /\ UNCHANGED requested

Unlock(t) ==
    /\ AtPc(t, "unlock")
    /\ Release(module(t))
    /\ AfterLog(t)
    /\ UNCHANGED <<logBuild, leaked, buffer, sent, logs, faults>>

\* The error returns, of time or localtime_r before there is a message and of
\* write: the lock stays taken.  SDB__LOG__ asserts that there was no error,
\* which aborts a debug build; a release build goes on.  (That a debug build
\* does not fail in a crash handler, or with MaxFrames frames, is a bound.)
LogFails(t) ==
    /\ faults > 0 /\ faults' = faults - 1
    /\ AtPc(t, "time") \/ AtPc(t, "write")
    /\ IF logBuild = "debug"
       THEN /\ level(t) < MaxFrames /\ running(t).run \notin Crash
            /\ stack' = [stack EXCEPT ![t] = Append(Going(t, "aborted"), HandlerFrame("abort"))]
            /\ UNCHANGED <<leaked, requested>>
       ELSE /\ leaked' = leaked \cup {module(t)}
            /\ AfterLog(t)
    /\ UNCHANGED <<logBuild, holder, buffer, sent, logs>>

\* DumpProcessMemory and HandlePipeDump name their files by localtime, unless
\* there is no directory for them, or no pipe.
StartDump(t) ==
    /\ AtPc(t, "dump")
    /\ \/ Take("tz", t) /\ LogGoto(t, "dumped")
       \/ UNCHANGED holder /\ LogGoto(t, "lock")
    /\ UNCHANGED <<logBuild, leaked, buffer, requested, sent, logs, faults>>

EndDump(t) ==
    /\ AtPc(t, "dumped")
    /\ Release("tz")
    /\ LogGoto(t, "lock")
    /\ UNCHANGED <<logBuild, leaked, buffer, requested, sent, logs, faults>>

LogStep(t) ==
    \/ Work(t) \/ TakeLogLock(t) \/ GetTime(t) \/ TakeZoneLock(t) \/ FormatMessage(t)
    \/ WriteMessage(t) \/ Unlock(t) \/ StartDump(t) \/ EndDump(t)

-----------------------------------------------------------------------------
\* The process is sent SIGINT or SIGTERM, and any thread may be the one that
\* it interrupts.
Deliver(t, s) ==
    /\ s \notin sent /\ sent' = sent \cup {s}
    /\ level(t) < MaxFrames
    /\ stack' = [stack EXCEPT ![t] = Append(@, HandlerFrame(s))]
    /\ UNCHANGED <<logBuild, holder, leaked, buffer, requested, logs, faults>>

\* A thread faults outside a log call.
Fault(t) ==
    /\ faults > 0 /\ faults' = faults - 1
    /\ AtPc(t, "work") /\ level(t) < MaxFrames
    /\ \E run \in Crash : stack' = [stack EXCEPT ![t] = Append(@, HandlerFrame(run))]
    /\ UNCHANGED <<logBuild, holder, leaked, buffer, requested, sent, logs>>

LogNext ==
    \E t \in Thread :
        \/ LogStep(t) \/ LogFails(t) \/ Fault(t)
        \/ \E s \in Termination : Deliver(t, s)

\* A thread that can go on does.
LogFairness == \A t \in Thread : SF_logVars(LogStep(t))
LogSpec == LogInit /\ [][LogNext]_logVars /\ LogFairness

-----------------------------------------------------------------------------
\* A message is written as it was formatted: between the two no other call
\* gets at the module's buffer, not a handler that interrupts the thread
\* either (Sdb.h:746-819).
WholeMessages ==
    \A t \in Thread : \A d \in 1 .. level(t) :
        stack[t][d].pc = "write" => buffer[ModuleOf(stack[t][d].run)] = At(t, d)

\* A lock that will not be given back by its holder going on: an error return
\* has kept it, or the call that holds it is interrupted.
HeldUp(l) ==
    \/ l \in leaked
    \/ holder[l] # NoFrame /\ holder[l].level < level(holder[l].thread)

\* A termination signal makes the process shut down, on whichever thread and
\* in whatever it is taken, unless one of the locks that a message needs has
\* been kept by an error return or is held by a call that was interrupted
\* (Signals.c:215-220).
SignalRequestsShutdown ==
    sent # {} ~> requested \/ \E l \in {"Signals", "tz"} : HeldUp(l)
=============================================================================

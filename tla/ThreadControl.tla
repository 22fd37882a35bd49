----------------------------- MODULE ThreadControl -----------------------------
(***************************************************************************)
(* sdb_thread_control (Thread.c): an owner asks its workers to stop, one   *)
(* after the other, and then waits for each to have stopped, as            *)
(* tests/Tests.c:131-135 does.  A worker polls, or sleeps until it is      *)
(* asked, or stops of its own accord; then it marks itself stopped.        *)
(*                                                                         *)
(* Each function is one or two critical sections of Control->Mutex: up to  *)
(* SdbCondWait, which gives the mutex back, or to the unlock.  A section   *)
(* is one action.  SdbCondWait may also return without a broadcast.        *)
(***************************************************************************)
EXTENDS Integers

CONSTANT WorkerCount

ASSUME ControlAssumption == WorkerCount \in Nat \ {0}

VARIABLES
    shouldStop, hasStopped,               \* the four flags of every control
    waitingForSignal, waitingForMark,
    asleep,     \* who sleeps on the Cond of every control
    worker,     \* where every worker is
    owner       \* the worker the owner is at, and what it asks of it

flagVars == <<shouldStop, hasStopped, waitingForSignal, waitingForMark>>
controlVars == <<flagVars, asleep, worker, owner>>

Worker == 1 .. WorkerCount

ControlTypeOK ==
    /\ shouldStop \in [Worker -> BOOLEAN] /\ hasStopped \in [Worker -> BOOLEAN]
    /\ waitingForSignal \in [Worker -> BOOLEAN] /\ waitingForMark \in [Worker -> BOOLEAN]
    /\ asleep \in [Worker -> SUBSET {"owner", "worker"}]
    /\ worker \in [Worker -> {"running", "wait", "mark", "done"}]
    /\ owner \in [at : 1 .. WorkerCount + 1, does : {"signal", "wait"}]

\* SdbTCtlInit leaves WaitingForMarkStopped as the memory was.
ControlInit ==
    /\ shouldStop = [w \in Worker |-> FALSE]
    /\ hasStopped = [w \in Worker |-> FALSE]
    /\ waitingForSignal = [w \in Worker |-> FALSE]
    /\ waitingForMark \in [Worker -> BOOLEAN]
    /\ asleep = [w \in Worker |-> {}]
    /\ worker = [w \in Worker |-> "running"]
    /\ owner = [at |-> 1, does |-> "signal"]

-----------------------------------------------------------------------------
\* SdbCondBroadcast, when somebody has said that it waits.
BroadcastIf(w, waiting) == asleep' = [asleep EXCEPT ![w] = IF waiting THEN {} ELSE @]

SignalStop ==
    /\ owner.at <= WorkerCount /\ owner.does = "signal"
    /\ shouldStop' = [shouldStop EXCEPT ![owner.at] = TRUE]
    /\ BroadcastIf(owner.at, waitingForSignal[owner.at])
    /\ owner' = IF owner.at < WorkerCount THEN [owner EXCEPT !.at = @ + 1]
                ELSE [at |-> 1, does |-> "wait"]
    /\ UNCHANGED <<hasStopped, waitingForSignal, waitingForMark, worker>>

\* Faulty variant: the waiter leaves no note of itself.
NoteOwnerUnnoted(w) == UNCHANGED waitingForMark

NoteOwner(w) == waitingForMark' = [waitingForMark EXCEPT ![w] = TRUE]

\* One turn of the loop of SdbTCtlWaitForStop.
WaitForStop ==
    LET w == owner.at IN
    /\ w <= WorkerCount /\ owner.does = "wait" /\ "owner" \notin asleep[w]
    /\ IF hasStopped[w]
       THEN owner' = [owner EXCEPT !.at = @ + 1] /\ UNCHANGED <<waitingForMark, asleep>>
       ELSE /\ NoteOwner(w)
            /\ asleep' = [asleep EXCEPT ![w] = @ \cup {"owner"}]
            /\ UNCHANGED owner
    /\ UNCHANGED <<shouldStop, hasStopped, waitingForSignal, worker>>

\* SdbTCtlShouldStop
Poll(w) ==
    /\ worker[w] = "running"
    /\ worker' = [worker EXCEPT ![w] = IF shouldStop[w] THEN "mark" ELSE "running"]
    /\ UNCHANGED <<flagVars, asleep, owner>>

\* A worker calls SdbTCtlWaitForSignal, or fails and stops.
StopsPolling(w) ==
    /\ worker[w] = "running"
    /\ worker' \in {[worker EXCEPT ![w] = "wait"], [worker EXCEPT ![w] = "mark"]}
    /\ UNCHANGED <<flagVars, asleep, owner>>

\* One turn of the loop of SdbTCtlWaitForSignal.
WaitForSignal(w) ==
    /\ worker[w] = "wait" /\ "worker" \notin asleep[w]
    /\ IF shouldStop[w]
       THEN worker' = [worker EXCEPT ![w] = "mark"] /\ UNCHANGED <<waitingForSignal, asleep>>
       ELSE /\ waitingForSignal' = [waitingForSignal EXCEPT ![w] = TRUE]
            /\ asleep' = [asleep EXCEPT ![w] = @ \cup {"worker"}]
            /\ UNCHANGED worker
    /\ UNCHANGED <<shouldStop, hasStopped, waitingForMark, owner>>

MarkStopped(w) ==
    /\ worker[w] = "mark"
    /\ hasStopped' = [hasStopped EXCEPT ![w] = TRUE]
    /\ BroadcastIf(w, waitingForMark[w])
    /\ worker' = [worker EXCEPT ![w] = "done"]
    /\ UNCHANGED <<shouldStop, waitingForSignal, waitingForMark, owner>>

\* A wake-up that nobody has caused.
WakeUp(w) ==
    /\ \E who \in asleep[w] : asleep' = [asleep EXCEPT ![w] = @ \ {who}]
    /\ UNCHANGED <<flagVars, worker, owner>>

WorkerStep(w) == Poll(w) \/ WaitForSignal(w) \/ MarkStopped(w)

ControlNext ==
    \/ SignalStop \/ WaitForStop
    \/ \E w \in Worker : WorkerStep(w) \/ StopsPolling(w) \/ WakeUp(w)

\* Every thread that can run does; nobody needs a wake-up that is not caused.
ControlFairness ==
    /\ WF_controlVars(SignalStop \/ WaitForStop)
    /\ \A w \in Worker : WF_controlVars(WorkerStep(w))

ControlSpec == ControlInit /\ [][ControlNext]_controlVars /\ ControlFairness

-----------------------------------------------------------------------------
OwnerDone == owner.does = "wait" /\ owner.at > WorkerCount

\* The owner gets past its wait for a worker only when the worker has stopped.
StopSeen == \A w \in Worker : owner.does = "wait" /\ owner.at > w => worker[w] = "done"
=============================================================================

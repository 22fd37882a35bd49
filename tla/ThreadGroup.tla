---------------------------- MODULE ThreadGroup -----------------------------
(***************************************************************************)
(* Start, supervision and end of the thread groups: Common/ThreadGroup.c   *)
(* together with main (Main.c) and the start barrier of the Modbus-with-   *)
(* Postgres group.                                                         *)
(*                                                                         *)
(* main starts the threads of every group and one monitor per group while  *)
(* it holds the manager's mutex, then waits on the manager's condition     *)
(* variable, then frees the manager and returns, which ends the process.   *)
(* A monitor joins the threads of its group, runs the group's cleanup      *)
(* (which frees the context and the pipe its threads share) and reports to *)
(* the manager.                                                            *)
(*                                                                         *)
(* What a thread does between the barrier and its return is the subject of *)
(* module ModbusWithPostgres.                                              *)
(***************************************************************************)
EXTENDS Integers, FiniteSets

CONSTANTS
    GroupCount,    \* thread groups in the configuration
    ThreadCount,   \* threads of a group, and the count of its barrier
    SetupFails,    \* threads of a group that return before the barrier when their setup fails
    MayReturn,     \* threads of a group that may return without a shutdown
    MaxSetupFaults,  \* bound: setups that fail
    MaxCreateFaults  \* bound: pthread_create calls that fail

ASSUME GroupAssumption ==
    /\ GroupCount \in Nat \ {0}
    /\ ThreadCount \in Nat \ {0}
    /\ SetupFails \subseteq 1 .. ThreadCount
    /\ MayReturn \subseteq 1 .. ThreadCount
    /\ MaxSetupFaults \in Nat
    /\ MaxCreateFaults \in Nat

VARIABLES
    main,            \* where main is
    group, thread,   \* the group and the thread TgManagerStartAll is at
    mutex,           \* holder of Manager->Mutex: "free", "main", "monitor"
    state,           \* state[g][t] of thread t of group g
    monitor,         \* monitor[g]: where the monitor of group g is
    contextFreed,    \* groups whose Cleanup has run
    completed,       \* groups with Group->Completed set
    completedCount,  \* Manager->CompletedCount
    managerFreed,    \* TgDestroyManager has run
    shutdown,        \* the flag SdbShouldShutdown reads
    setupFaults,     \* setups that failed so far
    createFaults     \* pthread_create calls that failed so far

faults == <<setupFaults, createFaults>>
vars == <<main, group, thread, mutex, state, monitor, contextFreed, completed,
          completedCount, managerFreed, shutdown, faults>>

Group == 1 .. GroupCount
Thread == 1 .. ThreadCount

MainPc == {"start", "abandon", "lock", "check", "wait", "destroy", "exit", "exited", "failed"}
ThreadState == {"none", "setup", "barrier", "running", "returned"}
MonitorPc == {"none", "join", "cleanup", "lock", "report", "unlock", "done"}

TypeOK ==
    /\ main \in MainPc
    /\ group \in Group
    /\ thread \in 1 .. ThreadCount + 1
    /\ mutex \in {"free", "main", "monitor"}
    /\ state \in [Group -> [Thread -> ThreadState]]
    /\ monitor \in [Group -> MonitorPc]
    /\ contextFreed \subseteq Group
    /\ completed \subseteq Group
    /\ completedCount \in Nat
    /\ managerFreed \in BOOLEAN
    /\ shutdown \in BOOLEAN
    /\ setupFaults \in 0 .. MaxSetupFaults
    /\ createFaults \in 0 .. MaxCreateFaults

Init ==
    /\ main = "start"        \* TgManagerStartAll, mutex held
    /\ group = 1 /\ thread = 1
    /\ mutex = "main"
    /\ state = [g \in Group |-> [t \in Thread |-> "none"]]
    /\ monitor = [g \in Group |-> "none"]
    /\ contextFreed = {}
    /\ completed = {}
    /\ completedCount = 0
    /\ managerFreed = FALSE
    /\ shutdown = FALSE
    /\ setupFaults = 0 /\ createFaults = 0

\* The process is there until main returns or calls exit.
Alive == main \notin {"exited", "failed"}

AllReturned(g) == \A t \in Thread : state[g][t] = "returned"

-----------------------------------------------------------------------------
(* main: TgManagerStartAll and TgStartGroup.                               *)

CreateThread ==
    /\ main = "start" /\ thread <= ThreadCount
    /\ state' = [state EXCEPT ![group][thread] = "setup"]
    /\ thread' = thread + 1
    /\ UNCHANGED <<main, group, mutex, monitor, contextFreed, completed,
                   completedCount, managerFreed, shutdown, faults>>

\* pthread_create fails: join the threads of the group that already run.
CreateThreadFails ==
    /\ main = "start" /\ thread <= ThreadCount
    /\ createFaults < MaxCreateFaults
    /\ createFaults' = createFaults + 1
    /\ main' = "abandon"
    /\ UNCHANGED <<group, thread, mutex, state, monitor, contextFreed, completed,
                   completedCount, managerFreed, shutdown, setupFaults>>

\* Then the cleanup, the unlock, and exit(EXIT_FAILURE) in main.
AbandonGroup ==
    /\ main = "abandon"
    /\ \A t \in 1 .. thread - 1 : state[group][t] = "returned"
    /\ contextFreed' = contextFreed \cup {group}
    /\ mutex' = "free"
    /\ main' = "failed"
    /\ UNCHANGED <<group, thread, state, monitor, completed, completedCount,
                   managerFreed, shutdown, faults>>

\* Faulty variant: the loop over the groups runs once too often.
StartMonitorTwice ==
    /\ main = "start" /\ thread = ThreadCount + 1
    /\ monitor' = [monitor EXCEPT ![group] = "join"]
    /\ group' = group + 1
    /\ thread' = 1
    /\ UNCHANGED <<main, mutex, state, contextFreed, completed, completedCount,
                   managerFreed, shutdown, faults>>

StartMonitor ==
    /\ main = "start" /\ thread = ThreadCount + 1
    /\ monitor' = [monitor EXCEPT ![group] = "join"]
    /\ IF group < GroupCount
         THEN /\ group' = group + 1
              /\ thread' = 1
              /\ UNCHANGED <<main, mutex>>
         ELSE /\ main' = "lock"
              /\ mutex' = "free"
              /\ UNCHANGED <<group, thread>>
    /\ UNCHANGED <<state, contextFreed, completed, completedCount,
                   managerFreed, shutdown, faults>>

StartMonitorFails ==
    /\ main = "start" /\ thread = ThreadCount + 1
    /\ createFaults < MaxCreateFaults
    /\ createFaults' = createFaults + 1
    /\ mutex' = "free"
    /\ main' = "failed"
    /\ UNCHANGED <<group, thread, state, monitor, contextFreed, completed,
                   completedCount, managerFreed, shutdown, setupFaults>>

-----------------------------------------------------------------------------
(* main: TgManagerWaitForAll, TgDestroyManager, return.                    *)

\* Faulty variant: main looks at the manager without its mutex.
LookWithoutLock ==
    /\ main \in {"lock", "wait"}
    /\ main' = "check"
    /\ UNCHANGED <<group, thread, mutex, state, monitor, contextFreed, completed,
                   completedCount, managerFreed, shutdown, faults>>

\* The first lock, and the lock a wait on the condition takes back when it is
\* signalled, times out or wakes for no reason.
LockManager ==
    /\ main \in {"lock", "wait"}
    /\ mutex = "free"
    /\ mutex' = "main"
    /\ main' = "check"
    /\ UNCHANGED <<group, thread, state, monitor, contextFreed, completed,
                   completedCount, managerFreed, shutdown, faults>>

\* Faulty variant: the loop of the wait does not look at the flag.
WaitThroughShutdown ==
    /\ main = "check"
    /\ completedCount < GroupCount
    /\ mutex' = "free"
    /\ main' = "wait"
    /\ UNCHANGED <<group, thread, state, monitor, contextFreed, completed,
                   completedCount, managerFreed, shutdown, faults>>

\* SdbCondWait gives the mutex away.
WaitForGroups ==
    /\ main = "check"
    /\ completedCount < GroupCount /\ ~shutdown
    /\ mutex' = "free"
    /\ main' = "wait"
    /\ UNCHANGED <<group, thread, state, monitor, contextFreed, completed,
                   completedCount, managerFreed, shutdown, faults>>

\* Faulty variant: the wait ends one group early.
LeaveWaitEarly ==
    /\ main = "check"
    /\ completedCount + 1 >= GroupCount \/ shutdown
    /\ completedCount' = IF shutdown THEN GroupCount ELSE completedCount
    /\ mutex' = "free"
    /\ main' = "destroy"
    /\ UNCHANGED <<group, thread, state, monitor, contextFreed, completed,
                   managerFreed, shutdown, faults>>

LeaveWait ==
    /\ main = "check"
    /\ completedCount >= GroupCount \/ shutdown
    /\ completedCount' = IF shutdown THEN GroupCount ELSE completedCount
    /\ mutex' = "free"
    /\ main' = "destroy"
    /\ UNCHANGED <<group, thread, state, monitor, contextFreed, completed,
                   managerFreed, shutdown, faults>>

DestroyManager ==
    /\ main = "destroy"
    /\ managerFreed' = TRUE
    /\ main' = "exit"
    /\ UNCHANGED <<group, thread, mutex, state, monitor, contextFreed, completed,
                   completedCount, shutdown, faults>>

ReturnFromMain ==
    /\ main = "exit"
    /\ main' = "exited"
    /\ UNCHANGED <<group, thread, mutex, state, monitor, contextFreed, completed,
                   completedCount, managerFreed, shutdown, faults>>

MainStep ==
    \/ CreateThread \/ AbandonGroup \/ StartMonitor \/ LockManager \/ WaitForGroups
    \/ LeaveWait \/ DestroyManager \/ ReturnFromMain

-----------------------------------------------------------------------------
(* The threads of a group.                                                 *)

ThreadMoves(g, t, from, to) ==
    /\ Alive
    /\ state[g][t] = from
    /\ state' = [state EXCEPT ![g][t] = to]
    /\ UNCHANGED <<main, group, thread, mutex, monitor, contextFreed, completed,
                   completedCount, managerFreed, shutdown>>

ReachBarrier(g, t) == ThreadMoves(g, t, "setup", "barrier") /\ UNCHANGED faults

\* PgRun without a database, the test server without its port: the thread
\* returns and the barrier is never told.
SetupFailure(g, t) ==
    /\ t \in SetupFails
    /\ setupFaults < MaxSetupFaults
    /\ setupFaults' = setupFaults + 1
    /\ ThreadMoves(g, t, "setup", "returned")
    /\ UNCHANGED createFaults

\* pthread_barrier_wait lets the threads of the group go together.
ReleaseBarrier(g) ==
    /\ Alive
    /\ \A t \in Thread : state[g][t] = "barrier"
    /\ state' = [state EXCEPT ![g] = [t \in Thread |-> "running"]]
    /\ UNCHANGED <<main, group, thread, mutex, monitor, contextFreed, completed,
                   completedCount, managerFreed, shutdown, faults>>

ThreadReturns(g, t) ==
    /\ shutdown \/ t \in MayReturn
    /\ ThreadMoves(g, t, "running", "returned")
    /\ UNCHANGED faults

-----------------------------------------------------------------------------
(* TgMonitor of group g.                                                   *)

MonitorMoves(g, from, to) ==
    /\ Alive
    /\ monitor[g] = from
    /\ monitor' = [monitor EXCEPT ![g] = to]
    /\ UNCHANGED <<main, group, thread, state, managerFreed, shutdown, faults>>

\* Faulty variant: the last thread is not joined.
JoinAllButLast(g) ==
    /\ \A t \in Thread \ {ThreadCount} : state[g][t] = "returned"
    /\ MonitorMoves(g, "join", "cleanup")
    /\ UNCHANGED <<mutex, contextFreed, completed, completedCount>>

JoinThreads(g) ==
    /\ AllReturned(g)
    /\ MonitorMoves(g, "join", "cleanup")
    /\ UNCHANGED <<mutex, contextFreed, completed, completedCount>>

CleanUp(g) ==
    /\ MonitorMoves(g, "cleanup", "lock")
    /\ contextFreed' = contextFreed \cup {g}
    /\ UNCHANGED <<mutex, completed, completedCount>>

LockForReport(g) ==
    /\ mutex = "free"
    /\ MonitorMoves(g, "lock", "report")
    /\ mutex' = "monitor"
    /\ UNCHANGED <<contextFreed, completed, completedCount>>

\* Faulty variant: the group is marked and the manager's count is forgotten.
ReportUncounted(g) ==
    /\ MonitorMoves(g, "report", "unlock")
    /\ completed' = completed \cup {g}
    /\ UNCHANGED <<mutex, contextFreed, completedCount>>

\* The signal may wake main; main does not need it, its wait times out.
Report(g) ==
    /\ MonitorMoves(g, "report", "unlock")
    /\ completed' = completed \cup {g}
    /\ completedCount' = completedCount + 1
    /\ UNCHANGED <<mutex, contextFreed>>

UnlockAfterReport(g) ==
    /\ MonitorMoves(g, "unlock", "done")
    /\ mutex' = "free"
    /\ UNCHANGED <<contextFreed, completed, completedCount>>

MonitorStep(g) ==
    JoinThreads(g) \/ CleanUp(g) \/ LockForReport(g) \/ Report(g) \/ UnlockAfterReport(g)

-----------------------------------------------------------------------------
\* SIGINT or SIGTERM.
RequestShutdown ==
    /\ Alive /\ ~shutdown
    /\ shutdown' = TRUE
    /\ UNCHANGED <<main, group, thread, mutex, state, monitor, contextFreed, completed,
                   completedCount, managerFreed, faults>>

\* The process has ended, or it never will: main joins a thread that stands at
\* a barrier whose other threads are not going to be created.
Ended ==
    /\ \/ ~Alive
       \/ /\ main = "abandon" /\ shutdown
          /\ \E t \in 1 .. thread - 1 : state[group][t] = "barrier"
    /\ UNCHANGED vars

Next ==
    \/ MainStep \/ CreateThreadFails \/ StartMonitorFails
    \/ RequestShutdown \/ Ended
    \/ \E g \in Group :
          \/ MonitorStep(g) \/ ReleaseBarrier(g)
          \/ \E t \in Thread : ReachBarrier(g, t) \/ SetupFailure(g, t) \/ ThreadReturns(g, t)

Spec == Init /\ [][Next]_vars

\* Every thread is scheduled.  A thread whose setup works reaches the barrier;
\* that it ever returns, even after a shutdown request, is not assumed.  The
\* mutex is fair to a monitor: main sleeps in its wait between two looks at
\* the count, with the mutex free.
FairSpec ==
    /\ Spec
    /\ WF_vars(MainStep)
    /\ \A g \in Group :
          /\ SF_vars(LockForReport(g))
          /\ WF_vars(MonitorStep(g))
          /\ WF_vars(ReleaseBarrier(g))
          /\ \A t \in Thread : WF_vars(ReachBarrier(g, t))

-----------------------------------------------------------------------------
(* Properties.                                                             *)

\* The cleanup of a group frees the pipe and the context only when none of its
\* threads can touch them any more.
NoContextInUseFreed ==
    \A g \in contextFreed : \A t \in Thread : state[g][t] \in {"none", "returned"}

\* main gives up waiting without a shutdown only when every group has been
\* cleaned up and has reported.
WaitIsComplete ==
    (main \in {"destroy", "exit", "exited"} /\ ~shutdown) =>
        completed = Group /\ contextFreed = Group

\* A monitor uses the manager (its mutex, counter and condition) only before
\* main frees it: here when no shutdown is involved.
ManagerOutlivesMonitors ==
    (managerFreed /\ ~shutdown) => \A g \in Group : monitor[g] = "done"

\* A shutdown ends the process, whatever the threads are doing: main looks at
\* the flag at least once a second, unless it joins the threads of a group it
\* could not start.
ShutdownEndsProcess == shutdown ~> (~Alive \/ main = "abandon")

\* When every thread has returned, the process ends by itself.
CompletionEndsProcess == (\A g \in Group : AllReturned(g)) ~> ~Alive

\* No monitor touches a manager that has been freed.
MonitorUses(g) == monitor[g] \in {"lock", "report", "unlock"} /\ monitor'[g] # monitor[g]
NoUseAfterFree == [][\A g \in Group : MonitorUses(g) => ~managerFreed]_vars

\* "Handles errors and performs graceful shutdown": when a thread has returned
\* because its setup failed, the threads of its group that wait for it at the
\* barrier return as well, or the process ends.
FailedGroupEnds ==
    \A g \in Group : \A t, u \in Thread :
        (state[g][t] = "returned" /\ state[g][u] = "barrier")
            ~> (state[g][u] = "returned" \/ ~Alive)
=============================================================================

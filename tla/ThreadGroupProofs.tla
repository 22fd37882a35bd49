-------------------------- MODULE ThreadGroupProofs --------------------------
(***************************************************************************)
(* Proofs about module ThreadGroup, for every number of groups and threads *)
(* and every number of faults:                                             *)
(*                                                                         *)
(*   - TypeCorrect: the type invariant;                                    *)
(*   - CleanupIsSafe: no context is freed under a running thread;          *)
(*   - WaitForAllWaits: without a shutdown, main goes on only when every   *)
(*     group has been cleaned up and has reported;                         *)
(*   - ManagerFreedLast: and the manager is freed when every monitor is    *)
(*     done with it.                                                       *)
(*                                                                         *)
(* The inductive invariant adds to the type invariant where the monitors   *)
(* can be (Started, Joined, Freed) and what the mutex protects (Locked,    *)
(* Counted, Left).                                                         *)
(***************************************************************************)
EXTENDS ThreadGroup, FiniteSetTheorems, TLAPS

\* While main is starting groups, the threads and groups it has not come to
\* do not exist.
Started ==
    main \in {"start", "abandon"} =>
        /\ monitor[group] = "none"
        /\ \A t \in Thread : t >= thread => state[group][t] = "none"
        /\ \A g \in Group : g > group =>
              monitor[g] = "none" /\ \A t \in Thread : state[g][t] = "none"

\* A monitor past its joins belongs to a group whose threads have returned.
Joined ==
    \A g \in Group : monitor[g] \notin {"none", "join"} => AllReturned(g)

\* A freed context was freed by such a monitor, or by the failing main.
Freed ==
    \A g \in Group :
        /\ monitor[g] \in {"lock", "report", "unlock", "done"} => g \in contextFreed
        /\ g \in contextFreed =>
              \/ monitor[g] \in {"lock", "report", "unlock", "done"}
              \/ /\ main = "failed" /\ g = group
                 /\ \A t \in Thread : state[g][t] \in {"none", "returned"}

\* The mutex is held by whoever is between its lock and its unlock.
Locked ==
    /\ main \in {"start", "abandon", "check"} => mutex = "main"
    /\ \A g \in Group : monitor[g] \in {"report", "unlock"} =>
          /\ mutex = "monitor"
          /\ \A h \in Group : monitor[h] \in {"report", "unlock"} => h = g

\* The manager's count is the number of completed groups.
Counted ==
    /\ \A g \in Group : g \in completed <=> monitor[g] \in {"unlock", "done"}
    /\ ~shutdown => completedCount = Cardinality(completed)

\* main has left its wait.
Left ==
    /\ managerFreed => main \in {"exit", "exited"}
    /\ (main \in {"destroy", "exit", "exited"} /\ ~shutdown) =>
          \A g \in Group : monitor[g] = "done"

IInv == TypeOK /\ Started /\ Joined /\ Freed /\ Locked /\ Counted /\ Left

-----------------------------------------------------------------------------
\* The constants' ranges, in the form the steps below use.
LEMMA Ranges ==
    /\ GroupCount \in Nat /\ GroupCount >= 1 /\ ThreadCount \in Nat /\ ThreadCount >= 1
    /\ 1 \in Group
    /\ MaxSetupFaults \in Nat /\ MaxCreateFaults \in Nat
    /\ SetupFails \subseteq Thread
  BY GroupAssumption DEF Group, Thread

\* A set of groups as large as the number of groups is all of them.
LEMMA AllGroups ==
    ASSUME NEW S \in SUBSET Group, Cardinality(S) >= GroupCount
    PROVE  S = Group
<1>1. IsFiniteSet(Group) /\ Cardinality(Group) = GroupCount
  BY FS_Interval, Ranges DEF Group
<1>2. IsFiniteSet(S) /\ Cardinality(S) <= Cardinality(Group)
      /\ (Cardinality(S) = Cardinality(Group) => S = Group)
  BY <1>1, FS_Subset
<1>3. Cardinality(S) \in Nat /\ Cardinality(Group) \in Nat
  BY <1>1, <1>2, FS_CardinalityType
<1> QED
  BY <1>1, <1>2, <1>3, Ranges

\* Every initial state satisfies the invariant.
LEMMA InitIInv == Init => IInv
<1> SUFFICES ASSUME Init PROVE IInv
  OBVIOUS
<1> USE Ranges DEF Init
<1>1. TypeOK
  <2>1. state \in [Group -> [Thread -> ThreadState]]
    BY DEF ThreadState
  <2>2. monitor \in [Group -> MonitorPc] /\ main \in MainPc
    BY DEF MonitorPc, MainPc
  <2>3. group \in Group /\ thread \in 1 .. ThreadCount + 1 /\ completedCount \in Nat
    OBVIOUS
  <2>4. setupFaults \in 0 .. MaxSetupFaults /\ createFaults \in 0 .. MaxCreateFaults
    OBVIOUS
  <2> QED
    BY <2>1, <2>2, <2>3, <2>4 DEF TypeOK
<1>2. Cardinality(completed) = 0
  BY FS_EmptySet
<1> QED
  BY <1>1, <1>2 DEF IInv, Started, Joined, Freed, Locked, Counted, Left

-----------------------------------------------------------------------------
\* A thread's state can be changed to any other.
LEMMA SetState ==
    ASSUME NEW f \in [Group -> [Thread -> ThreadState]],
           NEW g \in Group, NEW t \in Thread, NEW s \in ThreadState
    PROVE  [f EXCEPT ![g][t] = s] \in [Group -> [Thread -> ThreadState]]
  OBVIOUS

\* Every step preserves the types.
LEMMA TypeStep ==
    ASSUME TypeOK, [Next]_vars
    PROVE  TypeOK'
<1> USE Ranges DEF TypeOK, faults, MainPc, MonitorPc
<1>1. CASE CreateThread
  BY <1>1 DEF CreateThread, ThreadState, Group, Thread
<1>2. CASE CreateThreadFails
  BY <1>2 DEF CreateThreadFails
<1>3. CASE AbandonGroup
  BY <1>3 DEF AbandonGroup
<1>4. CASE StartMonitor
  BY <1>4 DEF StartMonitor, Group, Thread
<1>5. CASE StartMonitorFails
  BY <1>5 DEF StartMonitorFails
<1>6. CASE LockManager
  BY <1>6 DEF LockManager
<1>7. CASE WaitForGroups
  BY <1>7 DEF WaitForGroups
<1>8. CASE LeaveWait
  BY <1>8 DEF LeaveWait
<1>9. CASE DestroyManager
  BY <1>9 DEF DestroyManager
<1>10. CASE ReturnFromMain
  BY <1>10 DEF ReturnFromMain
<1>11. ASSUME NEW g \in Group, NEW t \in Thread,
              ReachBarrier(g, t) \/ SetupFailure(g, t) \/ ThreadReturns(g, t)
       PROVE  TypeOK'
  <2>1. state' = [state EXCEPT ![g][t] = "barrier"]
        \/ state' = [state EXCEPT ![g][t] = "returned"]
    BY <1>11 DEF ReachBarrier, SetupFailure, ThreadReturns, ThreadMoves
  <2>2. state' \in [Group -> [Thread -> ThreadState]]
    <3>1. "barrier" \in ThreadState /\ "returned" \in ThreadState
      BY DEF ThreadState
    <3>2. state \in [Group -> [Thread -> ThreadState]]
      OBVIOUS
    <3>3. [state EXCEPT ![g][t] = "barrier"] \in [Group -> [Thread -> ThreadState]]
      BY <3>1, <3>2, SetState
    <3>4. [state EXCEPT ![g][t] = "returned"] \in [Group -> [Thread -> ThreadState]]
      BY <3>1, <3>2, SetState
    <3> QED
      BY <2>1, <3>3, <3>4
  <2>3. setupFaults' \in 0 .. MaxSetupFaults /\ createFaults' = createFaults
    BY <1>11 DEF ReachBarrier, SetupFailure, ThreadReturns
  <2> QED
    BY <1>11, <2>2, <2>3 DEF ReachBarrier, SetupFailure, ThreadReturns, ThreadMoves
<1>12. ASSUME NEW g \in Group, ReleaseBarrier(g)
       PROVE  TypeOK'
  BY <1>12 DEF ReleaseBarrier, ThreadState
<1>13. ASSUME NEW g \in Group, JoinThreads(g) \/ CleanUp(g)
       PROVE  TypeOK'
  BY <1>13 DEF JoinThreads, CleanUp, MonitorMoves, Alive
<1>14. ASSUME NEW g \in Group, LockForReport(g) \/ Report(g) \/ UnlockAfterReport(g)
       PROVE  TypeOK'
  <2>1. CASE LockForReport(g)
    BY <2>1 DEF LockForReport, MonitorMoves
  <2>2. CASE Report(g)
    BY <2>2 DEF Report, MonitorMoves
  <2>3. CASE UnlockAfterReport(g)
    BY <2>3 DEF UnlockAfterReport, MonitorMoves
  <2> QED
    BY <1>14, <2>1, <2>2, <2>3
<1>15. CASE RequestShutdown
  BY <1>15 DEF RequestShutdown
<1>16. CASE UNCHANGED vars
  BY <1>16 DEF vars, faults
<1> QED
  BY <1>1, <1>2, <1>3, <1>4, <1>5, <1>6, <1>7, <1>8, <1>9, <1>10, <1>11, <1>12,
     <1>13, <1>14, <1>15, <1>16 DEF Next, MainStep, MonitorStep, Ended

\* Only main creates threads and monitors, in order.
LEMMA StartedStep ==
    ASSUME TypeOK, Started, [Next]_vars
    PROVE  Started'
<1> USE Ranges DEF TypeOK, Started, faults, ThreadState, MonitorPc, Group, Thread
<1>1. CASE CreateThread
  BY <1>1 DEF CreateThread
<1>2. CASE CreateThreadFails
  BY <1>2 DEF CreateThreadFails
<1>3. CASE AbandonGroup
  BY <1>3 DEF AbandonGroup
<1>4. CASE StartMonitor
  BY <1>4 DEF StartMonitor
<1>5. CASE StartMonitorFails
  BY <1>5 DEF StartMonitorFails
<1>6. CASE LockManager
  BY <1>6 DEF LockManager
<1>7. CASE WaitForGroups
  BY <1>7 DEF WaitForGroups
<1>8. CASE LeaveWait
  BY <1>8 DEF LeaveWait
<1>9. CASE DestroyManager
  BY <1>9 DEF DestroyManager
<1>10. CASE ReturnFromMain
  BY <1>10 DEF ReturnFromMain
<1>11. ASSUME NEW g \in Group, NEW t \in Thread,
              ReachBarrier(g, t) \/ SetupFailure(g, t) \/ ThreadReturns(g, t)
       PROVE  Started'
  <2>1. \A h \in Group, u \in Thread : state[h][u] = "none" => state'[h][u] = "none"
    BY <1>11 DEF ReachBarrier, SetupFailure, ThreadReturns, ThreadMoves
  <2> QED
    BY <1>11, <2>1 DEF ReachBarrier, SetupFailure, ThreadReturns, ThreadMoves
<1>12. ASSUME NEW g \in Group, ReleaseBarrier(g)
       PROVE  Started'
  BY <1>12 DEF ReleaseBarrier, Alive
<1>13. ASSUME NEW g \in Group, JoinThreads(g) \/ CleanUp(g)
       PROVE  Started'
  BY <1>13 DEF JoinThreads, CleanUp, MonitorMoves, Alive
<1>14. ASSUME NEW g \in Group, LockForReport(g) \/ Report(g) \/ UnlockAfterReport(g)
       PROVE  Started'
  BY <1>14 DEF LockForReport, Report, UnlockAfterReport, MonitorMoves, Alive
<1>15. CASE RequestShutdown
  BY <1>15 DEF RequestShutdown
<1>16. CASE UNCHANGED vars
  BY <1>16 DEF vars, faults
<1> QED
  BY <1>1, <1>2, <1>3, <1>4, <1>5, <1>6, <1>7, <1>8, <1>9, <1>10, <1>11, <1>12,
     <1>13, <1>14, <1>15, <1>16 DEF Next, MainStep, MonitorStep, Ended

\* A thread that has returned stays so; a monitor leaves its joins after all have.
LEMMA JoinedStep ==
    ASSUME TypeOK, Started, Joined, [Next]_vars
    PROVE  Joined'
<1> USE Ranges DEF TypeOK, Started, Joined, AllReturned, faults, ThreadState, MonitorPc
<1>1. CASE CreateThread
  BY <1>1 DEF CreateThread
<1>2. CASE CreateThreadFails
  BY <1>2 DEF CreateThreadFails
<1>3. CASE AbandonGroup
  BY <1>3 DEF AbandonGroup
<1>4. CASE StartMonitor
  BY <1>4 DEF StartMonitor
<1>5. CASE StartMonitorFails
  BY <1>5 DEF StartMonitorFails
<1>6. CASE LockManager
  BY <1>6 DEF LockManager
<1>7. CASE WaitForGroups
  BY <1>7 DEF WaitForGroups
<1>8. CASE LeaveWait
  BY <1>8 DEF LeaveWait
<1>9. CASE DestroyManager
  BY <1>9 DEF DestroyManager
<1>10. CASE ReturnFromMain
  BY <1>10 DEF ReturnFromMain
<1>11. ASSUME NEW g \in Group, NEW t \in Thread,
              ReachBarrier(g, t) \/ SetupFailure(g, t) \/ ThreadReturns(g, t)
       PROVE  Joined'
  BY <1>11 DEF ReachBarrier, SetupFailure, ThreadReturns, ThreadMoves, Alive
<1>12. ASSUME NEW g \in Group, ReleaseBarrier(g)
       PROVE  Joined'
  BY <1>12 DEF ReleaseBarrier, Alive
<1>13. ASSUME NEW g \in Group, JoinThreads(g) \/ CleanUp(g)
       PROVE  Joined'
  BY <1>13 DEF JoinThreads, CleanUp, MonitorMoves, Alive
<1>14. ASSUME NEW g \in Group, LockForReport(g) \/ Report(g) \/ UnlockAfterReport(g)
       PROVE  Joined'
  BY <1>14 DEF LockForReport, Report, UnlockAfterReport, MonitorMoves, Alive
<1>15. CASE RequestShutdown
  BY <1>15 DEF RequestShutdown
<1>16. CASE UNCHANGED vars
  BY <1>16 DEF vars, faults
<1> QED
  BY <1>1, <1>2, <1>3, <1>4, <1>5, <1>6, <1>7, <1>8, <1>9, <1>10, <1>11, <1>12,
     <1>13, <1>14, <1>15, <1>16 DEF Next, MainStep, MonitorStep, Ended

\* Contexts are freed by a monitor past its joins, or by the failing main.
LEMMA FreedStep ==
    ASSUME TypeOK, Started, Joined, Freed, [Next]_vars
    PROVE  Freed'
<1> USE Ranges DEF TypeOK, Started, Joined, AllReturned, Freed, faults, ThreadState, MonitorPc
<1>1. CASE CreateThread
  BY <1>1 DEF CreateThread
<1>2. CASE CreateThreadFails
  BY <1>2 DEF CreateThreadFails
<1>3. CASE AbandonGroup
  <2>1. \A t \in Thread : state[group][t] \in {"none", "returned"}
    BY <1>3 DEF AbandonGroup, Group, Thread
  <2> QED
    BY <1>3, <2>1 DEF AbandonGroup
<1>4. CASE StartMonitor
  BY <1>4 DEF StartMonitor
<1>5. CASE StartMonitorFails
  BY <1>5 DEF StartMonitorFails
<1>6. CASE LockManager
  BY <1>6 DEF LockManager
<1>7. CASE WaitForGroups
  BY <1>7 DEF WaitForGroups
<1>8. CASE LeaveWait
  BY <1>8 DEF LeaveWait
<1>9. CASE DestroyManager
  BY <1>9 DEF DestroyManager
<1>10. CASE ReturnFromMain
  BY <1>10 DEF ReturnFromMain
<1>11. ASSUME NEW g \in Group, NEW t \in Thread,
              ReachBarrier(g, t) \/ SetupFailure(g, t) \/ ThreadReturns(g, t)
       PROVE  Freed'
  BY <1>11 DEF ReachBarrier, SetupFailure, ThreadReturns, ThreadMoves, Alive
<1>12. ASSUME NEW g \in Group, ReleaseBarrier(g)
       PROVE  Freed'
  BY <1>12 DEF ReleaseBarrier, Alive
<1>13. ASSUME NEW g \in Group, JoinThreads(g) \/ CleanUp(g)
       PROVE  Freed'
  BY <1>13 DEF JoinThreads, CleanUp, MonitorMoves, Alive
<1>14. ASSUME NEW g \in Group, LockForReport(g) \/ Report(g) \/ UnlockAfterReport(g)
       PROVE  Freed'
  BY <1>14 DEF LockForReport, Report, UnlockAfterReport, MonitorMoves, Alive
<1>15. CASE RequestShutdown
  BY <1>15 DEF RequestShutdown
<1>16. CASE UNCHANGED vars
  BY <1>16 DEF vars, faults
<1> QED
  BY <1>1, <1>2, <1>3, <1>4, <1>5, <1>6, <1>7, <1>8, <1>9, <1>10, <1>11, <1>12,
     <1>13, <1>14, <1>15, <1>16 DEF Next, MainStep, MonitorStep, Ended

\* The mutex has one holder.
LEMMA LockedStep ==
    ASSUME TypeOK, Started, Locked, [Next]_vars
    PROVE  Locked'
<1> USE Ranges DEF TypeOK, Started, Locked, faults, MonitorPc
<1>1. CASE CreateThread
  BY <1>1 DEF CreateThread
<1>2. CASE CreateThreadFails
  BY <1>2 DEF CreateThreadFails
<1>3. CASE AbandonGroup
  BY <1>3 DEF AbandonGroup
<1>4. CASE StartMonitor
  BY <1>4 DEF StartMonitor
<1>5. CASE StartMonitorFails
  BY <1>5 DEF StartMonitorFails
<1>6. CASE LockManager
  BY <1>6 DEF LockManager
<1>7. CASE WaitForGroups
  BY <1>7 DEF WaitForGroups
<1>8. CASE LeaveWait
  BY <1>8 DEF LeaveWait
<1>9. CASE DestroyManager
  BY <1>9 DEF DestroyManager
<1>10. CASE ReturnFromMain
  BY <1>10 DEF ReturnFromMain
<1>11. ASSUME NEW g \in Group, NEW t \in Thread,
              ReachBarrier(g, t) \/ SetupFailure(g, t) \/ ThreadReturns(g, t)
       PROVE  Locked'
  BY <1>11 DEF ReachBarrier, SetupFailure, ThreadReturns, ThreadMoves, Alive
<1>12. ASSUME NEW g \in Group, ReleaseBarrier(g)
       PROVE  Locked'
  BY <1>12 DEF ReleaseBarrier, Alive
<1>13. ASSUME NEW g \in Group, JoinThreads(g) \/ CleanUp(g)
       PROVE  Locked'
  BY <1>13 DEF JoinThreads, CleanUp, MonitorMoves, Alive
<1>14. ASSUME NEW g \in Group, LockForReport(g) \/ Report(g) \/ UnlockAfterReport(g)
       PROVE  Locked'
  BY <1>14 DEF LockForReport, Report, UnlockAfterReport, MonitorMoves, Alive
<1>15. CASE RequestShutdown
  BY <1>15 DEF RequestShutdown
<1>16. CASE UNCHANGED vars
  BY <1>16 DEF vars, faults
<1> QED
  BY <1>1, <1>2, <1>3, <1>4, <1>5, <1>6, <1>7, <1>8, <1>9, <1>10, <1>11, <1>12,
     <1>13, <1>14, <1>15, <1>16 DEF Next, MainStep, MonitorStep, Ended

\* Adding a group to the completed ones adds one to their number.
LEMMA OneMore ==
    ASSUME NEW g \in Group, completed \subseteq Group, g \notin completed
    PROVE  Cardinality(completed \cup {g}) = Cardinality(completed) + 1
<1>1. IsFiniteSet(Group)
  BY FS_Interval, Ranges DEF Group
<1>2. IsFiniteSet(completed)
  BY <1>1, FS_Subset
<1> QED
  BY <1>2, FS_AddElement

\* Only a report adds to the count, unless a shutdown overwrites it.
LEMMA CountedStep ==
    ASSUME TypeOK, Started, Counted, [Next]_vars
    PROVE  Counted'
<1> USE Ranges DEF TypeOK, Started, Counted, faults, MonitorPc
<1>1. CASE CreateThread
  BY <1>1 DEF CreateThread
<1>2. CASE CreateThreadFails
  BY <1>2 DEF CreateThreadFails
<1>3. CASE AbandonGroup
  BY <1>3 DEF AbandonGroup
<1>4. CASE StartMonitor
  BY <1>4 DEF StartMonitor
<1>5. CASE StartMonitorFails
  BY <1>5 DEF StartMonitorFails
<1>6. CASE LockManager
  BY <1>6 DEF LockManager
<1>7. CASE WaitForGroups
  BY <1>7 DEF WaitForGroups
<1>8. CASE LeaveWait
  BY <1>8 DEF LeaveWait
<1>9. CASE DestroyManager
  BY <1>9 DEF DestroyManager
<1>10. CASE ReturnFromMain
  BY <1>10 DEF ReturnFromMain
<1>11. ASSUME NEW g \in Group, NEW t \in Thread,
              ReachBarrier(g, t) \/ SetupFailure(g, t) \/ ThreadReturns(g, t)
       PROVE  Counted'
  BY <1>11 DEF ReachBarrier, SetupFailure, ThreadReturns, ThreadMoves, Alive
<1>12. ASSUME NEW g \in Group, ReleaseBarrier(g)
       PROVE  Counted'
  BY <1>12 DEF ReleaseBarrier, Alive
<1>13. ASSUME NEW g \in Group, JoinThreads(g) \/ CleanUp(g)
       PROVE  Counted'
  BY <1>13 DEF JoinThreads, CleanUp, MonitorMoves, Alive
<1>14. ASSUME NEW g \in Group, LockForReport(g) \/ Report(g) \/ UnlockAfterReport(g)
       PROVE  Counted'
  BY <1>14, OneMore DEF LockForReport, Report, UnlockAfterReport, MonitorMoves, Alive
<1>15. CASE RequestShutdown
  BY <1>15 DEF RequestShutdown
<1>16. CASE UNCHANGED vars
  BY <1>16 DEF vars, faults
<1> QED
  BY <1>1, <1>2, <1>3, <1>4, <1>5, <1>6, <1>7, <1>8, <1>9, <1>10, <1>11, <1>12,
     <1>13, <1>14, <1>15, <1>16 DEF Next, MainStep, MonitorStep, Ended

\* Without a shutdown, main leaves its wait when every monitor is done.
LEMMA LeftStep ==
    ASSUME TypeOK, Started, Locked, Counted, Left, [Next]_vars
    PROVE  Left'
<1> USE Ranges DEF TypeOK, Started, Locked, Counted, Left, faults, MonitorPc
<1>1. CASE CreateThread
  BY <1>1 DEF CreateThread
<1>2. CASE CreateThreadFails
  BY <1>2 DEF CreateThreadFails
<1>3. CASE AbandonGroup
  BY <1>3 DEF AbandonGroup
<1>4. CASE StartMonitor
  BY <1>4 DEF StartMonitor
<1>5. CASE StartMonitorFails
  BY <1>5 DEF StartMonitorFails
<1>6. CASE LockManager
  BY <1>6 DEF LockManager
<1>7. CASE WaitForGroups
  BY <1>7 DEF WaitForGroups
<1>8. CASE LeaveWait
  <2>1. CASE shutdown
    BY <1>8, <2>1 DEF LeaveWait
  <2>2. CASE ~shutdown
    <3>1. completed = Group
      BY <1>8, <2>2, AllGroups DEF LeaveWait
    <3>2. \A g \in Group : monitor[g] = "done"
      BY <1>8, <3>1 DEF LeaveWait
    <3> QED
      BY <1>8, <2>2, <3>2 DEF LeaveWait
  <2> QED
    BY <2>1, <2>2
<1>9. CASE DestroyManager
  BY <1>9 DEF DestroyManager
<1>10. CASE ReturnFromMain
  BY <1>10 DEF ReturnFromMain
<1>11. ASSUME NEW g \in Group, NEW t \in Thread,
              ReachBarrier(g, t) \/ SetupFailure(g, t) \/ ThreadReturns(g, t)
       PROVE  Left'
  BY <1>11 DEF ReachBarrier, SetupFailure, ThreadReturns, ThreadMoves, Alive
<1>12. ASSUME NEW g \in Group, ReleaseBarrier(g)
       PROVE  Left'
  BY <1>12 DEF ReleaseBarrier, Alive
<1>13. ASSUME NEW g \in Group, JoinThreads(g) \/ CleanUp(g)
       PROVE  Left'
  BY <1>13 DEF JoinThreads, CleanUp, MonitorMoves, Alive
<1>14. ASSUME NEW g \in Group, LockForReport(g) \/ Report(g) \/ UnlockAfterReport(g)
       PROVE  Left'
  BY <1>14 DEF LockForReport, Report, UnlockAfterReport, MonitorMoves, Alive
<1>15. CASE RequestShutdown
  BY <1>15 DEF RequestShutdown
<1>16. CASE UNCHANGED vars
  BY <1>16 DEF vars, faults
<1> QED
  BY <1>1, <1>2, <1>3, <1>4, <1>5, <1>6, <1>7, <1>8, <1>9, <1>10, <1>11, <1>12,
     <1>13, <1>14, <1>15, <1>16 DEF Next, MainStep, MonitorStep, Ended

-----------------------------------------------------------------------------
\* The invariant holds in every reachable state.
LEMMA Invariance == Spec => []IInv
<1>1. Init => IInv
  BY InitIInv
<1>2. IInv /\ [Next]_vars => IInv'
  BY TypeStep, StartedStep, JoinedStep, FreedStep, LockedStep, CountedStep, LeftStep DEF IInv
<1> QED
  BY <1>1, <1>2, PTL DEF Spec

\* The variables keep their types.
THEOREM TypeCorrect == Spec => []TypeOK
<1>1. IInv => TypeOK
  BY DEF IInv
<1> QED
  BY <1>1, Invariance, PTL

\* The cleanup of a group (MbPgCleanup frees the pipe and the context, from
\* TgMonitor or from a failed TgStartGroup) never pulls memory from under a
\* thread, whatever setups and pthread_create calls fail.
THEOREM CleanupIsSafe == Spec => []NoContextInUseFreed
<1>1. IInv => NoContextInUseFreed
  BY DEF IInv, TypeOK, Joined, Freed, AllReturned, NoContextInUseFreed
<1> QED
  BY <1>1, Invariance, PTL

\* TgManagerWaitForAll returns without a shutdown only when every group has
\* been cleaned up and has reported.
THEOREM WaitForAllWaits == Spec => []WaitIsComplete
<1>1. IInv => WaitIsComplete
  <2> SUFFICES ASSUME IInv, main \in {"destroy", "exit", "exited"}, ~shutdown
               PROVE  completed = Group /\ contextFreed = Group
    BY DEF WaitIsComplete
  <2>1. \A g \in Group : monitor[g] = "done"
    BY DEF IInv, Left
  <2> QED
    BY <2>1 DEF IInv, TypeOK, Counted, Freed
<1> QED
  BY <1>1, Invariance, PTL

\* Without a shutdown, TgDestroyManager frees the manager after its last use.
THEOREM ManagerFreedLast == Spec => []ManagerOutlivesMonitors
<1>1. IInv => ManagerOutlivesMonitors
  BY DEF IInv, Left, ManagerOutlivesMonitors
<1> QED
  BY <1>1, Invariance, PTL
=============================================================================

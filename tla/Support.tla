-------------------------------- MODULE Support --------------------------------
(***************************************************************************)
(* The parts that every thread uses, and that share no state with one      *)
(* another: the memory of a thread, logging and signals, thread control,   *)
(* timed waits, the trees of cJSON, and the buffers and the compressor of  *)
(* poc/.  One behaviour is of one part: their interleavings would show     *)
(* nothing about them that each alone does not.                            *)
(***************************************************************************)
EXTENDS SdbMemory, LogSignals, ThreadControl, SdbTime, CircularBuffer, ZeroCompression, JsonTree

VARIABLE part

Parts == {"memory", "log", "control", "time", "buffer", "metric", "zero", "json"}

vars == <<part, memVars, logVars, controlVars, timeVars, bufferVars, metricVars, zeroVars, jsonVars>>

Init ==
    /\ part \in Parts
    /\ MemInit /\ JsonInit /\ BufferInit /\ ZeroInit
    /\ LogInit /\ (part = "log" \/ logBuild = "debug")
    /\ ControlInit /\ (part = "control" \/ \A w \in Worker : waitingForMark[w])
    /\ TimeInit /\ (part = "time" \/ Ns(clock) = 0)
    /\ MetricInit /\ (part = "metric" \/ interval = 1)

notMem == <<logVars, controlVars, timeVars, bufferVars, metricVars, zeroVars, jsonVars>>
notLog == <<memVars, controlVars, timeVars, bufferVars, metricVars, zeroVars, jsonVars>>
notControl == <<memVars, logVars, timeVars, bufferVars, metricVars, zeroVars, jsonVars>>
notTime == <<memVars, logVars, controlVars, bufferVars, metricVars, zeroVars, jsonVars>>
notBuffer == <<memVars, logVars, controlVars, timeVars, metricVars, zeroVars, jsonVars>>
notMetric == <<memVars, logVars, controlVars, timeVars, bufferVars, zeroVars, jsonVars>>
notZero == <<memVars, logVars, controlVars, timeVars, bufferVars, metricVars, jsonVars>>
notJson == <<memVars, logVars, controlVars, timeVars, bufferVars, metricVars, zeroVars>>

Next ==
    /\ \/ part = "memory" /\ MemNext /\ UNCHANGED notMem
       \/ part = "log" /\ LogNext /\ UNCHANGED notLog
       \/ part = "control" /\ ControlNext /\ UNCHANGED notControl
       \/ part = "time" /\ TimeNext /\ UNCHANGED notTime
       \/ part = "buffer" /\ BufferNext /\ UNCHANGED notBuffer
       \/ part = "metric" /\ AddSample /\ UNCHANGED notMetric
       \/ part = "zero" /\ ZeroNext /\ UNCHANGED notZero
       \/ part = "json" /\ JsonNext /\ UNCHANGED notJson
    /\ UNCHANGED part

OfLog(action) == part = "log" /\ action /\ UNCHANGED <<part, notLog>>
OfControl(action) == part = "control" /\ action /\ UNCHANGED <<part, notControl>>

\* The fairness of the two parts with several threads.
Fairness ==
    /\ \A t \in Thread : SF_vars(OfLog(LogStep(t)))
    /\ WF_vars(OfControl(SignalStop \/ WaitForStop))
    /\ \A w \in Worker : WF_vars(OfControl(WorkerStep(w)))

Spec == Init /\ [][Next]_vars /\ Fairness

-----------------------------------------------------------------------------
\* Every part has the types of its module.
TypeOK ==
    /\ part \in Parts
    /\ MemTypeOK /\ LogTypeOK /\ ControlTypeOK /\ TimeTypeOK
    /\ BufferTypeOK /\ MetricTypeOK /\ ZeroTypeOK /\ JsonTypeOK

\* The one Cond of a control wakes both of its users, and each leaves a note
\* before it sleeps: no wake-up is lost between the two, so the owner gets past
\* its waits, and only when every worker has stopped (Thread.c:269-321).
StopsComplete == <>(part # "control" \/ OwnerDone) /\ []StopSeen
=============================================================================

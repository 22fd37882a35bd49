------------------------- MODULE ModbusWithPostgres -------------------------
(***************************************************************************)
(* The Modbus-to-Postgres data handler once its three threads have passed  *)
(* the start barrier: MbRun (DataHandlers/ModbusWithPostgres/Modbus.c)     *)
(* receives packets and pushes them into the pipe, PgRun (.../Postgres.c)  *)
(* takes arenas out of it and copies their rows into the table, and a      *)
(* termination signal may ask both to stop at any moment.                  *)
(*                                                                         *)
(* MbRun keeps the arena it writes to in a local, CurBuf.  SdPipeFlush,    *)
(* which it calls whenever a connection breaks, moves the pipe on to the   *)
(* next arena and leaves CurBuf behind.                                    *)
(*                                                                         *)
(* Packets are numbered in the order MbRun receives them; 0 is memory that *)
(* was never written.                                                      *)
(***************************************************************************)
EXTENDS SensorDataPipe, Sequences, Functions

CONSTANTS
    FailThreshold,     \* failed inserts after which PgRun gives up (5)
    TimeoutThreshold,  \* epoll timeouts after which PgRun gives up (5)
    InsertStop,        \* rows after which the inner loop breaks (1e6)
    MaxPackets,        \* bound: packets the sensor sends
    MaxReconnects      \* bound: connections that break

ASSUME ThresholdAssumption ==
    /\ FailThreshold \in Nat \ {0}
    /\ TimeoutThreshold \in Nat \ {0}
    /\ InsertStop \in Nat \ {0}
ASSUME BoundAssumption ==
    /\ MaxPackets \in Nat
    /\ MaxReconnects \in Nat

VARIABLES
    shutdown,       \* the flag SdbShouldShutdown reads
    mb,             \* where MbRun is in its own code
    curBuf,         \* CurBuf of MbRun
    sent,           \* packets MbRun has received and copied
    reconnects,     \* connections that broke
    stray,          \* history: packets pushed while CurBuf was not the pipe's write arena
    pg,             \* where PgRun is in its own code
    itemCount,      \* ItemCount of PgRun
    txn,            \* rows of the copy in progress
    table,          \* rows committed to the database
    discarded,      \* history: rows of the inserts that failed
    totalInserted,  \* TotalInsertedItems
    failCount,      \* PgFailCounter, not counted beyond the threshold
    timeouts,       \* TimeoutCounter, not counted beyond the threshold
    pgRet           \* Ret of PgRun, "ok" for 0

mbVars == <<mb, curBuf, sent, reconnects, stray>>
pgVars == <<pg, itemCount, txn, table, discarded, totalInserted, failCount, timeouts, pgRet>>
vars == <<pipeVars, shutdown, mbVars, pgVars>>

MbPc == {"connect", "loop", "rotated", "recv", "copy", "reconnect", "flushed", "done"}
PgPc == {"loop", "epoll", "count", "insert", "inserted", "done"}

Init ==
    /\ PipeInit
    /\ shutdown = FALSE
    /\ mb = "connect"
    /\ curBuf = 0            \* Pipe->Buffers[WriteBufIdx] before the barrier
    /\ sent = 0
    /\ reconnects = 0
    /\ stray = {}
    /\ pg = "loop"
    /\ itemCount = 0
    /\ txn = << >>
    /\ table = << >>
    /\ discarded = {}
    /\ totalInserted = 0
    /\ failCount = 0
    /\ timeouts = 0
    /\ pgRet = "ok"

TypeOK ==
    /\ PipeTypeOK
    /\ shutdown \in BOOLEAN
    /\ mb \in MbPc
    /\ curBuf \in Slot
    /\ sent \in 0 .. MaxPackets
    /\ reconnects \in 0 .. MaxReconnects
    /\ stray \subseteq 1 .. MaxPackets
    /\ pg \in PgPc
    /\ itemCount \in 0 .. ItemMax
    /\ txn \in Seq(Nat)
    /\ table \in Seq(Nat)
    /\ discarded \subseteq Nat
    /\ totalInserted \in Nat
    /\ failCount \in 0 .. FailThreshold
    /\ timeouts \in 0 .. TimeoutThreshold
    /\ pgRet \in {"ok", "timedout", "ioerror", "failed"}

-----------------------------------------------------------------------------
(* MbRun.                                                                  *)

\* MbPrepareCtx connects; a failed attempt sleeps and comes back here.
Connect ==
    /\ mb = "connect"
    /\ mb' = IF shutdown THEN "done" ELSE "loop"
    /\ UNCHANGED <<pipeVars, shutdown, curBuf, sent, reconnects, stray, pgVars>>

\* Faulty variant: the receive loop does not look at the shutdown flag.
ReceiveLoopForever ==
    /\ mb = "loop"
    /\ IF cur[curBuf] = ItemMax
         THEN CallGetWriteBuffer /\ mb' = "rotated"
         ELSE mb' = "recv" /\ UNCHANGED pipeVars
    /\ UNCHANGED <<shutdown, curBuf, sent, reconnects, stray, pgVars>>

\* The head of the receive loop: a full CurBuf is exchanged for the next one.
ReceiveLoop ==
    /\ mb = "loop"
    /\ \/ /\ shutdown
          /\ mb' = "reconnect"
          /\ UNCHANGED pipeVars
       \/ /\ ~shutdown
          /\ cur[curBuf] = ItemMax
          /\ CallGetWriteBuffer
          /\ mb' = "rotated"
       \/ /\ ~shutdown
          /\ cur[curBuf] # ItemMax
          /\ mb' = "recv"
          /\ UNCHANGED pipeVars
    /\ UNCHANGED <<shutdown, curBuf, sent, reconnects, stray, pgVars>>

\* Faulty variant: the arena the pipe returns is dropped.
RotatedInPlace ==
    /\ mb = "rotated" /\ wpc = "caller"
    /\ mb' = "recv"
    /\ UNCHANGED <<pipeVars, shutdown, curBuf, sent, reconnects, stray, pgVars>>

Rotated ==
    /\ mb = "rotated" /\ wpc = "caller"
    /\ curBuf' = writeBufIdx
    /\ mb' = "recv"
    /\ UNCHANGED <<pipeVars, shutdown, sent, reconnects, stray, pgVars>>

\* No header within the time limit: SocketRecvWithTimeout returns -2.
ReceiveTimeout ==
    /\ mb = "recv"
    /\ mb' = "loop"
    /\ UNCHANGED <<pipeVars, shutdown, curBuf, sent, reconnects, stray, pgVars>>

\* Every other failure of the header, the data or the frame drops the
\* connection.
ReceiveFailure ==
    /\ mb = "recv"
    /\ reconnects < MaxReconnects
    /\ reconnects' = reconnects + 1
    /\ mb' = "reconnect"
    /\ UNCHANGED <<pipeVars, shutdown, curBuf, sent, stray, pgVars>>

ReceivePacket ==
    /\ mb = "recv"
    /\ sent < MaxPackets
    /\ PushTo(curBuf)
    /\ stray' = IF curBuf = writeBufIdx THEN stray ELSE stray \cup {sent + 1}
    /\ mb' = "copy"
    /\ UNCHANGED <<shutdown, curBuf, sent, reconnects, pgVars>>

CopyPacket ==
    /\ mb = "copy"
    /\ CopyTo(curBuf, sent + 1)
    /\ sent' = sent + 1
    /\ mb' = "loop"
    /\ UNCHANGED <<shutdown, curBuf, reconnects, stray, pgVars>>

\* The label reconnect, reached on a failure and on shutdown.  CurBuf is not
\* read again from the pipe.
Reconnect ==
    /\ mb = "reconnect"
    /\ CallFlush
    /\ mb' = "flushed"
    /\ UNCHANGED <<shutdown, curBuf, sent, reconnects, stray, pgVars>>

\* Closes the sockets, sleeps, and back to the outer loop.
CloseConnection ==
    /\ mb = "flushed" /\ wpc = "caller"
    /\ mb' = "connect"
    /\ UNCHANGED <<pipeVars, shutdown, curBuf, sent, reconnects, stray, pgVars>>

MbStep ==
    \/ Connect \/ ReceiveLoop \/ Rotated \/ ReceiveTimeout \/ ReceiveFailure
    \/ ReceivePacket \/ CopyPacket \/ Reconnect \/ CloseConnection
    \/ WriterPipeStep /\ UNCHANGED <<shutdown, mbVars, pgVars>>

-----------------------------------------------------------------------------
(* PgRun.                                                                  *)

PgLoop ==
    /\ pg = "loop"
    /\ pg' = IF shutdown THEN "done" ELSE "epoll"
    /\ UNCHANGED <<pipeVars, shutdown, mbVars, itemCount, txn, table, discarded,
                   totalInserted, failCount, timeouts, pgRet>>

\* Faulty variant: a readable event is not recognised.
EpollReadyIgnored ==
    /\ pg = "epoll"
    /\ readEvent > 0
    /\ pg' = "loop"
    /\ UNCHANGED <<pipeVars, shutdown, mbVars, itemCount, txn, table, discarded,
                   totalInserted, failCount, timeouts, pgRet>>

EpollReady ==
    /\ pg = "epoll"
    /\ readEvent > 0
    /\ CallGetReadBuffer
    /\ pg' = "count"
    /\ UNCHANGED <<shutdown, mbVars, itemCount, txn, table, discarded,
                   totalInserted, failCount, timeouts, pgRet>>

\* Below the threshold a timeout goes back to the loop.  At the threshold the
\* code sets Ret and falls through to Events[0], which epoll_wait has not
\* written: its flags read as an error, as readable, or as neither.
EpollTimeout ==
    /\ pg = "epoll"
    /\ readEvent = 0
    /\ timeouts' = IF timeouts < TimeoutThreshold THEN timeouts + 1 ELSE timeouts
    /\ \/ /\ timeouts' < TimeoutThreshold
          /\ pg' = "loop"
          /\ UNCHANGED <<pipeVars, pgRet>>
       \/ /\ timeouts' = TimeoutThreshold
          /\ pgRet' = "ioerror"
          /\ pg' = "done"
          /\ UNCHANGED pipeVars
       \/ /\ timeouts' = TimeoutThreshold
          /\ pgRet' = "timedout"
          /\ pg' = "count"
          /\ CallGetReadBuffer
       \/ /\ timeouts' = TimeoutThreshold
          /\ pgRet' = "timedout"
          /\ pg' = "loop"
          /\ UNCHANGED pipeVars
    /\ UNCHANGED <<shutdown, mbVars, itemCount, txn, table, discarded, totalInserted, failCount>>

\* Faulty variant: every arena is taken to be full.
CountFullArena ==
    /\ pg = "count" /\ rpc = "caller"
    /\ itemCount' = ItemMax
    /\ totalInserted' = totalInserted + ItemMax
    /\ txn' = << >>
    /\ pg' = "insert"
    /\ UNCHANGED <<pipeVars, shutdown, mbVars, table, discarded, failCount, timeouts, pgRet>>

CountItems ==
    /\ pg = "count" /\ rpc = "caller"
    /\ itemCount' = cur[rbuf]
    /\ totalInserted' = totalInserted + cur[rbuf]
    /\ txn' = << >>
    /\ pg' = "insert"
    /\ UNCHANGED <<pipeVars, shutdown, mbVars, table, discarded, failCount, timeouts, pgRet>>

\* PgInsertData reads the rows out of the arena one after the other ...
ReadRow ==
    /\ pg = "insert"
    /\ Len(txn) < itemCount
    /\ txn' = Append(txn, mem[rbuf][Len(txn) + 1])
    /\ UNCHANGED <<pipeVars, shutdown, mbVars, pg, itemCount, table, discarded,
                   totalInserted, failCount, timeouts, pgRet>>

\* ... commits them together ...
InsertCommits ==
    /\ pg = "insert"
    /\ Len(txn) = itemCount
    /\ table' = table \o txn
    /\ pg' = IF totalInserted >= InsertStop THEN "loop" ELSE "inserted"
    /\ UNCHANGED <<pipeVars, shutdown, mbVars, itemCount, txn, discarded,
                   totalInserted, failCount, timeouts, pgRet>>

\* ... or rolls back.  The arena is not kept for another attempt, and once
\* InsertStop rows have been counted the result is not even looked at.
InsertFails ==
    /\ pg = "insert"
    /\ Len(txn) = itemCount
    /\ discarded' = discarded \cup Range(txn)
    /\ IF totalInserted >= InsertStop
         THEN pg' = "loop" /\ UNCHANGED <<failCount, pgRet>>
         ELSE /\ failCount' = IF failCount < FailThreshold THEN failCount + 1 ELSE failCount
              /\ IF failCount' = FailThreshold
                   THEN pg' = "loop" /\ pgRet' = "failed"
                   ELSE pg' = "inserted" /\ UNCHANGED pgRet
    /\ UNCHANGED <<pipeVars, shutdown, mbVars, itemCount, txn, table,
                   totalInserted, timeouts>>

\* The inner loop calls SdPipeGetReadBuffer again, without a look at the
\* shutdown flag and without epoll.
NextReadBuffer ==
    /\ pg = "inserted"
    /\ CallGetReadBuffer
    /\ pg' = "count"
    /\ UNCHANGED <<shutdown, mbVars, itemCount, txn, table, discarded,
                   totalInserted, failCount, timeouts, pgRet>>

PgStep ==
    \/ PgLoop \/ EpollReady \/ EpollTimeout \/ CountItems \/ ReadRow \/ InsertCommits
    \/ InsertFails \/ NextReadBuffer
    \/ ReaderPipeStep /\ UNCHANGED <<shutdown, mbVars, pgVars>>

-----------------------------------------------------------------------------
\* SIGINT or SIGTERM.  The handler runs on some thread; when that is the
\* Postgres thread in epoll_wait the wait ends with EINTR.
RequestShutdown ==
    /\ ~shutdown
    /\ shutdown' = TRUE
    /\ pg' \in IF pg = "epoll" THEN {"epoll", "loop"} ELSE {pg}
    /\ UNCHANGED <<pipeVars, mbVars, itemCount, txn, table, discarded,
                   totalInserted, failCount, timeouts, pgRet>>

\* The states in which nothing more happens: both threads have returned, or
\* one of them has and the other waits for it in the pipe.
Ended ==
    /\ shutdown
    /\ \/ mb = "done" /\ pg = "done"
       \/ mb = "done" /\ readEvent = 0 /\ rpc = "take"
       \/ pg = "done" /\ writeEvent = 0 /\ wpc = "take"
    /\ UNCHANGED vars

Next == MbStep \/ PgStep \/ RequestShutdown \/ Ended

Spec == Init /\ [][Next]_vars

\* Both threads are scheduled, and a wait in epoll ends in one of its ways.
\* Neither a packet, nor a broken connection, nor a signal has to come.
FairSpec == Spec /\ WF_vars(MbStep) /\ WF_vars(PgStep)

-----------------------------------------------------------------------------
(* Properties.                                                             *)

Rows == Range(table)

\* The assertion at the head of the receive loop and the push that follows
\* it: there is room for a packet in CurBuf, stale or not, whenever MbRun
\* is about to push one (a full arena would make SdbArenaPush return NULL).
RoomForPacket == mb = "recv" => cur[curBuf] < ItemMax

\* Until a stale CurBuf has been written through, the table holds received
\* packets, each once and in the order of arrival: memory that was never
\* written, or whose bytes had not arrived, is not inserted.
TableFaithful ==
    stray = {} =>
        /\ Rows \subseteq 1 .. sent
        /\ \A i, j \in DOMAIN table : i < j => table[i] < table[j]

\* A packet that later packets have overtaken into the table was either
\* inserted, or was in an insert that failed: "Handles pipeline flushing".
NoSilentLoss ==
    \A p \in 1 .. sent :
        (\E q \in Rows : p < q) => p \in Rows \cup discarded

\* The same, but for the packets pushed through a stale CurBuf.
OnlyStrayLost ==
    \A p \in 1 .. sent :
        (\E q \in Rows : p < q) => p \in Rows \cup discarded \cup stray

\* While the Postgres thread runs, MbRun never waits forever for an arena.
WriterServed == wpc = "take" ~> (wpc = "caller" \/ pg = "done")

\* A requested shutdown ends the Modbus thread, also after the Postgres thread
\* has gone: unless it has gone for good with the last credit and MbRun is left
\* in the read of WriteEventFd (SensorDataPipe.c:119, 201), which nothing will
\* ever end.
MbStops ==
    shutdown ~> (mb = "done" \/ (pg = "done" /\ wpc = "take" /\ writeEvent = 0))

\* A requested shutdown ends the Postgres thread: "Processes data in a loop
\* until shutdown".
PgStops == shutdown ~> pg = "done"
=============================================================================

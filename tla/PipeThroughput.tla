--------------------------- MODULE PipeThroughput ---------------------------
(***************************************************************************)
(* The pipe between two well-behaved threads: the writer is                *)
(* MbPipeThroughputTest (DataHandlers/ModbusWithPostgres/Modbus.c), the    *)
(* reader is the inner loop of PgRun.  Well-behaved means that the writer  *)
(* pushes only into the arena the pipe currently designates for writing;   *)
(* module ModbusWithPostgres has the writer that does not.                 *)
(*                                                                         *)
(* The packets of the test file are numbered 1 .. Total in file order, so  *)
(* the rows the reader has taken should be 1, 2, 3, ... .  The writer may  *)
(* also flush a partly filled arena at any time, as MbRun does when it     *)
(* leaves its receive loop.                                                *)
(***************************************************************************)
EXTENDS SensorDataPipe, Sequences

CONSTANT Total  \* packets in the test data file

ASSUME TotalAssumption == Total \in Nat

VARIABLES
    writer,     \* "fill", or "copy" between SdbArenaPush and memcpy
    sent,       \* packets the writer has copied into the pipe
    reader,     \* "fetch", "count" or "rows"
    itemCount,  \* ItemCount of PgRun
    row,        \* rows of the arena read so far
    received    \* the packets read, in order

clientVars == <<writer, sent, reader, itemCount, row, received>>
vars == <<pipeVars, clientVars>>

Init ==
    /\ PipeInit
    /\ writer = "fill"
    /\ sent = 0
    /\ reader = "fetch"
    /\ itemCount = 0
    /\ row = 0
    /\ received = << >>

TypeOK ==
    /\ PipeTypeOK
    /\ writer \in {"fill", "copy"}
    /\ sent \in 0 .. Total
    /\ reader \in {"fetch", "count", "rows"}
    /\ itemCount \in 0 .. ItemMax
    /\ row \in 0 .. ItemMax
    /\ received \in Seq(Nat)

-----------------------------------------------------------------------------
(* The writer.                                                             *)

PushPacket ==
    /\ wpc = "caller" /\ writer = "fill"
    /\ sent < Total
    /\ PushTo(writeBufIdx)
    /\ writer' = "copy"
    /\ UNCHANGED <<sent, reader, itemCount, row, received>>

CopyPacket ==
    /\ writer = "copy"
    /\ CopyTo(writeBufIdx, sent + 1)
    /\ sent' = sent + 1
    /\ writer' = "fill"
    /\ UNCHANGED <<reader, itemCount, row, received>>

\* Faulty variant: the chunk that does not fill an arena is never published.
NextArenaWhenFull ==
    /\ writer = "fill"
    /\ cur[writeBufIdx] = ItemMax
    /\ CallGetWriteBuffer
    /\ UNCHANGED clientVars

\* A chunk is BufferMaxFill bytes, or what is left of the file.
NextArena ==
    /\ writer = "fill"
    /\ cur[writeBufIdx] = ItemMax \/ (sent = Total /\ cur[writeBufIdx] > 0)
    /\ CallGetWriteBuffer
    /\ UNCHANGED clientVars

FlushArena ==
    /\ writer = "fill"
    /\ CallFlush
    /\ UNCHANGED clientVars

WriterStep == PushPacket \/ CopyPacket \/ NextArena \/ (WriterPipeStep /\ UNCHANGED clientVars)

-----------------------------------------------------------------------------
(* The reader.                                                             *)

Fetch ==
    /\ reader = "fetch"
    /\ CallGetReadBuffer
    /\ reader' = "count"
    /\ UNCHANGED <<writer, sent, itemCount, row, received>>

\* ItemCount = Buf->Cur / Pipe->PacketSize, read once.
CountItems ==
    /\ rpc = "caller" /\ reader = "count"
    /\ itemCount' = cur[rbuf]
    /\ row' = 0
    /\ reader' = "rows"
    /\ UNCHANGED <<pipeVars, writer, sent, received>>

ReadRow ==
    /\ reader = "rows"
    /\ row < itemCount
    /\ received' = Append(received, mem[rbuf][row + 1])
    /\ row' = row + 1
    /\ UNCHANGED <<pipeVars, writer, sent, reader, itemCount>>

FinishArena ==
    /\ reader = "rows"
    /\ row = itemCount
    /\ reader' = "fetch"
    /\ UNCHANGED <<pipeVars, writer, sent, itemCount, row, received>>

ReaderStep == Fetch \/ CountItems \/ ReadRow \/ FinishArena
              \/ (ReaderPipeStep /\ UNCHANGED clientVars)

-----------------------------------------------------------------------------
\* The only state in which nothing more happens: the file has been sent and
\* read, and the reader is blocked for an arena that will not come.
Finished ==
    /\ sent = Total
    /\ Len(received) = Total
    /\ wpc = "caller" /\ cur[writeBufIdx] = 0
    /\ rpc = "take" /\ readEvent = 0
    /\ UNCHANGED vars

Next == WriterStep \/ FlushArena \/ ReaderStep \/ Finished

Spec == Init /\ [][Next]_vars

\* The scheduler runs both threads; that the writer flushes is not assumed.
FairSpec == Spec /\ WF_vars(WriterStep) /\ WF_vars(ReaderStep)

-----------------------------------------------------------------------------
(* Properties.                                                             *)

\* The reader is working on an arena: it has been given it and has not
\* finished its last row.
Held == reader \in {"count", "rows"} /\ rpc \in {"uncount", "release", "caller"}

\* The packets that have been copied into the arena the writer fills.
OpenCount ==
    IF wpc \in {"count", "signal", "clear"} THEN 0
    ELSE IF writer = "copy" THEN cur[writeBufIdx] - 1 ELSE cur[writeBufIdx]

\* Rows the reader has read of the arena it holds.
RowsRead == IF reader = "rows" THEN row ELSE 0

\* The arena the writer fills, publishes or clears is never the one the
\* reader is working on: "the next available memory arena for writing".
ArenaExclusion == Held => rbuf # writeBufIdx

\* What the reader has taken is what was sent, without a loss, a duplicate
\* or a packet out of order.
InOrderDelivery == \A i \in 1 .. Len(received) : received[i] = i

\* The arenas between the two indices: published, and not yet taken.
Published == (writeBufIdx - readBufIdx) % BufCount

\* FullBuffersCount, which a dump of the pipe may read at any moment, differs
\* from the number of arenas between the indices only between the two atomics of
\* a publication, when it has one too few, and of an acquisition, when it has
\* one too many (SensorDataPipe.c:129-130, 170-171, 210-211): the unsigned count
\* never wraps below 0, and the errors never add up.  The event the reader blocks
\* on never accumulates two publications (its one read would swallow both and
\* strand an arena).
FullCountExact ==
    /\ fullBuffersCount = Published - (IF wpc = "count" THEN 1 ELSE 0)
                                    + (IF rpc = "uncount" THEN 1 ELSE 0)
    /\ fullBuffersCount >= 0
    /\ readEvent <= Published
    /\ readEvent <= 1

\* Whatever the number of arenas, at most one of them is ever published and
\* not yet taken: the first read of WriteEventFd swallows all the credits
\* SdpCreate put there, and from then on one credit circulates.
OneInFlight == Published <= 1 /\ fullBuffersCount <= 1

\* The whole file is eventually read.
EverythingArrives == <>(Len(received) = Total)

-----------------------------------------------------------------------------
\* The pipe implements the queue of batches: the open batch is in the arena at
\* WriteBufIdx, the waiting batches in the arenas from ReadBufIdx
\* up to it, and the batch being read in rbuf.
Batch(b, first, last) == [i \in 1 .. last - first + 1 |-> mem[b][first + i - 1]]
Waiting(k) == (readBufIdx + k - 1) % BufCount

Queue == INSTANCE ArenaQueue WITH
    Capacity <- BufCount - 1,
    BatchMax <- ItemMax,
    open <- Batch(writeBufIdx, 1, OpenCount),
    queue <- [k \in 1 .. Published |-> Batch(Waiting(k), 1, cur[Waiting(k)])],
    held <- IF Held THEN Batch(rbuf, RowsRead + 1, cur[rbuf]) ELSE << >>

ImplementsQueue == Queue!QSpec
=============================================================================

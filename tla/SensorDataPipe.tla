--------------------------- MODULE SensorDataPipe ---------------------------
(***************************************************************************)
(* The pipe of src/Common/SensorDataPipe.c: a ring of BufCount arenas that *)
(* one writer thread fills and one reader thread drains.  Two eventfds     *)
(* carry the synchronisation.  They are plain eventfds, not semaphores:    *)
(* a read blocks while the counter is 0, returns the WHOLE counter and     *)
(* resets it, a write of 1 adds 1.                                         *)
(*                                                                         *)
(* Each operation is cut where the other thread can observe or interleave: *)
(* at the eventfd reads and writes, at the two atomics that move an index  *)
(* and then the count of full arenas, and at the clear of the next arena.  *)
(* Between the two atomics the count is behind the index.  The module owns *)
(* the state of the pipe and of the two calls in progress (wpc, rpc); the  *)
(* modules that extend it add the threads that make the calls.  wpc or rpc *)
(* is "caller" while the thread runs its own code.                         *)
(***************************************************************************)
EXTENDS Integers

CONSTANTS BufCount,  \* Pipe->BufCount, buf_count of the configuration
          ItemMax    \* Pipe->ItemMaxCount: packets in a full arena

ASSUME BufCountAssumption == BufCount \in Nat \ {0}
ASSUME ItemMaxAssumption == ItemMax \in Nat \ {0}

VARIABLES
    writeBufIdx,       \* Pipe->WriteBufIdx
    readBufIdx,        \* Pipe->ReadBufIdx
    fullBuffersCount,  \* Pipe->FullBuffersCount
    writeEvent,        \* counter of the eventfd WriteEventFd
    readEvent,         \* counter of the eventfd ReadEventFd
    cur,               \* cur[b]: Buffers[b]->Cur in packets
    mem,               \* mem[b][i]: the i-th packet of Buffers[b]->Mem, 0 if unwritten
    wpc,               \* where the writer is inside the pipe
    rpc,               \* where the reader is inside the pipe
    rbuf               \* the arena SdPipeGetReadBuffer returned last

pipeIdx == <<writeBufIdx, readBufIdx, fullBuffersCount>>
pipeVars == <<writeBufIdx, readBufIdx, fullBuffersCount, writeEvent, readEvent,
              cur, mem, wpc, rpc, rbuf>>

Slot == 0 .. BufCount - 1
\* Faulty variant: the index is not wrapped.
NextSlotUnwrapped(b) == b + 1

NextSlot(b) == (b + 1) % BufCount

WriterPc == {"caller", "take", "advance", "count", "signal", "clear"}
ReaderPc == {"caller", "take", "advance", "uncount", "release"}

(***************************************************************************)
(* SdpCreate: empty arenas in zeroed memory, BufCount - 1 write credits.   *)
(***************************************************************************)
PipeInit ==
    /\ writeBufIdx = 0
    /\ readBufIdx = 0
    /\ fullBuffersCount = 0
    /\ writeEvent = BufCount - 1
    /\ readEvent = 0
    /\ cur = [b \in Slot |-> 0]
    /\ mem = [b \in Slot |-> [i \in 1 .. ItemMax |-> 0]]
    /\ wpc = "caller"
    /\ rpc = "caller"
    /\ rbuf = 0

PipeTypeOK ==
    /\ writeBufIdx \in Slot
    /\ readBufIdx \in Slot
    /\ fullBuffersCount \in Int
    /\ writeEvent \in Nat
    /\ readEvent \in Nat
    /\ cur \in [Slot -> 0 .. ItemMax]
    /\ mem \in [Slot -> [1 .. ItemMax -> Nat]]
    /\ wpc \in WriterPc
    /\ rpc \in ReaderPc
    /\ rbuf \in Slot

-----------------------------------------------------------------------------
(* SdPipeGetWriteBuffer and SdPipeFlush.  Both publish the arena at        *)
(* WriteBufIdx and clear the next one; only the former returns it.  The    *)
(* flush leaves at once when the arena at WriteBufIdx is empty.            *)

CallGetWriteBuffer ==
    /\ wpc = "caller"
    /\ wpc' = "take"
    /\ UNCHANGED <<pipeIdx, writeEvent, readEvent, cur, mem, rpc, rbuf>>

CallFlush ==
    /\ wpc = "caller"
    /\ wpc' = IF cur[writeBufIdx] > 0 THEN "take" ELSE "caller"
    /\ UNCHANGED <<pipeIdx, writeEvent, readEvent, cur, mem, rpc, rbuf>>

\* Faulty variant: a semaphore eventfd, one credit at a time.
TakeOneCredit ==
    /\ wpc = "take"
    /\ writeEvent > 0
    /\ writeEvent' = writeEvent - 1
    /\ wpc' = "advance"
    /\ UNCHANGED <<pipeIdx, readEvent, cur, mem, rpc, rbuf>>

\* read(WriteEventFd) blocks at 0 and otherwise swallows every credit.
TakeWriteCredit ==
    /\ wpc = "take"
    /\ writeEvent > 0
    /\ writeEvent' = 0
    /\ wpc' = "advance"
    /\ UNCHANGED <<pipeIdx, readEvent, cur, mem, rpc, rbuf>>

\* The first atomic: atomic_store(&Pipe->WriteBufIdx, NextWriteBuf).
AdvanceWrite ==
    /\ wpc = "advance"
    /\ writeBufIdx' = NextSlot(writeBufIdx)
    /\ wpc' = "count"
    /\ UNCHANGED <<readBufIdx, fullBuffersCount, writeEvent, readEvent, cur, mem, rpc, rbuf>>

\* The second: atomic_fetch_add(&Pipe->FullBuffersCount, 1).
CountPublished ==
    /\ wpc = "count"
    /\ fullBuffersCount' = fullBuffersCount + 1
    /\ wpc' = "signal"
    /\ UNCHANGED <<writeBufIdx, readBufIdx, writeEvent, readEvent, cur, mem, rpc, rbuf>>

SignalReader ==
    /\ wpc = "signal"
    /\ readEvent' = readEvent + 1
    /\ wpc' = "clear"
    /\ UNCHANGED <<pipeIdx, writeEvent, cur, mem, rpc, rbuf>>

\* Faulty variant: the next arena is handed out as it is.
ClearForgotten ==
    /\ wpc = "clear"
    /\ wpc' = "caller"
    /\ UNCHANGED <<pipeIdx, writeEvent, readEvent, cur, mem, rpc, rbuf>>

\* SdbArenaClear resets Cur and leaves the bytes in place.
ClearNext ==
    /\ wpc = "clear"
    /\ cur' = [cur EXCEPT ![writeBufIdx] = 0]
    /\ wpc' = "caller"
    /\ UNCHANGED <<pipeIdx, writeEvent, readEvent, mem, rpc, rbuf>>

WriterPipeStep ==
    TakeWriteCredit \/ AdvanceWrite \/ CountPublished \/ SignalReader \/ ClearNext

-----------------------------------------------------------------------------
(* SdPipeGetReadBuffer.  The write credit goes back before the caller has  *)
(* looked at the arena it is about to be given.                            *)

CallGetReadBuffer ==
    /\ rpc = "caller"
    /\ rpc' = "take"
    /\ UNCHANGED <<pipeIdx, writeEvent, readEvent, cur, mem, wpc, rbuf>>

TakeReadEvent ==
    /\ rpc = "take"
    /\ readEvent > 0
    /\ readEvent' = 0
    /\ rpc' = "advance"
    /\ UNCHANGED <<pipeIdx, writeEvent, cur, mem, wpc, rbuf>>

\* Faulty variants: the read index stays, or moves by two.
AdvanceReadStays ==
    /\ rpc = "advance"
    /\ rbuf' = readBufIdx
    /\ rpc' = "uncount"
    /\ UNCHANGED <<pipeIdx, writeEvent, readEvent, cur, mem, wpc>>

AdvanceReadByTwo ==
    /\ rpc = "advance"
    /\ rbuf' = readBufIdx
    /\ readBufIdx' = NextSlot(NextSlot(readBufIdx))
    /\ rpc' = "uncount"
    /\ UNCHANGED <<writeBufIdx, fullBuffersCount, writeEvent, readEvent, cur, mem, wpc>>

\* The index moves first ...
AdvanceRead ==
    /\ rpc = "advance"
    /\ rbuf' = readBufIdx
    /\ readBufIdx' = NextSlot(readBufIdx)
    /\ rpc' = "uncount"
    /\ UNCHANGED <<writeBufIdx, fullBuffersCount, writeEvent, readEvent, cur, mem, wpc>>

\* ... and the count follows: atomic_fetch_sub(&Pipe->FullBuffersCount, 1).
CountTaken ==
    /\ rpc = "uncount"
    /\ fullBuffersCount' = fullBuffersCount - 1
    /\ rpc' = "release"
    /\ UNCHANGED <<writeBufIdx, readBufIdx, writeEvent, readEvent, cur, mem, wpc, rbuf>>

ReturnCredit ==
    /\ rpc = "release"
    /\ writeEvent' = writeEvent + 1
    /\ rpc' = "caller"
    /\ UNCHANGED <<pipeIdx, readEvent, cur, mem, wpc, rbuf>>

ReaderPipeStep == TakeReadEvent \/ AdvanceRead \/ CountTaken \/ ReturnCredit

-----------------------------------------------------------------------------
(* SdbArenaPush and the memcpy that follows it, by whichever thread holds  *)
(* arena b: Cur moves first, the bytes arrive in a later step.             *)

PushTo(b) ==
    /\ cur[b] < ItemMax
    /\ cur' = [cur EXCEPT ![b] = @ + 1]
    /\ UNCHANGED <<pipeIdx, writeEvent, readEvent, mem, wpc, rpc, rbuf>>

CopyTo(b, packet) ==
    /\ mem' = [mem EXCEPT ![b][cur[b]] = packet]
    /\ UNCHANGED <<pipeIdx, writeEvent, readEvent, cur, wpc, rpc, rbuf>>
=============================================================================

----------------------------- MODULE MbPgProofs -----------------------------
(***************************************************************************)
(* Proofs about module ModbusWithPostgres, for every number and size of    *)
(* arenas, every threshold and every bound:                                *)
(*   - the types, and that MbRun only ever pushes a packet into an arena   *)
(*     with room for it, although CurBuf may be out of step with the pipe; *)
(*   - what reaches the table while CurBuf has never been stale;           *)
(*   - and what a stale CurBuf can lose;                                   *)
(* and about EndToEnd, which adds the server's own table: that it has what *)
(* PgRun has been told, and the same two facts about it.                   *)
(***************************************************************************)
EXTENDS EndToEnd, TLAPS

\* MbRun is inside the pipe only when it rotates or flushes, and has a packet
\* left to copy when it copies.
WriterPlace ==
    /\ wpc # "caller" => mb \in {"rotated", "flushed"}
    /\ mb = "copy" => sent < MaxPackets

\* The arena MbRun is about to adopt has been cleared.
FreshArena == (mb = "rotated" /\ wpc = "caller") => cur[writeBufIdx] = 0

\* PgRun never reads past the arena.
RowsBounded == pg = "insert" => Len(txn) <= itemCount

IInv == TypeOK /\ WriterPlace /\ FreshArena /\ RowsBounded /\ RoomForPacket

-----------------------------------------------------------------------------
\* The ranges of the constants, in the form the steps below use.
LEMMA Ranges ==
    /\ BufCount \in Nat /\ BufCount >= 1 /\ ItemMax \in Nat /\ ItemMax >= 1
    /\ FailThreshold \in Nat /\ TimeoutThreshold \in Nat /\ TimeoutThreshold >= 1
    /\ MaxPackets \in Nat /\ MaxReconnects \in Nat
    /\ 0 \in Slot
    /\ \A b \in Slot : NextSlot(b) \in Slot
  BY BufCountAssumption, ItemMaxAssumption, ThresholdAssumption, BoundAssumption
  DEF Slot, NextSlot

\* Every initial state satisfies the invariant.
LEMMA InitIInv == Init => IInv
  BY Ranges DEF Init, PipeInit, IInv, TypeOK, PipeTypeOK, WriterPc, ReaderPc, MbPc, PgPc,
     WriterPlace, FreshArena, RowsBounded, RoomForPacket

(* Types of the pipe, one lemma per operation of SensorDataPipe.           *)

\* TakeWriteCredit keeps the types of the pipe.
LEMMA TakeWriteCreditTypes == ASSUME PipeTypeOK, TakeWriteCredit PROVE PipeTypeOK'
  BY Ranges DEF PipeTypeOK, TakeWriteCredit, WriterPc, ReaderPc, pipeIdx

\* AdvanceWrite keeps the types of the pipe.
LEMMA AdvanceWriteTypes == ASSUME PipeTypeOK, AdvanceWrite PROVE PipeTypeOK'
  BY Ranges, SMTT(60) DEF PipeTypeOK, AdvanceWrite, WriterPc, ReaderPc, pipeIdx

\* CountPublished keeps the types of the pipe.
LEMMA CountPublishedTypes == ASSUME PipeTypeOK, CountPublished PROVE PipeTypeOK'
  BY DEF PipeTypeOK, CountPublished, WriterPc, ReaderPc

\* SignalReader keeps the types of the pipe.
LEMMA SignalReaderTypes == ASSUME PipeTypeOK, SignalReader PROVE PipeTypeOK'
  BY Ranges DEF PipeTypeOK, SignalReader, WriterPc, ReaderPc, pipeIdx

\* ClearNext keeps the types of the pipe.
LEMMA ClearNextTypes == ASSUME PipeTypeOK, ClearNext PROVE PipeTypeOK'
  BY Ranges, SMTT(60) DEF PipeTypeOK, ClearNext, WriterPc, ReaderPc, pipeIdx

\* TakeReadEvent keeps the types of the pipe.
LEMMA TakeReadEventTypes == ASSUME PipeTypeOK, TakeReadEvent PROVE PipeTypeOK'
  BY Ranges DEF PipeTypeOK, TakeReadEvent, WriterPc, ReaderPc, pipeIdx

\* AdvanceRead keeps the types of the pipe.
LEMMA AdvanceReadTypes == ASSUME PipeTypeOK, AdvanceRead PROVE PipeTypeOK'
  BY Ranges, SMTT(60) DEF PipeTypeOK, AdvanceRead, WriterPc, ReaderPc, pipeIdx

\* CountTaken keeps the types of the pipe.
LEMMA CountTakenTypes == ASSUME PipeTypeOK, CountTaken PROVE PipeTypeOK'
  BY DEF PipeTypeOK, CountTaken, WriterPc, ReaderPc

\* ReturnCredit keeps the types of the pipe.
LEMMA ReturnCreditTypes == ASSUME PipeTypeOK, ReturnCredit PROVE PipeTypeOK'
  BY Ranges DEF PipeTypeOK, ReturnCredit, WriterPc, ReaderPc, pipeIdx

\* CallGetWriteBuffer keeps the types of the pipe.
LEMMA CallGetWriteBufferTypes == ASSUME PipeTypeOK, CallGetWriteBuffer PROVE PipeTypeOK'
  BY Ranges DEF PipeTypeOK, CallGetWriteBuffer, WriterPc, ReaderPc, pipeIdx

\* CallFlush keeps the types of the pipe.
LEMMA CallFlushTypes == ASSUME PipeTypeOK, CallFlush PROVE PipeTypeOK'
  BY Ranges DEF PipeTypeOK, CallFlush, WriterPc, ReaderPc, pipeIdx

\* CallGetReadBuffer keeps the types of the pipe.
LEMMA CallGetReadBufferTypes == ASSUME PipeTypeOK, CallGetReadBuffer PROVE PipeTypeOK'
  BY Ranges DEF PipeTypeOK, CallGetReadBuffer, WriterPc, ReaderPc, pipeIdx

\* PushTo(b) keeps the types of the pipe.
LEMMA PushToTypes == ASSUME PipeTypeOK, NEW b \in Slot, PushTo(b) PROVE PipeTypeOK'
<1>1. cur \in [Slot -> 0 .. ItemMax] /\ cur[b] < ItemMax
  BY DEF PipeTypeOK, PushTo
<1>2. cur[b] + 1 \in 0 .. ItemMax
  BY <1>1, ItemMaxAssumption
<1>3. cur' \in [Slot -> 0 .. ItemMax]
  BY <1>1, <1>2 DEF PushTo
<1> QED
  BY <1>3 DEF PipeTypeOK, PushTo, pipeIdx

\* CopyTo(b, p) keeps the types of the pipe.
LEMMA CopyToTypes == ASSUME PipeTypeOK, NEW b \in Slot, NEW p \in Nat, CopyTo(b, p) PROVE PipeTypeOK'
  BY Ranges DEF PipeTypeOK, CopyTo, WriterPc, ReaderPc, pipeIdx

\* Steps that leave the pipe alone.
LEMMA PipeUnchanged == ASSUME PipeTypeOK, UNCHANGED pipeVars PROVE PipeTypeOK'
  BY DEF PipeTypeOK, pipeVars

\* Every step keeps the types of the pipe.
LEMMA PipeTypeStep ==
    ASSUME TypeOK, [Next]_vars
    PROVE  PipeTypeOK'
<1>1. PipeTypeOK /\ curBuf \in Slot /\ sent + 1 \in Nat
  BY Ranges DEF TypeOK
<1>2. CASE MbStep
  <2>1. ASSUME WriterPipeStep PROVE PipeTypeOK'
    BY <1>1, <2>1, TakeWriteCreditTypes, AdvanceWriteTypes, CountPublishedTypes, SignalReaderTypes,
       ClearNextTypes
    DEF WriterPipeStep
  <2>2. CASE ReceiveLoop
    BY <1>1, <2>2, CallGetWriteBufferTypes, PipeUnchanged DEF ReceiveLoop
  <2>3. CASE ReceivePacket
    BY <1>1, <2>3, PushToTypes DEF ReceivePacket
  <2>4. CASE CopyPacket
    BY <1>1, <2>4, CopyToTypes DEF CopyPacket
  <2>5. CASE Reconnect
    BY <1>1, <2>5, CallFlushTypes DEF Reconnect
  <2>6. CASE Connect \/ Rotated \/ ReceiveTimeout \/ ReceiveFailure \/ CloseConnection
    BY <1>1, <2>6, PipeUnchanged
    DEF Connect, Rotated, ReceiveTimeout, ReceiveFailure, CloseConnection
  <2> QED
    BY <1>2, <2>1, <2>2, <2>3, <2>4, <2>5, <2>6 DEF MbStep
<1>3. CASE PgStep
  <2>1. ASSUME ReaderPipeStep PROVE PipeTypeOK'
    BY <1>1, <2>1, TakeReadEventTypes, AdvanceReadTypes, CountTakenTypes, ReturnCreditTypes
    DEF ReaderPipeStep
  <2>2. CASE EpollReady \/ NextReadBuffer
    BY <1>1, <2>2, CallGetReadBufferTypes DEF EpollReady, NextReadBuffer
  <2>3. CASE EpollTimeout
    BY <1>1, <2>3, CallGetReadBufferTypes, PipeUnchanged DEF EpollTimeout
  <2>4. CASE PgLoop \/ CountItems \/ ReadRow \/ InsertCommits \/ InsertFails
    BY <1>1, <2>4, PipeUnchanged DEF PgLoop, CountItems, ReadRow, InsertCommits, InsertFails
  <2> QED
    BY <1>3, <2>1, <2>2, <2>3, <2>4 DEF PgStep
<1>4. CASE RequestShutdown \/ UNCHANGED vars
  BY <1>1, <1>4, PipeUnchanged DEF RequestShutdown, vars
<1> QED
  BY <1>2, <1>3, <1>4 DEF Next, Ended

-----------------------------------------------------------------------------
(* The other types, and the invariant.                                     *)

\* The types of MbRun's and PgRun's own variables.
MbTypeOK ==
    /\ shutdown \in BOOLEAN /\ mb \in MbPc /\ curBuf \in Slot
    /\ sent \in 0 .. MaxPackets /\ reconnects \in 0 .. MaxReconnects
    /\ stray \subseteq 1 .. MaxPackets
PgTypeOK ==
    /\ pg \in PgPc /\ itemCount \in 0 .. ItemMax
    /\ txn \in Seq(Nat) /\ table \in Seq(Nat) /\ discarded \subseteq Nat
    /\ totalInserted \in Nat /\ failCount \in 0 .. FailThreshold
    /\ timeouts \in 0 .. TimeoutThreshold
    /\ pgRet \in {"ok", "timedout", "ioerror", "failed"}

\* Every step keeps the types of MbRun's variables.
LEMMA MbTypeStep ==
    ASSUME TypeOK, WriterPlace, [Next]_vars
    PROVE  MbTypeOK'
<1> USE Ranges DEF TypeOK, PipeTypeOK, MbTypeOK, MbPc, WriterPlace, mbVars
<1>1. CASE Connect \/ ReceiveLoop \/ Rotated \/ ReceiveTimeout \/ ReceiveFailure
          \/ ReceivePacket \/ CopyPacket \/ Reconnect \/ CloseConnection
  <2>1. CASE Connect \/ ReceiveLoop \/ Rotated \/ ReceiveTimeout
    BY <2>1 DEF Connect, ReceiveLoop, Rotated, ReceiveTimeout
  <2>2. CASE ReceiveFailure
    BY <2>2 DEF ReceiveFailure
  <2>3. CASE Reconnect \/ CloseConnection
    BY <2>3 DEF Reconnect, CloseConnection
  <2>4. CASE CopyPacket
    <3>1. sent + 1 \in 1 .. MaxPackets
      BY <2>4 DEF CopyPacket
    <3> QED
      BY <2>4, <3>1 DEF CopyPacket
  <2>5. CASE ReceivePacket
    <3>1. sent + 1 \in 1 .. MaxPackets
      BY <2>5 DEF ReceivePacket
    <3>2. stray' \subseteq 1 .. MaxPackets
      BY <2>5, <3>1 DEF ReceivePacket
    <3> QED
      BY <2>5, <3>2 DEF ReceivePacket
  <2> QED
    BY <1>1, <2>1, <2>2, <2>3, <2>4, <2>5
<1>2. CASE WriterPipeStep /\ UNCHANGED <<shutdown, mbVars, pgVars>>
  BY <1>2 DEF WriterPipeStep
<1>3. CASE ReaderPipeStep /\ UNCHANGED <<shutdown, mbVars, pgVars>>
  BY <1>3 DEF ReaderPipeStep
<1>4. CASE PgLoop \/ EpollReady \/ EpollTimeout \/ CountItems \/ ReadRow \/ InsertCommits
          \/ InsertFails \/ NextReadBuffer
  BY <1>4 DEF PgLoop, EpollReady, EpollTimeout, CountItems, ReadRow, InsertCommits, InsertFails, NextReadBuffer
<1>5. CASE RequestShutdown
  BY <1>5 DEF RequestShutdown
<1>6. CASE UNCHANGED vars
  BY <1>6 DEF vars
<1> QED
  BY <1>1, <1>2, <1>3, <1>4, <1>5, <1>6 DEF Next, Ended, MbStep, PgStep

\* Every step keeps the types of PgRun's variables.
LEMMA PgTypeStep ==
    ASSUME TypeOK, RowsBounded, [Next]_vars
    PROVE  PgTypeOK' /\ RowsBounded'
<1> USE Ranges DEF PgTypeOK, PgPc, RowsBounded, pgVars
<1>1. CASE Connect \/ ReceiveLoop \/ Rotated \/ ReceiveTimeout \/ ReceiveFailure
          \/ ReceivePacket \/ CopyPacket \/ Reconnect \/ CloseConnection
  BY <1>1 DEF TypeOK, Connect, ReceiveLoop, Rotated, ReceiveTimeout, ReceiveFailure, ReceivePacket, CopyPacket,
     Reconnect, CloseConnection
<1>2. CASE WriterPipeStep /\ UNCHANGED <<shutdown, mbVars, pgVars>>
  BY <1>2 DEF TypeOK, WriterPipeStep
<1>3. CASE ReaderPipeStep /\ UNCHANGED <<shutdown, mbVars, pgVars>>
  BY <1>3 DEF TypeOK, ReaderPipeStep
<1>4. CASE PgLoop \/ EpollReady \/ NextReadBuffer
  BY <1>4 DEF TypeOK, PgLoop, EpollReady, NextReadBuffer
<1>5. CASE EpollTimeout
  BY <1>5 DEF TypeOK, EpollTimeout
<1>6. CASE CountItems
  <2>1. cur[rbuf] \in 0 .. ItemMax
    BY DEF TypeOK, PipeTypeOK
  <2>2. totalInserted + cur[rbuf] \in Nat /\ << >> \in Seq(Nat) /\ Len(<< >>) = 0
    BY <2>1 DEF TypeOK
  <2> QED
    BY <1>6, <2>1, <2>2 DEF TypeOK, CountItems
<1>7. CASE ReadRow
  <2>1. Len(txn) + 1 \in 1 .. ItemMax /\ rbuf \in Slot /\ txn \in Seq(Nat)
    BY <1>7 DEF TypeOK, PipeTypeOK, ReadRow
  <2>2. mem[rbuf][Len(txn) + 1] \in Nat
    BY <2>1 DEF TypeOK, PipeTypeOK
  <2>3. txn' \in Seq(Nat) /\ Len(txn') = Len(txn) + 1
    BY <1>7, <2>1, <2>2 DEF ReadRow
  <2> QED
    BY <1>7, <2>1, <2>3 DEF TypeOK, ReadRow
<1>8. CASE InsertCommits
  BY <1>8 DEF TypeOK, InsertCommits
<1>9. CASE InsertFails
  <2>1. Range(txn) \subseteq Nat
    BY DEF TypeOK, Range
  <2>2. failCount' \in 0 .. FailThreshold
    BY <1>9, Ranges DEF TypeOK, InsertFails
  <2>3. discarded' \subseteq Nat /\ pg' \in PgPc /\ pg' # "insert"
    BY <1>9, <2>1 DEF TypeOK, InsertFails
  <2>4. pgRet' \in {"ok", "timedout", "ioerror", "failed"}
    BY <1>9 DEF TypeOK, InsertFails
  <2> QED
    BY <1>9, <2>2, <2>3, <2>4 DEF TypeOK, InsertFails
<1>10. CASE RequestShutdown
  BY <1>10 DEF TypeOK, RequestShutdown
<1>11. CASE UNCHANGED vars
  BY <1>11 DEF TypeOK, vars
<1> QED
  BY <1>1, <1>2, <1>3, <1>4, <1>5, <1>6, <1>7, <1>8, <1>9, <1>10, <1>11 DEF Next, Ended, MbStep, PgStep

\* Every step keeps MbRun in its place and the next arena fresh.
LEMMA PlaceStep ==
    ASSUME IInv, [Next]_vars
    PROVE  WriterPlace' /\ FreshArena' /\ RoomForPacket'
<1> USE Ranges DEF IInv, TypeOK, PipeTypeOK, WriterPlace, FreshArena, RoomForPacket
<1>1. CASE Connect \/ ReceiveTimeout \/ ReceiveFailure \/ CloseConnection
  BY <1>1 DEF Connect, ReceiveTimeout, ReceiveFailure, CloseConnection, pipeVars
<1>2. CASE ReceiveLoop
  <2>1. CASE shutdown
    BY <1>2, <2>1 DEF ReceiveLoop, pipeVars
  <2>2. CASE ~shutdown /\ cur[curBuf] = ItemMax
    <3>1. CallGetWriteBuffer /\ mb' = "rotated" /\ curBuf' = curBuf
      BY <1>2, <2>2 DEF ReceiveLoop
    <3>2. wpc' = "take" /\ cur' = cur /\ writeBufIdx' = writeBufIdx /\ sent' = sent
      BY <1>2, <3>1 DEF ReceiveLoop, CallGetWriteBuffer, pipeIdx
    <3> QED
      BY <3>1, <3>2
  <2>3. CASE ~shutdown /\ cur[curBuf] # ItemMax
    <3>1. /\ mb' = "recv" /\ curBuf' = curBuf /\ cur' = cur /\ wpc' = wpc
          /\ writeBufIdx' = writeBufIdx /\ sent' = sent
      BY <1>2, <2>3 DEF ReceiveLoop, pipeVars
    <3>2. cur[curBuf] \in 0 .. ItemMax
      OBVIOUS
    <3> QED
      BY <1>2, <2>3, <3>1, <3>2 DEF ReceiveLoop
  <2> QED
    BY <2>1, <2>2, <2>3
<1>3. CASE Rotated
  BY <1>3 DEF Rotated, pipeVars
<1>4. CASE ReceivePacket
  BY <1>4 DEF ReceivePacket, PushTo, pipeIdx
<1>5. CASE CopyPacket
  BY <1>5 DEF CopyPacket, CopyTo, pipeIdx
<1>6. CASE Reconnect
  BY <1>6 DEF Reconnect, CallFlush, pipeIdx
<1>7. CASE WriterPipeStep /\ UNCHANGED <<shutdown, mbVars, pgVars>>
  BY <1>7 DEF WriterPipeStep, TakeWriteCredit, AdvanceWrite, CountPublished, SignalReader, ClearNext,
            mbVars, pipeIdx
<1>8. CASE ReaderPipeStep /\ UNCHANGED <<shutdown, mbVars, pgVars>>
  BY <1>8 DEF ReaderPipeStep, TakeReadEvent, AdvanceRead, CountTaken, ReturnCredit, mbVars, pipeIdx
<1>9. CASE PgLoop \/ EpollReady \/ EpollTimeout \/ CountItems \/ ReadRow \/ InsertCommits
          \/ InsertFails \/ NextReadBuffer
  BY <1>9 DEF PgLoop, EpollReady, EpollTimeout, CountItems, ReadRow, InsertCommits, InsertFails, NextReadBuffer,
     CallGetReadBuffer, mbVars, pipeVars, pipeIdx
<1>10. CASE RequestShutdown
  BY <1>10 DEF RequestShutdown, mbVars, pipeVars
<1>11. CASE UNCHANGED vars
  BY <1>11 DEF vars, mbVars, pipeVars
<1> QED
  BY <1>1, <1>2, <1>3, <1>4, <1>5, <1>6, <1>7, <1>8, <1>9, <1>10, <1>11 DEF Next, Ended, MbStep, PgStep

\* The invariant holds in every reachable state.
LEMMA Invariance == Spec => []IInv
<1>1. Init => IInv
  BY InitIInv
<1>2. IInv /\ [Next]_vars => IInv'
  BY PipeTypeStep, MbTypeStep, PgTypeStep, PlaceStep DEF IInv, TypeOK, MbTypeOK, PgTypeOK
<1> QED
  BY <1>1, <1>2, PTL DEF Spec

\* The variables of both threads and the pipe keep their types.
THEOREM TypeCorrect == Spec => []TypeOK
<1>1. IInv => TypeOK
  BY DEF IInv
<1> QED
  BY <1>1, Invariance, PTL

\* The assertion at the head of MbRun's receive loop never fails and the push
\* behind it never finds the arena full, for every interleaving with PgRun,
\* every pattern of broken connections and every number of arenas.
THEOREM PushAlwaysFits == Spec => []RoomForPacket
<1>1. IInv => RoomForPacket
  BY DEF IInv
<1> QED
  BY <1>1, Invariance, PTL

-----------------------------------------------------------------------------
(* What reaches the table, for every ring of three arenas or more, every   *)
(* size of them, every threshold and every pattern of failures and broken  *)
(* connections.                                                            *)
(*                                                                         *)
(* As long as MbRun pushes only where the pipe writes (stray is empty),    *)
(* the packets received last are in the arena being filled, those before   *)
(* them in the one on its way, those before in the one PgRun holds, and    *)
(* everything older has been inserted or was in an insert that failed.     *)

\* PgRun is working on an arena: it has been given it and has neither
\* committed nor rolled back.
Held == pg \in {"count", "insert"} /\ rpc \in {"uncount", "release", "caller"}

\* An arena has been published and PgRun has not moved past it yet.
Outstanding == wpc \in {"count", "signal"} \/ readEvent = 1 \/ rpc = "advance"

\* Nothing has been published yet and SdpCreate's credits are all there.
Fresh ==
    /\ writeEvent = BufCount - 1 /\ readEvent = 0
    /\ wpc \in {"caller", "take"} /\ rpc \in {"caller", "take"} /\ ~Held
    /\ writeBufIdx = readBufIdx

\* From the first publication on one token circulates.
OneToken ==
    LET writerHasIt == wpc \in {"advance", "count", "signal"}
        readerHasIt == rpc \in {"advance", "uncount", "release"}
    IN  \/ writeEvent = 1 /\ readEvent = 0 /\ ~writerHasIt /\ ~readerHasIt
        \/ writeEvent = 0 /\ readEvent = 0 /\ writerHasIt /\ ~readerHasIt
        \/ writeEvent = 0 /\ readEvent = 1 /\ ~writerHasIt /\ ~readerHasIt
        \/ writeEvent = 0 /\ readEvent = 0 /\ ~writerHasIt /\ readerHasIt

Tokens ==
    /\ Fresh \/ OneToken
    /\ writeBufIdx = IF Outstanding THEN NextSlot(readBufIdx) ELSE readBufIdx
    /\ Held => NextSlot(rbuf) = readBufIdx
    /\ pg # "count" => rpc = "caller"

\* The packets in each of the three places.
OpenCount ==
    IF wpc \in {"count", "signal", "clear"} THEN 0
    ELSE IF mb = "copy" THEN cur[writeBufIdx] - 1 ELSE cur[writeBufIdx]
InFlight == IF Outstanding THEN cur[readBufIdx] ELSE 0
Taken == IF Held THEN cur[rbuf] ELSE 0

\* The last packet before those of the place.
OpenBase == sent - OpenCount
FlightBase == sent - OpenCount - InFlight
HeldBase == sent - OpenCount - InFlight - Taken

\* mem[b] has the packets that follow base.
Holds(b, count, base) == \A i \in 1 .. count : mem[b][i] = base + i

Arenas ==
    /\ mb = "copy" => curBuf = writeBufIdx /\ cur[writeBufIdx] > 0
    /\ Holds(writeBufIdx, OpenCount, OpenBase)
    /\ Holds(readBufIdx, InFlight, FlightBase)
    /\ Holds(rbuf, Taken, HeldBase)

Inserting ==
    pg = "insert" =>
        /\ itemCount = cur[rbuf]
        /\ \A i \in 1 .. Len(txn) : txn[i] = HeldBase + i

Inserted ==
    /\ HeldBase >= 0
    /\ \A i \in 1 .. Len(table) : table[i] \in 1 .. HeldBase
    /\ \A i, j \in 1 .. Len(table) : i < j => table[i] < table[j]
    /\ \A p \in 1 .. HeldBase : p \in Rows \cup discarded

Contents == Arenas /\ Inserting /\ Inserted

TInv == IInv /\ Tokens /\ (stray = {} => Contents)

-----------------------------------------------------------------------------
\* The slot behind b, without the remainder.
LEMMA NextSlotIs ==
    ASSUME NEW b \in Slot
    PROVE  /\ NextSlot(b) \in Slot
           /\ NextSlot(b) = IF b = BufCount - 1 THEN 0 ELSE b + 1
<1>1. CASE b = BufCount - 1
  BY <1>1, BufCountAssumption DEF NextSlot, Slot
<1>2. CASE b # BufCount - 1
  BY <1>2, BufCountAssumption DEF NextSlot, Slot
<1> QED
  BY <1>1, <1>2

\* The types the steps below use.
LEMMA Typed ==
    ASSUME IInv
    PROVE  /\ writeBufIdx \in Slot /\ readBufIdx \in Slot /\ rbuf \in Slot /\ curBuf \in Slot
           /\ cur \in [Slot -> 0 .. ItemMax] /\ mem \in [Slot -> [1 .. ItemMax -> Nat]]
           /\ sent \in Nat /\ itemCount \in Nat
           /\ txn \in Seq(Nat) /\ table \in Seq(Nat) /\ Len(txn) \in Nat /\ Len(table) \in Nat
           /\ wpc \in WriterPc /\ rpc \in ReaderPc /\ mb \in MbPc /\ pg \in PgPc
           /\ readEvent \in Nat /\ writeEvent \in Nat
           /\ \A b \in Slot : cur[b] \in Nat
<1>1. TypeOK
  BY DEF IInv
<1>2. sent \in 0 .. MaxPackets /\ itemCount \in 0 .. ItemMax /\ MaxPackets \in Nat /\ ItemMax \in Nat
  BY <1>1, Ranges DEF TypeOK
<1>3. /\ writeBufIdx \in Slot /\ readBufIdx \in Slot /\ rbuf \in Slot /\ curBuf \in Slot
      /\ cur \in [Slot -> 0 .. ItemMax] /\ mem \in [Slot -> [1 .. ItemMax -> Nat]]
      /\ wpc \in WriterPc /\ rpc \in ReaderPc /\ mb \in MbPc /\ pg \in PgPc
      /\ readEvent \in Nat /\ writeEvent \in Nat /\ txn \in Seq(Nat) /\ table \in Seq(Nat)
  BY <1>1 DEF TypeOK, PipeTypeOK
<1>4. \A b \in Slot : cur[b] \in Nat
  BY <1>2, <1>3
<1>5. Len(txn) \in Nat /\ Len(table) \in Nat
  BY <1>3
<1>6. sent \in Nat /\ itemCount \in Nat
  BY <1>2
<1> QED
  BY <1>3, <1>4, <1>5, <1>6

\* The counts of packets are numbers.
LEMMA Counts ==
    ASSUME IInv
    PROVE  OpenCount \in Int /\ InFlight \in Nat /\ Taken \in Nat /\ sent \in Nat
  BY Typed DEF OpenCount, InFlight, Taken

\* The initial state: an empty pipe, and nothing inserted.
LEMMA TableInit ==
    ASSUME BufCount >= 2, Init
    PROVE  Tokens /\ Contents
  BY BufCountAssumption, ItemMaxAssumption
     DEF Init, PipeInit, Tokens, Fresh, Held, Outstanding, OpenCount, InFlight, Taken, OpenBase,
         FlightBase, HeldBase, Holds, Arenas, Inserting, Inserted, Contents, Slot

-----------------------------------------------------------------------------
\* The first publication swallows the credits; every later step moves the token.
LEMMA TokensStep ==
    ASSUME BufCount >= 2, IInv, Tokens, [Next]_vars
    PROVE  Tokens'
<1> USE BufCountAssumption, Typed
        DEF Tokens, Fresh, OneToken, Outstanding, Held, pipeIdx, pipeVars, mbVars, pgVars,
            WriterPc, ReaderPc
<1>1. CASE Connect \/ Rotated \/ ReceiveTimeout \/ ReceiveFailure \/ CloseConnection
  BY <1>1 DEF Connect, Rotated, ReceiveTimeout, ReceiveFailure, CloseConnection
<1>2. CASE ReceivePacket \/ CopyPacket
  BY <1>2 DEF ReceivePacket, CopyPacket, PushTo, CopyTo
<1>3. CASE ReceiveLoop \/ Reconnect
  BY <1>3 DEF ReceiveLoop, Reconnect, CallGetWriteBuffer, CallFlush
<1>4. CASE WriterPipeStep /\ UNCHANGED <<shutdown, mbVars, pgVars>>
  <2>1. CASE TakeWriteCredit
    BY <1>4, <2>1 DEF TakeWriteCredit
  <2>2. CASE AdvanceWrite
    BY <1>4, <2>2 DEF AdvanceWrite
  <2>3. CASE CountPublished
    BY <1>4, <2>3 DEF CountPublished
  <2>4. CASE SignalReader
    BY <1>4, <2>4 DEF SignalReader
  <2>5. CASE ClearNext
    BY <1>4, <2>5 DEF ClearNext
  <2> QED
    BY <1>4, <2>1, <2>2, <2>3, <2>4, <2>5 DEF WriterPipeStep
<1>5. CASE ReaderPipeStep /\ UNCHANGED <<shutdown, mbVars, pgVars>>
  <2>1. CASE TakeReadEvent
    BY <1>5, <2>1 DEF TakeReadEvent
  <2>2. CASE AdvanceRead
    BY <1>5, <2>2 DEF AdvanceRead
  <2>3. CASE CountTaken
    BY <1>5, <2>3 DEF CountTaken
  <2>4. CASE ReturnCredit
    BY <1>5, <2>4 DEF ReturnCredit
  <2> QED
    BY <1>5, <2>1, <2>2, <2>3, <2>4 DEF ReaderPipeStep
<1>6. CASE EpollReady \/ EpollTimeout \/ NextReadBuffer
  BY <1>6 DEF EpollReady, EpollTimeout, NextReadBuffer, CallGetReadBuffer
<1>7. CASE PgLoop \/ CountItems \/ ReadRow \/ InsertCommits \/ InsertFails
  BY <1>7 DEF PgLoop, CountItems, ReadRow, InsertCommits, InsertFails
<1>8. CASE RequestShutdown
  BY <1>8 DEF RequestShutdown
<1>9. CASE UNCHANGED vars
  BY <1>9 DEF vars
<1> QED
  BY <1>1, <1>2, <1>3, <1>4, <1>5, <1>6, <1>7, <1>8, <1>9 DEF Next, MbStep, PgStep, Ended

\* With three arenas the held one, the one on its way and the open one differ.
LEMMA ArenasApart ==
    ASSUME BufCount >= 3, IInv, Tokens
    PROVE  /\ Held => rbuf # writeBufIdx
           /\ Held /\ Outstanding => rbuf # readBufIdx
           /\ Outstanding => readBufIdx # writeBufIdx
<1>1. ASSUME NEW b \in Slot
      PROVE  NextSlot(b) # b /\ NextSlot(NextSlot(b)) # b
  <2>1. /\ NextSlot(b) \in Slot
        /\ NextSlot(b) = IF b = BufCount - 1 THEN 0 ELSE b + 1
    BY NextSlotIs
  <2>2. NextSlot(NextSlot(b)) = IF NextSlot(b) = BufCount - 1 THEN 0 ELSE NextSlot(b) + 1
    BY <2>1, NextSlotIs
  <2> QED
    BY <2>1, <2>2, BufCountAssumption DEF Slot
<1> QED
  BY <1>1, Typed DEF Tokens

-----------------------------------------------------------------------------
(* What becomes of the packets, one lemma per kind of step.                *)

\* Steps that move no packet and no row.
LEMMA QuietStep ==
    ASSUME IInv, Contents,
           UNCHANGED <<writeBufIdx, readBufIdx, rbuf, cur, mem, sent, table, discarded, txn, itemCount>>,
           Held' <=> Held, Outstanding' <=> Outstanding, OpenCount' = OpenCount,
           mb' = "copy" => mb = "copy" /\ curBuf' = curBuf,
           pg' = "insert" => pg = "insert"
    PROVE  Contents'
<1>1. InFlight' = InFlight /\ Taken' = Taken
  BY DEF InFlight, Taken
<1>2. OpenBase' = OpenBase /\ FlightBase' = FlightBase /\ HeldBase' = HeldBase
  BY <1>1 DEF OpenBase, FlightBase, HeldBase
<1>3. Arenas'
  BY <1>1, <1>2 DEF Contents, Arenas, Holds
<1>4. Inserting' /\ Inserted'
  BY <1>2 DEF Contents, Inserting, Inserted, Rows
<1> QED
  BY <1>3, <1>4 DEF Contents

\* A push into the pipe's own arena: the packet counts once its bytes are there.
LEMMA PushStep ==
    ASSUME BufCount >= 3, IInv, Tokens, Contents, ReceivePacket, stray' = {}
    PROVE  Contents'
<1>1. /\ curBuf = writeBufIdx /\ wpc = "caller" /\ mb = "recv" /\ mb' = "copy" /\ curBuf' = curBuf
      /\ cur' = [cur EXCEPT ![writeBufIdx] = @ + 1]
      /\ UNCHANGED <<writeBufIdx, readBufIdx, rbuf, mem, wpc, rpc, readEvent, sent, pg,
                     table, discarded, txn, itemCount>>
  BY DEF ReceivePacket, PushTo, pipeIdx, pgVars, IInv, WriterPlace
<1>2. /\ cur'[writeBufIdx] = cur[writeBufIdx] + 1
      /\ \A b \in Slot : b # writeBufIdx => cur'[b] = cur[b]
  BY <1>1, Typed
<1>3. OpenCount' = OpenCount /\ cur'[writeBufIdx] > 0
  <2>1. cur[writeBufIdx] \in Nat
    BY Typed
  <2> QED
    BY <1>1, <1>2, <2>1 DEF OpenCount
<1>4. (Held' <=> Held) /\ (Outstanding' <=> Outstanding)
  BY <1>1 DEF Held, Outstanding
<1>5. InFlight' = InFlight /\ Taken' = Taken
  BY <1>1, <1>2, <1>4, ArenasApart, Typed DEF InFlight, Taken
<1>6. OpenBase' = OpenBase /\ FlightBase' = FlightBase /\ HeldBase' = HeldBase
  BY <1>1, <1>3, <1>5 DEF OpenBase, FlightBase, HeldBase
<1>7. Arenas'
  BY <1>1, <1>3, <1>5, <1>6 DEF Contents, Arenas, Holds
<1>8. Inserting'
  <2>1. pg = "insert" => rpc = "caller"
    BY DEF Tokens
  <2>2. pg = "insert" => cur'[rbuf] = cur[rbuf]
    BY <1>2, <2>1, ArenasApart, Typed DEF Held
  <2> QED
    BY <1>1, <1>6, <2>2 DEF Contents, Inserting
<1>9. Inserted'
  BY <1>1, <1>6 DEF Contents, Inserted, Rows
<1> QED
  BY <1>7, <1>8, <1>9 DEF Contents

\* The packet that MbRun copies is the next one of the open arena (Modbus.c:202-203).
LEMMA CopyStep ==
    ASSUME BufCount >= 3, IInv, Tokens, Contents, CopyPacket
    PROVE  Contents'
<1>1. /\ curBuf = writeBufIdx /\ wpc = "caller" /\ mb = "copy" /\ mb' = "loop"
      /\ mem' = [mem EXCEPT ![writeBufIdx][cur[writeBufIdx]] = sent + 1] /\ sent' = sent + 1
      /\ UNCHANGED <<writeBufIdx, readBufIdx, rbuf, cur, wpc, rpc, readEvent, pg,
                     table, discarded, txn, itemCount>>
  BY DEF CopyPacket, CopyTo, pipeIdx, pgVars, IInv, WriterPlace, Contents, Arenas
<1>2. /\ OpenCount = cur[writeBufIdx] - 1 /\ OpenCount' = cur[writeBufIdx]
      /\ cur[writeBufIdx] \in 1 .. ItemMax /\ sent \in Nat
  <2>1. cur[writeBufIdx] \in 0 .. ItemMax /\ cur[writeBufIdx] > 0 /\ ItemMax \in Nat /\ sent \in Nat
    BY <1>1, Typed, Ranges DEF Contents, Arenas
  <2> QED
    BY <1>1, <2>1 DEF OpenCount
<1>3. /\ mem'[writeBufIdx][cur[writeBufIdx]] = sent + 1
      /\ \A i \in 1 .. OpenCount : mem'[writeBufIdx][i] = mem[writeBufIdx][i]
      /\ \A b \in Slot : b # writeBufIdx => mem'[b] = mem[b]
  <2>1. mem[writeBufIdx] \in [1 .. ItemMax -> Nat]
    BY Typed
  <2>2. mem'[writeBufIdx] = [mem[writeBufIdx] EXCEPT ![cur[writeBufIdx]] = sent + 1]
    BY <1>1, Typed, ZenonT(30)
  <2>3. mem'[writeBufIdx][cur[writeBufIdx]] = sent + 1
    BY <1>2, <2>1, <2>2
  <2>4. ASSUME NEW i \in 1 .. OpenCount
        PROVE  mem'[writeBufIdx][i] = mem[writeBufIdx][i]
    <3>1. i # cur[writeBufIdx] /\ i \in 1 .. ItemMax
      BY <1>2, Ranges
    <3> QED
      BY <2>1, <2>2, <3>1
  <2>5. ASSUME NEW b \in Slot, b # writeBufIdx
        PROVE  mem'[b] = mem[b]
    BY <1>1, Typed, <2>5, ZenonT(30)
  <2> QED
    BY <2>3, <2>4, <2>5
<1>4. (Held' <=> Held) /\ (Outstanding' <=> Outstanding)
  BY <1>1 DEF Held, Outstanding
<1>5. InFlight' = InFlight /\ Taken' = Taken
  BY <1>1, <1>4 DEF InFlight, Taken
<1>6. OpenBase' = OpenBase /\ FlightBase' = FlightBase /\ HeldBase' = HeldBase
  <2>1. sent' - OpenCount' = sent - OpenCount
    BY <1>1, <1>2
  <2> QED
    BY <1>5, <2>1 DEF OpenBase, FlightBase, HeldBase
<1>7. Holds(writeBufIdx, OpenCount, OpenBase)'
  <2> SUFFICES ASSUME NEW i \in 1 .. OpenCount' PROVE mem'[writeBufIdx][i] = OpenBase + i
    BY <1>1, <1>6 DEF Holds
  <2>1. CASE i = cur[writeBufIdx]
    BY <1>2, <1>3, <2>1 DEF OpenBase
  <2>2. CASE i # cur[writeBufIdx]
    <3>1. i \in 1 .. OpenCount
      BY <1>2, <2>2
    <3> QED
      BY <1>3, <3>1 DEF Contents, Arenas, Holds
  <2> QED
    BY <2>1, <2>2
<1>8. Holds(readBufIdx, InFlight, FlightBase)'
  <2>1. CASE Outstanding
    BY <1>1, <1>3, <1>5, <1>6, <2>1, ArenasApart, Typed DEF Contents, Arenas, Holds
  <2>2. CASE ~Outstanding
    BY <1>4, <2>2 DEF Holds, InFlight
  <2> QED
    BY <2>1, <2>2
<1>9. Holds(rbuf, Taken, HeldBase)'
  <2>1. CASE Held
    BY <1>1, <1>3, <1>5, <1>6, <2>1, ArenasApart, Typed DEF Contents, Arenas, Holds
  <2>2. CASE ~Held
    BY <1>4, <2>2 DEF Holds, Taken
  <2> QED
    BY <2>1, <2>2
<1>10. Inserting' /\ Inserted'
  BY <1>1, <1>6 DEF Contents, Inserting, Inserted, Rows
<1> QED
  BY <1>1, <1>7, <1>8, <1>9, <1>10 DEF Contents, Arenas

\* The open arena is on its way, and the next one has no packets yet.
LEMMA AdvanceWriteStep ==
    ASSUME BufCount >= 3, IInv, Tokens, Contents, AdvanceWrite, UNCHANGED <<shutdown, mbVars, pgVars>>
    PROVE  Contents'
<1>1. /\ wpc = "advance" /\ wpc' = "count" /\ mb # "copy"
      /\ UNCHANGED <<readBufIdx, rbuf, cur, mem, rpc, readEvent, mb, sent, pg,
                     table, discarded, txn, itemCount>>
  BY DEF AdvanceWrite, mbVars, pgVars, IInv, WriterPlace
<1>2. ~Outstanding /\ Outstanding' /\ writeBufIdx = readBufIdx /\ (Held' <=> Held)
  BY <1>1 DEF Tokens, Fresh, OneToken, Outstanding, Held
<1>3. /\ InFlight = 0 /\ InFlight' = cur[readBufIdx]
      /\ OpenCount' = 0 /\ OpenCount = cur[readBufIdx] /\ Taken' = Taken
  BY <1>1, <1>2 DEF InFlight, OpenCount, Taken
<1>4. FlightBase' = OpenBase /\ HeldBase' = HeldBase
  <2>1. cur[readBufIdx] \in Nat
    BY Typed
  <2> QED
    BY <1>1, <1>3, <2>1, Counts DEF OpenBase, FlightBase, HeldBase
<1>5. Arenas'
  <2>1. Holds(writeBufIdx, OpenCount, OpenBase)'
    BY <1>3 DEF Holds
  <2>2. Holds(readBufIdx, InFlight, FlightBase)'
    BY <1>1, <1>2, <1>3, <1>4 DEF Contents, Arenas, Holds
  <2>3. Holds(rbuf, Taken, HeldBase)'
    BY <1>1, <1>3, <1>4 DEF Contents, Arenas, Holds
  <2> QED
    BY <1>1, <2>1, <2>2, <2>3 DEF Arenas
<1>6. Inserting' /\ Inserted'
  BY <1>1, <1>4 DEF Contents, Inserting, Inserted, Rows
<1> QED
  BY <1>5, <1>6 DEF Contents

\* The writer clears the arena it goes on with (SensorDataPipe.c:139-140).
LEMMA ClearStep ==
    ASSUME BufCount >= 3, IInv, Tokens, Contents, ClearNext, UNCHANGED <<shutdown, mbVars, pgVars>>
    PROVE  Contents'
<1>1. /\ wpc = "clear" /\ wpc' = "caller" /\ mb # "copy" /\ cur' = [cur EXCEPT ![writeBufIdx] = 0]
      /\ UNCHANGED <<writeBufIdx, readBufIdx, rbuf, mem, rpc, readEvent, mb, sent, pg,
                     table, discarded, txn, itemCount>>
  BY DEF ClearNext, mbVars, pgVars, pipeIdx, IInv, WriterPlace
<1>2. cur'[writeBufIdx] = 0 /\ \A b \in Slot : b # writeBufIdx => cur'[b] = cur[b]
  BY <1>1, Typed
<1>3. OpenCount = 0 /\ OpenCount' = 0
  BY <1>1, <1>2 DEF OpenCount
<1>4. (Held' <=> Held) /\ (Outstanding' <=> Outstanding)
  BY <1>1 DEF Held, Outstanding
<1>5. InFlight' = InFlight /\ Taken' = Taken
  BY <1>1, <1>2, <1>4, ArenasApart, Typed DEF InFlight, Taken
<1>6. OpenBase' = OpenBase /\ FlightBase' = FlightBase /\ HeldBase' = HeldBase
  BY <1>1, <1>3, <1>5 DEF OpenBase, FlightBase, HeldBase
<1>7. Arenas'
  BY <1>1, <1>3, <1>5, <1>6 DEF Contents, Arenas, Holds
<1>8. Inserting'
  <2>1. pg = "insert" => cur'[rbuf] = cur[rbuf]
    BY <1>2, ArenasApart, Typed DEF Held, Tokens
  <2> QED
    BY <1>1, <1>6, <2>1 DEF Contents, Inserting
<1>9. Inserted'
  BY <1>1, <1>6 DEF Contents, Inserted, Rows
<1> QED
  BY <1>7, <1>8, <1>9 DEF Contents

\* The arena on its way is in PgRun's hands.
LEMMA AdvanceReadStep ==
    ASSUME BufCount >= 3, IInv, Tokens, Contents, AdvanceRead, UNCHANGED <<shutdown, mbVars, pgVars>>
    PROVE  Contents'
<1>1. /\ rpc = "advance" /\ rpc' = "uncount" /\ rbuf' = readBufIdx /\ pg = "count"
      /\ UNCHANGED <<writeBufIdx, cur, mem, wpc, readEvent, mb, curBuf, sent, pg,
                     table, discarded, txn, itemCount>>
  BY DEF AdvanceRead, mbVars, pgVars, Tokens
<1>2. Outstanding /\ ~Outstanding' /\ ~Held /\ Held'
  BY <1>1 DEF Tokens, Fresh, OneToken, Outstanding, Held
<1>3. /\ Taken = 0 /\ Taken' = cur[readBufIdx] /\ InFlight = cur[readBufIdx] /\ InFlight' = 0
      /\ OpenCount' = OpenCount
  BY <1>1, <1>2 DEF Taken, InFlight, OpenCount
<1>4. OpenBase' = OpenBase /\ HeldBase' = FlightBase /\ HeldBase' = HeldBase
  <2>1. cur[readBufIdx] \in Nat
    BY Typed
  <2> QED
    BY <1>1, <1>3, <2>1, Counts DEF OpenBase, FlightBase, HeldBase
<1>5. Arenas'
  <2>1. Holds(writeBufIdx, OpenCount, OpenBase)'
    BY <1>1, <1>3, <1>4 DEF Contents, Arenas, Holds
  <2>2. Holds(readBufIdx, InFlight, FlightBase)'
    BY <1>3 DEF Holds
  <2>3. Holds(rbuf, Taken, HeldBase)'
    BY <1>1, <1>3, <1>4 DEF Contents, Arenas, Holds
  <2> QED
    BY <1>1, <2>1, <2>2, <2>3 DEF Contents, Arenas
<1>6. Inserting' /\ Inserted'
  BY <1>1, <1>4 DEF Contents, Inserting, Inserted, Rows
<1> QED
  BY <1>5, <1>6 DEF Contents

\* PgRun counts the rows of the arena it has (Postgres.c:146).
LEMMA CountStep ==
    ASSUME IInv, Tokens, Contents, CountItems
    PROVE  Contents'
<1>1. /\ pg = "count" /\ rpc = "caller" /\ pg' = "insert" /\ itemCount' = cur[rbuf] /\ txn' = << >>
      /\ UNCHANGED <<writeBufIdx, readBufIdx, rbuf, cur, mem, wpc, rpc, readEvent, mb, curBuf, sent,
                     table, discarded>>
  BY DEF CountItems, pipeVars, mbVars
<1>2. (Held' <=> Held) /\ (Outstanding' <=> Outstanding)
  BY <1>1 DEF Held, Outstanding
<1>3. OpenCount' = OpenCount /\ InFlight' = InFlight /\ Taken' = Taken
  BY <1>1, <1>2 DEF OpenCount, InFlight, Taken
<1>4. OpenBase' = OpenBase /\ FlightBase' = FlightBase /\ HeldBase' = HeldBase
  BY <1>1, <1>3 DEF OpenBase, FlightBase, HeldBase
<1>5. Arenas' /\ Inserted'
  BY <1>1, <1>3, <1>4 DEF Contents, Arenas, Holds, Inserted, Rows
<1>6. Inserting'
  BY <1>1 DEF Inserting
<1> QED
  BY <1>5, <1>6 DEF Contents

\* What is read of the arena are the packets it holds.
LEMMA ReadRowStep ==
    ASSUME IInv, Tokens, Contents, ReadRow
    PROVE  Contents'
<1>1. /\ pg = "insert" /\ pg' = "insert" /\ rpc = "caller" /\ Len(txn) < itemCount
      /\ txn' = Append(txn, mem[rbuf][Len(txn) + 1])
      /\ UNCHANGED <<writeBufIdx, readBufIdx, rbuf, cur, mem, wpc, rpc, readEvent, mb, curBuf, sent,
                     table, discarded, itemCount>>
  BY DEF ReadRow, pipeVars, mbVars, Tokens
<1>2. Held /\ (Held' <=> Held) /\ (Outstanding' <=> Outstanding)
  BY <1>1 DEF Held, Outstanding
<1>3. OpenCount' = OpenCount /\ InFlight' = InFlight /\ Taken' = Taken /\ Taken = itemCount
  BY <1>1, <1>2 DEF OpenCount, InFlight, Taken, Contents, Inserting
<1>4. OpenBase' = OpenBase /\ FlightBase' = FlightBase /\ HeldBase' = HeldBase
  BY <1>1, <1>3 DEF OpenBase, FlightBase, HeldBase
<1>5. Arenas' /\ Inserted'
  BY <1>1, <1>3, <1>4 DEF Contents, Arenas, Holds, Inserted, Rows
<1>6. mem[rbuf][Len(txn) + 1] = HeldBase + (Len(txn) + 1)
  <2>1. Len(txn) + 1 \in 1 .. Taken
    BY <1>1, <1>3, Typed
  <2> QED
    BY <2>1 DEF Contents, Arenas, Holds
<1>7. ASSUME NEW i \in 1 .. Len(txn') PROVE txn'[i] = HeldBase + i
  <2>1. Len(txn') = Len(txn) + 1 /\ Len(txn) \in Nat /\ txn'[Len(txn) + 1] = mem[rbuf][Len(txn) + 1]
        /\ \A k \in 1 .. Len(txn) : txn'[k] = txn[k]
    BY <1>1, Typed
  <2>2. CASE i = Len(txn) + 1
    BY <1>6, <2>1, <2>2
  <2>3. CASE i # Len(txn) + 1
    <3>1. i \in 1 .. Len(txn)
      BY <2>1, <2>3
    <3> QED
      BY <1>1, <2>1, <3>1 DEF Contents, Inserting
  <2> QED
    BY <2>2, <2>3
<1>8. Inserting'
  BY <1>1, <1>4, <1>7 DEF Contents, Inserting
<1> QED
  BY <1>5, <1>8 DEF Contents

\* An insert ends: the arena is no longer held, and its packets were all read.
LEMMA InsertEnds ==
    ASSUME IInv, Tokens, Contents, pg = "insert", Len(txn) = itemCount, pg' \in {"loop", "inserted"},
           UNCHANGED <<writeBufIdx, readBufIdx, rbuf, cur, mem, wpc, rpc, readEvent, mb, curBuf, sent>>
    PROVE  /\ Arenas' /\ Inserting'
           /\ HeldBase \in Nat /\ HeldBase' = HeldBase + Len(txn)
           /\ \A i \in 1 .. Len(txn) : txn[i] = HeldBase + i
<1>1. Held /\ ~Held' /\ (Outstanding' <=> Outstanding)
  BY DEF Held, Outstanding, Tokens
<1>2. OpenCount' = OpenCount /\ InFlight' = InFlight /\ Taken = Len(txn) /\ Taken' = 0
  BY <1>1 DEF OpenCount, InFlight, Taken, Contents, Inserting
<1>3. /\ OpenBase' = OpenBase /\ FlightBase' = FlightBase /\ HeldBase' = HeldBase + Len(txn)
      /\ HeldBase \in Nat
  BY <1>2, Counts DEF OpenBase, FlightBase, HeldBase, Contents, Inserted
<1>4. Arenas'
  BY <1>2, <1>3 DEF Contents, Arenas, Holds
<1> QED
  BY <1>3, <1>4 DEF Contents, Inserting

\* The elements of a sequence and of what is appended to it.
LEMMA Concatenation ==
    ASSUME NEW s \in Seq(Nat), NEW t \in Seq(Nat)
    PROVE  /\ Len(s) \in Nat /\ Len(t) \in Nat /\ Len(s \o t) = Len(s) + Len(t)
           /\ \A i \in 1 .. Len(s) : (s \o t)[i] = s[i]
           /\ \A i \in 1 .. Len(t) : (s \o t)[Len(s) + i] = t[i]
<1>1. Len(s) \in Nat /\ Len(t) \in Nat /\ Len(s \o t) = Len(s) + Len(t)
  OBVIOUS
<1>2. ASSUME NEW i \in 1 .. Len(s) PROVE (s \o t)[i] = s[i]
  BY <1>1
<1>3. ASSUME NEW i \in 1 .. Len(t) PROVE (s \o t)[Len(s) + i] = t[i]
  BY <1>1
<1> QED
  BY <1>1, <1>2, <1>3

\* What a sequence and what is appended to it have.
LEMMA RangeOfConcatenation ==
    ASSUME NEW r \in Seq(Nat), NEW t \in Seq(Nat)
    PROVE  Range(r \o t) = Range(r) \cup Range(t)
<1> DEFINE s == r \o t
<1>1. /\ Len(r) \in Nat /\ Len(t) \in Nat /\ Len(s) = Len(r) + Len(t)
      /\ \A i \in 1 .. Len(r) : s[i] = r[i]
      /\ \A i \in 1 .. Len(t) : s[Len(r) + i] = t[i]
  BY Concatenation
<1>2. DOMAIN r = 1 .. Len(r) /\ DOMAIN t = 1 .. Len(t) /\ DOMAIN s = 1 .. Len(r) + Len(t)
  BY <1>1
<1> HIDE DEF s
<1>3. ASSUME NEW i \in DOMAIN s PROVE s[i] \in Range(r) \cup Range(t)
  <2>1. CASE i \in 1 .. Len(r)
    BY <1>1, <1>2, <2>1 DEF Range
  <2>2. CASE i \notin 1 .. Len(r)
    <3>1. i - Len(r) \in 1 .. Len(t) /\ Len(r) + (i - Len(r)) = i
      BY <1>1, <1>2, <2>2
    <3>2. s[i] = t[i - Len(r)]
      BY <1>1, <3>1
    <3> QED
      BY <1>2, <3>1, <3>2 DEF Range
  <2> QED
    BY <2>1, <2>2
<1>4. ASSUME NEW i \in 1 .. Len(r) PROVE r[i] \in Range(s)
  <2>1. i \in DOMAIN s /\ s[i] = r[i]
    BY <1>1, <1>2
  <2> QED
    BY <2>1 DEF Range
<1>5. ASSUME NEW i \in 1 .. Len(t) PROVE t[i] \in Range(s)
  <2>1. Len(r) + i \in DOMAIN s /\ s[Len(r) + i] = t[i]
    BY <1>1, <1>2
  <2> QED
    BY <2>1 DEF Range
<1>6. Range(s) \subseteq Range(r) \cup Range(t)
  BY <1>3 DEF Range
<1>7. Range(r) \subseteq Range(s) /\ Range(t) \subseteq Range(s)
  BY <1>2, <1>4, <1>5 DEF Range
<1> QED
  BY <1>6, <1>7 DEF s

\* The rows of an insert that answers 0 are the next ones of the table.
LEMMA CommitStep ==
    ASSUME IInv, Tokens, Contents, InsertCommits
    PROVE  Contents'
<1>1. /\ pg = "insert" /\ Len(txn) = itemCount /\ pg' \in {"loop", "inserted"}
      /\ UNCHANGED <<writeBufIdx, readBufIdx, rbuf, cur, mem, wpc, rpc, readEvent, mb, curBuf, sent>>
      /\ table' = table \o txn /\ discarded' = discarded
  BY DEF InsertCommits, pipeVars, mbVars
<1>2. /\ Arenas' /\ Inserting'
      /\ HeldBase \in Nat /\ HeldBase' = HeldBase + Len(txn)
      /\ \A i \in 1 .. Len(txn) : txn[i] = HeldBase + i
  BY <1>1, InsertEnds
<1>3. /\ Len(table) \in Nat /\ Len(txn) \in Nat /\ Len(table') = Len(table) + Len(txn)
      /\ \A i \in 1 .. Len(table) : table'[i] = table[i]
      /\ \A i \in 1 .. Len(txn) : table'[Len(table) + i] = txn[i]
  BY <1>1, Typed, Concatenation
<1>4. ASSUME NEW i \in 1 .. Len(table'), i \notin 1 .. Len(table)
      PROVE  table'[i] = HeldBase + (i - Len(table)) /\ i - Len(table) \in 1 .. Len(txn)
  <2>1. i - Len(table) \in 1 .. Len(txn) /\ Len(table) + (i - Len(table)) = i
    BY <1>3, <1>4
  <2> QED
    BY <1>2, <1>3, <2>1
<1>5. ASSUME NEW i \in 1 .. Len(table') PROVE table'[i] \in 1 .. HeldBase'
  <2>1. CASE i \in 1 .. Len(table)
    <3>1. table'[i] \in 1 .. HeldBase
      BY <1>3, <2>1 DEF Contents, Inserted
    <3> QED
      BY <1>2, <1>3, <3>1
  <2>2. CASE i \notin 1 .. Len(table)
    BY <1>2, <1>3, <1>4, <2>2
  <2> QED
    BY <2>1, <2>2
<1>6. ASSUME NEW i \in 1 .. Len(table'), NEW j \in 1 .. Len(table'), i < j
      PROVE  table'[i] < table'[j]
  <2>1. CASE j \in 1 .. Len(table)
    <3>1. i \in 1 .. Len(table)
      BY <1>3, <1>6, <2>1
    <3> QED
      BY <1>3, <1>6, <2>1, <3>1 DEF Contents, Inserted
  <2>2. CASE j \notin 1 .. Len(table) /\ i \in 1 .. Len(table)
    <3>1. table'[i] \in 1 .. HeldBase
      BY <1>3, <2>2 DEF Contents, Inserted
    <3> QED
      BY <1>2, <1>4, <2>2, <3>1
  <2>3. CASE j \notin 1 .. Len(table) /\ i \notin 1 .. Len(table)
    BY <1>2, <1>3, <1>4, <1>6, <2>3
  <2> QED
    BY <2>1, <2>2, <2>3
<1>7. ASSUME NEW p \in 1 .. HeldBase' PROVE p \in Rows' \cup discarded'
  <2>1. DOMAIN table = 1 .. Len(table) /\ DOMAIN table' = 1 .. Len(table')
    BY <1>1, Typed
  <2>2. CASE p \in 1 .. HeldBase
    <3>1. p \in Rows \cup discarded
      BY <2>2 DEF Contents, Inserted
    <3>2. ASSUME p \in Rows PROVE p \in Rows'
      <4>1. PICK i \in 1 .. Len(table) : p = table[i]
        BY <2>1, <3>2 DEF Rows, Range
      <4>2. i \in 1 .. Len(table') /\ table'[i] = p
        BY <1>3, <4>1
      <4> QED
        BY <2>1, <4>2 DEF Rows, Range
    <3> QED
      BY <1>1, <3>1, <3>2
  <2>3. CASE p \notin 1 .. HeldBase
    <3>1. /\ p - HeldBase \in 1 .. Len(txn) /\ Len(table) + (p - HeldBase) \in 1 .. Len(table')
          /\ HeldBase + (p - HeldBase) = p
      BY <1>2, <1>3, <2>3
    <3>2. table'[Len(table) + (p - HeldBase)] = p
      BY <1>2, <1>3, <3>1
    <3> QED
      BY <2>1, <3>1, <3>2 DEF Rows, Range
  <2> QED
    BY <2>2, <2>3
<1>8. HeldBase' >= 0
  BY <1>2, <1>3
<1> QED
  BY <1>2, <1>5, <1>6, <1>7, <1>8 DEF Contents, Inserted

\* The rows of an insert that fails are discarded.
LEMMA FailStep ==
    ASSUME IInv, Tokens, Contents, InsertFails
    PROVE  Contents'
<1>1. /\ pg = "insert" /\ Len(txn) = itemCount /\ pg' \in {"loop", "inserted"}
      /\ UNCHANGED <<writeBufIdx, readBufIdx, rbuf, cur, mem, wpc, rpc, readEvent, mb, curBuf, sent>>
      /\ table' = table /\ discarded' = discarded \cup Range(txn)
  BY DEF InsertFails, pipeVars, mbVars
<1>2. /\ Arenas' /\ Inserting'
      /\ HeldBase \in Nat /\ HeldBase' = HeldBase + Len(txn)
      /\ \A i \in 1 .. Len(txn) : txn[i] = HeldBase + i
  BY <1>1, InsertEnds
<1>3. Len(txn) \in Nat /\ DOMAIN txn = 1 .. Len(txn) /\ HeldBase' >= HeldBase
  BY <1>2, Typed
<1>4. ASSUME NEW i \in 1 .. Len(table') PROVE table'[i] \in 1 .. HeldBase'
  <2>1. table'[i] \in 1 .. HeldBase
    BY <1>1 DEF Contents, Inserted
  <2> QED
    BY <1>2, <1>3, <2>1
<1>5. ASSUME NEW p \in 1 .. HeldBase' PROVE p \in Rows' \cup discarded'
  <2>1. CASE p \in 1 .. HeldBase
    BY <1>1, <2>1 DEF Contents, Inserted, Rows
  <2>2. CASE p \notin 1 .. HeldBase
    <3>1. p - HeldBase \in 1 .. Len(txn) /\ HeldBase + (p - HeldBase) = p
      BY <1>2, <1>3, <2>2
    <3>2. txn[p - HeldBase] = p
      BY <1>2, <3>1
    <3> QED
      BY <1>1, <1>3, <3>1, <3>2 DEF Range
  <2> QED
    BY <2>1, <2>2
<1> QED
  BY <1>1, <1>2, <1>3, <1>4, <1>5 DEF Contents, Inserted

-----------------------------------------------------------------------------
\* As long as nothing is pushed astray, every step keeps the packets in order.
LEMMA ContentsStep ==
    ASSUME BufCount >= 3, IInv, Tokens, Contents, [Next]_vars, stray' = {}
    PROVE  Contents'
<1> USE DEF pipeIdx, pipeVars, mbVars, pgVars
<1>1. CASE Connect \/ Rotated \/ ReceiveTimeout \/ ReceiveFailure \/ CloseConnection
  <2>1. /\ UNCHANGED pipeVars /\ UNCHANGED pgVars /\ sent' = sent /\ mb # "copy" /\ mb' # "copy"
    BY <1>1 DEF Connect, Rotated, ReceiveTimeout, ReceiveFailure, CloseConnection
  <2>2. (Held' <=> Held) /\ (Outstanding' <=> Outstanding) /\ OpenCount' = OpenCount
    BY <2>1 DEF Held, Outstanding, OpenCount
  <2> QED
    BY <2>1, <2>2, QuietStep
<1>2. CASE ReceiveLoop \/ Reconnect
  <2>1. /\ UNCHANGED <<writeBufIdx, readBufIdx, rbuf, cur, mem, rpc, readEvent>> /\ UNCHANGED pgVars
        /\ sent' = sent /\ mb # "copy" /\ mb' # "copy"
        /\ wpc' = wpc \/ (wpc = "caller" /\ wpc' \in {"caller", "take"})
    BY <1>2 DEF ReceiveLoop, Reconnect, CallGetWriteBuffer, CallFlush
  <2>2. (Held' <=> Held) /\ (Outstanding' <=> Outstanding) /\ OpenCount' = OpenCount
    BY <2>1 DEF Held, Outstanding, OpenCount
  <2> QED
    BY <2>1, <2>2, QuietStep
<1>3. CASE WriterPipeStep /\ UNCHANGED <<shutdown, mbVars, pgVars>>
  <2>1. CASE TakeWriteCredit \/ CountPublished \/ SignalReader
    <3>1. /\ UNCHANGED <<writeBufIdx, readBufIdx, rbuf, cur, mem, rpc>>
          /\ \/ wpc = "take" /\ wpc' = "advance" /\ readEvent' = readEvent
             \/ wpc = "count" /\ wpc' = "signal" /\ readEvent' = readEvent
             \/ wpc = "signal" /\ wpc' = "clear" /\ readEvent' = readEvent + 1
      BY <2>1 DEF TakeWriteCredit, CountPublished, SignalReader
    <3>2. Outstanding' <=> Outstanding
      BY <3>1 DEF Outstanding, Tokens, Fresh, OneToken
    <3>3. (Held' <=> Held) /\ OpenCount' = OpenCount
      BY <1>3, <3>1 DEF Held, OpenCount
    <3> QED
      BY <1>3, <3>1, <3>2, <3>3, QuietStep
  <2> QED
    BY <1>3, <2>1, AdvanceWriteStep, ClearStep DEF WriterPipeStep
<1>4. CASE ReaderPipeStep /\ UNCHANGED <<shutdown, mbVars, pgVars>>
  <2>1. CASE TakeReadEvent \/ CountTaken \/ ReturnCredit
    <3>1. /\ UNCHANGED <<writeBufIdx, readBufIdx, rbuf, cur, mem, wpc>>
          /\ \/ rpc = "take" /\ rpc' = "advance" /\ readEvent > 0 /\ readEvent' = 0
             \/ rpc = "uncount" /\ rpc' = "release" /\ readEvent' = readEvent
             \/ rpc = "release" /\ rpc' = "caller" /\ readEvent' = readEvent
      BY <2>1 DEF TakeReadEvent, CountTaken, ReturnCredit
    <3>2. Outstanding' <=> Outstanding
      BY <3>1 DEF Outstanding, Tokens, Fresh, OneToken
    <3>3. (Held' <=> Held) /\ OpenCount' = OpenCount
      BY <1>4, <3>1 DEF Held, OpenCount
    <3> QED
      BY <1>4, <3>1, <3>2, <3>3, QuietStep
  <2> QED
    BY <1>4, <2>1, AdvanceReadStep DEF ReaderPipeStep
<1>5. CASE PgLoop \/ EpollReady \/ EpollTimeout \/ NextReadBuffer \/ RequestShutdown
  <2>1. /\ UNCHANGED <<writeBufIdx, readBufIdx, rbuf, cur, mem, wpc, readEvent>> /\ UNCHANGED mbVars
        /\ UNCHANGED <<itemCount, txn, table, discarded>>
        /\ \/ pg \in {"loop", "epoll"} /\ pg' \in {"epoll", "done", "loop"} /\ rpc' = rpc
           \/ pg \in {"epoll", "inserted"} /\ pg' = "count" /\ rpc = "caller" /\ rpc' = "take"
           \/ pg' = pg /\ rpc' = rpc
    BY <1>5 DEF PgLoop, EpollReady, EpollTimeout, NextReadBuffer, RequestShutdown, CallGetReadBuffer
  <2>2. (Held' <=> Held) /\ (Outstanding' <=> Outstanding) /\ OpenCount' = OpenCount
    BY <2>1 DEF Held, Outstanding, OpenCount
  <2> QED
    BY <2>1, <2>2, QuietStep
<1>6. CASE UNCHANGED vars
  <2>1. UNCHANGED pipeVars /\ UNCHANGED mbVars /\ UNCHANGED pgVars
    BY <1>6 DEF vars
  <2>2. (Held' <=> Held) /\ (Outstanding' <=> Outstanding) /\ OpenCount' = OpenCount
    BY <2>1 DEF Held, Outstanding, OpenCount
  <2> QED
    BY <2>1, <2>2, QuietStep
<1> QED
  BY <1>1, <1>2, <1>3, <1>4, <1>5, <1>6, PushStep, CopyStep, CountStep, ReadRowStep, CommitStep,
     FailStep DEF Next, MbStep, PgStep, Ended

\* What has been pushed astray stays on record.
LEMMA StrayGrows ==
    ASSUME IInv, [Next]_vars, stray' = {}
    PROVE  stray = {}
  BY DEF Next, MbStep, PgStep, Ended, vars, mbVars, Connect, ReceiveLoop, Rotated, ReceiveTimeout,
         ReceiveFailure, ReceivePacket, CopyPacket, Reconnect, CloseConnection, PgLoop, EpollReady,
         EpollTimeout, CountItems, ReadRow, InsertCommits, InsertFails, NextReadBuffer,
         RequestShutdown

\* The invariant behind TableStaysFaithful.
LEMMA TableInvariance ==
    ASSUME BufCount >= 3
    PROVE  Spec => []TInv
<1>1. Init => TInv
  BY InitIInv, TableInit, BufCountAssumption DEF TInv
<1>2. ASSUME TInv, [Next]_vars PROVE TInv'
  <2>1. IInv'
    BY <1>2, PipeTypeStep, MbTypeStep, PgTypeStep, PlaceStep
       DEF TInv, IInv, TypeOK, MbTypeOK, PgTypeOK
  <2>2. Tokens'
    BY <1>2, TokensStep, BufCountAssumption DEF TInv
  <2>3. stray' = {} => Contents'
    BY <1>2, ContentsStep, StrayGrows DEF TInv
  <2> QED
    BY <2>1, <2>2, <2>3 DEF TInv
<1> QED
  BY <1>1, <1>2, PTL DEF Spec

\* The table holds received packets, each once and in the order of arrival,
\* until MbRun has written through a stale CurBuf (Modbus.c:151-203,
\* Postgres.c:142-178).
THEOREM TableStaysFaithful ==
    ASSUME BufCount >= 3
    PROVE  Spec => []TableFaithful
<1>1. ASSUME TInv PROVE TableFaithful
  <2> SUFFICES ASSUME stray = {}
               PROVE  /\ Rows \subseteq 1 .. sent
                      /\ \A i, j \in DOMAIN table : i < j => table[i] < table[j]
    BY DEF TableFaithful
  <2>1. IInv /\ Contents
    BY <1>1 DEF TInv
  <2>2. DOMAIN table = 1 .. Len(table)
    BY <2>1, Typed
  <2>3. OpenCount >= 0
    BY <2>1, Typed DEF OpenCount, Contents, Arenas
  <2>4. 1 .. HeldBase \subseteq 1 .. sent
    BY <2>1, <2>3, Counts DEF HeldBase
  <2> QED
    BY <2>1, <2>2, <2>4 DEF Contents, Inserted, Rows, Range
<1> QED
  BY <1>1, TableInvariance, PTL

\* A stale CurBuf is the only way a packet gets lost without a failed insert:
\* until there has been one, a packet that later packets have overtaken into
\* the table was inserted or was in an insert that failed.
THEOREM OnlyStaleCurBufLoses ==
    ASSUME BufCount >= 3
    PROVE  Spec => [](stray = {} => NoSilentLoss)
<1>1. ASSUME TInv, stray = {} PROVE NoSilentLoss
  <2>1. IInv /\ Contents
    BY <1>1 DEF TInv
  <2>2. HeldBase \in Int /\ sent \in Nat
    BY <2>1, Counts DEF HeldBase
  <2> SUFFICES ASSUME NEW p \in 1 .. sent, NEW q \in Rows, p < q
               PROVE  p \in Rows \cup discarded
    BY DEF NoSilentLoss
  <2>3. PICK i \in 1 .. Len(table) : q = table[i]
    BY <2>1, Typed DEF Rows, Range
  <2>4. q \in 1 .. HeldBase
    BY <2>1, <2>3 DEF Contents, Inserted
  <2>5. p \in 1 .. HeldBase
    BY <2>2, <2>4
  <2> QED
    BY <2>1, <2>5 DEF Contents, Inserted
<1> QED
  BY <1>1, TableInvariance, PTL

-----------------------------------------------------------------------------
(* What a stale CurBuf can lose, for every pattern of broken connections:  *)
(* nothing but the packets that were pushed through it.                    *)
(*                                                                         *)
(* While CurBuf is stale, the arena the pipe writes to stays empty, and    *)
(* CurBuf is the one before it.  So the packets pushed astray come behind  *)
(* all others of that arena, and whatever PgRun still has to insert from   *)
(* it or from the arenas after it was received before them.                *)

\* A flush has moved the pipe on from the arena CurBuf names.
Stale == NextSlot(curBuf) = writeBufIdx

CurBufFollows ==
    \/ mb = "rotated"
    \/ wpc \in {"caller", "take", "advance"} /\ curBuf = writeBufIdx
    \/ wpc = "caller" /\ Stale /\ cur[writeBufIdx] = 0
    \/ wpc \in {"count", "signal", "clear"} /\ Stale

\* The packets that are neither inserted, nor in a failed insert, nor astray.
Unsettled == (1 .. sent) \ (Rows \cup discarded \cup stray)

\* The first n packets of arena b; those whose bytes have arrived.
At(b, n) == {mem[b][j] : j \in 1 .. n}
Filled(b) == IF mb = "copy" /\ curBuf = b THEN cur[b] - 1 ELSE cur[b]

\* The packets in each of the three places, and the arenas in none.
Open == wpc \notin {"count", "signal", "clear"}
HeldCount == IF pg = "insert" THEN itemCount ELSE Filled(rbuf)
HeldRows == IF Held THEN At(rbuf, HeldCount) ELSE {}
FlightRows == IF Outstanding THEN At(readBufIdx, Filled(readBufIdx)) ELSE {}
OpenRows == IF Open THEN At(writeBufIdx, Filled(writeBufIdx)) ELSE {}
Idle(b) ==
    /\ Held => b # rbuf
    /\ Outstanding => b # readBufIdx
    /\ Open => b # writeBufIdx

\* Everything in u comes after v, but for rest.
Before(v, u, rest) == \A p \in u : v < p \/ p \in rest

Copying == mb = "copy" => cur[curBuf] > 0 /\ (curBuf # writeBufIdx => sent + 1 \in stray)

Known ==
    /\ \A b \in Slot : \A i \in 1 .. ItemMax : mem[b][i] <= sent
    /\ \A i \in 1 .. Len(txn) : txn[i] <= sent
    /\ \A q \in Rows : q <= sent

Accounted == Unsettled \subseteq HeldRows \cup FlightRows \cup OpenRows

\* What an arena still has from an earlier round is older than all of them.
OldOrder ==
    \A b \in Slot : \A i \in 1 .. ItemMax :
        i > Filled(b) \/ Idle(b) => Before(mem[b][i], Unsettled, {})
HeldOrder ==
    Held => \A i \in 1 .. Filled(rbuf) :
              Before(mem[rbuf][i], Unsettled, At(rbuf, i) \cap HeldRows)
FlightOrder ==
    Outstanding => \A i \in 1 .. Filled(readBufIdx) :
                     Before(mem[readBufIdx][i], Unsettled, HeldRows \cup At(readBufIdx, i))
OpenOrder ==
    Open => \A i \in 1 .. Filled(writeBufIdx) :
              Before(mem[writeBufIdx][i], Unsettled,
                     HeldRows \cup FlightRows \cup At(writeBufIdx, i))

\* The rows read so far have what was unsettled at their places.
TxnOrder ==
    pg = "insert" =>
        /\ itemCount <= cur[rbuf]
        /\ \A i \in 1 .. Len(txn) : Before(txn[i], Unsettled, {txn[j] : j \in 1 .. i})
        /\ \A j \in 1 .. Len(txn) : mem[rbuf][j] \in Unsettled => txn[j] = mem[rbuf][j]
TableOrder == \A q \in Rows : Before(q, Unsettled, {})

Order == OldOrder /\ HeldOrder /\ FlightOrder /\ OpenOrder /\ TxnOrder /\ TableOrder
LInv == CurBufFollows /\ Copying /\ Known /\ Accounted /\ Order

-----------------------------------------------------------------------------
\* Nothing has been received yet.
LEMMA LossInit ==
    ASSUME Init
    PROVE  LInv
<1>1. 0 \in Slot /\ \A b \in Slot : \A i \in 1 .. ItemMax : mem[b][i] = 0
  BY Ranges DEF Init, PipeInit
<1>2. /\ sent = 0 /\ mb = "connect" /\ wpc = "caller" /\ curBuf = writeBufIdx
      /\ pg = "loop" /\ Len(txn) = 0 /\ table = << >>
  BY DEF Init, PipeInit
<1>3. Unsettled = {} /\ Rows = {}
  BY <1>2 DEF Unsettled, Rows, Range
<1>4. CurBufFollows /\ Copying /\ Known /\ Accounted
  BY <1>1, <1>2, <1>3 DEF CurBufFollows, Copying, Known, Accounted
<1>5. Order
  BY <1>2, <1>3 DEF Order, OldOrder, HeldOrder, FlightOrder, OpenOrder, TxnOrder, TableOrder, Before
<1> QED
  BY <1>4, <1>5 DEF LInv

\* CurBuf is the pipe's arena, or the one before it.
LEMMA FollowsStep ==
    ASSUME BufCount >= 3, IInv, CurBufFollows, [Next]_vars
    PROVE  CurBufFollows'
<1> USE DEF CurBufFollows, Stale, pipeIdx, pipeVars, mbVars, pgVars
<1>1. CASE Connect \/ Rotated \/ ReceiveTimeout \/ ReceiveFailure \/ CloseConnection
  BY <1>1, Typed DEF Connect, Rotated, ReceiveTimeout, ReceiveFailure, CloseConnection, IInv, WriterPlace
<1>2. CASE CopyPacket
  BY <1>2 DEF CopyPacket, CopyTo
<1>3. CASE ReceivePacket
  <2>1. /\ mb = "recv" /\ cur' = [cur EXCEPT ![curBuf] = @ + 1]
        /\ UNCHANGED <<writeBufIdx, wpc, curBuf>>
    BY <1>3 DEF ReceivePacket, PushTo
  <2>2. curBuf # writeBufIdx => cur'[writeBufIdx] = cur[writeBufIdx]
    BY <2>1, Typed
  <2>3. wpc = "caller"
    BY <2>1 DEF IInv, WriterPlace
  <2> QED
    BY <2>1, <2>2, <2>3
<1>4. CASE ReceiveLoop \/ Reconnect
  BY <1>4, Typed DEF ReceiveLoop, Reconnect, CallGetWriteBuffer, CallFlush
<1>5. CASE WriterPipeStep /\ UNCHANGED <<shutdown, mbVars, pgVars>>
  <2>1. CASE TakeWriteCredit
    BY <1>5, <2>1 DEF TakeWriteCredit
  <2>2. CASE AdvanceWrite
    BY <1>5, <2>2 DEF AdvanceWrite
  <2>3. CASE CountPublished
    BY <1>5, <2>3 DEF CountPublished
  <2>4. CASE SignalReader
    BY <1>5, <2>4 DEF SignalReader
  <2>5. CASE ClearNext
    <3>1. cur'[writeBufIdx] = 0 /\ writeBufIdx' = writeBufIdx /\ wpc = "clear" /\ wpc' = "caller"
      BY <2>5, Typed DEF ClearNext
    <3> QED
      BY <1>5, <3>1
  <2> QED
    BY <1>5, <2>1, <2>2, <2>3, <2>4, <2>5 DEF WriterPipeStep
<1>6. CASE ReaderPipeStep /\ UNCHANGED <<shutdown, mbVars, pgVars>>
  BY <1>6 DEF ReaderPipeStep, TakeReadEvent, AdvanceRead, CountTaken, ReturnCredit
<1>7. CASE EpollReady \/ EpollTimeout \/ NextReadBuffer
  BY <1>7 DEF EpollReady, EpollTimeout, NextReadBuffer, CallGetReadBuffer
<1>8. CASE PgLoop \/ CountItems \/ ReadRow \/ InsertCommits \/ InsertFails
  BY <1>8 DEF PgLoop, CountItems, ReadRow, InsertCommits, InsertFails
<1>9. CASE RequestShutdown
  BY <1>9 DEF RequestShutdown
<1>10. CASE UNCHANGED vars
  BY <1>10 DEF vars
<1> QED
  BY <1>1, <1>2, <1>3, <1>4, <1>5, <1>6, <1>7, <1>8, <1>9, <1>10 DEF Next, MbStep, PgStep, Ended

\* What is unsettled has been received.
LEMMA UnsettledTyped ==
    ASSUME IInv
    PROVE  /\ Unsettled \subseteq 1 .. sent /\ sent \in Nat
           /\ \A p \in Unsettled : p \in Nat
           /\ \A b \in Slot : Filled(b) \in Int /\ Filled(b) <= cur[b]
           /\ \A b \in Slot : \A i \in 1 .. ItemMax : mem[b][i] \in Nat
           /\ \A b \in Slot : cur[b] \in 0 .. ItemMax
<1>1. Unsettled \subseteq 1 .. sent /\ sent \in Nat
  BY Typed DEF Unsettled
<1>2. \A p \in Unsettled : p \in Nat
  BY <1>1
<1>3. \A b \in Slot : cur[b] \in 0 .. ItemMax /\ cur[b] \in Nat
  BY Typed
<1>4. \A b \in Slot : Filled(b) \in Int /\ Filled(b) <= cur[b]
  BY <1>3 DEF Filled
<1>5. \A b \in Slot : \A i \in 1 .. ItemMax : mem[b][i] \in Nat
  BY Typed
<1> QED
  BY <1>1, <1>2, <1>3, <1>4, <1>5

\* Steps that move no packet and no row whose bytes have arrived.
LEMMA QuietLoss ==
    ASSUME IInv, IInv', LInv,
           UNCHANGED <<writeBufIdx, readBufIdx, rbuf, mem, sent, table, discarded, txn, itemCount>>,
           Unsettled' = Unsettled,
           \A b \in Slot : Filled(b)' = Filled(b) /\ cur'[b] >= cur[b],
           Held' <=> Held, Outstanding' <=> Outstanding, Open' <=> Open,
           pg' = "insert" <=> pg = "insert"
    PROVE  Known' /\ Accounted' /\ Order'
<1>1. Rows' = Rows /\ Known'
  BY DEF LInv, Known, Rows
<1>2. \A b, n : At(b, n)' = At(b, n)
  BY DEF At
<1>3. /\ writeBufIdx \in Slot /\ readBufIdx \in Slot /\ rbuf \in Slot
      /\ \A b \in Slot : cur[b] \in Nat /\ cur'[b] >= cur[b] /\ Filled(b)' = Filled(b)
      /\ itemCount \in Nat
  BY Typed
<1>4. cur'[rbuf] \in Nat
  <2>1. TypeOK'
    BY DEF IInv
  <2>2. cur' \in [Slot -> 0 .. ItemMax]
    BY <2>1 DEF TypeOK, PipeTypeOK
  <2> QED
    BY <1>3, <2>2, Ranges
<1>5. HeldCount' = HeldCount
  BY <1>3 DEF HeldCount
<1>6. HeldRows' = HeldRows /\ FlightRows' = FlightRows /\ OpenRows' = OpenRows
  BY <1>2, <1>3, <1>5 DEF HeldRows, FlightRows, OpenRows
<1>7. \A b \in Slot : Idle(b)' <=> Idle(b)
  BY DEF Idle
<1>8. Accounted'
  BY <1>6 DEF LInv, Accounted
<1>9. OldOrder'
  BY <1>3, <1>7 DEF LInv, Order, OldOrder
<1>10. HeldOrder'
  BY <1>2, <1>3, <1>6 DEF LInv, Order, HeldOrder
<1>11. FlightOrder' /\ OpenOrder'
  BY <1>2, <1>3, <1>6 DEF LInv, Order, FlightOrder, OpenOrder
<1>12. TxnOrder'
  <2> SUFFICES ASSUME pg = "insert"
               PROVE  /\ itemCount <= cur'[rbuf]
                      /\ \A i \in 1 .. Len(txn) : Before(txn[i], Unsettled, {txn[j] : j \in 1 .. i})
                      /\ \A j \in 1 .. Len(txn) : mem[rbuf][j] \in Unsettled => txn[j] = mem[rbuf][j]
    BY DEF TxnOrder
  <2>1. TxnOrder
    BY DEF LInv, Order
  <2>2. itemCount <= cur[rbuf] /\ cur[rbuf] <= cur'[rbuf]
    BY <1>3, <2>1 DEF TxnOrder
  <2>3. itemCount <= cur'[rbuf]
    BY <1>3, <1>4, <2>2
  <2> QED
    BY <2>1, <2>3 DEF TxnOrder
<1>13. TableOrder'
  BY <1>1 DEF LInv, Order, TableOrder
<1> QED
  BY <1>1, <1>8, <1>9, <1>10, <1>11, <1>12, <1>13 DEF Order
-----------------------------------------------------------------------------
\* NextSlot gives different arenas different successors.
LEMMA NextSlotInjective ==
    ASSUME NEW a \in Slot, NEW b \in Slot, NextSlot(a) = NextSlot(b)
    PROVE  a = b
<1>1. /\ NextSlot(a) = IF a = BufCount - 1 THEN 0 ELSE a + 1
      /\ NextSlot(b) = IF b = BufCount - 1 THEN 0 ELSE b + 1
  BY NextSlotIs
<1>2. BufCount \in Nat /\ a \in 0 .. BufCount - 1 /\ b \in 0 .. BufCount - 1
  BY BufCountAssumption DEF Slot
<1>3. (IF a = BufCount - 1 THEN 0 ELSE a + 1) = IF b = BufCount - 1 THEN 0 ELSE b + 1
  BY <1>1
<1> HIDE DEF NextSlot
<1> QED
  BY <1>2, <1>3

\* Pushing through a stale CurBuf, the arena is one that PgRun still has to
\* insert, or nothing is unsettled.
LEMMA StaleArena ==
    ASSUME BufCount >= 3, IInv, Tokens, LInv, mb = "copy", curBuf # writeBufIdx
    PROVE  /\ OpenRows = {}
           /\ Held => curBuf = rbuf \/ (Outstanding /\ curBuf = readBufIdx)
           /\ Outstanding => curBuf = readBufIdx
           /\ Held /\ curBuf = rbuf => FlightRows = {}
           /\ Idle(curBuf) => Unsettled = {}
<1>1. wpc = "caller" /\ Stale /\ cur[writeBufIdx] = 0
  BY DEF LInv, CurBufFollows, IInv, WriterPlace
<1>2. OpenRows = {}
  <2>1. Filled(writeBufIdx) = 0
    BY <1>1 DEF Filled
  <2>2. 1 .. Filled(writeBufIdx) = {}
    BY <2>1
  <2> QED
    BY <2>2 DEF OpenRows, At
<1>3. Outstanding => curBuf = readBufIdx
  BY <1>1, NextSlotInjective, Typed DEF Tokens, Stale
<1>4. Held /\ ~Outstanding => curBuf = rbuf
  BY <1>1, NextSlotInjective, Typed DEF Tokens, Stale
<1>5. Held /\ curBuf = rbuf => FlightRows = {}
  BY <1>3, ArenasApart DEF FlightRows
<1>6. Idle(curBuf) => ~Outstanding /\ ~Held
  BY <1>3, <1>4 DEF Idle
<1>7. ASSUME ~Outstanding, ~Held PROVE Unsettled = {}
  BY <1>2, <1>7 DEF LInv, Accounted, HeldRows, FlightRows
<1> QED
  BY <1>2, <1>3, <1>4, <1>5, <1>6, <1>7
-----------------------------------------------------------------------------
\* The bytes of a packet arrive: it is the newest, and it counts as unsettled
\* only where the pipe is writing.
LEMMA CopyLoss ==
    ASSUME BufCount >= 3, IInv, IInv', Tokens, LInv, CopyPacket
    PROVE  Copying' /\ Known' /\ Accounted' /\ Order'
<1> DEFINE c == curBuf
           k == cur[curBuf]
           q == sent + 1
<1>1. /\ mb = "copy" /\ mb' = "loop" /\ wpc = "caller" /\ curBuf' = curBuf
      /\ mem' = [mem EXCEPT ![c][k] = q] /\ sent' = q
      /\ UNCHANGED <<writeBufIdx, readBufIdx, rbuf, cur, wpc, rpc, readEvent, pg, stray,
                     table, discarded, txn, itemCount>>
  BY DEF CopyPacket, CopyTo, pipeIdx, pgVars, IInv, WriterPlace
<1>2. /\ c \in Slot /\ k \in 1 .. ItemMax /\ sent \in Nat /\ q \in Nat /\ q > sent
      /\ \A b \in Slot : cur[b] \in 0 .. ItemMax
      /\ ItemMax \in Nat /\ itemCount \in Nat /\ Len(txn) \in Nat
      /\ writeBufIdx \in Slot /\ readBufIdx \in Slot /\ rbuf \in Slot
  <2>1. k > 0
    BY <1>1 DEF LInv, Copying
  <2>2. /\ c \in Slot /\ writeBufIdx \in Slot /\ readBufIdx \in Slot /\ rbuf \in Slot
        /\ sent \in Nat /\ itemCount \in Nat /\ Len(txn) \in Nat
        /\ cur \in [Slot -> 0 .. ItemMax]
    BY Typed
  <2>3. ItemMax \in Nat
    BY Ranges
  <2>4. \A b \in Slot : cur[b] \in 0 .. ItemMax
    BY <2>2
  <2> QED
    BY <2>1, <2>2, <2>3, <2>4
<1>3. /\ mem'[c][k] = q
      /\ \A b \in Slot : \A i \in 1 .. ItemMax : b # c \/ i # k => mem'[b][i] = mem[b][i]
      /\ \A b \in Slot : \A i \in 1 .. ItemMax : mem[b][i] \in Nat /\ mem[b][i] <= sent
  <2>1. /\ mem \in [Slot -> [1 .. ItemMax -> Nat]]
        /\ \A b \in Slot : mem[b] \in [1 .. ItemMax -> Nat]
    BY Typed
  <2>2. mem'[c] = [mem[c] EXCEPT ![k] = q]
    BY <1>1, <1>2, <2>1, ZenonT(30)
  <2>3. ASSUME NEW b \in Slot, b # c PROVE mem'[b] = mem[b]
    BY <1>1, <2>1, <2>3, ZenonT(30)
  <2>4. mem'[c][k] = q /\ \A i \in 1 .. ItemMax : i # k => mem'[c][i] = mem[c][i]
    BY <1>2, <2>1, <2>2
  <2>5. \A b \in Slot : \A i \in 1 .. ItemMax : mem[b][i] \in Nat /\ mem[b][i] <= sent
    BY Typed DEF LInv, Known
  <2> QED
    BY <2>3, <2>4, <2>5
<1>4. /\ \A b \in Slot : Filled(b)' = cur[b]
      /\ \A b \in Slot : b # c => Filled(b) = cur[b]
      /\ Filled(c) = k - 1 /\ cur[c] = k
      /\ \A b \in Slot : Filled(b) \in 0 .. ItemMax /\ Filled(b) <= cur[b]
  <2>1. /\ \A b \in Slot : Filled(b)' = cur[b]
        /\ \A b \in Slot : b # c => Filled(b) = cur[b]
        /\ Filled(c) = k - 1 /\ cur[c] = k
    BY <1>1 DEF Filled
  <2>2. \A b \in Slot : Filled(b) \in 0 .. ItemMax /\ Filled(b) <= cur[b]
    BY <1>2, <2>1
  <2> QED
    BY <2>1, <2>2
<1>5. (Held' <=> Held) /\ (Outstanding' <=> Outstanding) /\ Open /\ Open' /\ \A b : Idle(b)' <=> Idle(b)
  BY <1>1 DEF Held, Outstanding, Open, Idle
<1>6. /\ Unsettled' \subseteq Unsettled \cup {q}
      /\ \A p \in Unsettled : p \in Nat /\ p <= sent
      /\ q \in Unsettled' => c = writeBufIdx
  <2>1. Rows' = Rows
    BY <1>1 DEF Rows
  <2>2. Unsettled' = (1 .. q) \ (Rows \cup discarded \cup stray)
    BY <1>1, <2>1 DEF Unsettled
  <2>3. \A p \in 1 .. q : p = q \/ p \in 1 .. sent
    BY <1>2
  <2>4. c # writeBufIdx => q \in stray
    BY <1>1 DEF LInv, Copying
  <2>5. \A p \in Unsettled : p \in Nat /\ p <= sent
    BY <1>2 DEF Unsettled
  <2> QED
    BY <2>2, <2>3, <2>4, <2>5 DEF Unsettled
<1>7. mem[c][k] \notin Unsettled
  <2>1. k > Filled(c)
    BY <1>2, <1>4
  <2>2. Before(mem[c][k], Unsettled, {})
    BY <1>2, <2>1 DEF LInv, Order, OldOrder
  <2>3. mem[c][k] \in Nat
    BY <1>2, <1>3
  <2> QED
    BY <2>2, <2>3 DEF Before
\* What is unsettled stays where it is.
<1>8. ASSUME NEW b \in Slot, NEW n \in 0 .. ItemMax, NEW m \in Int, m >= n,
             NEW p \in Unsettled, p \in At(b, n)
      PROVE  p \in {mem'[b][j] : j \in 1 .. m}
  <2>1. PICK j \in 1 .. n : p = mem[b][j]
    BY <1>8 DEF At
  <2>2. j \in 1 .. ItemMax /\ j \in 1 .. m
    BY <1>2, <1>8
  <2>3. mem'[b][j] = mem[b][j]
    BY <1>3, <1>7, <2>1, <2>2
  <2> QED
    BY <2>1, <2>2, <2>3
<1> HIDE DEF c, k, q
<1>9. /\ HeldRows \cap Unsettled \subseteq HeldRows'
      /\ FlightRows \cap Unsettled \subseteq FlightRows'
      /\ OpenRows \cap Unsettled \subseteq OpenRows'
      /\ (Held => HeldCount \in 0 .. ItemMax /\ HeldCount <= cur[rbuf])
  <2>1. Held => HeldCount \in 0 .. ItemMax /\ HeldCount <= cur[rbuf]
    <3>1. itemCount <= cur[rbuf] \/ pg # "insert"
      BY DEF LInv, Order, TxnOrder
    <3>2. Filled(rbuf) \in 0 .. ItemMax /\ Filled(rbuf) <= cur[rbuf]
      BY <1>2, <1>4
    <3> QED
      BY <1>2, <3>1, <3>2 DEF HeldCount
  <2>2. Held => HeldCount' \in Int /\ HeldCount' >= HeldCount
    <3>1. HeldCount' = IF pg = "insert" THEN itemCount ELSE cur[rbuf]
      BY <1>1, <1>2, <1>4 DEF HeldCount
    <3> QED
      BY <1>2, <2>1, <3>1 DEF HeldCount
  <2>3. HeldRows \cap Unsettled \subseteq HeldRows'
    <3>1. Held => HeldRows' = {mem'[rbuf][j] : j \in 1 .. HeldCount'}
      BY <1>1, <1>5 DEF HeldRows, At
    <3> QED
      BY <1>2, <1>8, <2>1, <2>2, <3>1 DEF HeldRows
  <2>4. ASSUME NEW b \in Slot
        PROVE  At(b, Filled(b)) \cap Unsettled \subseteq {mem'[b][j] : j \in 1 .. cur[b]}
    <3>1. Filled(b) \in 0 .. ItemMax /\ cur[b] \in Int /\ cur[b] >= Filled(b)
      BY <1>2, <1>4
    <3> QED
      BY <1>8, <3>1
  <2>5. FlightRows \cap Unsettled \subseteq FlightRows'
    <3>1. Outstanding => FlightRows' = {mem'[readBufIdx][j] : j \in 1 .. cur[readBufIdx]}
      BY <1>1, <1>2, <1>4, <1>5 DEF FlightRows, At
    <3> QED
      BY <1>2, <2>4, <3>1 DEF FlightRows
  <2>6. OpenRows \cap Unsettled \subseteq OpenRows'
    <3>1. OpenRows' = {mem'[writeBufIdx][j] : j \in 1 .. cur[writeBufIdx]}
      BY <1>1, <1>2, <1>4, <1>5 DEF OpenRows, At
    <3> QED
      BY <1>2, <1>5, <2>4, <3>1 DEF OpenRows
  <2> QED
    BY <2>1, <2>3, <2>5, <2>6
<1>10. Known'
  <2>1. ASSUME NEW b \in Slot, NEW i \in 1 .. ItemMax PROVE mem'[b][i] <= q
    <3>1. CASE b # c \/ i # k
      <4>1. mem'[b][i] = mem[b][i] /\ mem[b][i] \in Nat /\ mem[b][i] <= sent
        BY <1>3, <3>1
      <4> QED
        BY <1>2, <4>1
    <3>2. CASE b = c /\ i = k
      BY <1>2, <1>3, <3>2
    <3> QED
      BY <3>1, <3>2
  <2>2. \A i \in 1 .. Len(txn) : txn[i] <= q
    <3>1. \A i \in 1 .. Len(txn) : txn[i] \in Nat /\ txn[i] <= sent
      BY Typed DEF LInv, Known
    <3> QED
      BY <1>2, <3>1
  <2>3. \A r \in Rows : r <= q
    <3>1. \A r \in Rows : r \in Nat /\ r <= sent
      BY Typed DEF LInv, Known, Rows, Range
    <3> QED
      BY <1>2, <3>1
  <2>4. Rows' = Rows
    BY <1>1 DEF Rows
  <2> QED
    BY <1>1, <2>1, <2>2, <2>3, <2>4 DEF Known
<1>11. c = writeBufIdx => q \in OpenRows' /\ q \in {mem'[c][j] : j \in 1 .. k}
  <2>1. q \in {mem'[c][j] : j \in 1 .. k}
    BY <1>2, <1>3
  <2>2. c = writeBufIdx => OpenRows' = {mem'[c][j] : j \in 1 .. k}
    BY <1>1, <1>2, <1>4, <1>5 DEF OpenRows, At, c, k
  <2> QED
    BY <2>1, <2>2
<1>12. Accounted'
  BY <1>6, <1>9, <1>11 DEF LInv, Accounted
\* What came before a row of the arenas comes before it still, and before the
\* new packet.
<1>13. ASSUME NEW b \in Slot, NEW i \in 1 .. ItemMax, b # c \/ i # k, NEW rest, NEW rest2,
              Before(mem[b][i], Unsettled, rest), rest \cap Unsettled \subseteq rest2
       PROVE  Before(mem'[b][i], Unsettled', rest2)
  <2>1. mem'[b][i] = mem[b][i] /\ mem[b][i] < q
    BY <1>2, <1>3, <1>13
  <2> QED
    BY <1>6, <1>13, <2>1 DEF Before
<1>14. OldOrder'
  <2> SUFFICES ASSUME NEW b \in Slot, NEW i \in 1 .. ItemMax, i > cur[b] \/ Idle(b)
               PROVE  Before(mem'[b][i], Unsettled', {})
    BY <1>4, <1>5 DEF OldOrder
  <2>1. CASE b # c \/ i # k
    <3>1. i > Filled(b) \/ Idle(b)
      BY <1>2, <1>4
    <3>2. Before(mem[b][i], Unsettled, {})
      BY <3>1 DEF LInv, Order, OldOrder
    <3> QED
      BY <1>13, <2>1, <3>2
  <2>2. CASE b = c /\ i = k
    <3>1. Idle(c)
      BY <1>2, <1>4, <2>2
    <3>2. c # writeBufIdx
      BY <1>5, <3>1 DEF Idle
    <3>3. Unsettled = {}
      BY <1>1, <3>1, <3>2, StaleArena DEF c
    <3> QED
      BY <1>6, <3>2, <3>3 DEF Before
  <2> QED
    BY <2>1, <2>2
<1>15. HeldOrder'
  <2> SUFFICES ASSUME Held, NEW i \in 1 .. cur[rbuf]
               PROVE  Before(mem'[rbuf][i], Unsettled', {mem'[rbuf][j] : j \in 1 .. i} \cap HeldRows')
    <3>1. Filled(rbuf)' = cur[rbuf]
      BY <1>1, <1>2, <1>4
    <3>2. \A i : At(rbuf, i)' = {mem'[rbuf][j] : j \in 1 .. i}
      BY <1>1 DEF At
    <3> QED
      BY <1>1, <1>5, <3>1, <3>2 DEF HeldOrder
  <2>1. i \in 1 .. ItemMax
    BY <1>2
  <2>2. CASE rbuf # c \/ i # k
    <3>1. i \in 1 .. Filled(rbuf)
      BY <1>2, <1>4, <2>2
    <3>2. Before(mem[rbuf][i], Unsettled, At(rbuf, i) \cap HeldRows)
      BY <3>1 DEF LInv, Order, HeldOrder
    <3>3. At(rbuf, i) \cap Unsettled \subseteq {mem'[rbuf][j] : j \in 1 .. i}
      BY <1>2, <1>8, <2>1
    <3>4. At(rbuf, i) \cap HeldRows \cap Unsettled \subseteq {mem'[rbuf][j] : j \in 1 .. i} \cap HeldRows'
      BY <1>9, <3>3
    <3> QED
      BY <1>2, <1>13, <2>1, <2>2, <3>2, <3>4
  <2>3. CASE rbuf = c /\ i = k
    <3>1. c # writeBufIdx
      BY <2>3, ArenasApart
    <3>2. OpenRows = {} /\ FlightRows = {}
      BY <1>1, <2>3, <3>1, StaleArena DEF c
    <3>3. \A p \in Unsettled : p \in HeldRows
      BY <3>2 DEF LInv, Accounted
    <3>4. \A p \in Unsettled : p \in {mem'[rbuf][j] : j \in 1 .. i}
      <4>1. HeldCount \in 0 .. ItemMax /\ HeldCount <= i
        BY <1>4, <1>9, <2>3
      <4>2. i \in Int /\ rbuf \in Slot /\ \A p \in Unsettled : p \in At(rbuf, HeldCount)
        BY <1>2, <3>3 DEF HeldRows
      <4> QED
        BY <1>8, <4>1, <4>2
    <3> QED
      BY <1>6, <1>9, <3>1, <3>3, <3>4 DEF Before
  <2> QED
    BY <2>2, <2>3
<1>16. FlightOrder'
  <2> SUFFICES ASSUME Outstanding, NEW i \in 1 .. cur[readBufIdx]
               PROVE  Before(mem'[readBufIdx][i], Unsettled',
                             HeldRows' \cup {mem'[readBufIdx][j] : j \in 1 .. i})
    <3>1. Filled(readBufIdx)' = cur[readBufIdx]
      BY <1>1, <1>2, <1>4
    <3>2. \A i : At(readBufIdx, i)' = {mem'[readBufIdx][j] : j \in 1 .. i}
      BY <1>1 DEF At
    <3> QED
      BY <1>1, <1>5, <3>1, <3>2 DEF FlightOrder
  <2>1. i \in 1 .. ItemMax
    BY <1>2
  <2>2. ASSUME NEW n \in 0 .. i
        PROVE  At(readBufIdx, n) \cap Unsettled \subseteq {mem'[readBufIdx][j] : j \in 1 .. i}
    <3>1. n \in 0 .. ItemMax /\ i \in Int /\ i >= n
      BY <1>2, <2>1
    <3> QED
      BY <1>2, <1>8, <3>1
  <2>3. CASE readBufIdx # c \/ i # k
    <3>1. i \in 1 .. Filled(readBufIdx)
      BY <1>2, <1>4, <2>3
    <3>2. Before(mem[readBufIdx][i], Unsettled, HeldRows \cup At(readBufIdx, i))
      BY <3>1 DEF LInv, Order, FlightOrder
    <3>3. At(readBufIdx, i) \cap Unsettled \subseteq {mem'[readBufIdx][j] : j \in 1 .. i}
      BY <2>1, <2>2
    <3>4. (HeldRows \cup At(readBufIdx, i)) \cap Unsettled
             \subseteq HeldRows' \cup {mem'[readBufIdx][j] : j \in 1 .. i}
      BY <1>9, <3>3
    <3> QED
      BY <1>2, <1>13, <2>1, <2>3, <3>2, <3>4
  <2>4. CASE readBufIdx = c /\ i = k
    <3>1. c # writeBufIdx
      BY <2>4, ArenasApart
    <3>2. OpenRows = {}
      BY <1>1, <3>1, StaleArena DEF c
    <3>3. FlightRows \cap Unsettled \subseteq {mem'[readBufIdx][j] : j \in 1 .. i}
      <4>1. Filled(readBufIdx) \in 0 .. i
        BY <1>2, <1>4, <2>4
      <4> QED
        BY <2>2, <4>1 DEF FlightRows
    <3> QED
      BY <1>6, <1>9, <3>1, <3>2, <3>3 DEF Before, LInv, Accounted
  <2> QED
    BY <2>3, <2>4
<1>17. OpenOrder'
  <2> SUFFICES ASSUME NEW i \in 1 .. cur[writeBufIdx]
               PROVE  Before(mem'[writeBufIdx][i], Unsettled',
                             HeldRows' \cup FlightRows' \cup {mem'[writeBufIdx][j] : j \in 1 .. i})
    <3>1. Filled(writeBufIdx)' = cur[writeBufIdx]
      BY <1>1, <1>2, <1>4
    <3>2. \A i : At(writeBufIdx, i)' = {mem'[writeBufIdx][j] : j \in 1 .. i}
      BY <1>1 DEF At
    <3> QED
      BY <1>1, <1>5, <3>1, <3>2 DEF OpenOrder
  <2>1. i \in 1 .. ItemMax
    BY <1>2
  <2>2. ASSUME NEW n \in 0 .. i
        PROVE  At(writeBufIdx, n) \cap Unsettled \subseteq {mem'[writeBufIdx][j] : j \in 1 .. i}
    <3>1. n \in 0 .. ItemMax /\ i \in Int /\ i >= n
      BY <1>2, <2>1
    <3> QED
      BY <1>2, <1>8, <3>1
  <2>3. CASE writeBufIdx # c \/ i # k
    <3>1. i \in 1 .. Filled(writeBufIdx)
      BY <1>2, <1>4, <2>3
    <3>2. Before(mem[writeBufIdx][i], Unsettled, HeldRows \cup FlightRows \cup At(writeBufIdx, i))
      BY <1>5, <3>1 DEF LInv, Order, OpenOrder
    <3>3. At(writeBufIdx, i) \cap Unsettled \subseteq {mem'[writeBufIdx][j] : j \in 1 .. i}
      BY <2>1, <2>2
    <3>4. (HeldRows \cup FlightRows \cup At(writeBufIdx, i)) \cap Unsettled
             \subseteq HeldRows' \cup FlightRows' \cup {mem'[writeBufIdx][j] : j \in 1 .. i}
      BY <1>9, <3>3
    <3> QED
      BY <1>2, <1>13, <2>1, <2>3, <3>2, <3>4
  <2>4. CASE writeBufIdx = c /\ i = k
    <3>1. OpenRows \cap Unsettled \subseteq {mem'[writeBufIdx][j] : j \in 1 .. i}
      <4>1. Filled(writeBufIdx) \in 0 .. i
        BY <1>2, <1>4, <2>4
      <4> QED
        BY <1>5, <2>2, <4>1 DEF OpenRows
    <3>2. q \in {mem'[writeBufIdx][j] : j \in 1 .. i}
      BY <1>11, <2>4
    <3> QED
      BY <1>6, <1>9, <3>1, <3>2 DEF Before, LInv, Accounted
  <2> QED
    BY <2>3, <2>4
<1>18. TxnOrder'
  <2> SUFFICES ASSUME pg = "insert"
               PROVE  /\ itemCount <= cur[rbuf]
                      /\ \A i \in 1 .. Len(txn) : Before(txn[i], Unsettled', {txn[j] : j \in 1 .. i})
                      /\ \A j \in 1 .. Len(txn) : mem'[rbuf][j] \in Unsettled' => txn[j] = mem'[rbuf][j]
    BY <1>1 DEF TxnOrder
  <2>1. /\ itemCount <= cur[rbuf]
        /\ \A i \in 1 .. Len(txn) : Before(txn[i], Unsettled, {txn[j] : j \in 1 .. i})
        /\ \A j \in 1 .. Len(txn) : mem[rbuf][j] \in Unsettled => txn[j] = mem[rbuf][j]
    BY DEF LInv, Order, TxnOrder
  <2>2. Held /\ rbuf # writeBufIdx
    BY ArenasApart DEF Held, Tokens
  <2>3. \A j \in 1 .. Len(txn) : j \in 1 .. ItemMax /\ txn[j] < q
    <3>1. \A j \in 1 .. Len(txn) : txn[j] \in Nat /\ txn[j] <= sent
      BY Typed DEF LInv, Known
    <3>2. Len(txn) <= itemCount
      BY DEF IInv, RowsBounded
    <3>3. Len(txn) <= ItemMax
      BY <1>2, <2>1, <3>2
    <3> QED
      BY <1>2, <3>1, <3>3
  <2>4. ASSUME NEW i \in 1 .. Len(txn) PROVE Before(txn[i], Unsettled', {txn[j] : j \in 1 .. i})
    BY <1>6, <2>1, <2>3 DEF Before
  <2>5. ASSUME NEW j \in 1 .. Len(txn), mem'[rbuf][j] \in Unsettled' PROVE txn[j] = mem'[rbuf][j]
    <3>1. CASE rbuf = c /\ j = k
      BY <1>3, <1>6, <2>2, <2>5, <3>1
    <3>2. CASE rbuf # c \/ j # k
      <4>1. mem'[rbuf][j] = mem[rbuf][j] /\ mem[rbuf][j] # q
        BY <1>2, <1>3, <2>3, <3>2
      <4> QED
        BY <1>6, <2>1, <2>5, <4>1
    <3> QED
      BY <3>1, <3>2
  <2> QED
    BY <2>1, <2>4, <2>5
<1>19. TableOrder'
  <2>1. \A r \in Rows : r \in Nat /\ r <= sent
    BY Typed DEF LInv, Known, Rows, Range
  <2>2. \A r \in Rows : r < q
    BY <1>2, <2>1
  <2>3. Rows' = Rows
    BY <1>1 DEF Rows
  <2> QED
    BY <1>6, <2>2, <2>3 DEF LInv, Order, TableOrder, Before
<1>20. Copying'
  BY <1>1 DEF Copying
<1> QED
  BY <1>10, <1>12, <1>14, <1>15, <1>16, <1>17, <1>18, <1>19, <1>20 DEF Order
-----------------------------------------------------------------------------
\* MbRun copies only the packet it has just pushed.
LEMMA CopyingStep ==
    ASSUME IInv, LInv, [Next]_vars
    PROVE  Copying'
<1> SUFFICES ASSUME mb' = "copy"
             PROVE  cur'[curBuf'] > 0 /\ (curBuf' # writeBufIdx' => sent' + 1 \in stray')
  BY DEF Copying
<1>1. CASE ReceivePacket
  <2>1. /\ cur' = [cur EXCEPT ![curBuf] = @ + 1]
        /\ stray' = IF curBuf = writeBufIdx THEN stray ELSE stray \cup {sent + 1}
        /\ UNCHANGED <<curBuf, writeBufIdx, sent>>
    BY <1>1 DEF ReceivePacket, PushTo, pipeIdx
  <2>2. cur'[curBuf] = cur[curBuf] + 1 /\ cur[curBuf] \in Nat
    BY <2>1, Typed
  <2> QED
    BY <2>1, <2>2
<1>2. CASE ~ReceivePacket
  <2>1. mb = "copy" /\ UNCHANGED mbVars
    BY <1>2 DEF Next, MbStep, PgStep, Ended, vars, mbVars, Connect, ReceiveLoop, Rotated,
       ReceiveTimeout, ReceiveFailure, CopyPacket, Reconnect, CloseConnection, PgLoop, EpollReady,
       EpollTimeout, CountItems, ReadRow, InsertCommits, InsertFails, NextReadBuffer, RequestShutdown
  <2>2. wpc = "caller"
    BY <2>1 DEF IInv, WriterPlace
  <2>3. UNCHANGED <<cur, writeBufIdx>>
    BY <1>2, <2>1, <2>2
       DEF Next, MbStep, PgStep, Ended, vars, mbVars, pipeVars, pipeIdx, Connect, ReceiveLoop, Rotated,
           ReceiveTimeout, ReceiveFailure, CopyPacket, Reconnect, CloseConnection, PgLoop, EpollReady,
           EpollTimeout, CountItems, ReadRow, InsertCommits, InsertFails, NextReadBuffer, RequestShutdown,
           CallGetReadBuffer, WriterPipeStep, TakeWriteCredit, AdvanceWrite, CountPublished,
           SignalReader, ClearNext, ReaderPipeStep, TakeReadEvent, AdvanceRead, CountTaken, ReturnCredit
  <2> QED
    BY <2>1, <2>3 DEF LInv, Copying, mbVars
<1> QED
  BY <1>1, <1>2

\* A packet pushed counts once its bytes are there; astray, it never does.
LEMMA ReceiveLoss ==
    ASSUME IInv, IInv', LInv, ReceivePacket
    PROVE  Known' /\ Accounted' /\ Order'
<1>1. /\ mb = "recv" /\ mb' = "copy" /\ curBuf' = curBuf
      /\ cur' = [cur EXCEPT ![curBuf] = @ + 1]
      /\ stray' = IF curBuf = writeBufIdx THEN stray ELSE stray \cup {sent + 1}
      /\ UNCHANGED <<writeBufIdx, readBufIdx, rbuf, mem, wpc, rpc, readEvent, sent, pg,
                     table, discarded, txn, itemCount>>
  BY DEF ReceivePacket, PushTo, pipeIdx, pgVars
<1>2. /\ cur'[curBuf] = cur[curBuf] + 1 /\ cur[curBuf] \in Nat
      /\ \A b \in Slot : b # curBuf => cur'[b] = cur[b] /\ cur[b] \in Nat
  BY <1>1, Typed
<1>3. \A b \in Slot : Filled(b)' = Filled(b)
  BY <1>1, <1>2 DEF Filled
<1>4. \A b \in Slot : cur'[b] >= cur[b]
  <2>1. \A b \in Slot : b = curBuf => cur'[b] >= cur[b]
    BY <1>2
  <2> QED
    BY <1>2, <2>1
<1>5. Unsettled' = Unsettled
  <2>1. sent + 1 \notin 1 .. sent
    BY Typed
  <2> QED
    BY <1>1, <2>1 DEF Unsettled, Rows
<1>6. (Held' <=> Held) /\ (Outstanding' <=> Outstanding) /\ (Open' <=> Open)
  BY <1>1 DEF Held, Outstanding, Open
<1> QED
  BY <1>1, <1>3, <1>4, <1>5, <1>6, QuietLoss

\* The open arena is on its way, and none is open.
LEMMA AdvanceWriteLoss ==
    ASSUME BufCount >= 3, IInv, Tokens, LInv, AdvanceWrite, UNCHANGED <<shutdown, mbVars, pgVars>>
    PROVE  Known' /\ Accounted' /\ Order'
<1>1. /\ wpc = "advance" /\ wpc' = "count" /\ mb # "copy"
      /\ UNCHANGED <<readBufIdx, rbuf, cur, mem, rpc, readEvent, mb, curBuf, sent, stray, pg,
                     table, discarded, txn, itemCount>>
  BY DEF AdvanceWrite, mbVars, pgVars, IInv, WriterPlace
<1>2. /\ ~Outstanding /\ Outstanding' /\ writeBufIdx = readBufIdx /\ (Held' <=> Held)
      /\ Open /\ ~Open'
  BY <1>1 DEF Tokens, Fresh, OneToken, Outstanding, Held, Open
<1>3. /\ Unsettled' = Unsettled /\ Rows' = Rows
      /\ \A b : Filled(b)' = Filled(b)
      /\ \A b, n : At(b, n)' = At(b, n)
      /\ \A b : Idle(b)' <=> Idle(b)
  BY <1>1, <1>2 DEF Unsettled, Rows, Filled, At, Idle
<1>4. HeldRows' = HeldRows /\ FlightRows = {} /\ FlightRows' = OpenRows /\ OpenRows' = {}
  <2>1. HeldCount' = HeldCount
    BY <1>1, <1>3 DEF HeldCount
  <2> QED
    BY <1>1, <1>2, <1>3, <2>1 DEF HeldRows, FlightRows, OpenRows
<1>5. Known' /\ Accounted'
  BY <1>1, <1>3, <1>4 DEF LInv, Known, Accounted
<1>6. OldOrder' /\ OpenOrder' /\ TableOrder'
  BY <1>1, <1>2, <1>3 DEF LInv, Order, OldOrder, OpenOrder, TableOrder
<1>7. HeldOrder'
  BY <1>1, <1>2, <1>3, <1>4 DEF LInv, Order, HeldOrder
<1>8. FlightOrder'
  <2> SUFFICES ASSUME NEW i \in 1 .. Filled(readBufIdx)
               PROVE  Before(mem[readBufIdx][i], Unsettled, HeldRows \cup At(readBufIdx, i))
    BY <1>1, <1>3, <1>4 DEF FlightOrder
  <2>1. Before(mem[readBufIdx][i], Unsettled, HeldRows \cup FlightRows \cup At(readBufIdx, i))
    BY <1>2 DEF LInv, Order, OpenOrder
  <2> QED
    BY <1>4, <2>1 DEF Before
<1>9. TxnOrder'
  BY <1>1, <1>3 DEF LInv, Order, TxnOrder
<1> QED
  BY <1>5, <1>6, <1>7, <1>8, <1>9 DEF Order

\* The next arena is emptied: what it had was older than all that is unsettled.
LEMMA ClearLoss ==
    ASSUME BufCount >= 3, IInv, Tokens, LInv, ClearNext, UNCHANGED <<shutdown, mbVars, pgVars>>
    PROVE  Known' /\ Accounted' /\ Order'
<1>1. /\ wpc = "clear" /\ wpc' = "caller" /\ mb # "copy" /\ cur' = [cur EXCEPT ![writeBufIdx] = 0]
      /\ UNCHANGED <<writeBufIdx, readBufIdx, rbuf, mem, rpc, readEvent, mb, curBuf, sent, stray, pg,
                     table, discarded, txn, itemCount>>
  BY DEF ClearNext, mbVars, pgVars, pipeIdx, IInv, WriterPlace
<1>2. /\ (Held' <=> Held) /\ (Outstanding' <=> Outstanding) /\ ~Open /\ Open'
      /\ Held => rbuf # writeBufIdx
      /\ Outstanding => readBufIdx # writeBufIdx
      /\ writeBufIdx \in Slot /\ readBufIdx \in Slot /\ rbuf \in Slot
  BY <1>1, ArenasApart, Typed DEF Held, Outstanding, Open
<1>3. /\ cur'[writeBufIdx] = 0 /\ Filled(writeBufIdx)' = 0
      /\ \A b \in Slot : b # writeBufIdx => cur'[b] = cur[b] /\ Filled(b)' = Filled(b)
  <2>1. cur'[writeBufIdx] = 0 /\ \A b \in Slot : b # writeBufIdx => cur'[b] = cur[b]
    BY <1>1, Typed
  <2> QED
    BY <1>1, <2>1 DEF Filled
<1>4. /\ Unsettled' = Unsettled /\ Rows' = Rows
      /\ \A b, n : At(b, n)' = At(b, n)
      /\ \A b : Idle(b)' <=> Idle(b) /\ b # writeBufIdx
      /\ Idle(writeBufIdx)
  BY <1>1, <1>2 DEF Unsettled, Rows, At, Idle
<1>5. HeldRows' = HeldRows /\ FlightRows' = FlightRows /\ OpenRows = {} /\ OpenRows' = {}
  <2>1. Held => HeldCount' = HeldCount
    BY <1>1, <1>2, <1>3 DEF HeldCount
  <2>2. Outstanding => Filled(readBufIdx)' = Filled(readBufIdx)
    BY <1>1, <1>2, <1>3
  <2>3. Filled(writeBufIdx)' = 0 /\ 1 .. 0 = {}
    BY <1>3
  <2>4. OpenRows' = {}
    BY <1>1, <2>3 DEF OpenRows, At
  <2> QED
    BY <1>1, <1>2, <1>4, <2>1, <2>2, <2>4 DEF HeldRows, FlightRows, OpenRows
<1>6. Known' /\ Accounted'
  BY <1>1, <1>4, <1>5 DEF LInv, Known, Accounted
<1>7. OldOrder'
  <2> SUFFICES ASSUME NEW b \in Slot, NEW i \in 1 .. ItemMax, i > Filled(b)' \/ (Idle(b) /\ b # writeBufIdx)
               PROVE  Before(mem[b][i], Unsettled, {})
    BY <1>1, <1>4 DEF OldOrder
  <2>1. i > Filled(b) \/ Idle(b)
    BY <1>3, <1>4
  <2> QED
    BY <2>1 DEF LInv, Order, OldOrder
<1>8. HeldOrder'
  <2>1. Held => Filled(rbuf)' = Filled(rbuf)
    BY <1>1, <1>2, <1>3
  <2> QED
    BY <1>1, <1>2, <1>4, <1>5, <2>1 DEF LInv, Order, HeldOrder
<1>9. FlightOrder'
  <2>1. Outstanding => Filled(readBufIdx)' = Filled(readBufIdx)
    BY <1>1, <1>2, <1>3
  <2> QED
    BY <1>1, <1>2, <1>4, <1>5, <2>1 DEF LInv, Order, FlightOrder
<1>10. OpenOrder'
  <2>1. Filled(writeBufIdx)' = 0 /\ 1 .. 0 = {}
    BY <1>3
  <2> QED
    BY <2>1 DEF OpenOrder
<1>11. TxnOrder'
  <2>1. pg = "insert" => cur'[rbuf] = cur[rbuf]
    BY <1>2, <1>3 DEF Held, Tokens
  <2> QED
    BY <1>1, <1>4, <2>1 DEF LInv, Order, TxnOrder
<1>12. TableOrder'
  BY <1>4 DEF LInv, Order, TableOrder
<1> QED
  BY <1>6, <1>7, <1>8, <1>9, <1>10, <1>11, <1>12 DEF Order

\* The arena on its way is in PgRun's hands.
LEMMA AdvanceReadLoss ==
    ASSUME BufCount >= 3, IInv, Tokens, LInv, AdvanceRead, UNCHANGED <<shutdown, mbVars, pgVars>>
    PROVE  Known' /\ Accounted' /\ Order'
<1>1. /\ rpc = "advance" /\ rpc' = "uncount" /\ rbuf' = readBufIdx /\ pg = "count"
      /\ UNCHANGED <<writeBufIdx, cur, mem, wpc, readEvent, mb, curBuf, sent, stray, pg,
                     table, discarded, txn, itemCount>>
  BY DEF AdvanceRead, mbVars, pgVars, Tokens
<1>2. Outstanding /\ ~Outstanding' /\ ~Held /\ Held' /\ (Open' <=> Open) /\ readBufIdx \in Slot
  BY <1>1, Typed DEF Tokens, Fresh, OneToken, Outstanding, Held, Open
<1>3. /\ Unsettled' = Unsettled /\ Rows' = Rows
      /\ \A b : Filled(b)' = Filled(b)
      /\ \A b, n : At(b, n)' = At(b, n)
      /\ \A b : Idle(b)' <=> Idle(b)
  BY <1>1, <1>2 DEF Unsettled, Rows, Filled, At, Idle
<1>4. /\ HeldRows = {} /\ HeldRows' = FlightRows /\ FlightRows' = {} /\ OpenRows' = OpenRows
      /\ FlightRows = At(readBufIdx, Filled(readBufIdx))
  <2>1. HeldCount' = Filled(readBufIdx)
    BY <1>1, <1>3 DEF HeldCount
  <2>2. HeldRows' = At(readBufIdx, Filled(readBufIdx))
    BY <1>1, <1>2, <1>3, <2>1 DEF HeldRows
  <2> QED
    BY <1>1, <1>2, <1>3, <2>2 DEF HeldRows, FlightRows, OpenRows
<1>5. Known' /\ Accounted'
  BY <1>1, <1>3, <1>4 DEF LInv, Known, Accounted
<1>6. OldOrder' /\ FlightOrder' /\ TableOrder'
  BY <1>1, <1>2, <1>3 DEF LInv, Order, OldOrder, FlightOrder, TableOrder
<1>7. HeldOrder'
  <2> SUFFICES ASSUME NEW i \in 1 .. Filled(readBufIdx)
               PROVE  Before(mem[readBufIdx][i], Unsettled, At(readBufIdx, i) \cap FlightRows)
    BY <1>1, <1>3, <1>4 DEF HeldOrder
  <2>1. Before(mem[readBufIdx][i], Unsettled, HeldRows \cup At(readBufIdx, i))
    BY <1>2 DEF LInv, Order, FlightOrder
  <2>2. Filled(readBufIdx) \in Int
    BY <1>2, UnsettledTyped
  <2>3. 1 .. i \subseteq 1 .. Filled(readBufIdx)
    BY <2>2
  <2>4. At(readBufIdx, i) \subseteq FlightRows
    BY <1>4, <2>3 DEF At
  <2> QED
    BY <1>4, <2>1, <2>4 DEF Before
<1>8. OpenOrder'
  <2> SUFFICES ASSUME Open, NEW i \in 1 .. Filled(writeBufIdx)
               PROVE  Before(mem[writeBufIdx][i], Unsettled, FlightRows \cup At(writeBufIdx, i))
    BY <1>1, <1>2, <1>3, <1>4 DEF OpenOrder
  <2>1. Before(mem[writeBufIdx][i], Unsettled, HeldRows \cup FlightRows \cup At(writeBufIdx, i))
    BY DEF LInv, Order, OpenOrder
  <2> QED
    BY <1>4, <2>1
<1>9. TxnOrder'
  BY <1>1 DEF TxnOrder
<1> QED
  BY <1>5, <1>6, <1>7, <1>8, <1>9 DEF Order
-----------------------------------------------------------------------------
\* What is counted are the packets of the arena, and perhaps one astray.
LEMMA CountLoss ==
    ASSUME IInv, Tokens, LInv, CountItems
    PROVE  Known' /\ Accounted' /\ Order'
<1>1. /\ pg = "count" /\ rpc = "caller" /\ pg' = "insert" /\ itemCount' = cur[rbuf] /\ txn' = << >>
      /\ UNCHANGED <<writeBufIdx, readBufIdx, rbuf, cur, mem, wpc, rpc, readEvent, mb, curBuf, sent,
                     stray, table, discarded>>
  BY DEF CountItems, pipeVars, mbVars
<1>2. Held /\ Held' /\ (Outstanding' <=> Outstanding) /\ (Open' <=> Open)
  BY <1>1 DEF Held, Outstanding, Open
<1>3. /\ Unsettled' = Unsettled /\ Rows' = Rows
      /\ \A b : Filled(b)' = Filled(b)
      /\ \A b, n : At(b, n)' = At(b, n)
      /\ \A b : Idle(b)' <=> Idle(b)
  BY <1>1, <1>2 DEF Unsettled, Rows, Filled, At, Idle
<1>4. HeldRows \subseteq HeldRows' /\ FlightRows' = FlightRows /\ OpenRows' = OpenRows
  <2>1. HeldRows = At(rbuf, Filled(rbuf)) /\ HeldRows' = At(rbuf, cur[rbuf])
    BY <1>1, <1>2, <1>3 DEF HeldRows, HeldCount
  <2>2. Filled(rbuf) \in Int /\ cur[rbuf] \in Int /\ Filled(rbuf) <= cur[rbuf]
    BY UnsettledTyped, Typed
  <2>3. 1 .. Filled(rbuf) \subseteq 1 .. cur[rbuf]
    BY <2>2
  <2>4. HeldRows \subseteq HeldRows'
    BY <2>1, <2>3 DEF At
  <2> QED
    BY <1>1, <1>2, <1>3, <2>4 DEF FlightRows, OpenRows
<1>5. Known'
  BY <1>1, <1>3 DEF LInv, Known
<1>6. Accounted'
  BY <1>3, <1>4 DEF LInv, Accounted
<1>7. OldOrder' /\ TableOrder'
  BY <1>1, <1>2, <1>3 DEF LInv, Order, OldOrder, TableOrder
<1>8. HeldOrder'
  <2> SUFFICES ASSUME NEW i \in 1 .. Filled(rbuf)
               PROVE  Before(mem[rbuf][i], Unsettled, At(rbuf, i) \cap HeldRows')
    BY <1>1, <1>3 DEF HeldOrder
  <2>1. Before(mem[rbuf][i], Unsettled, At(rbuf, i) \cap HeldRows)
    BY <1>2 DEF LInv, Order, HeldOrder
  <2> QED
    BY <1>4, <2>1 DEF Before
<1>9. FlightOrder'
  <2> SUFFICES ASSUME Outstanding, NEW i \in 1 .. Filled(readBufIdx)
               PROVE  Before(mem[readBufIdx][i], Unsettled, HeldRows' \cup At(readBufIdx, i))
    BY <1>1, <1>2, <1>3 DEF FlightOrder
  <2>1. Before(mem[readBufIdx][i], Unsettled, HeldRows \cup At(readBufIdx, i))
    BY DEF LInv, Order, FlightOrder
  <2> QED
    BY <1>4, <2>1 DEF Before
<1>10. OpenOrder'
  <2> SUFFICES ASSUME Open, NEW i \in 1 .. Filled(writeBufIdx)
               PROVE  Before(mem[writeBufIdx][i], Unsettled,
                             HeldRows' \cup FlightRows \cup At(writeBufIdx, i))
    BY <1>1, <1>2, <1>3, <1>4 DEF OpenOrder
  <2>1. Before(mem[writeBufIdx][i], Unsettled, HeldRows \cup FlightRows \cup At(writeBufIdx, i))
    BY DEF LInv, Order, OpenOrder
  <2> QED
    BY <1>4, <2>1 DEF Before
<1>11. TxnOrder'
  <2>1. itemCount' <= cur'[rbuf'] /\ Len(txn') = 0 /\ 1 .. 0 = {}
    BY <1>1, Typed
  <2> QED
    BY <2>1 DEF TxnOrder
<1> QED
  BY <1>5, <1>6, <1>7, <1>8, <1>9, <1>10, <1>11 DEF Order

\* A row read is older than all that is unsettled, but for what was read so far.
LEMMA ReadRowLoss ==
    ASSUME IInv, Tokens, LInv, ReadRow
    PROVE  Known' /\ Accounted' /\ Order'
<1> DEFINE n == Len(txn) + 1
           v == mem[rbuf][Len(txn) + 1]
<1>1. /\ pg = "insert" /\ pg' = "insert" /\ rpc = "caller" /\ Len(txn) < itemCount
      /\ txn' = Append(txn, v)
      /\ UNCHANGED <<writeBufIdx, readBufIdx, rbuf, cur, mem, wpc, rpc, readEvent, mb, curBuf, sent,
                     stray, table, discarded, itemCount>>
  BY DEF ReadRow, pipeVars, mbVars, Tokens
<1>2. Held /\ (Held' <=> Held) /\ (Outstanding' <=> Outstanding) /\ (Open' <=> Open)
  BY <1>1 DEF Held, Outstanding, Open
<1>3. /\ Unsettled' = Unsettled /\ Rows' = Rows
      /\ \A b : Filled(b)' = Filled(b)
      /\ \A b, m : At(b, m)' = At(b, m)
      /\ \A b : Idle(b)' <=> Idle(b)
  BY <1>1, <1>2 DEF Unsettled, Rows, Filled, At, Idle
<1>4. HeldRows' = HeldRows /\ FlightRows' = FlightRows /\ OpenRows' = OpenRows
  <2>1. HeldCount' = HeldCount
    BY <1>1 DEF HeldCount
  <2> QED
    BY <1>1, <1>2, <1>3, <2>1 DEF HeldRows, FlightRows, OpenRows
<1>5. /\ itemCount <= cur[rbuf]
      /\ \A i \in 1 .. Len(txn) : Before(txn[i], Unsettled, {txn[j] : j \in 1 .. i})
      /\ \A j \in 1 .. Len(txn) : mem[rbuf][j] \in Unsettled => txn[j] = mem[rbuf][j]
  BY <1>1 DEF LInv, Order, TxnOrder
<1>6. /\ Len(txn) \in Nat /\ Len(txn') = n /\ txn'[n] = v
      /\ \A i \in 1 .. Len(txn) : txn'[i] = txn[i]
      /\ n \in 1 .. ItemMax /\ rbuf \in Slot /\ Filled(rbuf) \in Int
      /\ \A i \in 1 .. n : i = n \/ i \in 1 .. Len(txn)
  <2>1. /\ Len(txn) \in Nat /\ Len(txn') = n /\ txn'[n] = v
        /\ \A i \in 1 .. Len(txn) : txn'[i] = txn[i]
    BY <1>1, Typed
  <2>2. itemCount \in Nat /\ cur[rbuf] \in 0 .. ItemMax /\ ItemMax \in Nat
    BY Typed, Ranges
  <2>3. n \in 1 .. ItemMax
    BY <1>1, <1>5, <2>1, <2>2
  <2>4. rbuf \in Slot /\ Filled(rbuf) \in Int
    BY Typed, UnsettledTyped
  <2>5. \A i \in 1 .. n : i = n \/ i \in 1 .. Len(txn)
    BY <2>1
  <2> QED
    BY <2>1, <2>3, <2>4, <2>5
<1> HIDE DEF n
<1>7. v <= sent
  BY <1>6 DEF LInv, Known, n
<1> HIDE DEF v
<1>8. Known'
  <2>1. \A i \in 1 .. n : txn'[i] <= sent
    BY <1>6, <1>7 DEF LInv, Known
  <2> QED
    BY <1>1, <1>3, <1>6, <2>1 DEF LInv, Known
<1>9. Accounted' /\ OldOrder' /\ TableOrder'
  BY <1>1, <1>2, <1>3, <1>4 DEF LInv, Accounted, Order, OldOrder, TableOrder
<1>10. HeldOrder'
  BY <1>1, <1>2, <1>3, <1>4 DEF LInv, Order, HeldOrder
<1>11. FlightOrder'
  BY <1>1, <1>2, <1>3, <1>4 DEF LInv, Order, FlightOrder
<1>12. OpenOrder'
  BY <1>1, <1>2, <1>3, <1>4 DEF LInv, Order, OpenOrder
<1>13. v = mem[rbuf][n]
  BY DEF v, n
<1>14. Before(v, Unsettled, {txn'[j] : j \in 1 .. n})
  <2>1. CASE n > Filled(rbuf)
    <3>1. Before(mem[rbuf][n], Unsettled, {})
      BY <1>6, <2>1 DEF LInv, Order, OldOrder
    <3> QED
      BY <1>13, <3>1 DEF Before
  <2>2. CASE ~(n > Filled(rbuf))
    <3>1. n \in 1 .. Filled(rbuf)
      BY <1>6, <2>2
    <3>2. Before(mem[rbuf][n], Unsettled, At(rbuf, n) \cap HeldRows)
      BY <1>2, <3>1 DEF LInv, Order, HeldOrder
    <3>3. ASSUME NEW p \in Unsettled, p \in At(rbuf, n)
          PROVE  p \in {txn'[j] : j \in 1 .. n}
      <4>1. PICK j \in 1 .. n : p = mem[rbuf][j]
        BY <3>3 DEF At
      <4>2. CASE j = n
        BY <1>6, <1>13, <4>1, <4>2
      <4>3. CASE j # n
        <5>1. j \in 1 .. Len(txn)
          BY <1>6, <4>3
        <5>2. txn'[j] = p
          BY <1>5, <1>6, <3>3, <4>1, <5>1
        <5> QED
          BY <5>2
      <4> QED
        BY <4>2, <4>3
    <3> QED
      BY <1>13, <3>2, <3>3 DEF Before
  <2> QED
    BY <2>1, <2>2
<1>15. TxnOrder'
  <2>1. ASSUME NEW i \in 1 .. n PROVE Before(txn'[i], Unsettled, {txn'[j] : j \in 1 .. i})
    <3>1. CASE i = n
      BY <1>6, <1>14, <3>1
    <3>2. CASE i # n
      <4>1. i \in 1 .. Len(txn)
        BY <1>6, <3>2
      <4>2. \A j \in 1 .. i : j \in 1 .. Len(txn) /\ txn'[j] = txn[j]
        BY <1>6, <4>1
      <4>3. {txn'[j] : j \in 1 .. i} = {txn[j] : j \in 1 .. i}
        BY <4>2
      <4> QED
        BY <1>5, <1>6, <4>1, <4>3
    <3> QED
      BY <3>1, <3>2
  <2>2. ASSUME NEW j \in 1 .. n, mem[rbuf][j] \in Unsettled PROVE txn'[j] = mem[rbuf][j]
    BY <1>5, <1>6, <1>13, <2>2
  <2> QED
    BY <1>1, <1>3, <1>5, <1>6, <2>1, <2>2 DEF TxnOrder
<1> QED
  BY <1>8, <1>9, <1>10, <1>11, <1>12, <1>15 DEF Order

\* An insert ends: the rows read are settled, whether committed or rolled back.
LEMMA EndLoss ==
    ASSUME IInv, Tokens, LInv, pg = "insert", Len(txn) = itemCount, pg' \in {"loop", "inserted"},
           UNCHANGED <<writeBufIdx, readBufIdx, rbuf, cur, mem, wpc, rpc, readEvent, mb, curBuf, sent,
                       stray, txn, itemCount>>,
           Rows' \subseteq Rows \cup Range(txn),
           Rows' \cup discarded' = Rows \cup discarded \cup Range(txn)
    PROVE  /\ Known' /\ Accounted' /\ Order'
           /\ \A q \in Range(txn) : Before(q, Unsettled', {})
<1>1. Held /\ ~Held' /\ (Outstanding' <=> Outstanding) /\ (Open' <=> Open)
  BY DEF Held, Outstanding, Open, Tokens
<1>2. /\ Unsettled' = Unsettled \ Range(txn)
      /\ \A b : Filled(b)' = Filled(b)
      /\ \A b, m : At(b, m)' = At(b, m)
  BY DEF Unsettled, Filled, At
<1>3. Range(txn) = {txn[j] : j \in 1 .. Len(txn)} /\ Len(txn) \in Nat
  <2>1. txn \in Seq(Nat) /\ Len(txn) \in Nat
    BY Typed
  <2>2. DOMAIN txn = 1 .. Len(txn)
    BY <2>1
  <2> QED
    BY <2>1, <2>2 DEF Range
<1>4. /\ \A i \in 1 .. Len(txn) : Before(txn[i], Unsettled, {txn[j] : j \in 1 .. i})
      /\ \A j \in 1 .. Len(txn) : mem[rbuf][j] \in Unsettled => txn[j] = mem[rbuf][j]
  BY DEF LInv, Order, TxnOrder
<1>5. HeldRows \cap Unsettled' = {} /\ HeldRows' = {} /\ FlightRows' = FlightRows /\ OpenRows' = OpenRows
  <2>1. HeldRows = {mem[rbuf][j] : j \in 1 .. Len(txn)}
    BY <1>1 DEF HeldRows, HeldCount, At
  <2>2. ASSUME NEW p \in Unsettled, p \in HeldRows PROVE p \in Range(txn)
    <3>1. PICK j \in 1 .. Len(txn) : p = mem[rbuf][j]
      BY <2>1, <2>2
    <3> QED
      BY <1>3, <1>4, <2>2, <3>1
  <2>3. HeldRows \cap Unsettled' = {}
    BY <1>2, <2>2
  <2> QED
    BY <1>1, <1>2, <2>3 DEF HeldRows, FlightRows, OpenRows
<1>6. Known'
  <2>1. \A q \in Range(txn) : q <= sent
    BY <1>3 DEF LInv, Known
  <2> QED
    BY <2>1 DEF LInv, Known
<1>7. Accounted'
  BY <1>2, <1>5 DEF LInv, Accounted
\* What came before all but the rows held comes before all that is left.
<1>8. ASSUME NEW x, NEW rest, Before(x, Unsettled, rest)
      PROVE  Before(x, Unsettled', rest \ HeldRows)
  BY <1>2, <1>5, <1>8 DEF Before
<1>9. OldOrder'
  <2> SUFFICES ASSUME NEW b \in Slot, NEW i \in 1 .. ItemMax, i > Filled(b) \/ Idle(b)'
               PROVE  Before(mem[b][i], Unsettled', {})
    BY <1>2 DEF OldOrder
  <2>1. CASE i > Filled(b) \/ Idle(b)
    <3>1. Before(mem[b][i], Unsettled, {})
      BY <2>1 DEF LInv, Order, OldOrder
    <3>2. {} \ HeldRows = {}
      OBVIOUS
    <3> QED
      BY <1>8, <3>1, <3>2
  <2>2. CASE ~(i > Filled(b)) /\ ~Idle(b)
    <3>1. b = rbuf
      BY <1>1, <2>2 DEF Idle
    <3>2. i \in 1 .. Filled(rbuf)
      BY <2>2, <3>1, UnsettledTyped, Ranges
    <3>3. Before(mem[rbuf][i], Unsettled, At(rbuf, i) \cap HeldRows)
      BY <1>1, <3>2 DEF LInv, Order, HeldOrder
    <3>4. (At(rbuf, i) \cap HeldRows) \ HeldRows = {}
      OBVIOUS
    <3> QED
      BY <1>8, <3>1, <3>3, <3>4
  <2> QED
    BY <2>1, <2>2
<1>10. HeldOrder'
  BY <1>1 DEF HeldOrder
<1>11. FlightOrder'
  <2> SUFFICES ASSUME Outstanding, NEW i \in 1 .. Filled(readBufIdx)
               PROVE  Before(mem[readBufIdx][i], Unsettled', At(readBufIdx, i))
    BY <1>1, <1>2, <1>5 DEF FlightOrder
  <2>1. Before(mem[readBufIdx][i], Unsettled, HeldRows \cup At(readBufIdx, i))
    BY DEF LInv, Order, FlightOrder
  <2> QED
    BY <1>8, <2>1 DEF Before
<1>12. OpenOrder'
  <2> SUFFICES ASSUME Open, NEW i \in 1 .. Filled(writeBufIdx)
               PROVE  Before(mem[writeBufIdx][i], Unsettled', FlightRows \cup At(writeBufIdx, i))
    BY <1>1, <1>2, <1>5 DEF OpenOrder
  <2>1. Before(mem[writeBufIdx][i], Unsettled, HeldRows \cup FlightRows \cup At(writeBufIdx, i))
    BY DEF LInv, Order, OpenOrder
  <2> QED
    BY <1>8, <2>1 DEF Before
<1>13. TxnOrder'
  BY DEF TxnOrder
<1>14. ASSUME NEW q \in Range(txn) PROVE Before(q, Unsettled', {})
  <2>1. PICK i \in 1 .. Len(txn) : q = txn[i]
    BY <1>3, <1>14
  <2>2. {txn[j] : j \in 1 .. i} \subseteq Range(txn)
    BY <1>3, <2>1
  <2> QED
    BY <1>2, <1>4, <2>1, <2>2 DEF Before
<1>15. TableOrder'
  <2> SUFFICES ASSUME NEW q \in Rows \cup Range(txn)
               PROVE  Before(q, Unsettled', {})
    BY DEF TableOrder
  <2>1. CASE q \in Rows
    BY <1>2, <2>1 DEF LInv, Order, TableOrder, Before
  <2> QED
    BY <1>14, <2>1
<1> QED
  BY <1>6, <1>7, <1>9, <1>10, <1>11, <1>12, <1>13, <1>14, <1>15 DEF Order

\* The rows of an insert that commits join the table, those of one that fails
\* are discarded.
LEMMA CommitLoss ==
    ASSUME IInv, Tokens, LInv, InsertCommits \/ InsertFails
    PROVE  /\ Known' /\ Accounted' /\ Order'
           /\ \A q \in Range(txn) : Before(q, Unsettled', {})
<1>1. /\ pg = "insert" /\ Len(txn) = itemCount /\ pg' \in {"loop", "inserted"}
      /\ UNCHANGED <<writeBufIdx, readBufIdx, rbuf, cur, mem, wpc, rpc, readEvent, mb, curBuf, sent,
                     stray, txn, itemCount>>
      /\ \/ table' = table \o txn /\ discarded' = discarded
         \/ table' = table /\ discarded' = discarded \cup Range(txn)
  BY DEF InsertCommits, InsertFails, pipeVars, mbVars
<1>2. Range(table \o txn) = Range(table) \cup Range(txn)
  BY Typed, RangeOfConcatenation
<1>3. /\ Rows' \subseteq Rows \cup Range(txn)
      /\ Rows' \cup discarded' = Rows \cup discarded \cup Range(txn)
  BY <1>1, <1>2 DEF Rows
<1> QED
  BY <1>1, <1>3, EndLoss

\* Every step keeps what is unsettled accounted for and behind what was.
LEMMA LossStep ==
    ASSUME BufCount >= 3, IInv, IInv', Tokens, LInv, [Next]_vars
    PROVE  LInv'
<1> USE DEF pipeIdx, pipeVars, mbVars, pgVars
<1>1. CurBufFollows' /\ Copying'
  BY FollowsStep, CopyingStep DEF LInv
<1> SUFFICES Known' /\ Accounted' /\ Order'
  BY <1>1 DEF LInv
\* Steps that leave the packets and CurBuf's place among them alone.
<1>2. ASSUME UNCHANGED <<writeBufIdx, readBufIdx, rbuf, cur, mem, sent, stray, table, discarded, txn,
                         itemCount>>,
             mb' = "copy" <=> mb = "copy", mb = "copy" => curBuf' = curBuf,
             Held' <=> Held, Outstanding' <=> Outstanding, Open' <=> Open,
             pg' = "insert" <=> pg = "insert"
      PROVE  Known' /\ Accounted' /\ Order'
  <2>1. Unsettled' = Unsettled
    BY <1>2 DEF Unsettled, Rows
  <2>2. \A b \in Slot : Filled(b)' = Filled(b)
    BY <1>2 DEF Filled
  <2>3. \A b \in Slot : cur[b] \in Nat
    BY Typed
  <2>4. \A b \in Slot : cur'[b] >= cur[b]
    BY <1>2, <2>3
  <2> QED
    BY <1>2, <2>1, <2>2, <2>4, QuietLoss
<1>3. CASE Connect \/ Rotated \/ ReceiveTimeout \/ ReceiveFailure \/ CloseConnection
  <2>1. /\ UNCHANGED pipeVars /\ UNCHANGED pgVars /\ sent' = sent /\ stray' = stray
        /\ mb # "copy" /\ mb' # "copy"
    BY <1>3 DEF Connect, Rotated, ReceiveTimeout, ReceiveFailure, CloseConnection
  <2>2. (Held' <=> Held) /\ (Outstanding' <=> Outstanding) /\ (Open' <=> Open)
    BY <2>1 DEF Held, Outstanding, Open
  <2> QED
    BY <1>2, <2>1, <2>2
<1>4. CASE ReceiveLoop \/ Reconnect
  <2>1. /\ UNCHANGED <<writeBufIdx, readBufIdx, rbuf, cur, mem, rpc, readEvent>> /\ UNCHANGED pgVars
        /\ sent' = sent /\ stray' = stray /\ mb # "copy" /\ mb' # "copy"
        /\ wpc' = wpc \/ (wpc = "caller" /\ wpc' \in {"caller", "take"})
    BY <1>4 DEF ReceiveLoop, Reconnect, CallGetWriteBuffer, CallFlush
  <2>2. (Held' <=> Held) /\ (Outstanding' <=> Outstanding) /\ (Open' <=> Open)
    BY <2>1 DEF Held, Outstanding, Open
  <2> QED
    BY <1>2, <2>1, <2>2
<1>5. CASE WriterPipeStep /\ UNCHANGED <<shutdown, mbVars, pgVars>>
  <2>1. CASE TakeWriteCredit \/ CountPublished \/ SignalReader
    <3>1. /\ UNCHANGED <<writeBufIdx, readBufIdx, rbuf, cur, mem, rpc>>
          /\ \/ wpc = "take" /\ wpc' = "advance" /\ readEvent' = readEvent
             \/ wpc = "count" /\ wpc' = "signal" /\ readEvent' = readEvent
             \/ wpc = "signal" /\ wpc' = "clear" /\ readEvent' = readEvent + 1
      BY <2>1 DEF TakeWriteCredit, CountPublished, SignalReader
    <3>2. Outstanding' <=> Outstanding
      BY <3>1 DEF Outstanding, Tokens, Fresh, OneToken
    <3>3. (Held' <=> Held) /\ (Open' <=> Open)
      BY <1>5, <3>1 DEF Held, Open
    <3> QED
      BY <1>2, <1>5, <3>1, <3>2, <3>3
  <2> QED
    BY <1>5, <2>1, AdvanceWriteLoss, ClearLoss DEF WriterPipeStep
<1>6. CASE ReaderPipeStep /\ UNCHANGED <<shutdown, mbVars, pgVars>>
  <2>1. CASE TakeReadEvent \/ CountTaken \/ ReturnCredit
    <3>1. /\ UNCHANGED <<writeBufIdx, readBufIdx, rbuf, cur, mem, wpc>>
          /\ \/ rpc = "take" /\ rpc' = "advance" /\ readEvent > 0 /\ readEvent' = 0
             \/ rpc = "uncount" /\ rpc' = "release" /\ readEvent' = readEvent
             \/ rpc = "release" /\ rpc' = "caller" /\ readEvent' = readEvent
      BY <2>1 DEF TakeReadEvent, CountTaken, ReturnCredit
    <3>2. Outstanding' <=> Outstanding
      BY <3>1 DEF Outstanding, Tokens, Fresh, OneToken
    <3>3. (Held' <=> Held) /\ (Open' <=> Open)
      BY <1>6, <3>1 DEF Held, Open
    <3> QED
      BY <1>2, <1>6, <3>1, <3>2, <3>3
  <2> QED
    BY <1>6, <2>1, AdvanceReadLoss DEF ReaderPipeStep
<1>7. CASE PgLoop \/ EpollReady \/ EpollTimeout \/ NextReadBuffer \/ RequestShutdown
  <2>1. /\ UNCHANGED <<writeBufIdx, readBufIdx, rbuf, cur, mem, wpc, readEvent>> /\ UNCHANGED mbVars
        /\ UNCHANGED <<itemCount, txn, table, discarded>>
        /\ \/ pg \in {"loop", "epoll"} /\ pg' \in {"epoll", "done", "loop"} /\ rpc' = rpc
           \/ pg \in {"epoll", "inserted"} /\ pg' = "count" /\ rpc = "caller" /\ rpc' = "take"
           \/ pg' = pg /\ rpc' = rpc
    BY <1>7 DEF PgLoop, EpollReady, EpollTimeout, NextReadBuffer, RequestShutdown, CallGetReadBuffer
  <2>2. (Held' <=> Held) /\ (Outstanding' <=> Outstanding) /\ (Open' <=> Open)
        /\ (pg' = "insert" <=> pg = "insert")
    BY <2>1 DEF Held, Outstanding, Open
  <2> QED
    BY <1>2, <2>1, <2>2
<1>8. CASE UNCHANGED vars
  <2>1. UNCHANGED pipeVars /\ UNCHANGED mbVars /\ UNCHANGED pgVars
    BY <1>8 DEF vars
  <2>2. (Held' <=> Held) /\ (Outstanding' <=> Outstanding) /\ (Open' <=> Open)
    BY <2>1 DEF Held, Outstanding, Open
  <2> QED
    BY <1>2, <2>1, <2>2
<1> QED
  BY <1>3, <1>4, <1>5, <1>6, <1>7, <1>8, ReceiveLoss, CopyLoss, CountLoss, ReadRowLoss, CommitLoss
     DEF Next, MbStep, PgStep, Ended

\* What is unsettled stays accounted for in every reachable state.
LEMMA LossInvariance ==
    ASSUME BufCount >= 3
    PROVE  Spec => [](IInv /\ LInv)
<1>1. Init => IInv /\ LInv
  BY InitIInv, LossInit
<1>2. TInv /\ TInv' /\ LInv /\ [Next]_vars => LInv'
  BY LossStep DEF TInv
<1>3. Spec => []TInv
  BY TableInvariance
<1>4. TInv => IInv
  BY DEF TInv
<1> QED
  BY <1>1, <1>2, <1>3, <1>4, PTL DEF Spec

\* Whatever the connections and the inserts do, a packet that later packets have
\* overtaken into the table was inserted, or was in an insert that failed, or was
\* pushed through a CurBuf that SdPipeFlush had left behind (Modbus.c:151-216,
\* Postgres.c:142-178): nothing else loses a packet.
THEOREM OnlyStrayPacketsLost ==
    ASSUME BufCount >= 3
    PROVE  Spec => []OnlyStrayLost
<1>1. ASSUME IInv, LInv PROVE OnlyStrayLost
  <2> SUFFICES ASSUME NEW p \in 1 .. sent, NEW q \in Rows, p < q,
                      p \notin Rows \cup discarded \cup stray
               PROVE  FALSE
    BY DEF OnlyStrayLost
  <2>1. p \in Unsettled
    BY DEF Unsettled
  <2>2. q < p
    BY <1>1, <2>1 DEF LInv, Order, TableOrder, Before
  <2>3. p \in Int /\ q \in Int
    BY <1>1, Typed DEF Rows, Range
  <2> QED
    BY <2>2, <2>3
<1> QED
  BY <1>1, LossInvariance, PTL

-----------------------------------------------------------------------------
(***************************************************************************)
(* From the sensor to the server's table (EndToEnd), for any arenas,       *)
(* thresholds and rooms of the conversion buffer.                          *)
(*                                                                         *)
(* A run of it is a run of ModbusWithPostgres, so what holds of the        *)
(* packets there holds here, and it calls AtomicInsert as PgInsertData     *)
(* implements it.  What PgRun has been told (table, discarded) and what    *)
(* the server has (database) are held together by Kept: as long as the     *)
(* connection is there the server has only rows that PgRun knows it has;   *)
(* and once it is lost the server's table stays as it is.                  *)
(***************************************************************************)
\* The insert being made has the rows of the arena, and stored none so far;
\* nor have those to come.
Inserts ==
    /\ pg = "insert" => call \in 1 .. MaxInserts /\ items[call] = itemCount
    /\ \A k \in 1 .. MaxInserts : k > call \/ (k = call /\ pg = "insert") => stored[k] = 0

\* What is known of the answers, whatever becomes of the packets before.
ReportInv == EndTypeOK /\ Inserts /\ DatabaseAsReported

Kept ==
    /\ ~lost => Range(database) \subseteq Rows
    /\ Rows \subseteq Range(database) \cup unstored

\* A row of the server came before all that is still to be inserted.
Older == \A q \in Range(database) : q <= sent /\ Before(q, Unsettled, {})

EndInv == EndTypeOK /\ Inserts /\ Kept /\ Older /\ DatabaseInOrder /\ DatabaseAsReported

\* What holds of the threads' side.
SideInv == TInv /\ LInv

\* Before the first insert the server has nothing.
LEMMA EndInitHolds == EndInit => EndInv
<1> SUFFICES ASSUME EndInit PROVE EndInv
  OBVIOUS
<1>1. /\ TypeOK /\ sent = 0 /\ table = << >> /\ pg # "insert"
      /\ call = 0 /\ lost = FALSE /\ database = << >> /\ unstored = {}
      /\ items = [k \in 1 .. MaxInserts |-> 0] /\ stored = [k \in 1 .. MaxInserts |-> 0]
      /\ outcome = [k \in 1 .. MaxInserts |-> "none"]
  BY InitIInv DEF EndInit, Init, Insert!AInit, IInv
<1>2. MaxInserts \in Nat /\ ItemMax \in Nat
  BY InsertAssumption, Ranges
<1>3. Range(<< >>) = {} /\ Len(<< >>) = 0 /\ DOMAIN << >> = {} /\ << >> \in Seq(Nat)
  BY DEF Range
<1>4. EndTypeOK
  <2>1. 0 \in 0 .. ItemMax /\ call \in 0 .. MaxInserts
    BY <1>1, <1>2
  <2>2. /\ items \in [1 .. MaxInserts -> 0 .. ItemMax]
        /\ stored \in [1 .. MaxInserts -> 0 .. ItemMax]
        /\ outcome \in [1 .. MaxInserts -> {"none", "ok", "err"}]
    BY <1>1, <2>1
  <2> QED
    BY <1>1, <1>3, <2>1, <2>2 DEF EndTypeOK
<1>5. Inserts
  BY <1>1 DEF Inserts
<1>6. Kept /\ Older
  BY <1>1, <1>3 DEF Kept, Older, Rows
<1>7. DatabaseInOrder /\ DatabaseAsReported
  BY <1>1, <1>2, <1>3 DEF DatabaseInOrder, DatabaseAsReported
<1> QED
  BY <1>4, <1>5, <1>6, <1>7 DEF EndInv

-----------------------------------------------------------------------------
\* Every step of the whole is a step of the threads and of the inserts.
LEMMA EndSteps ==
    ASSUME [EndNext]_allVars
    PROVE  [Next]_vars /\ [Insert!ANext]_(Insert!avars)
<1>1. CASE StartInsert
  BY <1>1 DEF StartInsert, Next, PgStep, Insert!ANext
<1>2. CASE EndInsert
  BY <1>2 DEF EndInsert, Answered, Next, PgStep, Insert!ANext
<1>3. CASE LoseConnection
  BY <1>3 DEF LoseConnection, Insert!ANext
<1>4. CASE EndMbStep
  <2>1. UNCHANGED pgVars
    BY <1>4 DEF EndMbStep, MbStep, Connect, ReceiveLoop, Rotated, ReceiveTimeout, ReceiveFailure,
                ReceivePacket, CopyPacket, Reconnect, CloseConnection
  <2> QED
    BY <1>4, <2>1 DEF EndMbStep, Next, dbVars, pgVars, Insert!avars
<1>5. CASE PgElsewhere /\ UNCHANGED dbVars
  <2>1. pg' = "insert" <=> pg = "insert"
    BY <1>5 DEF PgElsewhere, PgLoop, EpollReady, EpollTimeout, ReadRow, NextReadBuffer, pgVars
  <2> QED
    BY <1>5, <2>1 DEF PgElsewhere, Next, PgStep, dbVars, Insert!avars
<1>6. CASE (RequestShutdown \/ Ended) /\ UNCHANGED dbVars
  <2>1. pg' = "insert" <=> pg = "insert"
    BY <1>6 DEF RequestShutdown, Ended, vars, pgVars
  <2> QED
    BY <1>6, <2>1 DEF Next, dbVars, Insert!avars
<1>7. CASE UNCHANGED allVars
  BY <1>7 DEF allVars, vars, pgVars, dbVars, Insert!avars
<1> QED
  BY <1>1, <1>2, <1>3, <1>4, <1>5, <1>6, <1>7 DEF EndNext, EndPgStep

\* Away from the end of an insert nothing is stored, and PgRun is told nothing.
LEMMA EndsElsewhere ==
    ASSUME IInv, EndTypeOK, [EndNext]_allVars, ~EndInsert
    PROVE  /\ UNCHANGED <<table, discarded, database, unstored, stored, outcome>>
           /\ sent' \in {sent, sent + 1} /\ stray \subseteq stray'
           /\ lost => lost'
           /\ \/ /\ UNCHANGED <<call, items>>
                 /\ pg' = "insert" => pg = "insert" /\ itemCount' = itemCount
              \/ /\ pg # "insert" /\ pg' = "insert"
                 /\ call < MaxInserts /\ call' = call + 1
                 /\ \E n \in 0 .. ItemMax : items' = [items EXCEPT ![call + 1] = n]
                 /\ items'[call'] = itemCount'
<1>1. CASE StartInsert
  <2>1. /\ UNCHANGED <<table, discarded, sent, stray>> /\ pg # "insert" /\ pg' = "insert"
    BY <1>1 DEF StartInsert, CountItems, mbVars
  <2> QED
    BY <1>1, <2>1 DEF StartInsert, Insert!ACall
<1>2. CASE LoseConnection
  BY <1>2 DEF LoseConnection, Insert!ALost, vars, mbVars, pgVars
<1>3. CASE EndMbStep
  <2>1. UNCHANGED pgVars /\ sent' \in {sent, sent + 1} /\ stray \subseteq stray'
    BY <1>3 DEF EndMbStep, MbStep, Connect, ReceiveLoop, Rotated, ReceiveTimeout, ReceiveFailure,
                ReceivePacket, CopyPacket, Reconnect, CloseConnection, mbVars
  <2> QED
    BY <1>3, <2>1 DEF EndMbStep, pgVars, dbVars
<1>4. CASE PgElsewhere /\ UNCHANGED dbVars
  <2>1. /\ UNCHANGED <<table, discarded, sent, stray, itemCount>>
        /\ pg' = "insert" <=> pg = "insert"
    BY <1>4 DEF PgElsewhere, PgLoop, EpollReady, EpollTimeout, ReadRow, NextReadBuffer, pgVars, mbVars
  <2> QED
    BY <1>4, <2>1 DEF dbVars
<1>5. CASE (RequestShutdown \/ Ended) /\ UNCHANGED dbVars
  <2>1. /\ UNCHANGED <<table, discarded, sent, stray, itemCount>>
        /\ pg' = "insert" <=> pg = "insert"
    BY <1>5 DEF RequestShutdown, Ended, vars, pgVars, mbVars
  <2> QED
    BY <1>5, <2>1 DEF dbVars
<1>6. CASE UNCHANGED allVars
  BY <1>6 DEF allVars, vars, pgVars, mbVars, dbVars
<1> QED
  BY <1>1, <1>2, <1>3, <1>4, <1>5, <1>6 DEF EndNext, EndPgStep

\* Such steps keep what is known of the answers.
LEMMA ElsewhereReports ==
    ASSUME IInv, IInv', ReportInv, [EndNext]_allVars, ~EndInsert
    PROVE  ReportInv'
<1>1. /\ UNCHANGED <<table, discarded, database, unstored, stored, outcome>>
      /\ lost => lost'
  BY EndsElsewhere DEF ReportInv
<1>2. \/ /\ UNCHANGED <<call, items>>
         /\ pg' = "insert" => pg = "insert" /\ itemCount' = itemCount
      \/ /\ pg # "insert" /\ pg' = "insert"
         /\ call < MaxInserts /\ call' = call + 1
         /\ \E n \in 0 .. ItemMax : items' = [items EXCEPT ![call + 1] = n]
         /\ items'[call'] = itemCount'
  BY EndsElsewhere DEF ReportInv
<1>3. MaxInserts \in Nat
  BY InsertAssumption
<1>4. EndTypeOK'
  <2>1. TypeOK'
    BY DEF IInv
  <2>2. call' \in 0 .. MaxInserts /\ items' \in [1 .. MaxInserts -> 0 .. ItemMax]
    <3>1. call \in 0 .. MaxInserts /\ items \in [1 .. MaxInserts -> 0 .. ItemMax]
      BY DEF ReportInv, EndTypeOK
    <3>2. CASE UNCHANGED <<call, items>>
      BY <3>1, <3>2
    <3>3. CASE ~UNCHANGED <<call, items>>
      <4>1. call < MaxInserts /\ call' = call + 1
            /\ \E n \in 0 .. ItemMax : items' = [items EXCEPT ![call + 1] = n]
        BY <1>2, <3>3
      <4>2. call' \in 0 .. MaxInserts
        BY <1>3, <3>1, <4>1
      <4>3. items' \in [1 .. MaxInserts -> 0 .. ItemMax]
        BY <3>1, <4>1
      <4> QED
        BY <4>2, <4>3
    <3> QED
      BY <3>2, <3>3
  <2>3. lost' \in BOOLEAN
    <3>1. CASE LoseConnection
      BY <3>1 DEF LoseConnection, Insert!ALost
    <3>2. CASE ~LoseConnection
      <4>1. lost' = lost
        BY <3>2 DEF EndNext, EndMbStep, EndPgStep, StartInsert, Insert!ACall, dbVars, allVars
      <4> QED
        BY <4>1 DEF ReportInv, EndTypeOK
    <3> QED
      BY <3>1, <3>2
  <2> QED
    BY <1>1, <2>1, <2>2, <2>3 DEF ReportInv, EndTypeOK
<1>5. Inserts'
  BY <1>1, <1>2, <1>3 DEF ReportInv, EndTypeOK, Inserts
<1>6. DatabaseAsReported'
  BY <1>1 DEF ReportInv, DatabaseAsReported
<1> QED
  BY <1>4, <1>5, <1>6 DEF ReportInv

\* Such steps keep what holds of the server's table.
LEMMA ElsewhereKeeps ==
    ASSUME SideInv, SideInv', EndInv, [EndNext]_allVars, ~EndInsert
    PROVE  EndInv'
<1>1. /\ UNCHANGED <<table, discarded, database, unstored, stored, outcome>>
      /\ sent' \in {sent, sent + 1} /\ stray \subseteq stray'
      /\ lost => lost'
  BY EndsElsewhere DEF SideInv, TInv, EndInv
<1>2. sent \in Nat /\ sent' \in Nat /\ sent' >= sent
  BY <1>1, Typed DEF SideInv, TInv
<1>3. Rows' = Rows /\ Unsettled' \subseteq Unsettled \cup {sent + 1}
  BY <1>1, <1>2 DEF Rows, Unsettled
<1>4. ReportInv'
  BY ElsewhereReports DEF SideInv, TInv, EndInv, ReportInv
<1>5. Kept'
  BY <1>1, <1>3 DEF EndInv, Kept
<1>6. Older'
  <2> SUFFICES ASSUME NEW q \in Range(database)
               PROVE  q <= sent' /\ Before(q, Unsettled', {})
    BY <1>1 DEF Older
  <2>1. q <= sent /\ Before(q, Unsettled, {}) /\ q \in Nat
    BY DEF EndInv, EndTypeOK, Older, Range
  <2>2. q < sent + 1 /\ q <= sent'
    BY <1>2, <2>1
  <2> QED
    BY <1>3, <2>1, <2>2 DEF Before
<1>7. DatabaseInOrder'
  <2>1. stray' = {} => stray = {}
    BY <1>1
  <2>2. 1 .. sent \subseteq 1 .. sent'
    BY <1>2
  <2> QED
    BY <1>1, <2>1, <2>2 DEF EndInv, DatabaseInOrder
<1> QED
  BY <1>4, <1>5, <1>6, <1>7 DEF EndInv, ReportInv

\* An insert answers: the server has all rows or none of them, and a connection
\* that is lost has stored nothing since.
LEMMA AnswerIs ==
    ASSUME IInv, EndTypeOK, Inserts, EndInsert
    PROVE  /\ pg = "insert" /\ pg' # "insert" /\ Len(txn) = itemCount /\ call' = call
           /\ UNCHANGED <<sent, stray>>
           /\ database' = database \/ (~lost /\ database' = database \o txn)
           /\ \/ /\ table' = table \o txn /\ discarded' = discarded /\ ~lost /\ lost' = lost
                 /\ \/ database' = database \o txn /\ unstored' = unstored
                    \/ database' = database /\ unstored' = unstored \cup Range(txn)
              \/ /\ table' = table /\ discarded' = discarded \cup Range(txn)
                 /\ unstored' = unstored
                 /\ \/ database' = database /\ (lost => lost')
                    \/ database' = database \o txn /\ ~lost /\ lost'
<1>1. /\ pg = "insert" /\ pg' # "insert" /\ Len(txn) = itemCount /\ call' = call
      /\ UNCHANGED <<sent, stray, items>>
      /\ \/ InsertCommits /\ table' = table \o txn /\ discarded' = discarded
         \/ InsertFails /\ table' = table /\ discarded' = discarded \cup Range(txn)
  BY DEF EndInsert, Answered, InsertCommits, InsertFails, Insert!AStored, Insert!AFailed,
         Insert!AUnanswered, Insert!Answer, mbVars
<1>2. /\ call \in 1 .. MaxInserts /\ items[call] = Len(txn) /\ stored[call] = 0
      /\ stored \in [1 .. MaxInserts -> 0 .. ItemMax]
      /\ outcome \in [1 .. MaxInserts -> {"none", "ok", "err"}]
  BY <1>1 DEF Inserts, EndTypeOK
<1>3. /\ txn \in Seq(Nat) /\ database \in Seq(Nat) /\ Len(txn) \in Nat
  BY Typed DEF EndTypeOK
<1>4. SubSeq(txn, 1, 0) = << >> /\ SubSeq(txn, 1, Len(txn)) = txn /\ database \o << >> = database
  BY <1>3
<1>5. /\ Insert!Store => stored'[call] \in {0, Len(txn)}
      /\ stored' = stored => stored'[call] = 0
  BY <1>2 DEF Insert!Store
<1>6. \A answer \in {"ok", "err"} : Insert!Answer(answer) => outcome'[call] = answer
  BY <1>2 DEF Insert!Answer
<1>7. /\ database' = database \o SubSeq(txn, 1, stored'[call])
      /\ unstored' = IF outcome'[call] = "ok" /\ stored'[call] = 0
                       THEN unstored \cup Range(txn) ELSE unstored
  BY <1>1 DEF EndInsert
<1>8. CASE InsertCommits /\ Insert!AStored
  <2>1. /\ ~lost /\ lost' = lost /\ outcome'[call] = "ok" /\ stored'[call] \in {0, Len(txn)}
    BY <1>5, <1>6, <1>8 DEF Insert!AStored
  <2>2. table' = table \o txn /\ discarded' = discarded
    BY <1>8 DEF InsertCommits
  <2>3. CASE stored'[call] = 0
    BY <1>1, <1>4, <1>7, <2>1, <2>2, <2>3
  <2>4. CASE stored'[call] # 0
    BY <1>1, <1>4, <1>7, <2>1, <2>2, <2>4
  <2> QED
    BY <2>3, <2>4
<1>9. CASE InsertFails /\ Insert!AFailed
  <2>1. lost' = lost /\ outcome'[call] = "err" /\ stored'[call] = 0
    BY <1>5, <1>6, <1>9 DEF Insert!AFailed
  <2>2. table' = table /\ discarded' = discarded \cup Range(txn)
    BY <1>9 DEF InsertFails
  <2> QED
    BY <1>1, <1>4, <1>7, <2>1, <2>2
<1>10. CASE InsertFails /\ Insert!AUnanswered
  <2>1. /\ ~lost /\ lost' /\ outcome'[call] = "err" /\ stored'[call] \in {0, Len(txn)}
    BY <1>5, <1>6, <1>10 DEF Insert!AUnanswered
  <2>2. table' = table /\ discarded' = discarded \cup Range(txn)
    BY <1>10 DEF InsertFails
  <2> QED
    BY <1>1, <1>4, <1>7, <2>1, <2>2
<1> QED
  BY <1>8, <1>9, <1>10 DEF EndInsert, Answered

\* The types after the answer.
LEMMA AnswerTypes ==
    ASSUME IInv, IInv', EndTypeOK, Inserts, EndInsert
    PROVE  EndTypeOK' /\ Inserts'
<1>1. /\ call' = call /\ items' = items /\ pg = "insert" /\ pg' # "insert"
      /\ lost' \in BOOLEAN /\ txn \in Seq(Nat)
      /\ \E answer \in {"ok", "err"} : outcome' = [outcome EXCEPT ![call] = answer]
  BY AnswerIs, Typed
     DEF EndInsert, Answered, Insert!AStored, Insert!AFailed, Insert!AUnanswered, Insert!Answer,
         EndTypeOK
<1>2. /\ call \in 1 .. MaxInserts /\ items[call] \in 0 .. ItemMax /\ 0 \in 0 .. ItemMax
      /\ stored \in [1 .. MaxInserts -> 0 .. ItemMax]
      /\ outcome \in [1 .. MaxInserts -> {"none", "ok", "err"}]
  BY <1>1, Ranges DEF Inserts, EndTypeOK
<1>3. stored' = stored \/ \E n \in 0 .. ItemMax : stored' = [stored EXCEPT ![call] = n]
  BY <1>2 DEF EndInsert, Answered, Insert!AStored, Insert!AFailed, Insert!AUnanswered, Insert!Store
<1>4. /\ stored' \in [1 .. MaxInserts -> 0 .. ItemMax]
      /\ outcome' \in [1 .. MaxInserts -> {"none", "ok", "err"}]
  BY <1>1, <1>2, <1>3
<1>5. database' \in Seq(Nat) /\ unstored' \subseteq Nat
  <2>1. database \o txn \in Seq(Nat) /\ Range(txn) \subseteq Nat
    BY <1>1 DEF EndTypeOK, Range
  <2> QED
    BY <2>1, AnswerIs DEF EndTypeOK
<1>6. EndTypeOK'
  BY <1>1, <1>4, <1>5 DEF EndTypeOK, IInv
<1>7. \A k \in 1 .. MaxInserts : k > call => stored'[k] = 0
  <2>1. \A k \in 1 .. MaxInserts : k # call => stored'[k] = stored[k]
    BY <1>2, <1>3
  <2>2. call \in Nat
    BY <1>2
  <2> QED
    BY <2>1, <2>2 DEF Inserts
<1> QED
  BY <1>1, <1>6, <1>7 DEF Inserts

\* The rows the server has after the answer, whatever it is.
LEMMA AnswerKeepsRows ==
    ASSUME SideInv, SideInv', EndInv, EndInsert
    PROVE  Kept' /\ Older'
<1>1. IInv /\ IInv' /\ Tokens /\ LInv /\ EndTypeOK /\ Inserts /\ Kept /\ Older
  BY DEF SideInv, TInv, EndInv
<1>2. /\ Range(table \o txn) = Range(table) \cup Range(txn)
      /\ Range(database \o txn) = Range(database) \cup Range(txn)
  BY <1>1, Typed, RangeOfConcatenation DEF EndTypeOK
<1>3. Kept'
  <2>1. CASE table' = table \o txn /\ ~lost /\ lost' = lost
             /\ database' = database \o txn /\ unstored' = unstored
    BY <1>1, <1>2, <2>1 DEF Kept, Rows
  <2>2. CASE table' = table \o txn /\ ~lost /\ lost' = lost
             /\ database' = database /\ unstored' = unstored \cup Range(txn)
    BY <1>1, <1>2, <2>2 DEF Kept, Rows
  <2>3. CASE table' = table /\ unstored' = unstored /\ database' = database /\ (lost => lost')
    BY <1>1, <2>3 DEF Kept, Rows
  <2>4. CASE table' = table /\ unstored' = unstored /\ database' = database \o txn /\ lost'
    BY <1>1, <1>2, <2>4 DEF Kept, Rows
  <2> QED
    BY <1>1, <2>1, <2>2, <2>3, <2>4, AnswerIs
<1>4. Older'
  <2>1. \A q \in Range(txn) : Before(q, Unsettled', {})
    BY <1>1, CommitLoss DEF EndInsert, Answered
  <2>2. \A q \in Range(txn) : q <= sent
    <3>1. DOMAIN txn = 1 .. Len(txn)
      BY <1>1, Typed
    <3> QED
      BY <1>1, <3>1 DEF LInv, Known, Range
  <2>3. Unsettled' \subseteq Unsettled
    <3>1. Rows \subseteq Rows' /\ discarded \subseteq discarded' /\ UNCHANGED <<sent, stray>>
      BY <1>1, <1>2, AnswerIs DEF Rows
    <3> QED
      BY <3>1 DEF Unsettled
  <2>4. Range(database') \subseteq Range(database) \cup Range(txn) /\ sent' = sent
    BY <1>1, <1>2, AnswerIs
  <2> SUFFICES ASSUME NEW q \in Range(database')
               PROVE  q <= sent /\ Before(q, Unsettled', {})
    BY <2>4 DEF Older
  <2>5. CASE q \in Range(txn)
    BY <2>1, <2>2, <2>5
  <2>6. CASE q \in Range(database)
    BY <1>1, <2>3, <2>6 DEF Older, Before
  <2> QED
    BY <2>4, <2>5, <2>6
<1> QED
  BY <1>3, <1>4

\* As long as nothing went astray the rows come behind those the server has.
LEMMA AnswerKeepsOrder ==
    ASSUME SideInv, SideInv', EndInv, EndInsert
    PROVE  DatabaseInOrder'
<1>1. IInv /\ LInv /\ EndTypeOK /\ Inserts /\ Kept /\ DatabaseInOrder
  BY DEF SideInv, TInv, EndInv
<1>2. UNCHANGED <<sent, stray>> /\ pg = "insert"
  BY <1>1, AnswerIs
<1>3. CASE database' = database
  BY <1>1, <1>2, <1>3 DEF DatabaseInOrder
<1>4. CASE ~lost /\ database' = database \o txn
  <2> SUFFICES ASSUME stray = {}
               PROVE  /\ Range(database') \subseteq 1 .. sent
                      /\ \A i, j \in DOMAIN database' : i < j => database'[i] < database'[j]
    BY <1>2 DEF DatabaseInOrder
  <2>1. Contents
    BY <1>2 DEF SideInv, TInv
  <2>2. /\ HeldBase \in Int /\ HeldBase >= 0
        /\ \A i \in 1 .. Len(txn) : txn[i] = HeldBase + i
        /\ \A i \in 1 .. Len(table) : table[i] \in 1 .. HeldBase
    BY <1>1, <1>2, <2>1, Counts DEF Contents, Inserting, Inserted, HeldBase
  <2> HIDE DEF HeldBase
  <2>3. /\ Len(database) \in Nat /\ Len(txn) \in Nat /\ Len(database') = Len(database) + Len(txn)
        /\ \A i \in 1 .. Len(database) : database'[i] = database[i]
        /\ \A i \in 1 .. Len(txn) : database'[Len(database) + i] = txn[i]
        /\ DOMAIN database = 1 .. Len(database) /\ DOMAIN database' = 1 .. Len(database')
    BY <1>1, <1>4, Typed, Concatenation DEF EndTypeOK
  <2>4. \A i \in 1 .. Len(database) : database[i] \in 1 .. HeldBase
    <3>1. \A i \in 1 .. Len(database) : database[i] \in Rows
      BY <1>1, <1>4, <2>3 DEF Kept, Range
    <3>2. DOMAIN table = 1 .. Len(table)
      BY <1>1, Typed
    <3> QED
      BY <2>2, <3>1, <3>2 DEF Rows, Range
  <2>5. ASSUME NEW i \in 1 .. Len(database'), i \notin 1 .. Len(database)
        PROVE  database'[i] = HeldBase + (i - Len(database)) /\ i - Len(database) \in 1 .. Len(txn)
    <3>1. i - Len(database) \in 1 .. Len(txn) /\ Len(database) + (i - Len(database)) = i
      BY <2>3, <2>5
    <3> QED
      BY <2>2, <2>3, <3>1
  <2>6. ASSUME NEW i \in 1 .. Len(database'), NEW j \in 1 .. Len(database'), i < j
        PROVE  database'[i] < database'[j]
    <3>1. CASE j \in 1 .. Len(database)
      <4>1. i \in 1 .. Len(database)
        BY <2>3, <2>6, <3>1
      <4> QED
        BY <1>1, <2>3, <2>6, <3>1, <4>1 DEF DatabaseInOrder
    <3>2. CASE j \notin 1 .. Len(database) /\ i \in 1 .. Len(database)
      <4>1. database'[i] \in 1 .. HeldBase
        BY <2>3, <2>4, <3>2
      <4> QED
        BY <2>2, <2>5, <3>2, <4>1
    <3>3. CASE j \notin 1 .. Len(database) /\ i \notin 1 .. Len(database)
      BY <2>2, <2>3, <2>5, <2>6, <3>3
    <3> QED
      BY <3>1, <3>2, <3>3
  <2>7. Range(database') \subseteq 1 .. sent
    <3>1. \A q \in Range(database') : q <= sent
      BY <1>2, AnswerKeepsRows DEF Older
    <3>2. ASSUME NEW i \in 1 .. Len(database') PROVE database'[i] \in Nat /\ database'[i] >= 1
      <4>1. CASE i \in 1 .. Len(database)
        BY <2>2, <2>3, <2>4, <4>1
      <4>2. CASE i \notin 1 .. Len(database)
        BY <2>2, <2>5, <4>2
      <4> QED
        BY <4>1, <4>2
    <3>3. sent \in Nat
      BY <1>1, Typed
    <3>4. \A i \in 1 .. Len(database') : database'[i] \in Range(database')
      BY <2>3 DEF Range
    <3>5. \A i \in 1 .. Len(database') : database'[i] \in 1 .. sent
      BY <3>1, <3>2, <3>3, <3>4
    <3> QED
      BY <2>3, <3>5 DEF Range
  <2> QED
    BY <2>3, <2>6, <2>7
<1> QED
  BY <1>1, <1>3, <1>4, AnswerIs

\* Sequences of the same length with the same elements are the same.
LEMMA SameSequence ==
    ASSUME NEW s \in Seq(Nat), NEW t \in Seq(Nat), Len(s) = Len(t),
           \A i \in 1 .. Len(s) : s[i] = t[i]
    PROVE  s = t
<1>1. /\ s = [i \in 1 .. Len(s) |-> s[i]]
      /\ t = [i \in 1 .. Len(t) |-> t[i]]
  OBVIOUS
<1> QED
  BY <1>1

\* What PgRun is told of the insert is what has become of it, but for the rows
\* that are stored when the connection is lost, and those that had no room.
LEMMA AnswerKeepsReport ==
    ASSUME IInv, IInv', ReportInv, EndInsert
    PROVE  ReportInv'
<1>1. IInv /\ EndTypeOK /\ Inserts /\ DatabaseAsReported /\ EndTypeOK' /\ Inserts'
  BY AnswerTypes DEF ReportInv
<1>2. /\ table \in Seq(Nat) /\ database \in Seq(Nat) /\ txn \in Seq(Nat)
      /\ Len(table) \in Nat /\ Len(database) \in Nat /\ Len(txn) \in 0 .. ItemMax
      /\ DOMAIN database = 1 .. Len(database) /\ DOMAIN txn = 1 .. Len(txn)
  <2>1. Len(txn) \in 0 .. ItemMax
    BY <1>1, AnswerIs DEF EndTypeOK, TypeOK
  <2> QED
    BY <1>1, <2>1, Typed DEF EndTypeOK
<1> SUFFICES ASSUME unstored' = {}
             PROVE  /\ Len(database') - Len(table') \in 0 .. ItemMax
                    /\ \A i \in DOMAIN database' :
                         IF i <= Len(table') THEN database'[i] = table'[i]
                                             ELSE lost' /\ database'[i] \in discarded'
  BY <1>1 DEF DatabaseAsReported, ReportInv
<1>3. unstored = {}
  BY <1>1, AnswerIs
<1>4. /\ Len(database) - Len(table) \in 0 .. ItemMax
      /\ \A i \in 1 .. Len(database) :
           IF i <= Len(table) THEN database[i] = table[i] ELSE lost /\ database[i] \in discarded
  BY <1>1, <1>2, <1>3 DEF DatabaseAsReported
<1>5. ASSUME ~lost PROVE database = table
  <2>1. Len(database) = Len(table)
    <3>1. ~ Len(database) > Len(table)
      <4> SUFFICES ASSUME Len(database) > Len(table) PROVE FALSE
        OBVIOUS
      <4>1. Len(database) \in 1 .. Len(database) /\ ~ Len(database) <= Len(table)
        BY <1>2
      <4> QED
        BY <1>4, <1>5, <4>1
    <3> QED
      BY <1>2, <1>4, <3>1, Ranges
  <2>2. ASSUME NEW i \in 1 .. Len(database) PROVE database[i] = table[i]
    <3>1. i <= Len(table)
      BY <1>2, <2>1
    <3> QED
      BY <1>4, <3>1
  <2> QED
    BY <1>2, <2>1, <2>2, SameSequence
\* The server has stored all rows and PgRun knows; none, for want of room, which
\* can only be when there were none; or PgRun has seen the insert fail.
<1>6. CASE table' = table \o txn /\ ~lost /\ database' = database \o txn
  <2>1. database' = table'
    BY <1>5, <1>6
  <2>2. Len(table') \in Nat /\ DOMAIN database' = 1 .. Len(table')
    BY <1>2, <1>6, <2>1
  <2> QED
    BY <2>1, <2>2, Ranges
<1>7. CASE table' = table \o txn /\ ~lost /\ database' = database /\ Range(txn) = {}
  <2>1. txn = << >>
    <3>1. ~ Len(txn) > 0
      <4> SUFFICES ASSUME Len(txn) > 0 PROVE FALSE
        OBVIOUS
      <4>1. 1 \in DOMAIN txn
        <5>1. 1 \in 1 .. Len(txn)
          BY <1>2
        <5> QED
          BY <1>2, <5>1
      <4>2. txn[1] \in Range(txn)
        BY <4>1 DEF Range
      <4> QED
        BY <1>7, <4>2
    <3>2. Len(txn) = 0
      BY <1>2, <3>1
    <3> QED
      BY <1>2, <3>2
  <2>2. database' = table'
    BY <1>2, <1>5, <1>7, <2>1
  <2>3. Len(table') \in Nat /\ DOMAIN database' = 1 .. Len(table')
    BY <1>2, <1>7, <2>1, <2>2
  <2> QED
    BY <2>2, <2>3, Ranges
<1>8. CASE table' = table /\ discarded' = discarded \cup Range(txn) /\ database' = database
           /\ (lost => lost')
  BY <1>2, <1>4, <1>8
<1>9. CASE table' = table /\ discarded' = discarded \cup Range(txn) /\ ~lost /\ lost'
           /\ database' = database \o txn
  <2>1. /\ Len(database') = Len(table) + Len(txn) /\ DOMAIN database' = 1 .. Len(table) + Len(txn)
        /\ \A i \in 1 .. Len(table) : database'[i] = table[i]
        /\ \A i \in 1 .. Len(txn) : database'[Len(table) + i] = txn[i]
    <3>1. database' = table \o txn
      BY <1>5, <1>9
    <3>2. DOMAIN (table \o txn) = 1 .. Len(table) + Len(txn)
      BY <1>2, Concatenation
    <3> QED
      BY <1>2, <3>1, <3>2, Concatenation
  <2>2. ASSUME NEW i \in 1 .. Len(table) + Len(txn), ~ i <= Len(table)
        PROVE  database'[i] \in discarded'
    <3>1. i - Len(table) \in 1 .. Len(txn) /\ Len(table) + (i - Len(table)) = i
      BY <1>2, <2>2
    <3>2. database'[i] = txn[i - Len(table)]
      BY <2>1, <3>1
    <3> QED
      BY <1>2, <1>9, <3>1, <3>2 DEF Range
  <2>3. ASSUME NEW i \in 1 .. Len(table) + Len(txn), i <= Len(table)
        PROVE  database'[i] = table'[i]
    BY <1>2, <1>9, <2>1, <2>3
  <2>4. Len(database') - Len(table') \in 0 .. ItemMax
    BY <1>2, <1>9, <2>1, Ranges
  <2> QED
    BY <1>9, <2>1, <2>2, <2>3, <2>4
<1>10. \/ table' = table \o txn /\ ~lost /\ database' = database \o txn
       \/ table' = table \o txn /\ ~lost /\ database' = database /\ Range(txn) = {}
       \/ table' = table /\ discarded' = discarded \cup Range(txn) /\ database' = database
          /\ (lost => lost')
       \/ table' = table /\ discarded' = discarded \cup Range(txn) /\ ~lost /\ lost'
          /\ database' = database \o txn
  BY <1>1, AnswerIs
<1> QED
  BY <1>6, <1>7, <1>8, <1>9, <1>10

\* Every step keeps what is known of the answers ...
LEMMA ReportKeeps == IInv /\ IInv' /\ ReportInv /\ [EndNext]_allVars => ReportInv'
  BY AnswerKeepsReport, ElsewhereReports

\* ... and what holds of the server's table.
LEMMA EndKeeps == SideInv /\ SideInv' /\ EndInv /\ [EndNext]_allVars => EndInv'
<1> SUFFICES ASSUME SideInv, SideInv', EndInv, [EndNext]_allVars PROVE EndInv'
  OBVIOUS
<1>1. CASE EndInsert
  <2>1. ReportInv'
    BY ReportKeeps DEF SideInv, TInv, EndInv, ReportInv
  <2> QED
    BY <1>1, <2>1, AnswerKeepsRows, AnswerKeepsOrder DEF EndInv, ReportInv
<1> QED
  BY <1>1, ElsewhereKeeps

-----------------------------------------------------------------------------
\* A run from the sensor to the server's table is a run of MbRun and PgRun, and
\* one of the inserts: what was proved of the two holds of it.
THEOREM EndToEndComposes == EndSpec => Spec /\ Insert!ASpec
<1>1. EndInit => Init /\ Insert!AInit
  BY DEF EndInit
<1> QED
  BY <1>1, EndSteps, PTL DEF EndSpec, Spec, Insert!ASpec

\* What is known of the answers along every run of it.
LEMMA ReportInvariance == EndSpec => []ReportInv
<1>1. EndInit => ReportInv
  BY EndInitHolds DEF EndInv, ReportInv
<1> QED
  BY <1>1, Invariance, EndToEndComposes, ReportKeeps, PTL DEF EndSpec

\* And of the server's table.
LEMMA EndInvariance ==
    ASSUME BufCount >= 3
    PROVE  EndSpec => [](SideInv /\ EndInv)
<1>1. Spec => []TInv
  BY TableInvariance
<1>2. Spec => [](IInv /\ LInv)
  BY LossInvariance
<1>3. TInv /\ IInv /\ LInv <=> SideInv
  BY DEF SideInv, TInv
<1> QED
  BY <1>1, <1>2, <1>3, EndToEndComposes, EndInitHolds, EndKeeps, PTL DEF EndSpec

\* Numbers of inserts, of rows and answers stay what they are declared to be.
THEOREM EndToEndTypes == EndSpec => []EndTypeOK
<1>1. ReportInv => EndTypeOK
  BY DEF ReportInv
<1> QED
  BY <1>1, ReportInvariance, PTL

\* PgRun is told the truth, for any number of arenas, the shipped two among them:
\* the server has the rows of the inserts that answered 0, in that order, and those
\* of one insert at most under which the connection has been lost
\* (DataHandlers/ModbusWithPostgres/Postgres.c:152-178;
\* DatabaseSystems/Postgres.c:467-475, 543-563).
THEOREM DatabaseMatchesReports == EndSpec => []DatabaseAsReported
<1>1. ReportInv => DatabaseAsReported
  BY DEF ReportInv
<1> QED
  BY <1>1, ReportInvariance, PTL

\* What the server's table has are received packets, each once and in the order
\* of arrival, until MbRun has written through a stale CurBuf; and it has what
\* PgRun has been told and, after the connection has been lost under a COMMIT,
\* the rows of that insert (Modbus.c:151-216; Postgres.c:142-178;
\* DatabaseSystems/Postgres.c:431-571).
THEOREM DatabaseStaysFaithful ==
    ASSUME BufCount >= 3
    PROVE  EndSpec => []DatabaseFaithful
<1>1. EndInv => DatabaseFaithful
  BY DEF EndInv, DatabaseFaithful
<1> QED
  BY <1>1, EndInvariance, PTL

\* Between the socket and the server's table a packet can be lost in three ways
\* only: its insert has failed, and PgRun has seen it; it was pushed through a
\* stale CurBuf; or the conversion buffer had no room for its arena.
THEOREM OnlyKnownPacketsLost ==
    ASSUME BufCount >= 3
    PROVE  EndSpec => []OnlyKnownLost
<1>1. ASSUME SideInv, EndInv PROVE OnlyKnownLost
  <2> SUFFICES ASSUME NEW p \in 1 .. sent, NEW q \in Range(database), p < q,
                      p \notin Range(database) \cup discarded \cup stray \cup unstored
               PROVE  FALSE
    BY DEF OnlyKnownLost
  <2>1. p \notin Rows
    BY <1>1 DEF EndInv, Kept
  <2>2. p \in Unsettled
    BY <2>1 DEF Unsettled
  <2>3. q < p
    BY <1>1, <2>2 DEF EndInv, Older, Before
  <2>4. p \in Int /\ q \in Int
    BY <1>1 DEF EndInv, EndTypeOK, Range
  <2> QED
    BY <2>3, <2>4
<1> QED
  BY <1>1, EndInvariance, PTL
=============================================================================

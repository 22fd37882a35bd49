----------------------------- MODULE PipeProofs -----------------------------
(***************************************************************************)
(* Proofs about the pipe between well-behaved threads, for every number of *)
(* arenas from 3 on, every arena size and every length of the data.        *)
(***************************************************************************)
EXTENDS PipeThroughput, TLAPS

\* An arena has been published and the reader has not moved past it yet.
Outstanding == wpc \in {"count", "signal"} \/ readEvent = 1 \/ rpc = "advance"

\* Nothing has been published yet and SdpCreate's credits are all there.
Fresh ==
    /\ writeEvent = BufCount - 1
    /\ readEvent = 0
    /\ wpc \in {"caller", "take"}
    /\ rpc \in {"caller", "take"}
    /\ reader \in {"fetch", "count"} /\ (reader = "count" => rpc = "take")
    /\ writeBufIdx = readBufIdx

\* From the first publication on exactly one token circulates: it is a write
\* credit, in the writer's hands, a read event, or in the reader's hands.
OneToken ==
    LET writerHasIt == wpc \in {"advance", "count", "signal"}
        readerHasIt == rpc \in {"advance", "uncount", "release"}
    IN  \/ writeEvent = 1 /\ readEvent = 0 /\ ~writerHasIt /\ ~readerHasIt
        \/ writeEvent = 0 /\ readEvent = 0 /\ writerHasIt /\ ~readerHasIt
        \/ writeEvent = 0 /\ readEvent = 1 /\ ~writerHasIt /\ ~readerHasIt
        \/ writeEvent = 0 /\ readEvent = 0 /\ ~writerHasIt /\ readerHasIt

\* The writer is at the reader's slot, or one ahead of it while an arena is
\* outstanding.
IndicesAdjacent ==
    IF Outstanding THEN writeBufIdx = NextSlot(readBufIdx) ELSE writeBufIdx = readBufIdx

\* The outstanding arena is counted but between the writer's two atomics, and
\* still counted between the reader's.
CountFollows ==
    fullBuffersCount =
        IF wpc = "signal" \/ readEvent = 1 \/ rpc \in {"advance", "uncount"} THEN 1 ELSE 0

\* The arena in the reader's hands is the one behind its index.
HeldBehind == Held => NextSlot(rbuf) = readBufIdx

Tokens == (Fresh \/ OneToken) /\ IndicesAdjacent /\ CountFollows /\ HeldBehind

\* Where a thread can be in its own code while it is inside the pipe.
PcsAgree ==
    /\ writer = "copy" => wpc = "caller" /\ cur[writeBufIdx] > 0 /\ sent < Total
    /\ reader = "fetch" => rpc = "caller"
    /\ reader = "rows" => rpc = "caller" /\ row <= itemCount

-----------------------------------------------------------------------------
(* Where the packets are.                                                  *)

\* Rows the reader has still to read of the arena it holds.
RowsLeft == IF Held THEN cur[rbuf] - RowsRead ELSE 0

\* Packets in the outstanding arena.
InFlight == IF Outstanding THEN cur[readBufIdx] ELSE 0

Accounted == sent = Len(received) + RowsLeft + InFlight + OpenCount
HeldContents ==
    Held => \A i \in 1 .. cur[rbuf] : mem[rbuf][i] = Len(received) - RowsRead + i
InFlightContents ==
    Outstanding =>
        \A i \in 1 .. cur[readBufIdx] : mem[readBufIdx][i] = Len(received) + RowsLeft + i
OpenContents ==
    \A i \in 1 .. OpenCount : mem[writeBufIdx][i] = sent - OpenCount + i
CountCurrent == reader = "rows" => itemCount = cur[rbuf]

Contents ==
    /\ Accounted /\ HeldContents /\ InFlightContents /\ OpenContents
    /\ CountCurrent /\ InOrderDelivery

IInv == TypeOK /\ PcsAgree /\ Tokens /\ Contents

-----------------------------------------------------------------------------
\* The next slot of the ring, without the remainder.
LEMMA NextSlotIs ==
    ASSUME NEW b \in Slot
    PROVE  /\ NextSlot(b) \in Slot
           /\ NextSlot(b) = IF b = BufCount - 1 THEN 0 ELSE b + 1
<1>1. CASE b = BufCount - 1
  BY <1>1, BufCountAssumption DEF NextSlot, Slot
<1>2. CASE b # BufCount - 1
  BY <1>2, BufCountAssumption DEF NextSlot, Slot
<1> QED BY <1>1, <1>2

-----------------------------------------------------------------------------
(* Types, for every number of arenas.                                      *)

\* Every initial state has the types.
LEMMA TypeInit == Init => TypeOK /\ PcsAgree
BY BufCountAssumption, ItemMaxAssumption, TotalAssumption
   DEF Init, PipeInit, TypeOK, PipeTypeOK, PcsAgree, Slot, WriterPc, ReaderPc

\* Every step preserves the types and the agreement of the program counters.
LEMMA TypeStep == TypeOK /\ PcsAgree /\ [Next]_vars => TypeOK' /\ PcsAgree'
<1> SUFFICES ASSUME TypeOK, PcsAgree, [Next]_vars
             PROVE  TypeOK' /\ PcsAgree'
  OBVIOUS
<1> USE BufCountAssumption, ItemMaxAssumption, TotalAssumption
        DEF TypeOK, PipeTypeOK, PcsAgree, WriterPc, ReaderPc, pipeIdx, pipeVars, clientVars
<1>1. CASE PushPacket
  <2>1. cur' \in [Slot -> 0 .. ItemMax] /\ cur'[writeBufIdx'] > 0
    BY <1>1, SMTT(60) DEF PushPacket, PushTo
  <2> QED BY <1>1, <2>1 DEF PushPacket, PushTo
<1>2. CASE CopyPacket
  <2>1. /\ mem' = [mem EXCEPT ![writeBufIdx][cur[writeBufIdx]] = sent + 1] /\ sent' = sent + 1
        /\ writer = "copy" /\ writer' = "fill"
        /\ UNCHANGED <<pipeIdx, writeEvent, readEvent, cur, wpc, rpc, rbuf, reader, itemCount, row,
                       received>>
    BY <1>2 DEF CopyPacket, CopyTo
  <2>2. mem' \in [Slot -> [1 .. ItemMax -> Nat]]
    <3>1. sent + 1 \in Nat /\ writeBufIdx \in Slot
      OBVIOUS
    <3> QED
      BY <2>1, <3>1
  <2>3. sent' \in 0 .. Total
    BY <2>1
  <2> QED
    BY <2>1, <2>2, <2>3
<1>3. CASE NextArena \/ FlushArena
  BY <1>3 DEF NextArena, FlushArena, CallGetWriteBuffer, CallFlush
<1>4. CASE WriterPipeStep /\ UNCHANGED clientVars
  <2>1. CASE TakeWriteCredit
    BY <1>4, <2>1 DEF TakeWriteCredit
  <2>2. CASE AdvanceWrite
    BY <1>4, <2>2, NextSlotIs DEF AdvanceWrite
  <2>3. CASE CountPublished
    BY <1>4, <2>3 DEF CountPublished
  <2>4. CASE SignalReader
    BY <1>4, <2>4 DEF SignalReader
  <2>5. CASE ClearNext
    BY <1>4, <2>5 DEF ClearNext
  <2> QED BY <1>4, <2>1, <2>2, <2>3, <2>4, <2>5 DEF WriterPipeStep
<1>5. CASE Fetch
  BY <1>5 DEF Fetch, CallGetReadBuffer
<1>6. CASE CountItems
  BY <1>6 DEF CountItems
<1>7. CASE ReadRow
  <2>1. mem[rbuf][row + 1] \in Nat
    BY <1>7 DEF ReadRow
  <2>2. received' \in Seq(Nat) /\ row' \in 0 .. ItemMax /\ row' <= itemCount
    BY <1>7, <2>1 DEF ReadRow
  <2> QED BY <1>7, <2>2 DEF ReadRow
<1>8. CASE FinishArena
  BY <1>8 DEF FinishArena
<1>9. CASE ReaderPipeStep /\ UNCHANGED clientVars
  <2>1. CASE TakeReadEvent
    BY <1>9, <2>1 DEF TakeReadEvent
  <2>2. CASE AdvanceRead
    BY <1>9, <2>2, NextSlotIs DEF AdvanceRead
  <2>3. CASE CountTaken
    BY <1>9, <2>3 DEF CountTaken
  <2>4. CASE ReturnCredit
    BY <1>9, <2>4 DEF ReturnCredit
  <2> QED BY <1>9, <2>1, <2>2, <2>3, <2>4 DEF ReaderPipeStep
<1>10. CASE UNCHANGED vars
  BY <1>10 DEF vars
<1> QED
  BY <1>1, <1>2, <1>3, <1>4, <1>5, <1>6, <1>7, <1>8, <1>9, <1>10
     DEF Next, WriterStep, ReaderStep, Finished

\* Type correctness of the pipe and its two threads, however many arenas.
THEOREM TypeCorrect == Spec => []TypeOK
<1>1. TypeOK /\ PcsAgree /\ [Next]_vars => (TypeOK /\ PcsAgree)'
  BY TypeStep
<1> QED BY TypeInit, <1>1, PTL DEF Spec

-----------------------------------------------------------------------------
(* The token, for two arenas or more.                                      *)

\* SdpCreate's credits are the fresh state.
LEMMA TokensInit == ASSUME BufCount >= 2 PROVE Init => Tokens
BY BufCountAssumption
   DEF Init, PipeInit, Tokens, Fresh, IndicesAdjacent, CountFollows, Outstanding, HeldBehind, Held

\* The first publication swallows the credits; every later step moves the token.
LEMMA TokensStep ==
    ASSUME BufCount >= 2, TypeOK, PcsAgree, Tokens, [Next]_vars
    PROVE  Tokens'
<1> USE BufCountAssumption
        DEF PcsAgree, Tokens, Fresh, OneToken, IndicesAdjacent, CountFollows, HeldBehind,
            Outstanding, Held, pipeIdx, pipeVars, clientVars
<1>0. /\ writeEvent \in Nat /\ readEvent \in Nat /\ fullBuffersCount \in Int
      /\ wpc \in WriterPc /\ rpc \in ReaderPc /\ reader \in {"fetch", "count", "rows"}
  BY DEF TypeOK, PipeTypeOK
<1>1. CASE PushPacket \/ CopyPacket
  BY <1>1 DEF PushPacket, CopyPacket, PushTo, CopyTo
<1>2. CASE NextArena \/ FlushArena
  BY <1>2 DEF NextArena, FlushArena, CallGetWriteBuffer, CallFlush
<1>3. CASE WriterPipeStep /\ UNCHANGED clientVars
  <2>1. CASE TakeWriteCredit
    BY <1>0, <1>3, <2>1 DEF TakeWriteCredit, ReaderPc
  <2>2. CASE AdvanceWrite
    BY <1>0, <1>3, <2>2 DEF AdvanceWrite
  <2>3. CASE CountPublished
    BY <1>0, <1>3, <2>3 DEF CountPublished
  <2>4. CASE SignalReader
    BY <1>0, <1>3, <2>4 DEF SignalReader
  <2>5. CASE ClearNext
    BY <1>0, <1>3, <2>5 DEF ClearNext
  <2> QED BY <1>3, <2>1, <2>2, <2>3, <2>4, <2>5 DEF WriterPipeStep
<1>4. CASE Fetch \/ CountItems \/ ReadRow \/ FinishArena
  BY <1>0, <1>4 DEF Fetch, CallGetReadBuffer, CountItems, ReadRow, FinishArena
<1>5. CASE ReaderPipeStep /\ UNCHANGED clientVars
  <2>1. CASE TakeReadEvent
    BY <1>0, <1>5, <2>1 DEF TakeReadEvent
  <2>2. CASE AdvanceRead
    BY <1>0, <1>5, <2>2 DEF AdvanceRead
  <2>3. CASE CountTaken
    BY <1>0, <1>5, <2>3 DEF CountTaken
  <2>4. CASE ReturnCredit
    BY <1>0, <1>5, <2>4 DEF ReturnCredit
  <2> QED BY <1>5, <2>1, <2>2, <2>3, <2>4 DEF ReaderPipeStep
<1>6. CASE UNCHANGED vars
  BY <1>6 DEF vars
<1> QED
  BY <1>1, <1>2, <1>3, <1>4, <1>5, <1>6 DEF Next, WriterStep, ReaderStep, Finished

\* The token discipline holds in every reachable state.
LEMMA TokensInvariant ==
    ASSUME BufCount >= 2
    PROVE  Spec => [](TypeOK /\ PcsAgree /\ Tokens)
<1>1. TypeOK /\ PcsAgree /\ Tokens /\ [Next]_vars => (TypeOK /\ PcsAgree /\ Tokens)'
  BY TypeStep, TokensStep
<1> QED BY TypeInit, TokensInit, <1>1, PTL DEF Spec

\* Slots that are equal or adjacent are 0 or 1 apart around the ring.
LEMMA SlotDistance ==
    ASSUME BufCount >= 2, NEW r \in Slot
    PROVE  (r - r) % BufCount = 0 /\ (NextSlot(r) - r) % BufCount = 1
<1> USE BufCountAssumption DEF Slot
<1>1. CASE r = BufCount - 1
  BY <1>1, NextSlotIs
<1>2. CASE r # BufCount - 1
  BY <1>2, NextSlotIs
<1> QED BY <1>1, <1>2

\* The number of arenas between the two indices.
LEMMA PublishedIs ==
    ASSUME BufCount >= 2, TypeOK, Tokens
    PROVE  Published = IF Outstanding THEN 1 ELSE 0
<1>1. readBufIdx \in Slot
  BY DEF TypeOK, PipeTypeOK
<1>2. IF Outstanding THEN writeBufIdx = NextSlot(readBufIdx) ELSE writeBufIdx = readBufIdx
  BY DEF Tokens, IndicesAdjacent
<1> QED BY <1>1, <1>2, SlotDistance DEF Published

\* However large the ring is, at most one arena is published and not taken:
\* the remaining arenas never carry data at the same time.
THEOREM NeverMoreThanOneInFlight ==
    ASSUME BufCount >= 2
    PROVE  Spec => []OneInFlight
<1>1. TypeOK /\ Tokens => OneInFlight
  BY PublishedIs DEF Tokens, CountFollows, OneInFlight
<1> QED BY TokensInvariant, <1>1, PTL

\* FullBuffersCount is the number of arenas between the two indices, one less
\* between the two atomics of a publication and one more between those of an
\* acquisition (SensorDataPipe.c:129-130, 170-171, 210-211); the reader's
\* eventfd never holds two publications.
THEOREM FullCountCorrect ==
    ASSUME BufCount >= 2
    PROVE  Spec => []FullCountExact
<1>1. TypeOK /\ Tokens => FullCountExact
  <2> SUFFICES ASSUME TypeOK, Tokens PROVE FullCountExact
    OBVIOUS
  <2>1. Published = IF Outstanding THEN 1 ELSE 0
    BY PublishedIs
  <2>2. /\ readEvent \in Nat /\ readEvent <= 1 /\ (readEvent = 1 => Outstanding)
        /\ wpc = "count" => readEvent = 0 /\ rpc \notin {"advance", "uncount"}
        /\ rpc = "uncount" => readEvent = 0 /\ wpc \notin {"count", "signal"}
    BY DEF TypeOK, PipeTypeOK, Tokens, Fresh, OneToken, Outstanding
  <2>3. fullBuffersCount =
            IF wpc = "signal" \/ readEvent = 1 \/ rpc \in {"advance", "uncount"} THEN 1 ELSE 0
    BY DEF Tokens, CountFollows
  <2> QED BY <2>1, <2>2, <2>3 DEF FullCountExact, Outstanding
<1> QED BY TokensInvariant, <1>1, PTL

-----------------------------------------------------------------------------
(* The arenas, for three or more.                                          *)

\* With three arenas the reader's arena, the outstanding one and the writer's differ.
LEMMA ArenasApart ==
    ASSUME BufCount >= 3, TypeOK, PcsAgree, Tokens
    PROVE  /\ Held => rbuf # writeBufIdx
           /\ Held /\ Outstanding => rbuf # readBufIdx
           /\ Outstanding => readBufIdx # writeBufIdx
<1>1. ASSUME NEW b \in Slot
      PROVE  NextSlot(b) # b /\ NextSlot(NextSlot(b)) # b
  <2>1. /\ NextSlot(b) \in Slot
        /\ NextSlot(b) = IF b = BufCount - 1 THEN 0 ELSE b + 1
    BY NextSlotIs
  <2>2. NextSlot(NextSlot(b)) = IF NextSlot(b) = BufCount - 1 THEN 0 ELSE NextSlot(b) + 1
    BY <2>1, NextSlotIs
  <2> QED BY <2>1, <2>2, BufCountAssumption DEF Slot
<1> QED BY <1>1 DEF TypeOK, PipeTypeOK, Tokens, IndicesAdjacent, HeldBehind

\* The arena the writer fills or clears is never the one being read.
THEOREM WriterAvoidsReader ==
    ASSUME BufCount >= 3
    PROVE  Spec => []ArenaExclusion
<1>1. TypeOK /\ PcsAgree /\ Tokens => ArenaExclusion
  BY ArenasApart DEF ArenaExclusion
<1>2. Spec => [](TypeOK /\ PcsAgree /\ Tokens)
  BY TokensInvariant, BufCountAssumption
<1> QED BY <1>1, <1>2, PTL
-----------------------------------------------------------------------------
(* The packets, for three arenas or more.                                  *)

\* An empty pipe accounts for no packet.
LEMMA ContentsInit == Init => Contents
BY BufCountAssumption, ItemMaxAssumption
   DEF Init, PipeInit, Contents, Held, Outstanding, RowsLeft, RowsRead, InFlight, OpenCount,
       Accounted, HeldContents, InFlightContents, OpenContents, CountCurrent, InOrderDelivery, Slot

\* One case per action.  The actions that move packets are split into what
\* becomes of each of the three places a packet can be in.
LEMMA ContentsStep ==
    ASSUME BufCount >= 3, TypeOK, PcsAgree, Tokens, Contents, [Next]_vars
    PROVE  Contents'
<1>0. /\ Held => rbuf # writeBufIdx
      /\ Held /\ Outstanding => rbuf # readBufIdx
      /\ Outstanding => readBufIdx # writeBufIdx
  BY ArenasApart
<1>t. /\ writeBufIdx \in Slot /\ readBufIdx \in Slot /\ rbuf \in Slot
      /\ cur \in [Slot -> 0 .. ItemMax] /\ mem \in [Slot -> [1 .. ItemMax -> Nat]]
      /\ sent \in Nat /\ row \in Nat /\ itemCount \in Nat /\ Len(received) \in Nat
      /\ received \in Seq(Nat) /\ reader \in {"fetch", "count", "rows"}
      /\ wpc \in WriterPc /\ rpc \in ReaderPc /\ writer \in {"fill", "copy"}
      /\ readEvent \in Nat /\ writeEvent \in Nat
  BY DEF TypeOK, PipeTypeOK
<1>q. OpenCount \in Int /\ RowsLeft \in Int /\ RowsRead \in Int /\ InFlight \in Int
  BY <1>t DEF OpenCount, RowsLeft, RowsRead, InFlight
<1>c. /\ Accounted /\ HeldContents /\ InFlightContents /\ OpenContents
      /\ CountCurrent /\ InOrderDelivery
  BY DEF Contents
<1> USE ItemMaxAssumption
<1> USE DEF pipeIdx, pipeVars, clientVars
<1>1. CASE PushPacket
  <2>1. /\ cur'[writeBufIdx] = cur[writeBufIdx] + 1
        /\ \A b \in Slot : b # writeBufIdx => cur'[b] = cur[b]
    BY <1>t, <1>1 DEF PushPacket, PushTo
  <2>2. OpenCount' = OpenCount
    BY <1>t, <1>1, <2>1 DEF PushPacket, PushTo, OpenCount
  <2>3. (Held' <=> Held) /\ (Held => cur'[rbuf] = cur[rbuf])
    BY <1>0, <1>t, <1>1, <2>1 DEF PushPacket, PushTo, Held
  <2>4. (Outstanding' <=> Outstanding) /\ (Outstanding => cur'[readBufIdx] = cur[readBufIdx])
    BY <1>0, <1>t, <1>1, <2>1 DEF PushPacket, PushTo, Outstanding
  <2>5. RowsRead' = RowsRead /\ RowsLeft' = RowsLeft /\ InFlight' = InFlight
    BY <1>1, <2>3, <2>4 DEF PushPacket, PushTo, RowsRead, RowsLeft, InFlight
  <2>6. CountCurrent'
    BY <1>c, <1>1, <2>3 DEF PushPacket, PushTo, CountCurrent, Held, PcsAgree
  <2> QED
    BY <1>c, <1>1, <2>2, <2>3, <2>4, <2>5, <2>6
       DEF PushPacket, PushTo, Contents, Accounted, HeldContents, InFlightContents,
           OpenContents, InOrderDelivery
<1>2. CASE CopyPacket
  <2>1. /\ OpenCount = cur[writeBufIdx] - 1 /\ OpenCount' = cur[writeBufIdx]
        /\ cur[writeBufIdx] \in 1 .. ItemMax
    BY <1>t, <1>2 DEF CopyPacket, CopyTo, OpenCount, PcsAgree
  <2>2. /\ mem'[writeBufIdx][cur[writeBufIdx]] = sent + 1
        /\ \A i \in 1 .. OpenCount : mem'[writeBufIdx][i] = mem[writeBufIdx][i]
        /\ \A b \in Slot : b # writeBufIdx => mem'[b] = mem[b]
    <3>1. mem' = [mem EXCEPT ![writeBufIdx][cur[writeBufIdx]] = sent + 1]
      BY <1>2 DEF CopyPacket, CopyTo
    <3>2. mem[writeBufIdx] \in [1 .. ItemMax -> Nat]
      BY <1>t
    <3>3. mem'[writeBufIdx] = [mem[writeBufIdx] EXCEPT ![cur[writeBufIdx]] = sent + 1]
      BY <1>t, <3>1, ZenonT(30)
    <3>4. mem'[writeBufIdx][cur[writeBufIdx]] = sent + 1
      BY <2>1, <3>2, <3>3
    <3>5. ASSUME NEW i \in 1 .. OpenCount
          PROVE  mem'[writeBufIdx][i] = mem[writeBufIdx][i]
      <4>1. i # cur[writeBufIdx] /\ i \in 1 .. ItemMax
        BY <2>1
      <4> QED
        BY <3>2, <3>3, <4>1
    <3>6. ASSUME NEW b \in Slot, b # writeBufIdx
          PROVE  mem'[b] = mem[b]
      BY <1>t, <3>1, <3>6, ZenonT(30)
    <3> QED
      BY <3>4, <3>5, <3>6
  <2>3. /\ (Held' <=> Held) /\ (Outstanding' <=> Outstanding)
        /\ RowsRead' = RowsRead /\ RowsLeft' = RowsLeft /\ InFlight' = InFlight
    BY <1>2 DEF CopyPacket, CopyTo, Held, Outstanding, RowsRead, RowsLeft, InFlight
  <2>4. Accounted'
    BY <1>c, <1>t, <1>q, <1>2, <2>1, <2>3 DEF CopyPacket, CopyTo, Accounted
  <2>5. OpenContents'
    <3>1. writeBufIdx' = writeBufIdx /\ sent' = sent + 1
      BY <1>2 DEF CopyPacket, CopyTo
    <3> SUFFICES ASSUME NEW i \in 1 .. OpenCount'
                 PROVE  mem'[writeBufIdx'][i] = sent' - OpenCount' + i
      BY DEF OpenContents
    <3>2. CASE i = cur[writeBufIdx]
      BY <1>t, <2>1, <2>2, <3>1, <3>2
    <3>3. CASE i # cur[writeBufIdx]
      <4>1. i \in 1 .. OpenCount
        BY <2>1, <3>3
      <4>2. mem[writeBufIdx][i] = sent - OpenCount + i
        BY <1>c, <4>1 DEF OpenContents
      <4> QED BY <1>t, <2>1, <2>2, <3>1, <4>1, <4>2
    <3> QED BY <3>2, <3>3
  <2>6. HeldContents' /\ InFlightContents'
    BY <1>0, <1>c, <1>t, <1>2, <2>2, <2>3 DEF CopyPacket, CopyTo, HeldContents, InFlightContents
  <2> QED
    BY <1>c, <1>2, <2>4, <2>5, <2>6
       DEF CopyPacket, CopyTo, Contents, CountCurrent, InOrderDelivery
<1>3. CASE NextArena \/ FlushArena
  BY <1>t, <1>3
     DEF NextArena, FlushArena, CallGetWriteBuffer, CallFlush, Contents, Accounted,
         HeldContents, InFlightContents, OpenContents, CountCurrent, InOrderDelivery,
         RowsLeft, RowsRead, InFlight, OpenCount, Held, Outstanding
<1>4. CASE WriterPipeStep /\ UNCHANGED clientVars
  <2>1. CASE TakeWriteCredit
    BY <1>t, <1>4, <2>1
       DEF TakeWriteCredit, Contents, Accounted, HeldContents, InFlightContents, OpenContents,
           CountCurrent, InOrderDelivery, RowsLeft, RowsRead, InFlight, OpenCount, Held,
           Outstanding
  <2>2. CASE AdvanceWrite
    <3>1. /\ ~Outstanding /\ Outstanding' /\ writeBufIdx = readBufIdx
          /\ readBufIdx' = readBufIdx
      BY <1>t, <2>2 DEF AdvanceWrite, Tokens, Fresh, OneToken, IndicesAdjacent, Outstanding
    <3>2. /\ InFlight = 0 /\ InFlight' = cur[readBufIdx]
          /\ OpenCount' = 0 /\ OpenCount = cur[readBufIdx]
      BY <1>t, <1>4, <2>2, <3>1 DEF AdvanceWrite, InFlight, OpenCount, PcsAgree
    <3>3. (Held' <=> Held) /\ RowsRead' = RowsRead /\ RowsLeft' = RowsLeft
      BY <1>4, <2>2 DEF AdvanceWrite, Held, RowsRead, RowsLeft
    <3>4. Accounted'
      BY <1>c, <1>4, <1>t, <1>q, <2>2, <3>2, <3>3 DEF AdvanceWrite, Accounted
    <3>5. InFlightContents'
      <4>1. sent - OpenCount = Len(received) + RowsLeft
        BY <1>c, <1>t, <1>q, <3>2 DEF Accounted
      <4>2. \A i \in 1 .. cur[readBufIdx] : mem[readBufIdx][i] = Len(received) + RowsLeft + i
        BY <1>c, <3>1, <3>2, <4>1 DEF OpenContents
      <4>3. /\ cur' = cur /\ mem' = mem /\ received' = received
        BY <1>4, <2>2 DEF AdvanceWrite
      <4> QED BY <3>1, <3>3, <4>2, <4>3 DEF InFlightContents
    <3>6. OpenContents'
      BY <3>2 DEF OpenContents
    <3> QED
      BY <1>c, <1>4, <2>2, <3>3, <3>4, <3>5, <3>6
         DEF AdvanceWrite, Contents, HeldContents, CountCurrent, InOrderDelivery
  <2>3. CASE CountPublished
    BY <1>t, <1>4, <2>3
       DEF CountPublished, Contents, Accounted, HeldContents, InFlightContents, OpenContents,
           CountCurrent, InOrderDelivery, RowsLeft, RowsRead, InFlight, OpenCount, Held,
           Outstanding
  <2>4. CASE SignalReader
    BY <1>t, <1>4, <2>4
       DEF SignalReader, Tokens, Fresh, OneToken, Contents, Accounted, HeldContents,
           InFlightContents, OpenContents, CountCurrent, InOrderDelivery, RowsLeft, RowsRead,
           InFlight, OpenCount, Held, Outstanding
  <2>5. CASE ClearNext
    <3>1. /\ cur'[writeBufIdx] = 0
          /\ \A b \in Slot : b # writeBufIdx => cur'[b] = cur[b]
      BY <1>t, <2>5 DEF ClearNext
    <3>2. OpenCount = 0 /\ OpenCount' = 0
      BY <1>4, <2>5, <3>1 DEF ClearNext, OpenCount, PcsAgree
    <3>3. /\ (Held' <=> Held) /\ (Held => cur'[rbuf] = cur[rbuf])
          /\ (Outstanding' <=> Outstanding) /\ (Outstanding => cur'[readBufIdx] = cur[readBufIdx])
      BY <1>0, <1>t, <1>4, <2>5, <3>1 DEF ClearNext, Held, Outstanding
    <3>4. RowsRead' = RowsRead /\ RowsLeft' = RowsLeft /\ InFlight' = InFlight
      BY <1>4, <2>5, <3>3 DEF ClearNext, RowsRead, RowsLeft, InFlight
    <3>5. CountCurrent'
      BY <1>c, <1>4, <2>5, <3>3 DEF ClearNext, CountCurrent, Held, PcsAgree
    <3> QED
      BY <1>c, <1>4, <2>5, <3>2, <3>3, <3>4, <3>5
         DEF ClearNext, Contents, Accounted, HeldContents, InFlightContents, OpenContents,
             InOrderDelivery
  <2> QED BY <1>4, <2>1, <2>2, <2>3, <2>4, <2>5 DEF WriterPipeStep
<1>5. CASE Fetch
  BY <1>t, <1>5
     DEF Fetch, CallGetReadBuffer, Contents, Accounted, HeldContents, InFlightContents,
         OpenContents, CountCurrent, InOrderDelivery, RowsLeft, RowsRead, InFlight, OpenCount,
         Held, Outstanding
<1>6. CASE CountItems
  BY <1>t, <1>6
     DEF CountItems, Contents, Accounted, HeldContents, InFlightContents, OpenContents,
         CountCurrent, InOrderDelivery, RowsLeft, RowsRead, InFlight, OpenCount, Held,
         Outstanding
<1>7. CASE ReadRow
  <2>1. /\ Held /\ Held' /\ RowsRead = row /\ RowsRead' = row + 1
        /\ RowsLeft = cur[rbuf] - row /\ RowsLeft' = cur[rbuf] - (row + 1)
        /\ row + 1 \in 1 .. cur[rbuf]
    BY <1>c, <1>t, <1>7 DEF ReadRow, Held, RowsRead, RowsLeft, CountCurrent, PcsAgree
  <2>2. mem[rbuf][row + 1] = Len(received) + 1
    BY <1>c, <1>t, <2>1 DEF HeldContents
  <2>3. /\ received' = Append(received, Len(received) + 1)
        /\ Len(received') = Len(received) + 1
    BY <1>t, <1>7, <2>2 DEF ReadRow
  <2>4. InOrderDelivery'
    <3>1. \A i \in 1 .. Len(received) : received'[i] = received[i]
      BY <1>t, <2>3
    <3>2. received'[Len(received) + 1] = Len(received) + 1
      BY <1>t, <2>3
    <3>3. \A i \in 1 .. Len(received') : received'[i] = i
      <4>1. Len(received) \in Nat
        BY <1>t
      <4>2. ASSUME NEW i \in 1 .. Len(received'), i # Len(received) + 1
            PROVE  i \in 1 .. Len(received)
        BY <2>3, <4>1, <4>2
      <4>3. \A i \in 1 .. Len(received) : received'[i] = i
        BY <1>c, <3>1 DEF InOrderDelivery
      <4> QED BY <3>2, <4>2, <4>3
    <3> QED BY <3>3 DEF InOrderDelivery
  <2>5. (Outstanding' <=> Outstanding) /\ InFlight' = InFlight /\ OpenCount' = OpenCount
    BY <1>7 DEF ReadRow, Outstanding, InFlight, OpenCount
  <2>s. Len(received') + RowsLeft' = Len(received) + RowsLeft
    <3>1. cur[rbuf] \in Int /\ row \in Int /\ Len(received) \in Int
      BY <1>t
    <3>2. /\ RowsLeft = cur[rbuf] - row /\ RowsLeft' = cur[rbuf] - (row + 1)
          /\ Len(received') = Len(received) + 1
      BY <2>1, <2>3
    <3> QED BY <3>1, <3>2
  <2>6. Accounted'
    BY <1>c, <1>7, <2>5, <2>s DEF ReadRow, Accounted
  <2>7. HeldContents'
    BY <1>c, <1>t, <1>7, <2>1, <2>3 DEF ReadRow, HeldContents
  <2>8. InFlightContents'
    BY <1>c, <1>7, <2>5, <2>s DEF ReadRow, InFlightContents
  <2> QED
    BY <1>c, <1>7, <2>4, <2>5, <2>6, <2>7, <2>8 DEF ReadRow, Contents, OpenContents, CountCurrent
<1>8. CASE FinishArena
  <2>1. Held /\ ~Held' /\ RowsLeft = 0 /\ RowsLeft' = 0
    BY <1>c, <1>t, <1>8 DEF FinishArena, Held, RowsLeft, RowsRead, CountCurrent, PcsAgree
  <2>2. (Outstanding' <=> Outstanding) /\ InFlight' = InFlight /\ OpenCount' = OpenCount
    BY <1>8 DEF FinishArena, Outstanding, InFlight, OpenCount
  <2> QED
    BY <1>c, <1>8, <2>1, <2>2
       DEF FinishArena, Contents, Accounted, HeldContents, InFlightContents, OpenContents,
           CountCurrent, InOrderDelivery
<1>9. CASE ReaderPipeStep /\ UNCHANGED clientVars
  <2>1. CASE TakeReadEvent
    BY <1>t, <1>9, <2>1
       DEF TakeReadEvent, Tokens, Fresh, OneToken, Contents, Accounted, HeldContents,
           InFlightContents, OpenContents, CountCurrent, InOrderDelivery, RowsLeft, RowsRead,
           InFlight, OpenCount, Held, Outstanding
  <2>2. CASE AdvanceRead
    BY <1>0, <1>t, <1>9, <2>2
       DEF AdvanceRead, Tokens, Fresh, OneToken, IndicesAdjacent, Contents, Accounted,
           HeldContents, InFlightContents, OpenContents, CountCurrent, InOrderDelivery,
           RowsLeft, RowsRead, InFlight, OpenCount, Held, Outstanding, PcsAgree
  <2>3. CASE CountTaken
    BY <1>t, <1>9, <2>3
       DEF CountTaken, Contents, Accounted, HeldContents, InFlightContents, OpenContents,
           CountCurrent, InOrderDelivery, RowsLeft, RowsRead, InFlight, OpenCount, Held,
           Outstanding
  <2>4. CASE ReturnCredit
    BY <1>t, <1>9, <2>4
       DEF ReturnCredit, Contents, Accounted, HeldContents, InFlightContents, OpenContents,
           CountCurrent, InOrderDelivery, RowsLeft, RowsRead, InFlight, OpenCount, Held,
           Outstanding
  <2> QED BY <1>9, <2>1, <2>2, <2>3, <2>4 DEF ReaderPipeStep
<1>10. CASE UNCHANGED vars
  BY <1>10
     DEF vars, Contents, Accounted, HeldContents, InFlightContents, OpenContents, CountCurrent,
         InOrderDelivery, RowsLeft, RowsRead, InFlight, OpenCount, Held, Outstanding
<1> QED
  BY <1>1, <1>2, <1>3, <1>4, <1>5, <1>6, <1>7, <1>8, <1>9, <1>10
     DEF Next, WriterStep, ReaderStep, Finished

\* Every packet the writer pushes reaches the reader exactly once and in
\* order, for every ring of three arenas or more, every arena size, every
\* interleaving and every choice of flushes.
THEOREM ExactlyOnceInOrder ==
    ASSUME BufCount >= 3
    PROVE  Spec => []InOrderDelivery
<1>1. IInv /\ [Next]_vars => IInv'
  BY TypeStep, TokensStep, ContentsStep, BufCountAssumption DEF IInv
<1>2. Init => IInv
  BY TypeInit, TokensInit, ContentsInit, BufCountAssumption DEF IInv
<1>3. IInv => InOrderDelivery
  BY DEF IInv, Contents
<1> QED BY <1>1, <1>2, <1>3, PTL DEF Spec

-----------------------------------------------------------------------------
(* The pipe implements the queue of batches, step by step.  IInv says which *)
(* packets each place holds, so the mapped variables of Queue are stretches *)
(* of consecutive numbers, and a step of the pipe moves a stretch.          *)

\* The n packets that follow packet a.
Stretch(a, n) == [i \in 1 .. n |-> a + i]

\* An arena that is about to be published is not empty.
PublishesSomething == wpc \in {"take", "advance"} => cur[writeBufIdx] > 0

RInv == IInv /\ PublishesSomething

\* The values of the mapped variables.
Mapped ==
    /\ Batch(writeBufIdx, 1, OpenCount) = Stretch(sent - OpenCount, OpenCount)
    /\ [k \in 1 .. Published |-> Batch(Waiting(k), 1, cur[Waiting(k)])]
          = IF Outstanding THEN <<Stretch(Len(received) + RowsLeft, InFlight)>> ELSE << >>
    /\ (IF Held THEN Batch(rbuf, RowsRead + 1, cur[rbuf]) ELSE << >>)
          = Stretch(Len(received), RowsLeft)

\* What the steps move.
moved == <<sent, received, OpenCount, RowsLeft, InFlight, Outstanding>>

\* A number below the modulus is its own remainder.
LEMMA SmallRemainder ==
    ASSUME NEW n \in Nat \ {0}, NEW a \in 0 .. n - 1
    PROVE  a % n = a
OBVIOUS

\* Sequences of the same length with the same elements are the same.
LEMMA SameElements ==
    ASSUME NEW s \in Seq(Int), NEW t \in Seq(Int), Len(s) = Len(t),
           \A i \in 1 .. Len(s) : s[i] = t[i]
    PROVE  s = t
OBVIOUS

\* A stretch as a sequence: its length, its two ends and what is left of it.
LEMMA StretchIs ==
    ASSUME NEW a \in Int, NEW n \in Nat
    PROVE  /\ Stretch(a, n) \in Seq(Int) /\ Len(Stretch(a, n)) = n
           /\ Stretch(a, 0) = << >>
           /\ n > 0 => /\ Stretch(a, n) # << >>
                       /\ Head(Stretch(a, n)) = a + 1
                       /\ Tail(Stretch(a, n)) = Stretch(a + 1, n - 1)
           /\ Append(Stretch(a, n), a + n + 1) = Stretch(a, n + 1)
<1>1. Stretch(a, n) \in Seq(Int) /\ Len(Stretch(a, n)) = n
  BY DEF Stretch
<1>2. Stretch(a, 0) = << >>
  <2>1. Stretch(a, 0) \in Seq(Int) /\ Len(Stretch(a, 0)) = 0
    BY DEF Stretch
  <2> QED BY <2>1
<1>3. ASSUME n > 0
      PROVE  /\ Stretch(a, n) # << >>
             /\ Head(Stretch(a, n)) = a + 1
             /\ Tail(Stretch(a, n)) = Stretch(a + 1, n - 1)
  <2>1. Stretch(a, n) # << >> /\ Head(Stretch(a, n)) = a + 1
    BY <1>1, <1>3 DEF Stretch
  <2>2. /\ Tail(Stretch(a, n)) \in Seq(Int) /\ Len(Tail(Stretch(a, n))) = n - 1
        /\ \A i \in 1 .. n - 1 : Tail(Stretch(a, n))[i] = a + 1 + i
    BY <1>1, <1>3 DEF Stretch
  <2>3. /\ Stretch(a + 1, n - 1) \in Seq(Int) /\ Len(Stretch(a + 1, n - 1)) = n - 1
        /\ \A i \in 1 .. n - 1 : Stretch(a + 1, n - 1)[i] = a + 1 + i
    BY <1>3 DEF Stretch
  <2>4. Tail(Stretch(a, n)) = Stretch(a + 1, n - 1)
    <3> DEFINE s == Tail(Stretch(a, n))
               t == Stretch(a + 1, n - 1)
    <3>1. /\ s \in Seq(Int) /\ t \in Seq(Int) /\ Len(s) = n - 1 /\ Len(t) = n - 1
          /\ \A i \in 1 .. n - 1 : s[i] = a + 1 + i /\ t[i] = a + 1 + i
      BY <2>2, <2>3
    <3> HIDE DEF s, t
    <3>2. s = t
      BY <3>1, SameElements
    <3> QED BY <3>2 DEF s, t
  <2> QED BY <2>1, <2>4
<1>4. Append(Stretch(a, n), a + n + 1) = Stretch(a, n + 1)
  <2>1. /\ Append(Stretch(a, n), a + n + 1) \in Seq(Int)
        /\ Len(Append(Stretch(a, n), a + n + 1)) = n + 1
        /\ \A i \in 1 .. n + 1 : Append(Stretch(a, n), a + n + 1)[i] = a + i
    BY <1>1 DEF Stretch
  <2>2. /\ Stretch(a, n + 1) \in Seq(Int) /\ Len(Stretch(a, n + 1)) = n + 1
        /\ \A i \in 1 .. n + 1 : Stretch(a, n + 1)[i] = a + i
    BY DEF Stretch
  <2> DEFINE s == Append(Stretch(a, n), a + n + 1)
             t == Stretch(a, n + 1)
  <2>3. /\ s \in Seq(Int) /\ t \in Seq(Int) /\ Len(s) = n + 1 /\ Len(t) = n + 1
        /\ \A i \in 1 .. n + 1 : s[i] = a + i /\ t[i] = a + i
    BY <2>1, <2>2
  <2> HIDE DEF s, t
  <2>4. s = t
    BY <2>3, SameElements
  <2> QED BY <2>4 DEF s, t
<1> QED BY <1>1, <1>2, <1>3, <1>4

\* Every place holds the stretch that Contents says it holds.
LEMMA MappedState == ASSUME BufCount >= 3, RInv PROVE Mapped
<1>t. /\ writeBufIdx \in Slot /\ readBufIdx \in Slot /\ rbuf \in Slot
      /\ cur \in [Slot -> 0 .. ItemMax] /\ mem \in [Slot -> [1 .. ItemMax -> Nat]]
      /\ sent \in Nat /\ row \in Nat /\ itemCount \in Nat /\ Len(received) \in Nat
      /\ reader \in {"fetch", "count", "rows"}
  BY DEF RInv, IInv, TypeOK, PipeTypeOK
<1>c. /\ HeldContents /\ InFlightContents /\ OpenContents /\ CountCurrent /\ PcsAgree
  BY DEF RInv, IInv, Contents
<1>p. Published = IF Outstanding THEN 1 ELSE 0
  BY PublishedIs, BufCountAssumption DEF RInv, IInv
<1>1. Batch(writeBufIdx, 1, OpenCount) = Stretch(sent - OpenCount, OpenCount)
  <2>1. OpenCount \in Int
    BY <1>t DEF OpenCount
  <2>2. OpenCount - 1 + 1 = OpenCount /\ \A i \in 1 .. OpenCount : 1 + i - 1 = i
    BY <2>1
  <2> QED
    BY <1>c, <2>2 DEF Batch, Stretch, OpenContents
<1>2. [k \in 1 .. Published |-> Batch(Waiting(k), 1, cur[Waiting(k)])]
         = IF Outstanding THEN <<Stretch(Len(received) + RowsLeft, InFlight)>> ELSE << >>
  <2>1. CASE Outstanding
    <3>1. Published = 1 /\ Waiting(1) = readBufIdx
      <4>1. readBufIdx + 1 - 1 = readBufIdx
        BY <1>t DEF Slot
      <4>2. readBufIdx % BufCount = readBufIdx
        BY <1>t, BufCountAssumption, SmallRemainder DEF Slot
      <4> QED BY <1>p, <2>1, <4>1, <4>2 DEF Waiting
    <3>2. InFlight = cur[readBufIdx] /\ cur[readBufIdx] \in Nat
      BY <1>t, <2>1 DEF InFlight
    <3>3. Batch(readBufIdx, 1, cur[readBufIdx]) = Stretch(Len(received) + RowsLeft, InFlight)
      <4>1. /\ cur[readBufIdx] - 1 + 1 = InFlight
            /\ \A i \in 1 .. InFlight : 1 + i - 1 = i
        BY <3>2
      <4> QED BY <1>c, <2>1, <3>2, <4>1 DEF Batch, Stretch, InFlightContents
    <3> DEFINE Q == [k \in 1 .. Published |-> Batch(Waiting(k), 1, cur[Waiting(k)])]
    <3>4. Q = [k \in 1 .. 1 |-> Stretch(Len(received) + RowsLeft, InFlight)]
      BY <3>1, <3>3
    <3> HIDE DEF Q
    <3>5. Q = <<Stretch(Len(received) + RowsLeft, InFlight)>>
      BY <3>4
    <3> QED BY <2>1, <3>5 DEF Q
  <2>2. CASE ~Outstanding
    BY <1>p, <2>2
  <2> QED BY <2>1, <2>2
<1>3. (IF Held THEN Batch(rbuf, RowsRead + 1, cur[rbuf]) ELSE << >>)
         = Stretch(Len(received), RowsLeft)
  <2>1. CASE Held
    <3>1. RowsLeft = cur[rbuf] - RowsRead /\ RowsRead \in Nat /\ RowsRead <= cur[rbuf]
          /\ cur[rbuf] \in Nat
      BY <1>t, <1>c, <2>1 DEF RowsLeft, RowsRead, CountCurrent, PcsAgree
    <3>2. cur[rbuf] - (RowsRead + 1) + 1 = RowsLeft
      BY <3>1
    <3>3. ASSUME NEW i \in 1 .. RowsLeft
          PROVE  mem[rbuf][RowsRead + 1 + i - 1] = Len(received) + i
      <4>1. RowsRead + i \in 1 .. cur[rbuf] /\ RowsRead + 1 + i - 1 = RowsRead + i
        BY <3>1
      <4>2. mem[rbuf][RowsRead + i] = Len(received) - RowsRead + (RowsRead + i)
        BY <1>c, <2>1, <4>1 DEF HeldContents
      <4> QED BY <1>t, <3>1, <4>1, <4>2
    <3> QED BY <2>1, <3>2, <3>3 DEF Batch, Stretch
  <2>2. CASE ~Held
    <3>1. RowsLeft = 0
      BY <2>2 DEF RowsLeft
    <3> QED BY <1>t, <2>2, <3>1, StretchIs
  <2> QED BY <2>1, <2>2
<1> QED BY <1>1, <1>2, <1>3 DEF Mapped

\* A queue of one batch.
LEMMA OneBatch ==
    ASSUME NEW b
    PROVE  /\ <<b>> # << >> /\ Head(<<b>>) = b /\ Tail(<<b>>) = << >>
           /\ Append(<< >>, b) = <<b>> /\ Len(<< >>) = 0
OBVIOUS

\* The pipe starts as an empty queue.
LEMMA QueueInit == Init => Queue!QInit
<1> SUFFICES ASSUME Init PROVE Queue!QInit
  OBVIOUS
<1>1. OpenCount = 0 /\ ~Held /\ Published = 0 /\ sent = 0 /\ received = << >>
  BY ItemMaxAssumption, BufCountAssumption DEF Init, PipeInit, OpenCount, Held, Published, Slot
<1>2. Batch(writeBufIdx, 1, OpenCount) = << >>
  BY <1>1 DEF Batch
<1> QED BY <1>1, <1>2 DEF Queue!QInit

\* A step that moves no packet is a stuttering step of the queue.
LEMMA QuietIsStutter ==
    ASSUME Mapped, Mapped', UNCHANGED moved
    PROVE  UNCHANGED Queue!qvars
<1>1. UNCHANGED <<sent, received, OpenCount, RowsLeft, InFlight>> /\ (Outstanding' <=> Outstanding)
  BY DEF moved
<1>2. /\ Batch(writeBufIdx, 1, OpenCount)' = Batch(writeBufIdx, 1, OpenCount)
      /\ [k \in 1 .. Published |-> Batch(Waiting(k), 1, cur[Waiting(k)])]'
            = [k \in 1 .. Published |-> Batch(Waiting(k), 1, cur[Waiting(k)])]
      /\ (IF Held THEN Batch(rbuf, RowsRead + 1, cur[rbuf]) ELSE << >>)'
            = IF Held THEN Batch(rbuf, RowsRead + 1, cur[rbuf]) ELSE << >>
  BY <1>1 DEF Mapped, Stretch
<1> QED BY <1>1, <1>2 DEF Queue!qvars

\* PublishesSomething holds at the start.
LEMMA PublishesInit == Init => PublishesSomething
BY DEF Init, PipeInit, PublishesSomething

\* A publication is only begun with packets in the arena, and nobody takes any
\* out before it is made.
LEMMA PublishesStep ==
    ASSUME TypeOK, PcsAgree, PublishesSomething, [Next]_vars
    PROVE  PublishesSomething'
<1> USE DEF PublishesSomething, pipeIdx, pipeVars, clientVars
<1>t. /\ writeBufIdx \in Slot /\ cur \in [Slot -> 0 .. ItemMax] /\ wpc \in WriterPc
      /\ ItemMax \in Nat \ {0}
  BY ItemMaxAssumption DEF TypeOK, PipeTypeOK
<1>1. CASE PushPacket
  BY <1>1 DEF PushPacket, PushTo
<1>2. CASE CopyPacket
  BY <1>2 DEF CopyPacket, CopyTo
<1>3. CASE NextArena \/ FlushArena
  BY <1>t, <1>3 DEF NextArena, FlushArena, CallGetWriteBuffer, CallFlush
<1>4. CASE WriterPipeStep /\ UNCHANGED clientVars
  BY <1>t, <1>4 DEF WriterPipeStep, TakeWriteCredit, AdvanceWrite, CountPublished, SignalReader,
                    ClearNext
<1>5. CASE Fetch \/ CountItems \/ ReadRow \/ FinishArena
  BY <1>5 DEF Fetch, CallGetReadBuffer, CountItems, ReadRow, FinishArena
<1>6. CASE ReaderPipeStep /\ UNCHANGED clientVars
  BY <1>6 DEF ReaderPipeStep, TakeReadEvent, AdvanceRead, CountTaken, ReturnCredit
<1>7. CASE UNCHANGED vars
  BY <1>7 DEF vars
<1> QED
  BY <1>1, <1>2, <1>3, <1>4, <1>5, <1>6, <1>7 DEF Next, WriterStep, ReaderStep, Finished

\* The strengthened invariant holds in every reachable state.
LEMMA RInvInvariant == ASSUME BufCount >= 3 PROVE Spec => []RInv
<1>1. RInv /\ [Next]_vars => RInv'
  BY TypeStep, TokensStep, ContentsStep, PublishesStep, BufCountAssumption DEF RInv, IInv
<1>2. Init => RInv
  BY TypeInit, TokensInit, ContentsInit, PublishesInit, BufCountAssumption DEF RInv, IInv
<1> QED BY <1>1, <1>2, PTL DEF Spec

\* CopyPacket puts a packet into the open batch, AdvanceWrite publishes the
\* batch, AdvanceRead acquires it and ReadRow takes a packet from it; every
\* other step of the two threads leaves the queue as it is.
LEMMA QueueStep ==
    ASSUME BufCount >= 3, RInv, RInv', Mapped, Mapped', [Next]_vars
    PROVE  [Queue!QNext]_(Queue!qvars)
<1>0. /\ Held => rbuf # writeBufIdx
      /\ Held /\ Outstanding => rbuf # readBufIdx
      /\ Outstanding => readBufIdx # writeBufIdx
  BY ArenasApart, BufCountAssumption DEF RInv, IInv
<1>t. /\ writeBufIdx \in Slot /\ readBufIdx \in Slot /\ rbuf \in Slot
      /\ cur \in [Slot -> 0 .. ItemMax] /\ mem \in [Slot -> [1 .. ItemMax -> Nat]]
      /\ sent \in Nat /\ row \in Nat /\ itemCount \in Nat /\ Len(received) \in Nat
      /\ received \in Seq(Nat) /\ reader \in {"fetch", "count", "rows"}
      /\ wpc \in WriterPc /\ rpc \in ReaderPc /\ writer \in {"fill", "copy"}
      /\ readEvent \in Nat /\ writeEvent \in Nat
  <2>1. TypeOK
    BY DEF RInv, IInv
  <2>2. received \in Seq(Nat)
    BY <2>1 DEF TypeOK
  <2> QED BY <2>1, <2>2 DEF TypeOK, PipeTypeOK
<1>c. /\ Accounted /\ HeldContents /\ CountCurrent /\ PcsAgree /\ Tokens /\ IndicesAdjacent
      /\ PublishesSomething
  BY DEF RInv, IInv, Contents, Tokens
<1>m. Mapped /\ Mapped'
  OBVIOUS
<1> DEFINE Open == Batch(writeBufIdx, 1, OpenCount)
           Wait == [k \in 1 .. Published |-> Batch(Waiting(k), 1, cur[Waiting(k)])]
           Hand == IF Held THEN Batch(rbuf, RowsRead + 1, cur[rbuf]) ELSE << >>
<1>o. /\ Open = Stretch(sent - OpenCount, OpenCount)
      /\ Open' = Stretch(sent' - OpenCount', OpenCount')
  BY <1>m DEF Mapped
<1>w. /\ Wait = IF Outstanding THEN <<Stretch(Len(received) + RowsLeft, InFlight)>> ELSE << >>
      /\ Wait' = IF Outstanding' THEN <<Stretch(Len(received') + RowsLeft', InFlight')>> ELSE << >>
  BY <1>m DEF Mapped
<1>h. /\ Hand = Stretch(Len(received), RowsLeft)
      /\ Hand' = Stretch(Len(received'), RowsLeft')
  BY <1>m DEF Mapped
<1>q. ASSUME UNCHANGED moved PROVE UNCHANGED Queue!qvars
  BY <1>m, <1>q, QuietIsStutter
<1>n. OpenCount \in Int /\ RowsLeft \in Int /\ RowsRead \in Int /\ InFlight \in Int
  BY <1>t DEF OpenCount, RowsLeft, RowsRead, InFlight
<1> HIDE DEF Open, Wait, Hand
<1> USE DEF pipeIdx, pipeVars, clientVars
<1>1. CASE PushPacket
  <2>1. /\ cur'[writeBufIdx] = cur[writeBufIdx] + 1
        /\ \A b \in Slot : b # writeBufIdx => cur'[b] = cur[b]
    BY <1>t, <1>1 DEF PushPacket, PushTo
  <2>2. OpenCount' = OpenCount
    BY <1>t, <1>1, <2>1 DEF PushPacket, PushTo, OpenCount
  <2>3. (Held' <=> Held) /\ (Held => cur'[rbuf] = cur[rbuf])
    BY <1>0, <1>t, <1>1, <2>1 DEF PushPacket, PushTo, Held
  <2>4. Outstanding' = Outstanding /\ (Outstanding => cur'[readBufIdx] = cur[readBufIdx])
    BY <1>0, <1>t, <1>1, <2>1 DEF PushPacket, PushTo, Outstanding
  <2>5. RowsLeft' = RowsLeft /\ InFlight' = InFlight
    BY <1>1, <2>3, <2>4 DEF PushPacket, PushTo, RowsRead, RowsLeft, InFlight
  <2> QED
    BY <1>1, <1>q, <2>2, <2>4, <2>5 DEF PushPacket, PushTo, moved
<1>2. CASE CopyPacket
  <2>1. /\ OpenCount \in Nat /\ OpenCount' = OpenCount + 1 /\ OpenCount < ItemMax
        /\ sent < Total
    BY <1>t, <1>c, <1>2, ItemMaxAssumption DEF CopyPacket, CopyTo, OpenCount, PcsAgree
  <2>2. sent' = sent + 1 /\ received' = received
    BY <1>2 DEF CopyPacket
  <2>3. Outstanding' = Outstanding /\ RowsLeft' = RowsLeft /\ InFlight' = InFlight
    BY <1>2 DEF CopyPacket, CopyTo, Held, Outstanding, RowsRead, RowsLeft, InFlight
  <2>4. Wait' = Wait /\ Hand' = Hand
    BY <1>w, <1>h, <2>2, <2>3
  <2>5. Open' = Append(Open, sent + 1) /\ Len(Open) = OpenCount
    <3>1. /\ sent - OpenCount \in Int /\ sent - OpenCount + OpenCount + 1 = sent + 1
          /\ sent' - OpenCount' = sent - OpenCount
      BY <1>t, <2>1, <2>2
    <3> DEFINE a == sent - OpenCount
    <3>2. a \in Int /\ a + OpenCount + 1 = sent + 1 /\ sent' - OpenCount' = a
      BY <3>1
    <3> HIDE DEF a
    <3>3. /\ Append(Stretch(a, OpenCount), a + OpenCount + 1) = Stretch(a, OpenCount + 1)
          /\ Len(Stretch(a, OpenCount)) = OpenCount
      BY <2>1, <3>2, StretchIs
    <3>4. Open = Stretch(a, OpenCount) /\ Open' = Stretch(a, OpenCount + 1)
      BY <1>o, <2>1, <3>2 DEF a
    <3> QED BY <3>2, <3>3, <3>4
  <2> QED BY <2>1, <2>2, <2>4, <2>5 DEF Queue!Put, Queue!QNext, Open, Wait, Hand
<1>3. CASE NextArena \/ FlushArena
  <2>1. UNCHANGED moved
    BY <1>t, <1>3
       DEF NextArena, FlushArena, CallGetWriteBuffer, CallFlush, moved, RowsLeft, RowsRead,
           InFlight, OpenCount, Held, Outstanding
  <2> QED BY <1>q, <2>1
<1>4. CASE WriterPipeStep /\ UNCHANGED clientVars
  <2>1. CASE TakeWriteCredit
    <3>1. UNCHANGED moved
      BY <1>t, <1>4, <2>1
         DEF TakeWriteCredit, moved, RowsLeft, RowsRead, InFlight, OpenCount, Held, Outstanding
    <3> QED BY <1>q, <3>1
  <2>2. CASE AdvanceWrite
    <3>1. /\ ~Outstanding /\ Outstanding' /\ writeBufIdx = readBufIdx
          /\ readBufIdx' = readBufIdx
      BY <1>t, <1>c, <2>2
         DEF AdvanceWrite, Tokens, Fresh, OneToken, IndicesAdjacent, Outstanding
    <3>2. /\ OpenCount' = 0 /\ OpenCount = cur[readBufIdx] /\ InFlight' = cur[readBufIdx]
          /\ OpenCount > 0 /\ InFlight = 0
      BY <1>t, <1>c, <1>4, <2>2, <3>1
         DEF AdvanceWrite, InFlight, OpenCount, PcsAgree, PublishesSomething
    <3>3. RowsLeft' = RowsLeft /\ received' = received /\ sent' = sent
      BY <1>4, <2>2 DEF AdvanceWrite, Held, RowsRead, RowsLeft
    <3>4. sent - OpenCount = Len(received) + RowsLeft
      BY <1>c, <1>t, <1>n, <3>2 DEF Accounted
    <3>5. Wait = << >> /\ Wait' = <<Open>>
      BY <1>w, <1>o, <3>1, <3>2, <3>3, <3>4
    <3>6. Open # << >> /\ Open' = << >>
      <4>1. OpenCount \in Nat /\ OpenCount > 0 /\ sent - OpenCount \in Int /\ sent' - OpenCount' \in Int
        BY <1>t, <1>n, <3>2, <3>3
      <4>2. Open # << >>
        BY <1>o, <4>1, StretchIs
      <4>3. Open' = << >>
        BY <1>o, <3>2, <4>1, StretchIs
      <4> QED BY <4>2, <4>3
    <3>7. Hand' = Hand
      BY <1>h, <3>3
    <3>8. Len(Wait) < BufCount - 1 /\ Wait' = Append(Wait, Open)
      BY <3>5, BufCountAssumption, OneBatch
    <3>9. Queue!Publish
      BY <3>3, <3>6, <3>7, <3>8 DEF Queue!Publish, Open, Wait, Hand
    <3> QED BY <3>9 DEF Queue!QNext
  <2>3. CASE CountPublished
    <3>1. UNCHANGED moved
      BY <1>t, <1>4, <2>3
         DEF CountPublished, moved, RowsLeft, RowsRead, InFlight, OpenCount, Held, Outstanding
    <3> QED BY <1>q, <3>1
  <2>4. CASE SignalReader
    <3>1. UNCHANGED moved
      BY <1>t, <1>c, <1>4, <2>4
         DEF SignalReader, Tokens, Fresh, OneToken, moved, RowsLeft, RowsRead, InFlight,
             OpenCount, Held, Outstanding
    <3> QED BY <1>q, <3>1
  <2>5. CASE ClearNext
    <3>1. \A b \in Slot : b # writeBufIdx => cur'[b] = cur[b]
      BY <1>t, <2>5 DEF ClearNext
    <3>2. OpenCount = 0 /\ OpenCount' = 0
      BY <1>c, <1>t, <1>4, <2>5 DEF ClearNext, OpenCount, PcsAgree
    <3>3. /\ (Held' <=> Held) /\ (Held => cur'[rbuf] = cur[rbuf])
          /\ Outstanding' = Outstanding /\ (Outstanding => cur'[readBufIdx] = cur[readBufIdx])
      BY <1>0, <1>t, <1>4, <2>5, <3>1 DEF ClearNext, Held, Outstanding
    <3>4. RowsLeft' = RowsLeft /\ InFlight' = InFlight
      BY <1>4, <2>5, <3>3 DEF ClearNext, RowsRead, RowsLeft, InFlight
    <3> QED BY <1>4, <1>q, <3>2, <3>3, <3>4 DEF moved
  <2> QED BY <1>4, <2>1, <2>2, <2>3, <2>4, <2>5 DEF WriterPipeStep
<1>5. CASE Fetch \/ CountItems
  <2>1. UNCHANGED moved
    BY <1>t, <1>5
       DEF Fetch, CallGetReadBuffer, CountItems, moved, RowsLeft, RowsRead, InFlight,
           OpenCount, Held, Outstanding
  <2> QED BY <1>q, <2>1
<1>6. CASE ReadRow
  <2>1. RowsLeft \in Nat /\ RowsLeft > 0 /\ RowsLeft' = RowsLeft - 1
    BY <1>c, <1>t, <1>6 DEF ReadRow, Held, RowsRead, RowsLeft, CountCurrent, PcsAgree
  <2>2. Held /\ RowsRead = row /\ row + 1 \in 1 .. cur[rbuf]
    BY <1>c, <1>t, <1>6 DEF ReadRow, Held, RowsRead, CountCurrent, PcsAgree
  <2>3. mem[rbuf][row + 1] = Len(received) + 1
    BY <1>c, <1>t, <2>2 DEF HeldContents
  <2>4. /\ received' = Append(received, Len(received) + 1)
        /\ Len(received') = Len(received) + 1
    BY <1>t, <1>6, <2>3 DEF ReadRow
  <2>5. Hand # << >> /\ Head(Hand) = Len(received) + 1 /\ Hand' = Tail(Hand)
    <3> DEFINE a == Len(received)
               S == Stretch(a, RowsLeft)
    <3>1. a \in Int
      BY <1>t
    <3> HIDE DEF a
    <3>2. S # << >> /\ Head(S) = a + 1 /\ Tail(S) = Stretch(a + 1, RowsLeft - 1)
      BY <2>1, <3>1, StretchIs
    <3>3. Hand = S
      BY <1>h DEF a
    <3>4. Hand' = Stretch(a + 1, RowsLeft - 1)
      BY <1>h, <2>1, <2>4 DEF a
    <3> HIDE DEF S
    <3>5. Hand # << >> /\ Head(Hand) = a + 1 /\ Hand' = Tail(Hand)
      BY <3>2, <3>3, <3>4
    <3> QED BY <3>5 DEF a
  <2>6. sent' = sent /\ OpenCount' = OpenCount /\ Outstanding' = Outstanding
        /\ InFlight' = InFlight
    BY <1>6 DEF ReadRow, OpenCount, Outstanding, InFlight
  <2>7. Len(received') + RowsLeft' = Len(received) + RowsLeft
    BY <1>t, <2>1, <2>4
  <2>8. Open' = Open /\ Wait' = Wait
    BY <1>o, <1>w, <2>6, <2>7
  <2>9. Queue!Take
    BY <2>4, <2>5, <2>6, <2>8 DEF Queue!Take, Open, Wait, Hand
  <2> QED BY <2>9 DEF Queue!QNext
<1>7. CASE FinishArena
  <2>1. RowsLeft = 0 /\ RowsLeft' = 0
    BY <1>c, <1>t, <1>7 DEF FinishArena, Held, RowsLeft, RowsRead, CountCurrent, PcsAgree
  <2>2. UNCHANGED moved
    BY <1>7, <2>1 DEF FinishArena, moved, OpenCount, Outstanding, InFlight
  <2> QED BY <1>q, <2>2
<1>8. CASE ReaderPipeStep /\ UNCHANGED clientVars
  <2>1. CASE TakeReadEvent
    <3>1. UNCHANGED moved
      BY <1>t, <1>c, <1>8, <2>1
         DEF TakeReadEvent, Tokens, Fresh, OneToken, moved, RowsLeft, RowsRead, InFlight,
             OpenCount, Held, Outstanding
    <3> QED BY <1>q, <3>1
  <2>2. CASE AdvanceRead
    <3>1. Outstanding /\ ~Outstanding' /\ ~Held /\ Held' /\ RowsLeft = 0 /\ RowsRead' = 0
      BY <1>c, <1>t, <1>8, <2>2
         DEF AdvanceRead, Tokens, Fresh, OneToken, PcsAgree, Outstanding, Held, RowsLeft, RowsRead
    <3>2. InFlight = cur[readBufIdx] /\ RowsLeft' = cur[readBufIdx]
      BY <1>t, <1>8, <2>2, <3>1 DEF AdvanceRead, InFlight, RowsLeft
    <3>3. UNCHANGED <<sent, received, OpenCount>>
      BY <1>8, <2>2 DEF AdvanceRead, OpenCount
    <3>4. Hand = << >> /\ Wait = <<Hand'>> /\ Wait' = << >>
      <4>1. Hand = << >>
        BY <1>h, <1>t, <3>1, StretchIs
      <4>2. Len(received) + RowsLeft = Len(received)
        BY <1>t, <3>1
      <4> QED BY <1>h, <1>w, <3>1, <3>2, <3>3, <4>1, <4>2
    <3>5. Open' = Open
      BY <1>o, <3>3
    <3>6. Wait # << >> /\ Head(Wait) = Hand' /\ Tail(Wait) = << >>
      BY <3>4, OneBatch
    <3>7. Queue!Acquire
      BY <3>3, <3>4, <3>5, <3>6 DEF Queue!Acquire, Open, Wait, Hand
    <3> QED BY <3>7 DEF Queue!QNext
  <2>3. CASE CountTaken
    <3>1. UNCHANGED moved
      BY <1>t, <1>8, <2>3
         DEF CountTaken, moved, RowsLeft, RowsRead, InFlight, OpenCount, Held, Outstanding
    <3> QED BY <1>q, <3>1
  <2>4. CASE ReturnCredit
    <3>1. UNCHANGED moved
      BY <1>t, <1>8, <2>4
         DEF ReturnCredit, moved, RowsLeft, RowsRead, InFlight, OpenCount, Held, Outstanding
    <3> QED BY <1>q, <3>1
  <2> QED BY <1>8, <2>1, <2>2, <2>3, <2>4 DEF ReaderPipeStep
<1>9. CASE UNCHANGED vars
  <2>1. UNCHANGED moved
    BY <1>9 DEF vars, moved, RowsLeft, RowsRead, InFlight, OpenCount, Held, Outstanding
  <2> QED BY <1>q, <2>1
<1> QED
  BY <1>1, <1>2, <1>3, <1>4, <1>5, <1>6, <1>7, <1>8, <1>9
     DEF Next, WriterStep, ReaderStep, Finished

\* The pipe implements the safety part of the queue of batches, for every ring
\* of three arenas or more: SdPipeGetWriteBuffer publishes the batch the writer
\* filled, whole, and SdPipeGetReadBuffer hands out the oldest one.
THEOREM PipeImplementsQueue ==
    ASSUME BufCount >= 3
    PROVE  Spec => Queue!QInit /\ [][Queue!QNext]_(Queue!qvars)
<1>1. RInv => Mapped
  BY MappedState, BufCountAssumption
<1>2. RInv /\ RInv' /\ Mapped /\ Mapped' /\ [Next]_vars => [Queue!QNext]_(Queue!qvars)
  BY QueueStep, BufCountAssumption
<1>3. Spec => []RInv
  BY RInvInvariant, BufCountAssumption
<1>4. Init => Queue!QInit
  BY QueueInit
<1> QED BY <1>1, <1>2, <1>3, <1>4, PTL DEF Spec
=============================================================================

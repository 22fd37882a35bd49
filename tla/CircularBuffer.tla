---------------------------- MODULE CircularBuffer ----------------------------
(***************************************************************************)
(* The circular buffer and the metrics of poc/Metrics, which SensorDataPipe *)
(* has replaced.  One thread calls CbInsert, one calls CbRead.  Each has a *)
(* mutex of its own, so the two run at the same time, and Count, Full and  *)
(* the wake-ups are shared without a common lock: every load and every     *)
(* store of Count and Full is a step.  The two threads touch the data at   *)
(* the same time only when Count or Full is already wrong, so a copy is    *)
(* one step.  A metric is filled and stored under its write lock.          *)
(***************************************************************************)
EXTENDS Integers, Sequences

CONSTANTS
    DataSize,      \* bytes of the buffer
    MaxBytes,      \* bound: bytes inserted
    MaxSamples,    \* MAX_SAMPLES
    Intervals,     \* the number of samples between writes (40960)
    MaxAdded       \* bound: samples added

ASSUME RingAssumption ==
    /\ DataSize \in Nat \ {0} /\ MaxBytes \in Nat
    /\ MaxSamples \in Nat \ {0} /\ Intervals \subseteq 1 .. MaxSamples - 1
    /\ MaxAdded \in Nat

VARIABLES
    data, head, tail, count, full,   \* the circular_buffer
    ins, rd,                         \* the calls of the two threads
    put, got,                        \* bytes inserted, bytes read
    overran, raced                   \* unread bytes were overwritten, an update of Count was lost

bufferVars == <<data, head, tail, count, full, ins, rd, put, got, overran, raced>>

VARIABLES
    samples, sampleTail, sampleCount, wIndex,   \* the metric
    file,                                       \* the samples in its file
    interval, added, writeFailed

metricVars == <<samples, sampleTail, sampleCount, wIndex, file, interval, added, writeFailed>>

Call == [pc : {"idle", "check", "sleep", "asleep", "copy", "store", "look", "full"},
         size : 0 .. DataSize, seen : 0 .. MaxBytes]
NoCall == [pc |-> "idle", size |-> 0, seen |-> 0]

BufferTypeOK ==
    /\ data \in [0 .. DataSize - 1 -> 0 .. MaxBytes]
    /\ head \in 0 .. DataSize - 1 /\ tail \in 0 .. DataSize - 1
    /\ count \in 0 .. MaxBytes /\ full \in BOOLEAN
    /\ ins.pc \in {"idle", "check", "sleep", "asleep", "copy", "store", "look", "full"}
    /\ rd.pc \in {"idle", "check", "sleep", "asleep", "copy", "store", "full"}
    /\ put \in 0 .. MaxBytes /\ got \in Seq(0 .. MaxBytes)
    /\ overran \in BOOLEAN /\ raced \in BOOLEAN

BufferInit ==
    /\ data = [i \in 0 .. DataSize - 1 |-> 0]
    /\ head = 0 /\ tail = 0 /\ count = 0 /\ full = FALSE
    /\ ins = NoCall /\ rd = NoCall
    /\ put = 0 /\ got = <<>>
    /\ overran = FALSE /\ raced = FALSE

-----------------------------------------------------------------------------
InsertIsAt(pc) == ins' = [ins EXCEPT !.pc = pc]
ReadIsAt(pc) == rd' = [rd EXCEPT !.pc = pc]

CallInsert ==
    /\ ins.pc = "idle"
    /\ \E size \in 1 .. DataSize :
         put + size <= MaxBytes /\ ins' = [pc |-> "check", size |-> size, seen |-> 0]
    /\ UNCHANGED <<data, head, tail, count, full, rd, put, got, overran, raced>>

\* CbInsert waits only when the buffer is full, whatever it is to insert.
CheckNotFull ==
    /\ ins.pc = "check"
    /\ InsertIsAt(IF full THEN "sleep" ELSE "copy")
    /\ UNCHANGED <<data, head, tail, count, full, rd, put, got, overran, raced>>

\* The other thread signals without holding the mutex: it can do so before.
SleepNotFull ==
    /\ ins.pc = "sleep" /\ InsertIsAt("asleep")
    /\ UNCHANGED <<data, head, tail, count, full, rd, put, got, overran, raced>>

\* The two chunks, the head, the load of Count.
InsertBytes ==
    /\ ins.pc = "copy"
    /\ data' = [i \in DOMAIN data |->
                  LET k == (i - head) % DataSize IN
                  IF k < ins.size THEN put + k + 1 ELSE data[i]]
    /\ head' = (head + ins.size) % DataSize
    /\ put' = put + ins.size
    /\ overran' = (overran \/ put + ins.size - Len(got) > DataSize)
    /\ ins' = [ins EXCEPT !.pc = "store", !.seen = count]
    /\ UNCHANGED <<tail, count, full, rd, got, raced>>

AddCount ==
    /\ ins.pc = "store"
    /\ count' = ins.seen + ins.size
    /\ raced' = (raced \/ count # ins.seen)
    /\ InsertIsAt("look")
    /\ UNCHANGED <<data, head, tail, full, rd, put, got, overran>>

LookAtCount ==
    /\ ins.pc = "look"
    /\ ins' = [ins EXCEPT !.pc = "full", !.seen = count]
    /\ UNCHANGED <<data, head, tail, count, full, rd, put, got, overran, raced>>

SetFull ==
    /\ ins.pc = "full"
    /\ full' = (ins.seen = DataSize)
    /\ InsertIsAt("idle")
    /\ IF rd.pc = "asleep" THEN ReadIsAt("check") ELSE UNCHANGED rd
    /\ UNCHANGED <<data, head, tail, count, put, got, overran, raced>>

-----------------------------------------------------------------------------
CallRead ==
    /\ rd.pc = "idle"
    /\ \E size \in 1 .. DataSize : rd' = [pc |-> "check", size |-> size, seen |-> 0]
    /\ UNCHANGED <<data, head, tail, count, full, ins, put, got, overran, raced>>

\* Faulty variant: any byte is taken for enough.
EnoughAny(size) == count > 0

Enough(size) == count >= size

CheckEnough ==
    /\ rd.pc = "check"
    /\ ReadIsAt(IF Enough(rd.size) THEN "copy" ELSE "sleep")
    /\ UNCHANGED <<data, head, tail, count, full, ins, put, got, overran, raced>>

SleepNotEmpty ==
    /\ rd.pc = "sleep" /\ ReadIsAt("asleep")
    /\ UNCHANGED <<data, head, tail, count, full, ins, put, got, overran, raced>>

ReadBytes ==
    /\ rd.pc = "copy"
    /\ got' = got \o [k \in 1 .. rd.size |-> data[(tail + k - 1) % DataSize]]
    /\ tail' = (tail + rd.size) % DataSize
    /\ rd' = [rd EXCEPT !.pc = "store", !.seen = count]
    /\ UNCHANGED <<data, head, count, full, ins, put, overran, raced>>

SubtractCount ==
    /\ rd.pc = "store"
    /\ count' = rd.seen - rd.size
    /\ raced' = (raced \/ count # rd.seen)
    /\ ReadIsAt("full")
    /\ UNCHANGED <<data, head, tail, full, ins, put, got, overran>>

ClearFull ==
    /\ rd.pc = "full"
    /\ full' = FALSE
    /\ ReadIsAt("idle")
    /\ IF ins.pc = "asleep" THEN InsertIsAt("check") ELSE UNCHANGED ins
    /\ UNCHANGED <<data, head, tail, count, put, got, overran, raced>>

\* Nothing is claimed past the first wrong Count or overwritten byte, so the
\* model stops there.
BufferNext ==
    /\ ~raced /\ ~overran
    /\ \/ CallInsert \/ CheckNotFull \/ SleepNotFull \/ InsertBytes \/ AddCount \/ LookAtCount
       \/ SetFull
       \/ CallRead \/ CheckEnough \/ SleepNotEmpty \/ ReadBytes \/ SubtractCount \/ ClearFull

-----------------------------------------------------------------------------
MetricTypeOK ==
    /\ samples \in [0 .. MaxSamples - 1 -> 0 .. MaxAdded]
    /\ sampleTail \in 0 .. MaxSamples - 1 /\ sampleCount \in 0 .. MaxSamples
    /\ wIndex \in 0 .. MaxSamples - 1
    /\ file \in Seq(1 .. MaxAdded)
    /\ interval \in Intervals /\ added \in 0 .. MaxAdded /\ writeFailed \in BOOLEAN

MetricInit ==
    /\ samples = [i \in 0 .. MaxSamples - 1 |-> 0]
    /\ sampleTail = 0 /\ sampleCount = 0 /\ wIndex = 0
    /\ file = <<>>
    /\ interval \in Intervals /\ added = 0 /\ writeFailed = FALSE

\* Faulty variant: the tail does not go round.
NextPlaceUnwrapped(i) == i + 1

NextPlace(i) == (i + 1) % MaxSamples

\* MetricWriteToFile: the samples of its first fwrite, and those of the second,
\* which is there when what is pending goes round the end of the ring.
ToWrite(start, end) == IF end > start THEN end - start ELSE MaxSamples - start
ToWriteAtBeginning(start, end) == IF end > start THEN 0 ELSE end

\* The samples at n places from start of a ring.
SamplesFrom(ring, start, n) == [k \in 1 .. n |-> ring[(start + k - 1) % MaxSamples]]

\* MetricAddSample: the sample goes to the ring; at a multiple of the interval
\* all that is pending is written, and counts as written even if either write
\* comes up short.
AddSample ==
    LET ring == [samples EXCEPT ![sampleTail] = added + 1]
        end == NextPlace(sampleTail)
        n == IF sampleCount < MaxSamples THEN sampleCount + 1 ELSE sampleCount
        first == ToWrite(wIndex, end)
        second == ToWriteAtBeginning(wIndex, end)
    IN
    /\ added < MaxAdded /\ added' = added + 1
    /\ samples' = ring /\ sampleTail' = end /\ sampleCount' = n
    /\ IF n % interval = 0 /\ wIndex # end
       THEN /\ wIndex' = end
            /\ \E w1 \in 0 .. first, w2 \in 0 .. second :
                 /\ file' = file \o SamplesFrom(ring, wIndex, w1) \o SamplesFrom(ring, 0, w2)
                 /\ writeFailed' = (writeFailed \/ w1 < first \/ w2 < second)
       ELSE UNCHANGED <<wIndex, file, writeFailed>>
    /\ UNCHANGED interval

-----------------------------------------------------------------------------
\* What CbRead returns is what CbInsert was given, byte for byte across the end
\* of the buffer, as long as no update of Count was lost and no insert was
\* larger than the room that was left (CircularBuffer.c:110-187).  What a
\* metric has stored are samples in their order, none twice, and from the first
\* on without a gap unless a write has failed, even when they have gone round
\* the ring (Metrics.c:70-142).
RingsInOrder ==
    /\ ~raced /\ ~overran => got = [i \in 1 .. Len(got) |-> i]
    /\ \A i \in 1 .. Len(file) - 1 : file[i] < file[i + 1]
    /\ ~writeFailed => file = [i \in 1 .. Len(file) |-> i]
=============================================================================

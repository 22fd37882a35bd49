# Verification of the sensor data handler

TLA+ modules, TLC runs and TLAPS proofs for the sensor data handling system of
this repository: a program that receives packets from a sensor over Modbus/TCP,
passes them through an in-memory pipe, and inserts them into a PostgreSQL table.
`PROJECT.json` maps every definition to the lines it models and lists runs,
mutants, findings, hazards and theorems; this file says what they mean.

Paths below are relative to the program's directory `src/src/`.

## 1. The system

`main` (Main.c) reads a configuration, creates one *thread group* per data
handler, starts the groups and waits. The only data handler is *Modbus with
Postgres*: a Modbus thread, a Postgres thread and, in test mode, a Modbus test
server thread, which share one context with a *sensor data pipe* and a start
barrier.

```
 test server --TCP--> MbRun --arenas--> sensor data pipe --arenas--> PgRun --libpq--> PostgreSQL
                        \____________________ thread group ____________/
     signals --> shutdown flag                monitor --> manager <-- main
```

| Component | State | Operations | Interacts through | Correct when |
|---|---|---|---|---|
| Sensor data pipe (Common/SensorDataPipe.c) | ring of `BufCount` arenas, `WriteBufIdx`, `ReadBufIdx`, `FullBuffersCount`, two eventfds | `SdpCreate`, `SdPipeGetWriteBuffer`, `SdPipeGetReadBuffer`, `SdPipeFlush`, `SdpDestroy` | one writer and one reader thread | no arena is used by both; every packet comes out once and in order; nobody blocks for ever |
| Modbus thread (DataHandlers/ModbusWithPostgres/Modbus.c) | `CurBuf`, the connection | connect, receive header and data, push, rotate, flush, reconnect | TCP, pipe, shutdown flag | what it pushes are whole packets, in an arena with room, in the pipe's write arena; it ends on shutdown |
| Postgres thread (DataHandlers/ModbusWithPostgres/Postgres.c) | epoll, failure, timeout and item counters | wait, fetch an arena, insert its rows | pipe, libpq, shutdown flag | every published arena is inserted or its loss is noticed; it ends on shutdown |
| Postgres access (DatabaseSystems/Postgres.c) | connection, transaction | `PgPrepareCtx`, `GetTableMetadata`, `PgInsertData` | libpq | an insert is all or nothing and its result is true |
| Modbus over TCP (CommProtocols/Modbus.c, Common/Socket.c) | socket | connect, receive with a time limit, parse | kernel | the receiver stays in step with the frames |
| Test server (DevUtils/ModbusTestServer.c) | listening and client socket | accept, send a frame | kernel, shutdown flag | serves the connection the Modbus thread uses; ends on shutdown |
| Thread groups (Common/ThreadGroup.c, Main.c) | manager with mutex, condition, counters; one monitor per group | start, join, clean up, report, wait, destroy | mutex, condition variable, barrier | nothing is freed while in use; the process ends when its threads do or a shutdown comes |
| Signals (Signals.c) | shutdown flag, pipe to dump | handler, dumps of process and pipe | all threads | a termination signal requests the shutdown wherever it is taken |
| Thread primitives (Common/Thread.c) | mutex, condition, barrier, thread control | lock, wait with a time limit, stop and stopped | all | no wake-up is lost; a time limit is the one asked for |
| Log (Sdb.h) | one lock and one buffer per log module | write a message | all threads and the signal handler | a message is written as it was formatted; a lock taken is released |
| Arenas, scratch arenas, strings (Sdb.h) | `Cur` of each arena, the length and capacity of each string | push, pop, get and release a scratch arena, make, append, set and shorten a string | one thread | nothing in use is cut off or given out twice; a string stays in its block |
| Time (Common/Time.c) | none | sum, difference, conversion | timed waits, `select` | conversions agree |
| Set-up (Main.c, DataHandlers/) | configuration, contexts, pipes, barriers, groups, manager | read the configuration, create, run, clean up, destroy | once, at start and end | what runs is complete; a failure leaves nothing behind |
| cJSON (Libs/cJSON, vendored) | trees of items | parse, create, add, insert, replace, detach, duplicate, delete | set-up, `PgPrepareCtx` | a tree stays a tree; nothing is lost or freed twice |
| Proofs of concept (`../poc`) | a ring of bytes with two locks; a metric; a streak of zero packets | insert, read; add a sample; compress, filter | threads of their own | bytes and samples come out in order; every zero packet is accounted for |

What makes it hard: two threads share arenas and are synchronised by two
counters and three unlocked indices only; connections break in the middle of a
frame; inserts fail; a termination signal may come anywhere; threads can fail
before the barrier others wait at; and main may free what a monitor still uses.
The `hazards` of `PROJECT.json` list each of these with its line.

## 2. Modules

| Module | Models | Relation to the others |
|---|---|---|
| `SensorDataPipe` | the pipe's state and every step of its three calls | extended by the next two, which add the threads |
| `PipeThroughput` | the pipe between a well-behaved writer (`MbPipeThroughputTest`) and the inner loop of `PgRun` | refines `ArenaQueue` |
| `ArenaQueue` | what the pipe promises: a FIFO queue of batches | abstract |
| `ModbusWithPostgres` | `MbRun` and `PgRun` after the barrier, with broken connections, failing inserts, time limits and shutdown | extends `SensorDataPipe` |
| `ModbusStream` | `MbRun` and the test server at the two ends of a byte stream | opens up the receive step of `ModbusWithPostgres` |
| `PgInsertData` | one insert: transaction, COPY, conversion buffer, every error path | opens up the insert step of `ModbusWithPostgres`; refines `AtomicInsert` |
| `AtomicInsert` | what an insert promises: all rows or none, and a true answer | abstract |
| `EndToEnd` | from the sensor to the server's table: the inserts of `PgRun` are calls of `AtomicInsert` | composes `ModbusWithPostgres` and `AtomicInsert` |
| `ThreadGroup` | main, the monitors, the threads up to their barrier and from their return on | encloses the life of the threads above |
| `SetUp` | main from its start to its end: configuration, creation, clean-up, every step failing | extends `PgPrepareCtx`; encloses `ThreadGroup` |
| `PgPrepareCtx` | `PgRun` up to the barrier: arenas, files, connection, tables, the pipe's geometry | opens up the set-up step of `ThreadGroup` |
| `SdbMemory` | the arenas, scratch arenas and strings of one thread under nested calls | a part of `Support` |
| `LogSignals` | logging threads and the signal handlers on top of them | a part of `Support` |
| `ThreadControl` | stop and stopped between an owner and its workers | a part of `Support` |
| `SdbTime` | timed waits and the arithmetic of their time limits | a part of `Support` |
| `JsonTree` | the trees of cJSON, the parser step by step | a part of `Support` |
| `CircularBuffer`, `ZeroCompression` | the ring, the metric and the compressor of `poc/` | parts of `Support` |
| `Support` | the sum of these eight parts: one behaviour is of one part | extends them |
| `MCSetUp`, `MCSupport` | values that a configuration file cannot spell | extend what they instantiate |
| `PipeProofs`, `PgInsertProofs`, `ThreadGroupProofs`, `StreamProofs`, `JsonProofs` | theorems about `PipeThroughput`, `PgInsertData`, `ThreadGroup`, `ModbusStream`, `JsonTree` | extend the module they are about |
| `MbPgProofs` | theorems about `ModbusWithPostgres` and `EndToEnd` | extends `EndToEnd` |
| `SetUpProofs` | theorems about `SetUp` and `PgPrepareCtx` | extends `SetUp` |
| `SupportProofs` | theorems about the parts of `Support` and their sum | extends `Support` and `JsonProofs` |

Definitions carry the names of the C code where TLA+ allows. Definitions marked
"Faulty variant" are not part of any specification; each is a bug one could make
in the definition below it, and `PROJECT.json` says which property notices it.

### How state and actions correspond to the code

**SensorDataPipe.** The indices, `FullBuffersCount`, the two eventfd counters and
each arena's `Cur` (in packets) and contents are variables. A call is cut where
the other thread can come in between: eventfd read, store of the index, change of
the count, eventfd write, clear of the next arena (`wpc`, `rpc` say where each call
is). The eventfds are
not semaphores: a read returns and resets the whole counter. The push and the
copy of a packet are two steps, since `SdbArenaPush` advances `Cur` before
`memcpy` fills the bytes. `SA_RESTART` makes the EINTR branches of the eventfd
calls unreachable; other errors of an eventfd are not modelled.

**ModbusWithPostgres.** `mb` and `pg` are the places in `MbRun` and `PgRun`
between two steps; `curBuf` is the local `CurBuf`. A broken connection, a
rejected frame and an interrupted `select` are one action, since the code treats
them alike. At the fifth epoll timeout `PgRun` falls through to `Events[0]`,
which is uninitialised: the three ways it can read are three alternatives. The
epoll time limit is a bound the code means to be 100 ms and is longer; the model
lets it expire at any time. The thresholds 5, 5 and 1e6 are constants.
Inserts may fail any number of times; the failure counter is not followed beyond
its threshold, which is all the code compares it with.

**ModbusStream.** A frame is a few units, each knowing its packet and its
position; a connection is a queue of units. A receive takes any prefix of what is
on its way, so that a header or its data may come in pieces; a send takes a
whole frame, nothing, or what fits. `PassesFor` is what `MbParseTcpFrame` and
`MbRun` can tell of a frame from the length and the byte count when they are read
out of step. What a closed socket answers (end of data, reset, SIGPIPE) is the
behaviour of Linux and is marked external. Of the pipe the module has the two waits
for an arena, of the receiving loop (`rotate`) and of the flush before a
reconnection (`flush`). They come back while `PgRun` is there, which is what
`WriterServed` and `MbStops` show of `ModbusWithPostgres`; once it has gone
(`pgGone`), on an error of epoll or for the shutdown, they may never (`blocked`).

**PgInsertData.** One action per libpq call and outcome; `session` and `pending`
are the server's state, `table[k]` the committed rows of the k-th call. Whether
a put reaches the server, and how much of it, is nondeterministic when it fails;
a put over a lost connection may succeed because libpq only buffers.

**EndToEnd.** A call of `PgInsertData` begins where `PgRun` has counted the rows and
ends with its answer; in between, or at any other time, the connection to the server
may be lost. `table` and `discarded` of `ModbusWithPostgres` are what `PgRun` has been
told; `database` is the server's table, and `stored` says how many rows of each call
are in it. The two may differ in two ways, both of `AtomicInsert`: a COMMIT whose
answer is lost with the connection, and an arena whose rows do not fit the conversion
buffer (`unstored`). One packet stands for one row.

**ThreadGroup.** `main` walks through `TgManagerStartAll`, `TgManagerWaitForAll`,
`TgDestroyManager` and exit; each group has its threads' states and a monitor.
The mutex is explicit. The condition variable is not: main's wait has a time
limit of a second and checks its condition again, so a wake-up is never needed,
and spurious ones are the general case.

**SetUp.** One action per step of `SetUpFromConf`, `MbPgCreateTg`, `SdpCreate`
and `main` that can fail, in their order. `held` is the ledger of everything that
is allocated or open, by handler; what no code path names any more stays in it, so
a leak is a member that is never removed. The configuration is chosen when the
code reads it: enabled or not, known or not, with sizes and a count or without.
A step that writes through NULL or asserts in a debug build leads to `crashed`.
main returns when every group has been cleaned up (`Finish`), or after a shutdown
wherever the groups are (`FinishOnShutdown`).

**PgPrepareCtx.** One action per step of `PgPrepareCtx`, with each of its `goto
cleanup`; the columns of a table are read one per step. `scratch` is what lies on
the scratch arena above the position the release goes back to. A row's size is
counted modulo `SizeModulus` (`size_t`) on top of whatever the unwritten `RowSize`
held; a push that meets a full arena crashes the thread, since no caller tests for
NULL.

**SdbMemory.** `cur` is `Cur` of the thread's arena and of its scratch arenas.
Memory itself does not say what is in use, so `blocks` does: an allocation ends
with the return of the function it was made for. The three ways a function takes
a scratch arena in this code are the three calls; the arena for results may be
handed down through several of them.

**LogSignals.** The places of `Sdb__WriteLog__` between its lock and its unlock,
for each frame of each thread; a signal puts a handler frame on top. Error
returns keep the lock (`leaked`). An assertion that fails aborts a debug build,
and a release build goes on.

**ThreadControl.** A critical section of `Control->Mutex` is one action, up to
the `SdbCondWait` that gives the mutex back. Wake-ups may also be spurious.

**SdbTime.** Instants and timeouts are numbers of nanoseconds, and the conversions
are translated with their masks, carries and remainders. A wait ends at the first
instant of the clock that is not before its end. `TimesExact` is about the waits of
`Thread.c`; how long `SocketRecvWithTimeout` waits is translated (`Timeval`), and no
property asks for what it was given, since the code does not deliver it.

**JsonTree.** `next`, `prev`, `child` are the pointers of cJSON; the parser is a
stack of calls, and an allocation, or the text, may fail at each of its steps. What a
walk along the pointers meets is the least set that the pointers do not leave
(`From`), which is what the recursion of `cJSON_Delete` computes.

**CircularBuffer, ZeroCompression.** In the ring, every load and store of `Count`
and `Full` is a step, since the two threads hold different locks. The metric and
the compressor are sequential; what may fail in them is a write, an insert or an
allocation. What the filter lets through is the set of places of the packets that
are not zero.

## 3. Runs

| Run | Question | Result |
|---|---|---|
| `pipe_three` | pipe with 3 arenas, file of 5 packets, flushes at any time | the writer's arena is never the reader's; rows come out once and in order; the count is off only between the two atomics of a step; the file arrives; the pipe implements `ArenaQueue` |
| `pipe_two_buffers` | the same with the shipped `buf_count` of 2 | violated: the reader's arena is handed to the writer and cleared |
| `mbpg_reconnect` | from the sensor to the server's table: a broken Modbus connection, failing inserts, a lost connection to the server, an unanswered COMMIT, epoll time limits, the 1e6 limit and a shutdown | a push always finds room; as long as nothing went through a stale `CurBuf` the server's rows are unique, in order and packets that were received; they are the rows `PgRun` was told of, but for those of one unanswered COMMIT; what is lost was in a failed insert or went through a stale `CurBuf`; the Modbus thread is served while `PgRun` is there, and ends on shutdown unless it waits in the pipe after `PgRun` has gone |
| `mbpg_stale_curbuf` | is any packet lost without a failed insert? | violated: after a flush `MbRun` writes into an arena it has already published |
| `mbpg_shutdown_pg` | does a shutdown end the Postgres thread? | violated: it blocks in `SdPipeGetReadBuffer` |
| `stream_torn` | framing with short reads, time limits, two connections, one torn frame, shutdown | on untorn connections `MbRun` stays in step, after a reconnection too; spliced packets come from torn connections only; the server moves on to the new connection; both end on shutdown, but for a `MbRun` that waits in the pipe after `PgRun` has gone |
| `insert_rows` | three inserts, every step failing, connection lost anywhere | the result is true of the table; no transaction is left open |
| `tg_faults` | two groups of three threads, a failing setup and a failing thread creation | no context is freed under a thread; main's wait is complete; a shutdown, or the return of all threads, ends the process |
| `tg_use_after_free` | does a monitor touch a freed manager? | violated after a shutdown |
| `tg_barrier_hang` | does a group end whose thread failed its setup? | violated: the others wait at the barrier |
| `set_up` | two handlers, every allocation, descriptor, file, value and query failing | groups that run are complete; what the set-up took is given back; main returns with the records of completed groups only, or after a shutdown with all that the others hold; a failed preparation leaves no connection, schema or scratch memory; a prepared pipe holds whole rows |
| `support` | each supporting part by itself | memory in use stays intact; messages are whole; a termination signal requests the shutdown unless a lock it needs is held up; stop and stopped lose no wake-up; the time limits of locks, semaphores and conditions are exact; trees stay trees; ring, metric and compressor lose nothing but where they are known to |

### Bounds, and why they are enough

- 3 arenas of 2 packets: the token argument of `PipeProofs` shows that larger
  rings behave alike; 2 packets distinguish empty, partly filled and full, and
  5 packets (7 with reconnections) wrap the ring and end in a partial arena.
- One broken connection suffices to leave `CurBuf` behind; the arenas that
  follow are reached within 7 packets. Failing inserts, time limits and
  thresholds of 2 distinguish "first", "last allowed" and "too many";
  `InsertStop` = 5 is passed in the run. 7 packets make fewer than the 8 inserts of
  `MaxInserts`, so that bound never ends a behaviour. `Storable` {0, 1, 2} is the
  shipped case, where the conversion buffer has room for every arena, so `unstored`
  stays empty in the run; the theorems hold for every `Storable`, and `insert_rows`
  has a call whose rows do not fit.
- `ModbusStream`: headers and bodies of 2 units can be cut inside and between;
  the body has a checked and an unchecked unit. `Capacity` 7 is less than two
  frames, so a send meets a full socket and every way to cut a frame. Two
  connections give one to drop and one to be in step again; four packets allow
  two on each.
- `PgInsertData`: three calls give a call before and after one that fails; row
  numbers 0, 2 and 5 are an empty buffer, one that fits the scratch arena and one
  that does not.
- `ThreadGroup`: two groups are needed for "the others have not reported yet",
  three threads are those of the shipped group. Which threads can fail a setup
  (Postgres and test server) is `SetupFails`.
- `set_up`: two handlers are a first, a next and a last; `BufCounts` {0, 2} and
  `BufSizes` {0, 7} are a malformed value and a good one, 7 being no multiple of
  a row; two sensors, the second with the geometry that stays; columns of 2 and 3
  bytes and of no fixed length (-1), in any number, since only the size of the row
  is kept of them, modulo 16, which a row of length -1 wraps; an unwritten
  `RowSize` of 0 or 5.
- `support`: calls two deep on two scratch arenas of 3 bytes let a result arena be
  the scratch of a caller's caller and fill up. Two threads with a message each,
  three frames and one fault give a handler on a log call, a handler on a handler
  and a held lock. Two workers make the owner wait out of order. Instants and
  timeouts lie on both sides of the carries; calls begin in the first second
  (`LastStart` 0), which keeps nanoseconds within TLC's integers. A ring of 3 bytes
  and 6 inserted wraps twice; 4 samples and 8 added wrap the metric, at every
  interval; 6 packets make two streaks with a gap. 5 items at a nesting of 2 make
  lists within lists.

No symmetry reduction is used. `CHECK_DEADLOCK FALSE` is in three runs: in
`insert_rows` PgRun may stop calling; in `set_up` the process ends or crashes; in
`support` the parts come to their ends, and logging threads may really hang.
Elsewhere an `Ended` action stands for the states in which the program has really
ended or is known to hang.

### Fairness

Weak fairness of each thread's steps: the operating system schedules runnable
threads. It is never assumed that a packet arrives, that an insert succeeds, that
a connection breaks or that a signal comes; a receive or an epoll wait ends
because both have time limits. In `ThreadGroup` taking the mutex is strongly fair
for a monitor: main releases it for as long as its wait lasts. A thread's return
is not assumed, not even after a shutdown. In `LogSignals` a thread's steps are
strongly fair, since they need a lock that others take and give back; who holds it
up for ever is in the property. In `ThreadControl` weak fairness does: every wait
there ends by a broadcast that stays.

## 4. Proofs

All from the named ASSUMEs of the modules (positive sizes, natural bounds), for
every value of the constants.

- **PipeProofs.** `TypeCorrect`, `NeverMoreThanOneInFlight` (at least 2 arenas),
  `FullCountCorrect`, `WriterAvoidsReader` and `ExactlyOnceInOrder` (at least 3).
  None of these is inductive alone. The key is `Tokens`: before the first
  publication all `BufCount - 1` credits are there, from then on exactly one
  token circulates (credit, writer, event, reader), which ties the two indices
  and the count together, up to the one that is missing or left over between the two
  atomics of a step (`OpenCount`, `Held`); `Contents` adds where each packet is: read, left in
  the reader's arena, in flight, or in the open arena. `PipeImplementsQueue` is the
  safety part of the refinement of `ArenaQueue`: with the arenas read as batches
  (`Mapped`), each step of the two threads is a put, a publication, an acquisition,
  a take, or not seen from outside.
- **MbPgProofs.** `TypeCorrect` and `PushAlwaysFits`: the push of `MbRun` has room
  although `CurBuf` may be stale. The invariant adds that the arena about to be
  adopted is empty and where the writer can be inside the pipe. `TableStaysFaithful`
  and `OnlyStaleCurBufLoses`, for 3 arenas or more. The token argument is that of
  `PipeProofs`, over the program counters of `PgRun`. `Contents` counts back from
  the packet received last: the open arena, the one in flight and the one `PgRun`
  holds have consecutive packets, and what is older was inserted or failed. It holds
  while `stray` is empty, so the loss that `mbpg_stale_curbuf` shows has no second
  cause. `OnlyStrayPacketsLost` speaks of what follows a stale push as well: a
  packet that is neither inserted, nor failed, nor stray is in the arena `PgRun`
  holds, the one in flight or the open one (`Accounted`), and nothing newer comes
  before it there (`Order`). While `CurBuf` is stale, the arena the pipe would hand
  out is empty and `CurBuf` is the one before it (`Stale`, `CurBufFollows`); what is
  left over from an earlier round of an arena is older than every such packet.
- **MbPgProofs, to the server's table.** `EndToEndComposes`: a behaviour of `EndToEnd`
  is one of `ModbusWithPostgres` and one of `AtomicInsert` at once, so that the
  theorems above, and what `InsertIsAtomic` shows of the code, hold of it.
  `EndToEndTypes` and `DatabaseMatchesReports`, for any ring and any `Storable`: what
  `PgRun` is told is true of the server's table, since the open call is the one `PgRun`
  waits for and has the rows of its arena (`Inserts`), and nothing is stored after a
  COMMIT that stays unanswered. `DatabaseStaysFaithful` and `OnlyKnownPacketsLost`,
  for 3 arenas or more, add that every row `PgRun` was told of is there or had no room
  (`Kept`), and that what is still on its way is newer than what is there (`Older`).
- **PgInsertProofs.** `TypeCorrect`, `AnswersAreTrue`, `SessionLeftIdle`, for any
  number of calls and rows. `SessionFollows` says what session, transaction and rows
  are at each place of the function; `OpenCallsEmpty` that calls that have not
  returned have no rows, so that a lost COMMIT is the last thing that happens.
  `InsertIsAtomic`: the function implements `AtomicInsert`, so PgRun sees one step
  that stores all rows or none. The abstract insert has no run of its own; what it
  says of answers and table, `insert_rows` checks as `AnswerMatchesTable`.
- **ThreadGroupProofs.** `TypeCorrect`, `CleanupIsSafe`, `WaitForAllWaits`,
  `ManagerFreedLast`, for any number of groups, threads and faults. The
  invariant follows each monitor (`Joined`, `Freed`), the mutex (`Locked`) and the
  count, a cardinality (`Counted`).
- **SetUpProofs.** `SetUpComplete` and `SetUpBalanced`, for any number of handlers,
  any configuration and any failures. `Building` says what there is of the groups
  made so far, in each phase of the next one; `Complete` that a manager exists only
  when nothing has failed, so that main, which goes by the manager, never starts a
  part of the groups. A group is whole or given back at any time, so it is when a
  shutdown ends main. `TypeCorrect`, and of `PgPrepareCtx` in the same module
  `PreparationReleases` and `PreparedGeometryFits`, for any tables and columns: what
  each step of the preparation holds, and that whole rows fill a buffer of the pipe
  up to less than one row.
- **StreamProofs.** `TypeCorrect`, `ReadsStayInStep`, `SplicedOnlyAfterTorn`, for
  any frame and socket sizes. `InStep` speaks of the first unit on its way only.
  Behind every unit comes the rest of its frame, and behind a frame the next
  (`WholeFrames`), on every connection without a torn frame; `InFrames` says where
  in it `MbRun` is.
- **JsonProofs.** `TreesIntact` and `JsonTypesRespected`, for any number of items and
  any limits. What `TreeIntact` says of sets of items that are reachable is not what a
  step can be followed by: a change of one pointer changes them all. The invariant is
  one picture of memory, `Forest`: every item has one pointer to it at most (`OneWay`),
  the tops, which the client or a call of the parser holds, have none (`NoWay`), what is
  closed and has the tops has every item (`Covered`), and `prev` leads back
  (`WaysBack`). `Calls` says what the parser's calls have in hand. Each operation moves
  a tree from the tops into a list or back. Reachability is the least closed set, so
  each fact about it is shown with one closed set instead of an induction.
- **SupportProofs**, part by part, each for any values of its constants.
  `MemoryInvariant` and `MemoryStaysIntact`: `BlocksIntact` is not inductive; a
  release is safe because what outlives the function lies below the position it
  goes back to (`BlocksBelow`), and that holds because no function has taken the
  arena its results go to (`FramesApart`), which is what the conflicts of
  `SdbScratchGet` are for. `StopsAreSeen` and `WakeUpsReach`: nobody sleeps in
  thread control on what has already happened. `TimeLimitsKept`: a sum and a
  difference of times is exact, and with them the limits of the waits of `Thread.c`;
  nothing is said of the wait for a response. `ZerosAccountedFor`: every zero packet is in a
  stored streak, the current one, or one known to be lost. `RingsKeepOrder`: the n-th
  byte or sample lies at place (n - 1) modulo the size until it is read or its
  ring is full. `LockInvariant` and `MessagesAreWhole`, for any number of threads,
  handlers on top of each other and faults: a frame past the lock holds it under
  its own name (`LockHeld`), so no other frame, of another thread or of a handler
  above it, is in a call to the same module.
- **SupportProofs, the sum.** `SupportTypes` and `PartsSafe`: the parts share no
  variable, a step of one is a stutter of the others (`PartSteps`), so each part's
  behaviour is a behaviour of its own specification (`PartRuns`) and its theorems hold
  of the sum, which is what the run `support` checks.

Every invariant that a run checks is stated by a theorem. One hypothesis occurs beyond
the ASSUMEs: what is said of the order and the loss of packets needs 3 arenas or more,
as in the runs; with the shipped 2 the reader's arena is cleared under it
(`pipe_two_buffers`). What does not need it (types, room for a packet, reports that are
true of the table) is stated without.

Only model-checked: all liveness (`EverythingArrives`, `WriterServed`, `MbStops`,
`NewConnectionServed`, `ShutdownStopsBoth`, `ShutdownEndsProcess`,
`CompletionEndsProcess`, `SignalRequestsShutdown`, `StopsComplete`) and the fairness
of `ImplementsQueue`, since fairness is out of the prover's reach; and the five
violations. Recursion is nowhere in the modules that are proved about: where the code
walks a structure, the model has the least set closed under the walk, and where a proof
needs an induction over numbers it takes a least counterexample.

## 5. Deviations of the code

With a run, see `findings`: the two-arena pipe, the stale `CurBuf`, the Postgres
thread that does not stop, the freed manager, the barrier. In the models, but
not the subject of a run:

The pipe and its threads:

- One write credit circulates after the first read of `WriteEventFd`, so the
  writer blocks with arenas free (`OneInFlight`; SensorDataPipe.c:120).
- Past 1e6 items a failed insert is not noticed, and the break for too many failures
  leaves the inner loop only (DataHandlers/ModbusWithPostgres/Postgres.c:163, 173).
  Failures that are not consecutive add up (168).
- A shutdown leaves packets in the pipe, and if the Postgres thread ends first
  the flush of `MbRun` blocks, or its wait for another arena when `PgRun` has left on
  an error (`MbStops` and `ShutdownStopsBoth` except just this).
- `epoll_wait` counts milliseconds and is given `SDB_TIME_MS(100)`, which counts
  nanoseconds: its 100 ms are more than a day.
- A partial send counts as a whole one, and the packet that follows is put together
  from two frames (`OnlyTornSpliced`; DevUtils/ModbusTestServer.c:190); the second
  send to a connection that MbRun has closed raises SIGPIPE, which ends the
  process (`killed`).
- An insert for which the scratch arena is too small commits nothing and returns 0
  (DatabaseSystems/Postgres.c:472); `AnswerMatchesTable` states it.
- main returns after a shutdown without waiting for threads (ThreadGroup.c:205),
  with the contexts, pipes and descriptors of their groups still held
  (`LedgerBalanced` says which), and a failed thread creation makes it join
  threads that stand at the barrier (ThreadGroup.c:149; `ShutdownEndsProcess`
  excepts `main = "abandon"`).

Set-up (`SetUp`, `PgPrepareCtx`):

- A handler without `testing` loses its context and pipe
  (ModbusWithPostgres.c:229); a failing handler loses those of the handlers before
  it (Main.c:122), to the end of the process that follows at once; when one
  eventfd cannot be made the other stays open.
- A malformed `buf_size` makes a pipe of no capacity, a missing `buf_count` is
  converted from NaN; in a release build missing sizes go on as what the
  allocation held.
- `RowSize` is added to without having been written
  (DatabaseSystems/Postgres.c:193), -1, which stands for a varying length, is added
  as a number, and rows of no size divide by zero (332). With no sensors
  `TablesInfo[0]` is read unwritten.
- An error before `PgCtx` is assigned finishes a connection read through it (347);
  when epoll fails the connection stays open.
- The context of the signal handler names the last handler's pipe only, and goes
  on naming it after its clean-up.

Logging and signals (`LogSignals`):

- Error returns of `Sdb__WriteLog__` keep the module's lock; the next call of the
  module waits for ever.
- The handler logs, and so can wait for a lock that the call it has interrupted
  holds: the module's, or the one in the C library's `localtime`.
- `raise` of the signal being handled is blocked until the handler returns and then
  runs it again, so a crash never ends the process.

Memory, threads, time:

- A string made of an empty one has no terminator (`StringMake`; Sdb.h:1151), though
  Sdb.h:399 says every string has. With two or more conflicts
  `Sdb__ScratchGet__` can return one of them; no caller has more than one.
- `WaitingForMarkStopped` is not initialised (Thread.c); the outcome is a
  broadcast too many.
- `SdbTimeval` masks with 1e6 where the others take a remainder (Time.c:94), so 500 ms
  become 458.752 ms, and some time limits have a full second of microseconds,
  which `select` refuses, or none at all.

`poc/` (`CircularBuffer`, `ZeroCompression`):

- `Count` is changed under two different locks, wake-ups are sent without the
  waiter's lock, and an insert waits only when the buffer is full, so it can run
  over unread bytes. The model stops there (`raced`, `overran`).
- When the metric's ring has filled up, `sampleCount` stays at a number that is no
  multiple of the interval, so nothing is written any more; the rest is never
  flushed.
- Of a call's packets the compressor looks at the first; an empty streak is stored
  as a row; a streak whose row could not be inserted is lost. The query of
  `StoreMetaData` still has a `%s` in it, and always fails.

## 6. Not modelled

- Of cJSON: printing, comparing, minifying, references, the spelling of numbers
  and strings. They change no tree, or nothing here calls them.
- Of `poc/`: the MQTT client, a thin layer over a library; the experiments with
  bitmaps and blocks, which compute sizes; the web front end.
- The contents of a dump: it reads the arenas without synchronisation, so there
  is no promise to check. `MbReceiveTcpFrame`, `GetMemAndScratchSize` and
  `SdbTimeExpired`, which nothing calls. Read-write locks, memory tracing, parsing
  of sizes, string comparison and printing.
- `tests/`, of an earlier state of the program; the test data generator, which is
  pure output; the disabled dump analyser.
- In `JsonTree` a client uses the library as it is meant to be used: an item it adds
  is a root it holds. Numbers of rows for which the conversion buffer of
  `PgInsertData` is too small are excluded by an assumption of that module.

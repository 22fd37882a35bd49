-------------------------------- MODULE SetUp --------------------------------
(***************************************************************************)
(* From the start of main to the running process and back: SetUpFromConf   *)
(* and main (Main.c), DhsCreateTg (DataHandlers.c), MbPgCreateTg and       *)
(* MbPgCleanup (ModbusWithPostgres.c), SdpCreate and SdpDestroy            *)
(* (SensorDataPipe.c), TgCreateGroup and TgCreateManager (ThreadGroup.c),  *)
(* SdbSetupSignalHandlers (Signals.c).                                     *)
(*                                                                         *)
(* Every handler of the configuration gets a context, a pipe, a barrier    *)
(* and a group, and any of these may fail.  held is the ledger of what is  *)
(* allocated or open, under the handler (counted from 1) it belongs to.    *)
(* The thread groups themselves are module ThreadGroup; here a group is    *)
(* done when its Postgres thread is through its preparation (module        *)
(* PgPrepareCtx, for one of the groups), and its monitor cleans up.        *)
(***************************************************************************)
EXTENDS PgPrepareCtx, FiniteSets, SequencesExt

CONSTANTS
    MaxHandlers,  \* bound: handlers of sdb_conf.json
    BufCounts,    \* the values of "buf_count"
    BufSizes      \* the values of "buf_size", as numbers; a malformed one is 0

ASSUME SetUpAssumption ==
    /\ MaxHandlers \in Nat
    /\ BufCounts \subseteq Nat /\ BufSizes \subseteq Nat

VARIABLES
    build,        \* "debug" asserts, "release" does not
    main,         \* where main is
    ret,          \* Ret of SetUpFromConf: "0", "json" or "err"
    handlerCount, \* HandlerCount
    confs,        \* the handlers' configurations, as far as they were read
    held,         \* the ledger
    barrier,      \* barrier[h]: the count the barrier was initialised with
    credits,      \* credits[h]: the value written to the pipe's WriteEventFd
    tgs,          \* Tgs: the groups made so far
    managed,      \* (*Manager)->Groups; the manager itself is in held
    signalPipe,   \* GSignalContext.Pipe: the handler whose pipe it names, or 0
    prepared      \* the group whose Postgres thread prepares, or 0

mainVars == <<main, ret, handlerCount, tgs, managed, prepared>>
ledger == <<held, barrier, credits, signalPipe>>
vars == <<build, confs, mainVars, ledger, pgVars>>

Handler == 1 .. MaxHandlers
HandlerConf ==
    [enabled: BOOLEAN, name: {"modbus_with_postgres", "other", "none"}, sizes: BOOLEAN,
     counted: BOOLEAN, bufCount: BufCounts, bufSize: BufSizes, testing: BOOLEAN]

Res(what, h) == [what |-> what, of |-> h]
GroupRes(h) == {Res(w, h) : w \in {"ctx", "pipe", "readfd", "writefd", "group"}}
SetUpRes == {Res(w, 0) : w \in {"file", "tree", "tgs"}}
Manager == Res("manager", 0)
Resource == SetUpRes \cup {Manager} \cup UNION {GroupRes(h) : h \in Handler}

\* "done": main has returned with every group completed; "stopped": it has
\* returned because of a shutdown.
MainPc == {"load", "parse", "count", "handler", "context", "pipe", "group", "manager", "cleanup",
           "signals", "start", "running", "exit", "done", "stopped", "crashed"}

TypeOK ==
    /\ PgTypeOK
    /\ build \in {"debug", "release"}
    /\ main \in MainPc
    /\ ret \in {"0", "json", "err"}
    /\ handlerCount \in 0 .. MaxHandlers
    /\ confs \in Seq(HandlerConf) /\ Len(confs) <= handlerCount
    /\ held \subseteq Resource
    /\ barrier \in [Handler -> {0, 3}]
    /\ credits \in [Handler -> Nat]
    /\ tgs \in Seq(Handler) /\ Len(tgs) <= Len(confs)
    /\ managed \in Seq(Handler)
    /\ signalPipe \in 0 .. MaxHandlers
    /\ prepared \in 0 .. MaxHandlers

Init ==
    /\ PgInit
    /\ build \in {"debug", "release"}
    /\ main = "load"
    /\ ret = "0"
    /\ handlerCount = 0
    /\ confs = <<>>
    /\ held = {}
    /\ barrier = [h \in Handler |-> 0]
    /\ credits = [h \in Handler |-> 0]
    /\ tgs = <<>>
    /\ managed = <<>>
    /\ signalPipe = 0
    /\ prepared = 0

-----------------------------------------------------------------------------
Goto(label) == main' = label

\* The handler being created, and its configuration.
tg == Len(confs)
conf == confs[tg]

\* Ret = r; goto cleanup.
Fail(r) == ret' = r /\ Goto("cleanup")

\* SdbLoadFileIntoMemory on the heap; on failure nothing is left of it and
\* SetUpFromConf returns at once.
LoadConfFile ==
    /\ main = "load"
    /\ \/ held' = held \cup {Res("file", 0)} /\ Goto("parse")
       \/ UNCHANGED held /\ Goto("exit")
    /\ UNCHANGED <<build, confs, ret, handlerCount, tgs, managed, prepared, barrier, credits,
                   signalPipe, pgVars>>

\* The tree, and in it the array of the handlers.
ParseConf ==
    /\ main = "parse"
    /\ \/ UNCHANGED <<held, handlerCount>> /\ Fail("json")
       \/ /\ held' = held \cup {Res("tree", 0)}
          /\ \/ UNCHANGED handlerCount /\ Fail("json")
             \/ /\ handlerCount' \in 0 .. MaxHandlers
                /\ UNCHANGED ret
                /\ Goto("count")
    /\ UNCHANGED <<build, confs, tgs, managed, prepared, barrier, credits, signalPipe, pgVars>>

AllocTgs ==
    /\ main = "count"
    /\ \/ /\ handlerCount > 0
          /\ held' = held \cup {Res("tgs", 0)}
          /\ UNCHANGED ret /\ Goto("handler")
       \/ UNCHANGED held /\ Fail("err")      \* no handlers, or no memory
    /\ UNCHANGED <<build, confs, handlerCount, tgs, managed, prepared, barrier, credits,
                   signalPipe, pgVars>>

\* DhsCreateTg: a handler that is not enabled, or not known, is a NULL group,
\* which SetUpFromConf takes for a failure; one without a name is compared
\* through a NULL.
TakeHandler ==
    /\ main = "handler" /\ Len(confs) < handlerCount
    /\ \E c \in HandlerConf :
         /\ confs' = Append(confs, c)
         /\ IF ~c.enabled \/ c.name = "other" THEN Fail("err")
            ELSE UNCHANGED ret /\ Goto(IF c.name = "none" THEN "crashed" ELSE "context")
    /\ UNCHANGED <<build, handlerCount, tgs, managed, prepared, ledger, pgVars>>

\* MbPgCreateTg: the context is allocated and filled with the sizes of the two
\* threads' memory.  Sizes that are not given stop a debug build; a release
\* build goes on with what the allocation held.
MakeContext ==
    /\ main = "context"
    /\ \/ /\ held' = held \cup {Res("ctx", tg)}
          /\ UNCHANGED ret
          /\ Goto(IF ~conf.sizes /\ build = "debug" THEN "crashed" ELSE "pipe")
       \/ UNCHANGED held /\ Fail("err")
    /\ UNCHANGED <<build, confs, handlerCount, tgs, managed, prepared, barrier, credits,
                   signalPipe, pgVars>>

\* Faulty variant: the value that is written, refused or not.
InitialCreditsWritten(bufCount) == bufCount - 1

\* A credit for every buffer but one; of no buffers that is -1, which eventfd
\* refuses.
InitialCredits(bufCount) == IF bufCount = 0 THEN 0 ELSE bufCount - 1

\* SdpCreate: the memory, one arena per buffer, two event descriptors.
\* Without memory, and with the number that a missing "buf_count" converts
\* to, it writes where it must not.  When one descriptor cannot be made the
\* memory is freed, the other stays open. 
MakePipe ==
    /\ main = "pipe"
    /\ \/ Goto("crashed") /\ UNCHANGED <<ret, held, credits>>
       \/ /\ conf.counted
          /\ \E fds \in SUBSET {Res("readfd", tg), Res("writefd", tg)} :
               IF Cardinality(fds) = 2
               THEN /\ held' = held \cup fds \cup {Res("pipe", tg)}
                    /\ credits' = [credits EXCEPT ![tg] = InitialCredits(conf.bufCount)]
                    /\ UNCHANGED ret /\ Goto("group")
               ELSE /\ held' = (held \cup fds) \ {Res("ctx", tg)}
                    /\ UNCHANGED credits
                    /\ Fail("err")
    /\ UNCHANGED <<build, confs, handlerCount, tgs, managed, prepared, barrier, signalPipe, pgVars>>

\* Without "testing" there is no group, and context and pipe are not given
\* back.  With it the barrier is made for three threads and the group is
\* created; the signal handler's pipe is set in either event.
MakeGroup ==
    /\ main = "group"
    /\ IF ~conf.testing
       THEN Fail("err") /\ UNCHANGED <<held, barrier, tgs, signalPipe>>
       ELSE /\ barrier' = [barrier EXCEPT ![tg] = 3]
            /\ signalPipe' = tg
            /\ \/ /\ held' = held \cup {Res("group", tg)}
                  /\ tgs' = Append(tgs, tg)
                  /\ UNCHANGED ret /\ Goto("handler")
               \/ Fail("err") /\ UNCHANGED <<held, tgs>>
    /\ UNCHANGED <<build, confs, handlerCount, managed, prepared, credits, pgVars>>

HandlersDone ==
    /\ main = "handler" /\ Len(confs) = handlerCount
    /\ Goto("manager")
    /\ UNCHANGED <<build, confs, ret, handlerCount, tgs, managed, prepared, ledger, pgVars>>

\* TgCreateManager takes over HandlerCount groups.
MakeManager ==
    /\ main = "manager"
    /\ \/ /\ held' = held \cup {Manager}
          /\ managed' = SubSeq(tgs, 1, handlerCount)
          /\ UNCHANGED ret /\ Goto("cleanup")
       \/ UNCHANGED <<held, managed>> /\ Fail("err")
    /\ UNCHANGED <<build, confs, handlerCount, tgs, prepared, barrier, credits, signalPipe, pgVars>>

\* Faulty variant: the tree is forgotten.
FreedWithoutTree == {Res("file", 0), Res("tgs", 0)} \cup (IF ret # "0" THEN {Manager} ELSE {})

FreedBySetUp == SetUpRes \cup (IF ret # "0" THEN {Manager} ELSE {})

\* cleanup: what only the set-up has needed is freed, and a manager that is
\* there in spite of an error.  main goes by the manager.
CleanUpConf ==
    /\ main = "cleanup"
    /\ held' = held \ FreedBySetUp
    /\ Goto(IF Manager \in held THEN "signals" ELSE "exit")
    /\ UNCHANGED <<build, confs, ret, handlerCount, tgs, managed, prepared, barrier, credits,
                   signalPipe, pgVars>>

\* Without its signal handlers the process ends.
SetUpSignals ==
    /\ main = "signals"
    /\ \/ Goto("start") /\ UNCHANGED held
       \/ Goto("exit") /\ held' = held \ {Manager}
    /\ UNCHANGED <<build, confs, ret, handlerCount, tgs, managed, prepared, barrier, credits,
                   signalPipe, pgVars>>

\* TgManagerStartAll; the Postgres thread of one group is watched from here.
StartAll ==
    /\ main = "start"
    /\ \/ /\ Goto("running")
          /\ \E i \in 1 .. Len(managed) :
               /\ prepared' = managed[i]
               /\ PgStart(confs[managed[i]].bufCount, confs[managed[i]].bufSize)
       \/ Goto("exit") /\ UNCHANGED <<prepared, pgVars>>
    /\ UNCHANGED <<build, confs, ret, handlerCount, tgs, managed, ledger>>

Prepare ==
    /\ main = "running"
    /\ PgNext
    /\ main' = IF pg' = "crashed" THEN "crashed" ELSE main
    /\ UNCHANGED <<build, confs, ret, handlerCount, tgs, managed, prepared, ledger>>

\* Faulty variant: the descriptors stay open.
CleanedUpMemoryOnly(g) == {Res(w, g) : w \in {"ctx", "pipe"}}

\* SdpDestroy closes and frees the pipe, then the context is freed.
CleanedUp(g) == {Res(w, g) : w \in {"readfd", "writefd", "pipe", "ctx"}}

\* MbPgCleanup, once for every group, when its threads have ended: the
\* pipe is destroyed, the barrier deinitialised, the context freed.
CleanUpGroup(g) ==
    /\ main = "running"
    /\ g \in Range(managed) /\ Res("ctx", g) \in held
    /\ g = prepared => pg \in {"ready", "failed", "gaveup"}
    /\ held' = held \ CleanedUp(g)
    /\ barrier' = [barrier EXCEPT ![g] = 0]
    /\ UNCHANGED <<build, confs, mainVars, credits, signalPipe, pgVars>>

\* TgManagerWaitForAll returns when every group has been cleaned up; the manager
\* is destroyed, main returns.
Finish ==
    /\ main = "running"
    /\ \A i \in 1 .. Len(managed) : Res("ctx", managed[i]) \notin held
    /\ held' = held \ {Manager}
    /\ Goto("done")
    /\ UNCHANGED <<build, confs, ret, handlerCount, tgs, managed, prepared, barrier, credits,
                   signalPipe, pgVars>>

\* TgManagerWaitForAll also returns when a shutdown has been requested, and
\* takes the groups for completed wherever they are.
FinishOnShutdown ==
    /\ main = "running"
    /\ held' = held \ {Manager}
    /\ Goto("stopped")
    /\ UNCHANGED <<build, confs, ret, handlerCount, tgs, managed, prepared, barrier, credits,
                   signalPipe, pgVars>>

Next ==
    \/ LoadConfFile \/ ParseConf \/ AllocTgs
    \/ TakeHandler \/ MakeContext \/ MakePipe \/ MakeGroup \/ HandlersDone
    \/ MakeManager \/ CleanUpConf \/ SetUpSignals \/ StartAll
    \/ Prepare \/ (\E g \in Handler : CleanUpGroup(g))
    \/ Finish \/ FinishOnShutdown

Spec == Init /\ [][Next]_vars

-----------------------------------------------------------------------------
\* A process that starts its threads has a manager over one complete group per
\* configured handler, in their order: context, open pipe, a barrier for three
\* threads and the credits of its buffers, whatever has failed on the way
\* (Main.c:98-115); a crash would dump the last one's pipe; and what a group
\* holds goes at once, when it is cleaned up.
ManagerComplete ==
    main \in {"signals", "start", "running"} =>
        /\ Manager \in held
        /\ managed = [i \in 1 .. handlerCount |-> i]
        /\ signalPipe = handlerCount
        /\ \A g \in 1 .. handlerCount :
             \/ /\ GroupRes(g) \subseteq held
                /\ barrier[g] = 3
                /\ credits[g] = IF confs[g].bufCount = 0 THEN 0 ELSE confs[g].bufCount - 1
             \/ /\ main = "running"
                /\ GroupRes(g) \cap held = {Res("group", g)}
                /\ barrier[g] = 0

\* What a group that has not been cleaned up holds, and what one that has been.
WholeOrCleanedUp(g) ==
    GroupRes(g) \subseteq held \/ GroupRes(g) \cap held = {Res("group", g)}

\* Past SetUpFromConf nothing of the set-up itself is held, and a process that
\* runs holds nothing beyond its manager and the manager's groups (Main.c:117-129).
\* When all groups have completed, main returns with their records only; when
\* it returns for a shutdown, with all that the groups not cleaned up so far
\* hold, and the record only of one that has been (Main.c:177-180,
\* ThreadGroup.c:191, 203-206).
LedgerBalanced ==
    /\ main \in {"signals", "start", "running", "done", "stopped", "exit"} =>
         SetUpRes \cap held = {}
    /\ main \in {"signals", "start", "running"} =>
         held \subseteq {Manager} \cup UNION {GroupRes(managed[i]) : i \in 1 .. Len(managed)}
    /\ main = "done" => held = {Res("group", managed[i]) : i \in 1 .. Len(managed)}
    /\ main = "stopped" =>
         /\ held \subseteq UNION {GroupRes(managed[i]) : i \in 1 .. Len(managed)}
         /\ \A i \in 1 .. Len(managed) : WholeOrCleanedUp(managed[i])
=============================================================================

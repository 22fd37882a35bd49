------------------------------ MODULE SetUpProofs ------------------------------
(***************************************************************************)
(* Theorems about SetUp, for any number of handlers and any values of      *)
(* their configurations.                                                   *)
(*                                                                         *)
(* What ManagerComplete says of the running process has to be built up     *)
(* handler by handler, and a failure anywhere must not get by with it: so  *)
(* the invariant says what is there in each phase of the set-up, and that  *)
(* the manager exists only if nothing has failed.  The theorems about      *)
(* PgPrepareCtx, at the end, need what it holds at each of its steps, and  *)
(* hold for any tables, columns and sizes.                                 *)
(***************************************************************************)
EXTENDS SetUp, FiniteSetTheorems, TLAPS

Upto(n) == UNION {GroupRes(g) : g \in 1 .. n}

\* The types the argument needs; module PgPrepareCtx's are not among them.
Types ==
    /\ main \in MainPc /\ ret \in {"0", "json", "err"}
    /\ handlerCount \in 0 .. MaxHandlers
    /\ confs \in Seq(HandlerConf) /\ Len(confs) <= handlerCount
    /\ tgs \in Seq(Handler)
    /\ barrier \in [Handler -> {0, 3}] /\ credits \in [Handler -> Nat]

Enough(g) == credits[g] = IF confs[g].bufCount = 0 THEN 0 ELSE confs[g].bufCount - 1
Ready(g) == GroupRes(g) \subseteq held /\ barrier[g] = 3 /\ Enough(g)
GivenBack(g) == GroupRes(g) \cap held = {Res("group", g)} /\ barrier[g] = 0

Early ==
    /\ held \subseteq SetUpRes /\ (main = "load" => held = {})
    /\ confs = <<>> /\ tgs = <<>> /\ signalPipe = 0 /\ ret = "0"

Building ==
    /\ ret = "0"
    /\ held \subseteq SetUpRes \cup Upto(Len(confs))
    /\ Len(tgs) = IF main \in {"handler", "manager"} THEN Len(confs) ELSE Len(confs) - 1
    /\ \A g \in 1 .. Len(tgs) : tgs[g] = g /\ Ready(g)
    /\ signalPipe = Len(tgs)
    /\ main \in {"pipe", "group"} => Res("ctx", tg) \in held
    /\ main = "group" => {Res(w, tg) : w \in {"pipe", "readfd", "writefd"}} \subseteq held /\ Enough(tg)
    /\ main = "manager" => Len(confs) = handlerCount

\* The manager of a set-up without failures.
Complete ==
    /\ Manager \in held
    /\ managed = [i \in 1 .. handlerCount |-> i]
    /\ signalPipe = handlerCount
    /\ Len(confs) = handlerCount
    /\ held \subseteq SetUpRes \cup {Manager} \cup Upto(handlerCount)

IInv ==
    /\ Types
    /\ main \in {"load", "parse", "count"} => Early
    /\ main \in {"handler", "context", "pipe", "group", "manager"} => Building
    /\ main = "cleanup" => IF ret = "0" THEN Complete /\ \A g \in 1 .. handlerCount : Ready(g)
                           ELSE Manager \notin held
    /\ main \in {"signals", "start"} => Complete /\ \A g \in 1 .. handlerCount : Ready(g)
    /\ main = "running" => Complete /\ \A g \in 1 .. handlerCount : Ready(g) \/ GivenBack(g)
    /\ main \in {"signals", "start", "running", "done", "stopped", "exit"} =>
         SetUpRes \cap held = {}
    /\ main = "done" =>
         held = {Res("group", managed[i]) : i \in 1 .. Len(managed)}
    /\ main = "stopped" =>
         /\ held \subseteq UNION {GroupRes(managed[i]) : i \in 1 .. Len(managed)}
         /\ \A i \in 1 .. Len(managed) : WholeOrCleanedUp(managed[i])

-----------------------------------------------------------------------------
\* Resources of different kinds, or of different handlers, are different.
LEMMA Resources ==
    ASSUME NEW h
    PROVE  /\ GroupRes(h) = {Res("ctx", h), Res("pipe", h), Res("readfd", h), Res("writefd", h),
                             Res("group", h)}
           /\ SetUpRes = {Res("file", 0), Res("tree", 0), Res("tgs", 0)}
           /\ Manager = Res("manager", 0)
           /\ GroupRes(h) \cap SetUpRes = {} /\ Manager \notin GroupRes(h) /\ Manager \notin SetUpRes
           /\ \A k : k # h => GroupRes(h) \cap GroupRes(k) = {}
<1>1. \A v, w, i, j : Res(v, i) = Res(w, j) <=> v = w /\ i = j
  BY DEF Res
<1>2. /\ \A k : GroupRes(k) = {Res("ctx", k), Res("pipe", k), Res("readfd", k), Res("writefd", k),
                               Res("group", k)}
      /\ SetUpRes = {Res("file", 0), Res("tree", 0), Res("tgs", 0)}
      /\ Manager = Res("manager", 0)
  BY DEF GroupRes, SetUpRes, Manager
<1> QED
  BY <1>1, <1>2

\* One more group brings what belongs to it.
LEMMA UptoNext ==
    ASSUME NEW n \in Nat
    PROVE  Upto(n + 1) = Upto(n) \cup GroupRes(n + 1)
  BY DEF Upto

\* What belongs to a handler is neither of the set-up nor the manager.
LEMMA UptoApart ==
    ASSUME NEW n \in Nat
    PROVE  Upto(n) \cap SetUpRes = {} /\ Manager \notin Upto(n)
  BY Resources DEF Upto

\* Before SetUpFromConf has begun nothing is held.
LEMMA InitHolds == Init => IInv
<1> SUFFICES ASSUME Init PROVE IInv
  OBVIOUS
<1>1. Types
  BY SetUpAssumption DEF Init, Types, MainPc
<1> QED
  BY <1>1 DEF Init, IInv, Early

\* A failure, before there is a manager.
LEMMA FailKeeps ==
    ASSUME Types', NEW r \in {"json", "err"}, Fail(r), Manager \notin held'
    PROVE  IInv'
  BY DEF Fail, Goto, IInv

-----------------------------------------------------------------------------
\* The beginning: the file, the tree, the array of groups.
LEMMA EarlyKeeps ==
    ASSUME IInv, LoadConfFile \/ ParseConf \/ AllocTgs
    PROVE  IInv'
<1>1. Types
  BY DEF IInv
<1>2. main \in {"load", "parse", "count"}
  BY DEF LoadConfFile, ParseConf, AllocTgs
<1>3. Early
  BY <1>2 DEF IInv
<1>4. Manager \notin SetUpRes
  BY Resources
<1>5. UNCHANGED <<confs, tgs, barrier, credits, signalPipe>>
  BY DEF LoadConfFile, ParseConf, AllocTgs
<1>6. held' \subseteq SetUpRes
  BY <1>3 DEF LoadConfFile, ParseConf, AllocTgs, SetUpRes, Early
<1>7. /\ handlerCount' \in 0 .. MaxHandlers /\ Len(confs') <= handlerCount'
      /\ main' \in MainPc /\ ret' \in {"0", "json", "err"}
  BY <1>1, <1>3, <1>5 DEF LoadConfFile, ParseConf, AllocTgs, Fail, Goto, MainPc, Types, Early
<1>8. Types'
  BY <1>1, <1>5, <1>7 DEF Types
<1>9. CASE main' = "cleanup"
  <2>1. ret' # "0"
    BY <1>9 DEF LoadConfFile, ParseConf, AllocTgs, Fail, Goto
  <2> QED
    BY <1>4, <1>6, <1>8, <1>9, <2>1 DEF IInv
<1>10. CASE main' \in {"parse", "count"}
  <2>1. ret' = ret
    BY <1>10 DEF LoadConfFile, ParseConf, AllocTgs, Fail, Goto
  <2> QED
    BY <1>3, <1>5, <1>6, <1>8, <1>10, <2>1 DEF IInv, Early
<1>11. CASE main' = "handler"
  <2>1. ret' = ret
    BY <1>11 DEF LoadConfFile, ParseConf, AllocTgs, Fail, Goto
  <2>2. Building'
    BY <1>3, <1>5, <1>6, <1>11, <2>1 DEF Building, Early
  <2> QED
    BY <1>8, <1>11, <2>2 DEF IInv
<1>12. CASE main' = "exit"
  <2>1. held' = {}
    BY <1>3, <1>12 DEF LoadConfFile, ParseConf, AllocTgs, Fail, Goto, Early
  <2> QED
    BY <1>8, <1>12, <2>1 DEF IInv
<1>13. main' \in {"cleanup", "parse", "count", "handler", "exit"}
  BY DEF LoadConfFile, ParseConf, AllocTgs, Fail, Goto
<1> QED
  BY <1>9, <1>10, <1>11, <1>12, <1>13

-----------------------------------------------------------------------------
\* The handlers, one after the other.
LEMMA TakeHandlerKeeps ==
    ASSUME IInv, TakeHandler
    PROVE  IInv'
<1>1. Types /\ Building /\ main = "handler" /\ Len(confs) < handlerCount
  BY DEF IInv, TakeHandler
<1>2. PICK c \in HandlerConf :
        /\ confs' = Append(confs, c)
        /\ IF ~c.enabled \/ c.name = "other" THEN Fail("err")
           ELSE UNCHANGED ret /\ Goto(IF c.name = "none" THEN "crashed" ELSE "context")
  BY DEF TakeHandler
<1>3. UNCHANGED <<handlerCount, tgs, managed, held, barrier, credits, signalPipe>>
  BY DEF TakeHandler, ledger
<1>4. /\ confs' \in Seq(HandlerConf) /\ Len(confs') = Len(confs) + 1
      /\ \A g \in 1 .. Len(confs) : confs'[g] = confs[g]
      /\ Len(confs) \in Nat /\ handlerCount \in Nat
  BY <1>1, <1>2 DEF Types
<1>5. Types'
  <2>1. ret' \in {"0", "json", "err"} /\ main' \in MainPc
    BY <1>1, <1>2 DEF Types, Fail, Goto, MainPc
  <2>2. Len(confs') <= handlerCount'
    BY <1>1, <1>3, <1>4
  <2> QED
    BY <1>1, <1>3, <1>4, <2>1, <2>2 DEF Types
<1>6. Manager \notin held
  BY <1>1, <1>4, UptoApart, Resources DEF Building
<1>7. CASE Fail("err")
  BY <1>3, <1>5, <1>6, <1>7, FailKeeps
<1>8. CASE UNCHANGED ret /\ Goto("crashed")
  BY <1>5, <1>8 DEF IInv, Goto
<1>9. CASE UNCHANGED ret /\ Goto("context")
  <2>1. held' \subseteq SetUpRes \cup Upto(Len(confs'))
    BY <1>1, <1>3, <1>4, UptoNext DEF Building
  <2>2. ASSUME NEW g \in 1 .. Len(tgs') PROVE tgs'[g] = g /\ Ready(g)'
    <3>1. g \in 1 .. Len(confs) /\ g \in 1 .. Len(tgs)
      BY <1>1, <1>3 DEF Building
    <3> QED
      BY <1>1, <1>3, <1>4, <3>1 DEF Building, Ready, Enough
  <2>3. Building'
    BY <1>1, <1>3, <1>4, <1>9, <2>1, <2>2 DEF Building, Goto
  <2> QED
    BY <1>5, <1>9, <2>3 DEF IInv, Goto
<1> QED
  BY <1>2, <1>7, <1>8, <1>9

\* The context of the next handler, or the failure to allocate it.
LEMMA MakeContextKeeps ==
    ASSUME IInv, MakeContext
    PROVE  IInv'
<1>1. Types /\ Building /\ main = "context" /\ Len(confs) \in Nat
  BY DEF IInv, MakeContext, Types
<1>2. UNCHANGED <<confs, handlerCount, tgs, managed, barrier, credits, signalPipe>>
  BY DEF MakeContext
<1>3. Types'
  BY <1>1, <1>2 DEF MakeContext, Fail, Goto, Types, MainPc
<1>4. Manager \notin held
  BY <1>1, UptoApart, Resources DEF Building
<1>5. CASE UNCHANGED held /\ Fail("err")
  BY <1>3, <1>4, <1>5, FailKeeps
<1>6. CASE main' = "crashed"
  BY <1>3, <1>6 DEF IInv
<1>7. CASE held' = held \cup {Res("ctx", tg)} /\ UNCHANGED ret /\ main' = "pipe"
  <2>1. Len(confs) > 0
    BY <1>1 DEF Building, Types
  <2>2. Res("ctx", tg) \in Upto(Len(confs))
    BY <1>1, <2>1, Resources DEF Upto, tg
  <2>3. \A g \in 1 .. Len(tgs') : tgs'[g] = g /\ Ready(g)'
    BY <1>1, <1>2, <1>7 DEF Building, Ready, Enough
  <2>4. Building'
    BY <1>1, <1>2, <1>7, <2>2, <2>3 DEF Building, tg
  <2> QED
    BY <1>3, <1>7, <2>4 DEF IInv
<1> QED
  BY <1>5, <1>6, <1>7 DEF MakeContext, Goto

\* Its pipe, or what SdpCreate leaves behind when it fails.
LEMMA MakePipeKeeps ==
    ASSUME IInv, MakePipe
    PROVE  IInv'
<1>1. Types /\ Building /\ main = "pipe" /\ Len(confs) \in Nat /\ tg = Len(confs)
  BY DEF IInv, MakePipe, Types, tg
<1>2. UNCHANGED <<confs, handlerCount, tgs, managed, barrier, signalPipe>>
  BY DEF MakePipe
<1>3. Len(tgs) \in Nat /\ Len(confs) = Len(tgs) + 1 /\ Len(confs) <= MaxHandlers /\ tg \in Handler
  BY <1>1, SetUpAssumption DEF Building, Types, Handler
<1>4. confs[tg] \in HandlerConf /\ conf = confs[tg] /\ conf.bufCount \in Nat
  <2>1. confs[tg] \in HandlerConf
    BY <1>1, <1>3 DEF Types
  <2> QED
    BY <2>1, SetUpAssumption DEF HandlerConf, conf
<1>5. Manager \notin held
  BY <1>1, UptoApart, Resources DEF Building
<1>6. InitialCredits(conf.bufCount) \in Nat
      /\ InitialCredits(conf.bufCount) = IF conf.bufCount = 0 THEN 0 ELSE conf.bufCount - 1
  BY <1>4 DEF InitialCredits
<1>7. CASE Goto("crashed") /\ UNCHANGED <<ret, held, credits>>
  BY <1>1, <1>2, <1>7 DEF IInv, Goto, Types, MainPc
<1>8. ASSUME NEW fds \in SUBSET {Res("readfd", tg), Res("writefd", tg)},
             Cardinality(fds) # 2,
             held' = (held \cup fds) \ {Res("ctx", tg)}, UNCHANGED credits, Fail("err")
      PROVE  IInv'
  <2>1. Types'
    BY <1>1, <1>2, <1>8 DEF Types, Fail, Goto, MainPc
  <2>2. Manager \notin held'
    BY <1>5, <1>8, Resources
  <2> QED
    BY <1>8, <2>1, <2>2, FailKeeps
<1>9. ASSUME NEW fds \in SUBSET {Res("readfd", tg), Res("writefd", tg)},
             Cardinality(fds) = 2,
             held' = held \cup fds \cup {Res("pipe", tg)},
             credits' = [credits EXCEPT ![tg] = InitialCredits(conf.bufCount)],
             UNCHANGED ret, Goto("group")
      PROVE  IInv'
  <2>1. Types'
    BY <1>1, <1>2, <1>3, <1>6, <1>9 DEF Types, Goto, MainPc
  <2>2. fds = {Res("readfd", tg), Res("writefd", tg)}
    <3>1. fds = {} \/ fds = {Res("readfd", tg)} \/ fds = {Res("writefd", tg)}
          \/ fds = {Res("readfd", tg), Res("writefd", tg)}
      OBVIOUS
    <3>2. /\ Cardinality({}) = 0 /\ Cardinality({Res("readfd", tg)}) = 1
          /\ Cardinality({Res("writefd", tg)}) = 1
      BY FS_EmptySet, FS_Singleton
    <3> QED
      BY <1>9, <3>1, <3>2
  <2>3. /\ held' = held \cup {Res("readfd", tg), Res("writefd", tg), Res("pipe", tg)}
        /\ {Res("readfd", tg), Res("writefd", tg), Res("pipe", tg)} \subseteq Upto(Len(confs))
    <3>1. tg \in 1 .. Len(confs)
      BY <1>1, <1>3
    <3>2. GroupRes(tg) \subseteq Upto(Len(confs))
      BY <3>1 DEF Upto
    <3> QED
      BY <1>9, <2>2, <3>2, Resources
  <2>4. ASSUME NEW g \in 1 .. Len(tgs') PROVE tgs'[g] = g /\ Ready(g)'
    <3>1. g \in 1 .. Len(tgs) /\ g # tg /\ g \in Handler
      <4>1. g \in 1 .. Len(tgs) /\ tg = Len(tgs) + 1
        BY <1>1, <1>2, <1>3
      <4>2. MaxHandlers \in Nat
        BY SetUpAssumption
      <4> QED
        BY <1>1, <1>3, <4>1, <4>2 DEF Handler
    <3>2. credits'[g] = credits[g]
      BY <1>1, <1>9, <3>1 DEF Types
    <3> QED
      BY <1>1, <1>2, <1>9, <3>1, <3>2 DEF Building, Ready, Enough
  <2>5. Enough(tg)'
    <3>1. credits'[tg] = InitialCredits(conf.bufCount)
      BY <1>1, <1>3, <1>9 DEF Types
    <3>2. confs' = confs /\ tg' = tg
      BY <1>2 DEF tg
    <3> QED
      BY <1>4, <1>6, <3>1, <3>2 DEF Enough
  <2>6. Building'
    BY <1>1, <1>2, <1>9, <2>3, <2>4, <2>5 DEF Building, Goto, tg
  <2> QED
    BY <1>9, <2>1, <2>6 DEF IInv, Goto
<1> QED
  BY <1>7, <1>8, <1>9 DEF MakePipe

\* Its barrier and group; the group is complete, or main cleans up.
LEMMA MakeGroupKeeps ==
    ASSUME IInv, MakeGroup
    PROVE  IInv'
<1>1. Types /\ Building /\ main = "group" /\ Len(confs) \in Nat /\ tg = Len(confs)
  BY DEF IInv, MakeGroup, Types, tg
<1>2. UNCHANGED <<confs, handlerCount, managed, credits>>
  BY DEF MakeGroup
<1>3. Len(tgs) \in Nat /\ Len(confs) = Len(tgs) + 1 /\ Len(confs) <= MaxHandlers /\ tg \in Handler
  BY <1>1, SetUpAssumption DEF Building, Types, Handler
<1>4. Manager \notin held
  BY <1>1, UptoApart, Resources DEF Building
<1>5. CASE Fail("err") /\ UNCHANGED <<held, barrier, tgs, signalPipe>>
  <2>1. Types'
    BY <1>1, <1>2, <1>5 DEF Types, Fail, Goto, MainPc
  <2> QED
    BY <1>4, <1>5, <2>1, FailKeeps
<1>6. CASE barrier' = [barrier EXCEPT ![tg] = 3] /\ Fail("err") /\ UNCHANGED <<held, tgs>>
  <2>1. Types'
    BY <1>1, <1>2, <1>6 DEF Types, Fail, Goto, MainPc
  <2> QED
    BY <1>4, <1>6, <2>1, FailKeeps
<1>7. CASE /\ barrier' = [barrier EXCEPT ![tg] = 3] /\ signalPipe' = tg
           /\ held' = held \cup {Res("group", tg)} /\ tgs' = Append(tgs, tg)
           /\ UNCHANGED ret /\ Goto("handler")
  <2>1. /\ tgs' \in Seq(Handler) /\ Len(tgs') = Len(confs) /\ tgs'[tg] = tg
        /\ \A g \in 1 .. Len(tgs) : tgs'[g] = tgs[g]
    BY <1>1, <1>3, <1>7 DEF Types
  <2>2. Types'
    BY <1>1, <1>2, <1>7, <2>1 DEF Types, Goto, MainPc
  <2>3. GroupRes(tg) \subseteq Upto(Len(confs))
    BY <1>1, <1>3 DEF Upto
  <2>4. held' \subseteq SetUpRes \cup Upto(Len(confs'))
    BY <1>1, <1>2, <1>7, <2>3, Resources DEF Building
  <2>5. Ready(tg)'
    <3>1. GroupRes(tg) \subseteq held'
      BY <1>1, <1>7, Resources DEF Building
    <3>2. barrier'[tg] = 3
      BY <1>1, <1>3, <1>7 DEF Types
    <3>3. Enough(Len(confs))'
      BY <1>1, <1>2 DEF Building, Enough
    <3> QED
      BY <1>1, <1>2, <3>1, <3>2, <3>3 DEF Ready, Enough, tg
  <2>6. ASSUME NEW g \in 1 .. Len(tgs') PROVE tgs'[g] = g /\ Ready(g)'
    <3>1. CASE g = tg
      BY <1>1, <1>2, <2>1, <2>5, <3>1 DEF Ready, Enough, tg
    <3>2. CASE g # tg
      <4>1. g \in 1 .. Len(tgs)
        BY <1>1, <1>3, <2>1, <3>2
      <4>2. MaxHandlers \in Nat
        BY SetUpAssumption
      <4>3. g \in Handler
        BY <1>1, <1>3, <4>1, <4>2 DEF Handler
      <4>4. barrier'[g] = barrier[g]
        BY <1>1, <1>7, <3>2, <4>3 DEF Types
      <4> QED
        BY <1>1, <1>2, <1>7, <2>1, <4>1, <4>4 DEF Building, Ready, Enough
    <3> QED
      BY <3>1, <3>2
  <2>7. Building'
    BY <1>1, <1>2, <1>7, <2>1, <2>4, <2>6 DEF Building, Goto
  <2> QED
    BY <1>7, <2>2, <2>7 DEF IInv, Goto
<1> QED
  BY <1>5, <1>6, <1>7 DEF MakeGroup

\* All handlers have their groups.
LEMMA HandlersDoneKeeps ==
    ASSUME IInv, HandlersDone
    PROVE  IInv'
<1>1. Types /\ Building /\ main = "handler" /\ Len(confs) = handlerCount
  BY DEF IInv, HandlersDone
<1>2. /\ UNCHANGED <<confs, ret, handlerCount, tgs, managed, held, barrier, credits, signalPipe>>
      /\ main' = "manager"
  BY DEF HandlersDone, ledger, Goto
<1>3. Types'
  BY <1>1, <1>2 DEF Types, MainPc
<1>4. \A g \in 1 .. Len(tgs') : tgs'[g] = g /\ Ready(g)'
  BY <1>1, <1>2 DEF Building, Ready, Enough
<1>5. Building'
  BY <1>1, <1>2, <1>4 DEF Building
<1> QED
  BY <1>2, <1>3, <1>5 DEF IInv

-----------------------------------------------------------------------------
\* The manager, and the process that goes by it.
LEMMA MakeManagerKeeps ==
    ASSUME IInv, MakeManager
    PROVE  IInv'
<1>1. Types /\ Building /\ main = "manager"
  BY DEF IInv, MakeManager
<1>2. UNCHANGED <<confs, handlerCount, tgs, barrier, credits, signalPipe>>
  BY DEF MakeManager
<1>3. /\ Len(tgs) = handlerCount /\ Len(confs) = handlerCount /\ handlerCount \in Nat
      /\ tgs \in Seq(Handler)
  BY <1>1, SetUpAssumption DEF Building, Types
<1>4. Types'
  BY <1>1, <1>2 DEF MakeManager, Types, Fail, Goto, MainPc
<1>5. Manager \notin held
  BY <1>1, <1>3, UptoApart, Resources DEF Building
<1>6. CASE UNCHANGED <<held, managed>> /\ Fail("err")
  BY <1>4, <1>5, <1>6, FailKeeps
<1>7. CASE /\ held' = held \cup {Manager} /\ managed' = SubSeq(tgs, 1, handlerCount)
           /\ UNCHANGED ret /\ Goto("cleanup")
  <2>1. managed' = [i \in 1 .. handlerCount |-> tgs[i]]
    BY <1>3, <1>7
  <2>2. managed' = [i \in 1 .. handlerCount |-> i]
    BY <1>1, <1>3, <2>1 DEF Building
  <2>3. \A g \in 1 .. handlerCount' : Ready(g)'
    BY <1>1, <1>2, <1>3, <1>7 DEF Building, Ready, Enough
  <2>4. Complete'
    BY <1>1, <1>2, <1>3, <1>7, <2>2 DEF Building, Complete
  <2> QED
    BY <1>1, <1>4, <1>7, <2>3, <2>4 DEF IInv, Building, Goto
<1> QED
  BY <1>6, <1>7 DEF MakeManager

\* The clean-up of SetUpFromConf, after success and failure alike.
LEMMA CleanUpConfKeeps ==
    ASSUME IInv, CleanUpConf
    PROVE  IInv'
<1>1. Types /\ main = "cleanup" /\ handlerCount \in Nat
  BY SetUpAssumption DEF IInv, CleanUpConf, Types
<1>2. /\ UNCHANGED <<confs, ret, handlerCount, tgs, managed, barrier, credits, signalPipe>>
      /\ held' = held \ FreedBySetUp
  BY DEF CleanUpConf
<1>3. Types'
  BY <1>1, <1>2 DEF CleanUpConf, Types, Goto, MainPc
<1>4. SetUpRes \cap held' = {}
  BY <1>2 DEF FreedBySetUp
<1>5. CASE ret = "0"
  <2>1. Complete /\ \A g \in 1 .. handlerCount : Ready(g)
    BY <1>1, <1>5 DEF IInv
  <2>2. held' = held \ SetUpRes
    BY <1>2, <1>5 DEF FreedBySetUp
  <2>3. Complete'
    BY <1>2, <2>1, <2>2, Resources DEF Complete
  <2>4. ASSUME NEW g \in 1 .. handlerCount' PROVE Ready(g)'
    <3>1. GroupRes(g) \cap SetUpRes = {}
      BY Resources
    <3> QED
      BY <1>2, <2>1, <2>2, <3>1 DEF Ready, Enough
  <2>5. main' = "signals"
    BY <2>1 DEF CleanUpConf, Complete, Goto
  <2> QED
    BY <1>3, <1>4, <2>3, <2>4, <2>5 DEF IInv
<1>6. CASE ret # "0"
  <2>1. main' = "exit"
    BY <1>1, <1>6 DEF IInv, CleanUpConf, Goto
  <2> QED
    BY <1>3, <1>4, <2>1 DEF IInv
<1> QED
  BY <1>5, <1>6

\* main installs the handlers, or gives up.
LEMMA SetUpSignalsKeeps ==
    ASSUME IInv, SetUpSignals
    PROVE  IInv'
<1>1. /\ Types /\ main = "signals" /\ Complete /\ \A g \in 1 .. handlerCount : Ready(g)
      /\ SetUpRes \cap held = {}
  BY DEF IInv, SetUpSignals
<1>2. UNCHANGED <<confs, ret, handlerCount, tgs, managed, barrier, credits, signalPipe>>
  BY DEF SetUpSignals
<1>3. Types'
  BY <1>1, <1>2 DEF SetUpSignals, Types, Goto, MainPc
<1>4. CASE Goto("start") /\ UNCHANGED held
  BY <1>1, <1>2, <1>3, <1>4 DEF IInv, Goto, Complete, Ready, Enough
<1>5. CASE Goto("exit") /\ held' = held \ {Manager}
  BY <1>1, <1>3, <1>5 DEF IInv, Goto
<1> QED
  BY <1>4, <1>5 DEF SetUpSignals

\* The groups run, or one of them could not be started.
LEMMA StartAllKeeps ==
    ASSUME IInv, StartAll
    PROVE  IInv'
<1>1. /\ Types /\ main = "start" /\ Complete /\ \A g \in 1 .. handlerCount : Ready(g)
      /\ SetUpRes \cap held = {}
  BY DEF IInv, StartAll
<1>2. UNCHANGED <<confs, ret, handlerCount, tgs, managed, held, barrier, credits, signalPipe>>
  BY DEF StartAll, ledger
<1>3. main' \in {"running", "exit"}
  BY DEF StartAll, Goto
<1>4. Types'
  BY <1>1, <1>2, <1>3 DEF Types, MainPc
<1>5. Complete' /\ \A g \in 1 .. handlerCount' : Ready(g)'
  BY <1>1, <1>2 DEF Complete, Ready, Enough
<1> QED
  BY <1>1, <1>2, <1>3, <1>4, <1>5 DEF IInv

-----------------------------------------------------------------------------
\* The running process.
LEMMA PrepareKeeps ==
    ASSUME IInv, Prepare
    PROVE  IInv'
<1>1. /\ Types /\ main = "running" /\ Complete
      /\ \A g \in 1 .. handlerCount : Ready(g) \/ GivenBack(g)
      /\ SetUpRes \cap held = {}
  BY DEF IInv, Prepare
<1>2. UNCHANGED <<confs, ret, handlerCount, tgs, managed, held, barrier, credits, signalPipe>>
  BY DEF Prepare, ledger
<1>3. main' \in {"running", "crashed"}
  BY <1>1 DEF Prepare
<1>4. Types'
  BY <1>1, <1>2, <1>3 DEF Types, MainPc
<1>5. Complete' /\ \A g \in 1 .. handlerCount' : Ready(g)' \/ GivenBack(g)'
  BY <1>1, <1>2 DEF Complete, Ready, Enough, GivenBack
<1> QED
  BY <1>1, <1>2, <1>3, <1>4, <1>5 DEF IInv

\* A manager of a set-up without failures has its groups in their order.
LEMMA Managed ==
    ASSUME Complete, handlerCount \in Nat
    PROVE  /\ Len(managed) = handlerCount
           /\ \A i \in 1 .. handlerCount : managed[i] = i
           /\ Range(managed) = 1 .. handlerCount
  BY DEF Complete, Range

\* A monitor cleans up after its group.
LEMMA CleanUpGroupKeeps ==
    ASSUME IInv, NEW g \in Handler, CleanUpGroup(g)
    PROVE  IInv'
<1>1. /\ Types /\ main = "running" /\ Complete /\ handlerCount \in Nat
      /\ \A k \in 1 .. handlerCount : Ready(k) \/ GivenBack(k)
      /\ SetUpRes \cap held = {}
  BY SetUpAssumption DEF IInv, CleanUpGroup, Types
<1>2. /\ UNCHANGED <<confs, main, ret, handlerCount, tgs, managed, credits, signalPipe>>
      /\ held' = held \ CleanedUp(g) /\ barrier' = [barrier EXCEPT ![g] = 0]
      /\ Res("ctx", g) \in held /\ g \in Range(managed)
  BY DEF CleanUpGroup, mainVars
<1>3. g \in 1 .. handlerCount
  BY <1>1, <1>2, Managed
<1>4. Types'
  BY <1>1, <1>2 DEF Types
<1>5. /\ CleanedUp(g) \subseteq GroupRes(g) /\ GroupRes(g) \ CleanedUp(g) = {Res("group", g)}
  BY Resources DEF CleanedUp, Res
<1>6. Complete'
  BY <1>1, <1>2, <1>5, Resources DEF Complete
<1>7. Ready(g)
  BY <1>1, <1>2, <1>3, Resources DEF GivenBack, Res
<1>8. GivenBack(g)'
  <2>1. GroupRes(g) \cap held' = {Res("group", g)}
    BY <1>2, <1>5, <1>7 DEF Ready
  <2>2. barrier'[g] = 0
    BY <1>1, <1>2 DEF Types
  <2> QED
    BY <2>1, <2>2 DEF GivenBack
<1>9. ASSUME NEW k \in 1 .. handlerCount', k # g
      PROVE  Ready(k)' \/ GivenBack(k)'
  <2>1. GroupRes(k) \cap CleanedUp(g) = {}
    BY <1>5, <1>9, Resources
  <2>2. GroupRes(k) \cap held' = GroupRes(k) \cap held
    BY <1>2, <2>1
  <2>3. barrier'[k] = barrier[k]
    BY <1>2, <1>9, <1>1, SetUpAssumption DEF Types, Handler
  <2>4. Ready(k) \/ GivenBack(k)
    BY <1>1, <1>2
  <2> QED
    BY <1>2, <2>2, <2>3, <2>4 DEF Ready, Enough, GivenBack
<1>10. SetUpRes \cap held' = {}
  BY <1>1, <1>2
<1> QED
  BY <1>1, <1>2, <1>4, <1>6, <1>8, <1>9, <1>10 DEF IInv

\* main frees the manager and ends.
LEMMA FinishKeeps ==
    ASSUME IInv, Finish
    PROVE  IInv'
<1>1. /\ Types /\ main = "running" /\ Complete /\ handlerCount \in Nat
      /\ \A k \in 1 .. handlerCount : Ready(k) \/ GivenBack(k)
      /\ SetUpRes \cap held = {}
  BY SetUpAssumption DEF IInv, Finish, Types
<1>2. /\ UNCHANGED <<confs, ret, handlerCount, tgs, managed, barrier, credits, signalPipe>>
      /\ main' = "done" /\ held' = held \ {Manager}
      /\ \A i \in 1 .. Len(managed) : Res("ctx", managed[i]) \notin held
  BY DEF Finish, Goto
<1>3. Types'
  BY <1>1, <1>2 DEF Types, MainPc
<1>4. ASSUME NEW k \in 1 .. handlerCount PROVE GroupRes(k) \cap held = {Res("group", k)}
  <2>1. Res("ctx", k) \notin held
    BY <1>1, <1>2, Managed
  <2> QED
    BY <1>1, <2>1, Resources DEF Ready, GivenBack
<1>5. held' = {Res("group", k) : k \in 1 .. handlerCount}
  <2>1. held' \subseteq Upto(handlerCount)
    BY <1>1, <1>2 DEF Complete
  <2>2. ASSUME NEW r \in held' PROVE \E k \in 1 .. handlerCount : r = Res("group", k)
    <3>1. PICK k \in 1 .. handlerCount : r \in GroupRes(k)
      BY <2>1 DEF Upto
    <3> QED
      BY <1>2, <1>4, <3>1
  <2>3. ASSUME NEW k \in 1 .. handlerCount PROVE Res("group", k) \in held'
    BY <1>2, <1>4, Resources
  <2> QED
    BY <2>2, <2>3
<1>6. {Res("group", k) : k \in 1 .. handlerCount} = {Res("group", managed[i]) : i \in 1 .. Len(managed)}
  BY <1>1, Managed
<1> QED
  BY <1>1, <1>2, <1>3, <1>5, <1>6 DEF IInv

\* main frees the manager and ends, whatever its groups are doing.
LEMMA FinishOnShutdownKeeps ==
    ASSUME IInv, FinishOnShutdown
    PROVE  IInv'
<1>1. /\ Types /\ main = "running" /\ Complete /\ handlerCount \in Nat
      /\ \A k \in 1 .. handlerCount : Ready(k) \/ GivenBack(k)
      /\ SetUpRes \cap held = {}
  BY SetUpAssumption DEF IInv, FinishOnShutdown, Types
<1>2. /\ UNCHANGED <<confs, ret, handlerCount, tgs, managed, barrier, credits, signalPipe>>
      /\ main' = "stopped" /\ held' = held \ {Manager}
  BY DEF FinishOnShutdown, Goto
<1>3. Types'
  BY <1>1, <1>2 DEF Types, MainPc
<1>4. Len(managed) = handlerCount /\ \A i \in 1 .. handlerCount : managed[i] = i
  BY <1>1, Managed
<1>5. held' \subseteq UNION {GroupRes(managed[i]) : i \in 1 .. Len(managed)}
  <2>1. {GroupRes(managed[i]) : i \in 1 .. Len(managed)} = {GroupRes(g) : g \in 1 .. handlerCount}
    BY <1>4
  <2> QED
    BY <1>1, <1>2, <2>1 DEF Complete, Upto
<1>6. ASSUME NEW i \in 1 .. handlerCount
      PROVE  WholeOrCleanedUp(i)'
  <2>1. GroupRes(i) \cap held' = GroupRes(i) \cap held
    BY <1>2, Resources
  <2> QED
    BY <1>1, <2>1 DEF Ready, GivenBack, WholeOrCleanedUp
<1>7. (\A i \in 1 .. Len(managed) : WholeOrCleanedUp(managed[i]))'
  BY <1>2, <1>4, <1>6 DEF WholeOrCleanedUp
<1>8. SetUpRes \cap held' = {}
  BY <1>1, <1>2
<1> QED
  BY <1>2, <1>3, <1>5, <1>7, <1>8 DEF IInv

-----------------------------------------------------------------------------
\* Every step keeps the invariant of the set-up.
LEMMA NextKeeps ==
    ASSUME IInv, [Next]_vars
    PROVE  IInv'
<1>1. CASE UNCHANGED vars
  <2>1. UNCHANGED <<main, ret, handlerCount, confs, held, barrier, credits, tgs, managed, signalPipe>>
    BY <1>1 DEF vars, mainVars, ledger
  <2> QED
    BY <2>1 DEF IInv, Types, Early, Building, Complete, Ready, GivenBack, Enough, tg,
       WholeOrCleanedUp
<1>2. CASE \E g \in Handler : CleanUpGroup(g)
  BY <1>2, CleanUpGroupKeeps
<1> QED
  BY <1>1, <1>2, EarlyKeeps, TakeHandlerKeeps, MakeContextKeeps, MakePipeKeeps, MakeGroupKeeps,
     HandlersDoneKeeps, MakeManagerKeeps, CleanUpConfKeeps, SetUpSignalsKeeps, StartAllKeeps,
     PrepareKeeps, FinishKeeps, FinishOnShutdownKeeps DEF Next

-----------------------------------------------------------------------------
(***************************************************************************)
(* The preparation of a group's Postgres thread.  What the thread has by   *)
(* the barrier is collected over the loop through its sensors, and what    *)
(* must be gone by then was taken at known places before: the invariant    *)
(* says what is there at each place of PgPrepareCtx.                       *)
(***************************************************************************)
InLoop == {"sensor", "create", "metadata", "columns", "describe"}

\* The tables are described up to the n-th.
Described(n) == \A i \in 1 .. n : tables[i].described

\* Within the arenas, and past the first table whole rows of the last one.
Fits ==
    /\ geometry.bufferMaxFill <= geometry.cap
    /\ tables # <<>> =>
        /\ geometry.packetSize = tables[Len(tables)].rowSize
        /\ geometry.cap - geometry.bufferMaxFill < geometry.packetSize

\* What the loop over the sensors ends with.
AllThere == Len(tables) = sensorCount /\ Described(sensorCount) /\ conn = "open" /\ Fits

PInv ==
    /\ PgTypeOK
    /\ pg \in {"idle", "arenas", "conf", "schema", "ctx", "connect"} =>
         tables = <<>> /\ conn = "none" /\ Fits
    /\ pg \in {"idle", "arenas", "conf", "schema", "ctx"} => pgCtx = "unset"
    /\ pg \in {"idle", "arenas", "conf", "schema"} => schema = "none"
    /\ pg \in {"idle", "arenas", "conf"} => scratch = <<>>
    /\ pg \in {"idle", "arenas", "conf", "schema", "ctx", "connect"} \cup InLoop => errno = "0"
    /\ pg \in {"connect"} \cup InLoop => pgCtx = "set"
    /\ pg \in InLoop => conn = "open"
    /\ pg = "sensor" => Len(tables) <= sensorCount /\ Described(Len(tables)) /\ Fits
    /\ pg \in InLoop \ {"sensor"} =>
         Len(tables) \in 1 .. sensorCount /\ Described(Len(tables) - 1)
    /\ pg = "cleanup" => IF errno = "0" THEN AllThere ELSE pgCtx = "unset" => conn = "none"
    /\ pg \in {"epoll", "ready", "gaveup"} => AllThere
    /\ pg \in {"epoll", "ready", "failed", "gaveup"} => schema # "parsed" /\ scratch = <<>>
    /\ pg = "failed" => conn # "open"

-----------------------------------------------------------------------------
\* Whole rows of an arena: they fit, and one more would not.
LEMMA WholeRows ==
    ASSUME NEW cap \in Nat, NEW row \in Nat, row > 0
    PROVE  /\ RowsPerArena(cap, row) \in Nat
           /\ row * RowsPerArena(cap, row) \in Nat
           /\ row * RowsPerArena(cap, row) <= cap
           /\ cap - row * RowsPerArena(cap, row) < row
<1>1. cap \div row \in Nat
  OBVIOUS
<1>2. cap = row * (cap \div row) + (cap % row) /\ cap % row \in 0 .. row - 1
  OBVIOUS
<1>3. row * (cap \div row) \in Nat
  BY <1>1
<1> QED
  BY <1>1, <1>2, <1>3 DEF RowsPerArena

\* Before PgPrepareCtx has begun nothing is held.
LEMMA PgInitHolds == PgInit => PInv
<1> SUFFICES ASSUME PgInit PROVE PInv
  OBVIOUS
<1>1. PgTypeOK
  <2>1. FreshGeometry(0, 0) \in Geometry /\ MaxSensors \in Nat
    BY PrepareAssumption DEF Geometry, FreshGeometry, Size
  <2>2. scratch \in Seq(Block) /\ tables \in Seq(Table) /\ Len(tables) = 0
    BY DEF PgInit
  <2>3. sensorCount \in 0 .. MaxSensors /\ Len(tables) <= MaxSensors
    BY <2>1, <2>2 DEF PgInit
  <2>4. /\ pg \in PgPc /\ errno \in {"0", "json", "pg"} /\ arenas \in BOOLEAN
        /\ schema \in {"none", "parsed", "deleted"} /\ pgCtx \in {"unset", "set"}
        /\ conn \in {"none", "open", "refused", "finished"}
    BY DEF PgInit, PgPc
  <2>5. geometry \in Geometry
    BY <2>1 DEF PgInit
  <2> QED
    BY <2>2, <2>3, <2>4, <2>5 DEF PgTypeOK
<1> QED
  BY <1>1 DEF PInv, PgInit, FreshGeometry, Fits, InLoop

\* The thread starts with a pipe of which only the arenas are set.
LEMMA PgStartKeeps ==
    ASSUME PInv, NEW bufCount \in Nat, NEW cap \in Nat, PgStart(bufCount, cap)
    PROVE  PInv'
<1>1. PgTypeOK'
  BY PrepareAssumption DEF PInv, PgStart, PgGoto, PgTypeOK, PgPc, Geometry, FreshGeometry, Size
<1> QED
  BY <1>1 DEF PInv, PgStart, PgGoto, FreshGeometry, Fits, InLoop, Described

\* Up to the connection nothing is described yet.
LEMMA BeforeLoopKeeps ==
    ASSUME PInv, MakeArenas \/ LoadConf \/ LoadSchema \/ MakeCtx \/ Connect
    PROVE  PInv'
<1>1. UNCHANGED <<tables, geometry>> /\ tables = <<>> /\ Fits
  BY DEF PInv, MakeArenas, LoadConf, LoadSchema, MakeCtx, Connect, SensorVars
<1>2. PgTypeOK'
  <2>1. scratch' \in Seq(Block)
    BY DEF PInv, PgTypeOK, Block, MakeArenas, LoadConf, LoadSchema, MakeCtx, Connect
  <2> QED
    BY <1>1, <2>1 DEF PInv, PgTypeOK, PgPc, PgGoto, FailWith, SensorVars,
       MakeArenas, LoadConf, LoadSchema, MakeCtx, Connect
<1>3. CASE MakeArenas
  BY <1>1, <1>2, <1>3 DEF PInv, MakeArenas, PgGoto, SensorVars, Fits, InLoop
<1>4. CASE LoadConf
  BY <1>1, <1>2, <1>4 DEF PInv, LoadConf, PgGoto, SensorVars, Fits, InLoop
<1>5. CASE LoadSchema
  BY <1>1, <1>2, <1>5 DEF PInv, LoadSchema, PgGoto, FailWith, Fits, InLoop
<1>6. CASE MakeCtx
  BY <1>1, <1>2, <1>6 DEF PInv, MakeCtx, PgGoto, SensorVars, Fits, InLoop
<1>7. CASE Connect
  <2>1. sensorCount \in Nat /\ UNCHANGED sensorCount
    BY <1>7, PrepareAssumption DEF PInv, PgTypeOK, Connect, SensorVars
  <2> QED
    BY <1>1, <1>2, <1>7, <2>1 DEF PInv, Connect, PgGoto, FailWith, SensorVars, Fits, InLoop, Described
<1> QED
  BY <1>3, <1>4, <1>5, <1>6, <1>7

\* The next sensor gets its table info and creation query, or is refused.
LEMMA TakeSensorKeeps ==
    ASSUME PInv, TakeSensor
    PROVE  PInv'
<1>1. /\ PgTypeOK /\ pg = "sensor" /\ Len(tables) < sensorCount /\ Described(Len(tables)) /\ Fits
      /\ errno = "0" /\ pgCtx = "set" /\ conn = "open"
  BY DEF PInv, TakeSensor, InLoop
<1>2. UNCHANGED <<arenas, schema, pgCtx, conn, sensorCount, geometry>>
  BY DEF TakeSensor
<1>3. tables \in Seq(Table) /\ sensorCount \in Nat /\ sensorCount <= MaxSensors /\ MaxSensors \in Nat
  BY <1>1, PrepareAssumption DEF PgTypeOK
<1>4. CASE FailWith("json") /\ UNCHANGED <<scratch, tables>>
  BY <1>1, <1>2, <1>4 DEF PInv, PgTypeOK, PgPc, FailWith, InLoop
<1>5. ASSUME NEW r \in GarbageRows,
             tables' = Append(tables, [rowSize |-> r, described |-> FALSE]),
             scratch' = Append(scratch, "creation"), PgGoto("create"), UNCHANGED errno
      PROVE  PInv'
  <2>1. [rowSize |-> r, described |-> FALSE] \in Table
    BY <1>5, PrepareAssumption DEF Table, Size
  <2>2. /\ tables' \in Seq(Table) /\ Len(tables') = Len(tables) + 1
        /\ \A i \in 1 .. Len(tables) : tables'[i] = tables[i]
    BY <1>3, <1>5, <2>1
  <2>3. Len(tables) \in Nat
    BY <1>3
  <2>4. PgTypeOK'
    BY <1>1, <1>2, <1>3, <1>5, <2>2, <2>3 DEF PgTypeOK, PgPc, PgGoto, Block
  <2>5. Len(tables') \in 1 .. sensorCount' /\ Described(Len(tables) - 1)'
    BY <1>1, <1>2, <1>3, <2>2, <2>3 DEF Described
  <2> QED
    BY <1>1, <1>2, <1>5, <2>4, <2>5 DEF PInv, PgGoto, InLoop
<1> QED
  BY <1>4, <1>5 DEF TakeSensor

\* The table is created and its columns are counted up.
LEMMA ColumnsKeep ==
    ASSUME PInv, CreateTable \/ ReadMetadata \/ ColumnsDone
    PROVE  PInv'
<1>1. /\ PgTypeOK /\ pg \in {"create", "metadata", "columns"}
      /\ Len(tables) \in 1 .. sensorCount /\ Described(Len(tables) - 1)
      /\ errno = "0" /\ pgCtx = "set" /\ conn = "open"
  BY DEF PInv, CreateTable, ReadMetadata, ColumnsDone, InLoop
<1>2. UNCHANGED <<arenas, scratch, schema, pgCtx, conn, sensorCount, tables, geometry>>
  BY DEF CreateTable, ReadMetadata, ColumnsDone, SensorVars
<1>3. \/ pg' \in {"metadata", "columns", "describe"} /\ errno' = "0"
      \/ pg' = "cleanup" /\ errno' \in {"json", "pg"}
  BY <1>1 DEF CreateTable, ReadMetadata, ColumnsDone, PgGoto, FailWith
<1>4. PgTypeOK'
  BY <1>1, <1>2, <1>3 DEF PgTypeOK, PgPc
<1> QED
  BY <1>1, <1>2, <1>3, <1>4 DEF PInv, InLoop, Described

\* One more column, or the end of them.
LEMMA ReadColumnKeeps ==
    ASSUME PInv, ReadColumn
    PROVE  PInv'
<1>1. /\ PgTypeOK /\ pg = "columns" /\ tables \in Seq(Table)
      /\ Len(tables) \in 1 .. sensorCount /\ Described(Len(tables) - 1)
      /\ errno = "0" /\ pgCtx = "set" /\ conn = "open"
  BY DEF PInv, PgTypeOK, ReadColumn, InLoop
<1>2. UNCHANGED <<pg, errno, arenas, scratch, schema, pgCtx, conn, sensorCount, geometry>>
  BY DEF ReadColumn
<1>3. PICK len \in ColumnLens :
        tables' = [tables EXCEPT ![Len(tables)].rowSize = AddLength(@, len)]
  BY DEF ReadColumn
<1>4. Len(tables) \in 1 .. Len(tables) /\ Len(tables) \in Nat /\ sensorCount \in Nat
  BY <1>1, PrepareAssumption DEF PgTypeOK
<1>5. DEFINE last == tables[Len(tables)]
             new == [last EXCEPT !.rowSize = AddLength(last.rowSize, len)]
<1>6. last \in Table
  BY <1>1, <1>4
<1>7. AddLength(last.rowSize, len) \in Size
  <2>1. last.rowSize \in Int /\ len \in Int /\ SizeModulus \in Nat /\ SizeModulus > 0
    BY <1>6, PrepareAssumption DEF Table, Size
  <2>2. last.rowSize + len \in Int
    BY <2>1
  <2> QED
    BY <2>1, <2>2 DEF AddLength, Size
<1>8. new \in Table
  BY <1>6, <1>7 DEF Table
<1>9. tables' = [tables EXCEPT ![Len(tables)] = new]
  BY <1>3
<1> HIDE DEF new, last
<1>10. /\ tables' \in Seq(Table) /\ Len(tables') = Len(tables)
       /\ \A i \in 1 .. Len(tables) - 1 : tables'[i] = tables[i]
  BY <1>1, <1>4, <1>8, <1>9
<1>11. PgTypeOK'
  BY <1>1, <1>2, <1>10 DEF PgTypeOK
<1>12. Described(Len(tables) - 1)'
  BY <1>1, <1>10 DEF Described
<1> QED
  BY <1>1, <1>2, <1>10, <1>11, <1>12 DEF PInv, InLoop

\* The pipe takes whole rows of the table.
LEMMA DescribeTableKeeps ==
    ASSUME PInv, DescribeTable
    PROVE  PInv'
<1> DEFINE n == Len(tables)
           row == tables[n].rowSize
           fits == RowsPerArena(geometry.cap, row)
<1>1. /\ PgTypeOK /\ pg = "describe" /\ tables \in Seq(Table) /\ geometry \in Geometry
      /\ n \in 1 .. sensorCount /\ Described(n - 1)
      /\ errno = "0" /\ pgCtx = "set" /\ conn = "open"
  BY DEF PInv, PgTypeOK, DescribeTable, InLoop
<1>2. UNCHANGED <<errno, arenas, scratch, schema, pgCtx, conn, sensorCount>>
  BY DEF DescribeTable
<1>3. n \in 1 .. n /\ n \in Nat /\ sensorCount \in Nat
  BY <1>1, PrepareAssumption DEF PgTypeOK
<1>4. tables[n] \in Table /\ row \in Size /\ row \in Nat /\ geometry.cap \in Nat
  <2>1. tables[n] \in Table
    BY <1>1, <1>3
  <2>2. row \in Size
    BY <2>1 DEF Table
  <2>3. row \in Nat
    BY <2>2, PrepareAssumption DEF Size
  <2> QED
    BY <1>1, <2>1, <2>2, <2>3 DEF Geometry
<1>5. CASE pg' = "crashed" /\ UNCHANGED <<tables, geometry>>
  BY <1>1, <1>2, <1>5 DEF PInv, PgTypeOK, PgPc, InLoop
<1>6. CASE /\ row # 0
           /\ pg' = "sensor"
           /\ tables' = [tables EXCEPT ![n].described = TRUE]
           /\ geometry' = [geometry EXCEPT !.packetSize = row,
                                           !.itemMaxCount = fits,
                                           !.bufferMaxFill = row * fits]
  <2> DEFINE new == [tables[n] EXCEPT !.described = TRUE]
  <2>1. new \in Table /\ new.rowSize = row /\ new.described
    BY <1>4 DEF Table
  <2>2. tables' = [tables EXCEPT ![n] = new]
    BY <1>6
  <2>3. /\ fits \in Nat /\ row * fits \in Nat
        /\ row * fits <= geometry.cap /\ geometry.cap - row * fits < row
    <3>1. row > 0
      BY <1>4, <1>6
    <3> HIDE DEF row
    <3> QED
      BY <1>4, <3>1, WholeRows
  <2>4. /\ geometry' \in Geometry /\ geometry'.packetSize = row
        /\ geometry'.bufferMaxFill = row * fits /\ geometry'.cap = geometry.cap
    BY <1>1, <1>4, <1>6, <2>3 DEF Geometry
  <2> HIDE DEF new, row, fits
  <2>5. /\ tables' \in Seq(Table) /\ Len(tables') = n /\ tables'[n] = new
        /\ \A i \in 1 .. n - 1 : tables'[i] = tables[i]
    BY <1>1, <1>3, <2>1, <2>2
  <2> HIDE DEF n
  <2>6. Described(Len(tables))'
    BY <1>1, <1>3, <2>1, <2>5 DEF Described
  <2>7. Fits'
    BY <2>1, <2>3, <2>4, <2>5 DEF Fits
  <2>8. PgTypeOK'
    BY <1>1, <1>2, <1>6, <2>4, <2>5 DEF PgTypeOK, PgPc, n
  <2>9. Len(tables') <= sensorCount'
    BY <1>1, <1>2, <1>3, <2>5
  <2> QED
    BY <1>1, <1>2, <1>6, <2>6, <2>7, <2>8, <2>9 DEF PInv, InLoop
<1> QED
  BY <1>5, <1>6 DEF DescribeTable, PgGoto

\* The end of the loop, the cleanup, and what PgRun makes of its result.
LEMMA EndKeeps ==
    ASSUME PInv, SensorsDone \/ CleanUp \/ MakeEpoll \/ PushFails
    PROVE  PInv'
<1>1. /\ PgTypeOK /\ UNCHANGED <<errno, arenas, pgCtx, sensorCount, tables, geometry>>
  BY DEF PInv, SensorsDone, CleanUp, MakeEpoll, PushFails, SensorVars
<1>2. PgTypeOK'
  <2>1. scratch' \in Seq(Block)
    <3>1. scratch' = scratch \/ scratch' = <<>>
      BY DEF SensorsDone, CleanUp, MakeEpoll, PushFails
    <3>2. scratch \in Seq(Block)
      BY <1>1 DEF PgTypeOK
    <3>3. <<>> \in Seq(Block)
      OBVIOUS
    <3> QED
      BY <3>1, <3>2, <3>3
  <2>2. pg' \in PgPc /\ schema' \in {"none", "parsed", "deleted"}
        /\ conn' \in {"none", "open", "refused", "finished"}
    BY <1>1 DEF PgTypeOK, PgPc, PgGoto, ConnAfterErrors, SensorsDone, CleanUp, MakeEpoll, PushFails
  <2> QED
    BY <1>1, <2>1, <2>2 DEF PgTypeOK
<1>3. CASE SensorsDone
  BY <1>1, <1>2, <1>3 DEF PInv, SensorsDone, PgGoto, InLoop, AllThere, Described, Fits
<1>4. CASE CleanUp
  <2>1. pg = "cleanup" /\ schema' # "parsed" /\ scratch' = <<>> /\ conn' = ConnAfterErrors
    BY <1>4 DEF CleanUp
  <2>2. CASE errno = "0"
    <3>1. AllThere /\ conn' = conn /\ pg' \in {"epoll", "crashed"}
      BY <1>4, <2>1, <2>2 DEF PInv, CleanUp, PgGoto, ConnAfterErrors
    <3>2. AllThere'
      BY <1>1, <3>1 DEF AllThere, Described, Fits
    <3> QED
      BY <1>1, <1>2, <2>1, <2>2, <3>1, <3>2 DEF PInv, InLoop
  <2>3. CASE errno # "0"
    <3>1. conn' # "open" /\ pg' \in {"failed", "crashed"}
      BY <1>1, <1>4, <2>1, <2>3 DEF PInv, PgTypeOK, CleanUp, PgGoto, ConnAfterErrors
    <3> QED
      BY <1>1, <1>2, <2>1, <2>3, <3>1 DEF PInv, InLoop
  <2> QED
    BY <2>2, <2>3
<1>5. CASE MakeEpoll
  <2>1. AllThere'
    BY <1>1, <1>5 DEF PInv, MakeEpoll, AllThere, Described, Fits, SensorVars
  <2> QED
    BY <1>1, <1>2, <1>5, <2>1 DEF PInv, MakeEpoll, InLoop
<1>6. CASE PushFails
  BY <1>1, <1>2, <1>6 DEF PInv, PushFails, PgGoto, InLoop
<1> QED
  BY <1>3, <1>4, <1>5, <1>6

\* Every step keeps the invariant of the preparation.
LEMMA PgNextKeeps ==
    ASSUME PInv, PgNext
    PROVE  PInv'
  BY BeforeLoopKeeps, TakeSensorKeeps, ColumnsKeep, ReadColumnKeeps, DescribeTableKeeps, EndKeeps
     DEF PgNext

-----------------------------------------------------------------------------
\* What the types of SetUp leave open in Types.
Rest ==
    /\ build \in {"debug", "release"}
    /\ held \subseteq Resource
    /\ managed \in Seq(Handler)
    /\ Len(tgs) <= Len(confs)
    /\ signalPipe \in 0 .. MaxHandlers
    /\ prepared \in 0 .. MaxHandlers

FInv == IInv /\ PInv /\ Rest

\* What belongs to a handler, to the set-up or to all is a resource.
LEMMA Owned ==
    /\ SetUpRes \subseteq Resource /\ Manager \in Resource
    /\ \A h \in Handler : GroupRes(h) \subseteq Resource
  BY DEF Resource

\* The full invariant holds at first.
LEMMA InitFull == Init => FInv
<1> SUFFICES ASSUME Init PROVE FInv
  OBVIOUS
<1>1. PInv
  BY PgInitHolds DEF Init
<1>2. <<>> \in Seq(Handler) /\ Len(<<>>) = 0
  OBVIOUS
<1>3. Rest
  BY <1>2, SetUpAssumption DEF Init, Rest
<1> QED
  BY <1>1, <1>3, InitHolds DEF FInv

\* The preparation runs only in a running process, and starts with a group's
\* own configuration.
LEMMA PreparedKeeps ==
    ASSUME FInv, [Next]_vars
    PROVE  PInv'
<1>1. PInv /\ IInv
  BY DEF FInv
<1>2. CASE UNCHANGED pgVars
  BY <1>1, <1>2 DEF pgVars, PInv, PgTypeOK, Fits, Described, AllThere, InLoop
<1>3. CASE Prepare
  BY <1>1, <1>3, PgNextKeeps DEF Prepare
<1>4. CASE StartAll
  <2>1. Complete /\ Types
    BY <1>1, <1>4 DEF IInv, StartAll
  <2>2. ASSUME NEW i \in 1 .. Len(managed),
               PgStart(confs[managed[i]].bufCount, confs[managed[i]].bufSize)
        PROVE  PInv'
    <3>1. handlerCount \in Nat
      BY <2>1, SetUpAssumption DEF Types
    <3>2. managed[i] \in 1 .. Len(confs)
      BY <2>1, <2>2, <3>1, Managed DEF Complete
    <3>3. confs[managed[i]] \in HandlerConf
      BY <2>1, <3>2 DEF Types
    <3>4. confs[managed[i]].bufCount \in Nat /\ confs[managed[i]].bufSize \in Nat
      BY <3>3, SetUpAssumption DEF HandlerConf
    <3> QED
      BY <1>1, <2>2, <3>4, PgStartKeeps
  <2> QED
    BY <1>2, <1>4, <2>2 DEF StartAll
<1>5. \/ UNCHANGED pgVars \/ Prepare \/ StartAll
  BY DEF Next, vars, LoadConfFile, ParseConf, AllocTgs, TakeHandler, MakeContext, MakePipe,
     MakeGroup, HandlersDone, MakeManager, CleanUpConf, SetUpSignals, CleanUpGroup, Finish,
     FinishOnShutdown
<1> QED
  BY <1>2, <1>3, <1>4, <1>5

\* The handler being created is one of the configuration.
LEMMA Creating ==
    ASSUME IInv, main \in {"context", "pipe", "group"}
    PROVE  tg \in Handler /\ Len(tgs) \in Nat /\ Len(confs) = Len(tgs) + 1
  BY SetUpAssumption DEF IInv, Types, Building, tg, Handler

\* Every step keeps what the types need beyond IInv.
LEMMA RestKeeps ==
    ASSUME FInv, [Next]_vars
    PROVE  Rest'
<1>1. Rest /\ IInv /\ Types /\ tgs \in Seq(Handler) /\ Len(tgs) \in Nat /\ MaxHandlers \in Nat
  BY SetUpAssumption DEF FInv, IInv, Types
<1>2. CASE UNCHANGED <<build, confs, tgs, managed, signalPipe, prepared>> /\ held' \subseteq Resource
  BY <1>1, <1>2 DEF Rest
<1>3. CASE LoadConfFile \/ ParseConf \/ AllocTgs \/ HandlersDone \/ CleanUpConf \/ SetUpSignals
           \/ Prepare \/ Finish \/ FinishOnShutdown \/ (\E g \in Handler : CleanUpGroup(g)) \/ UNCHANGED vars
  <2>1. UNCHANGED <<build, confs, tgs, managed, signalPipe, prepared>>
    BY <1>3 DEF LoadConfFile, ParseConf, AllocTgs, HandlersDone, CleanUpConf, SetUpSignals,
       Prepare, Finish, FinishOnShutdown, CleanUpGroup, vars, mainVars, ledger
  <2>2. held' \subseteq held \cup SetUpRes
    BY <1>3 DEF LoadConfFile, ParseConf, AllocTgs, HandlersDone, CleanUpConf, SetUpSignals,
       Prepare, Finish, FinishOnShutdown, CleanUpGroup, vars, ledger, SetUpRes
  <2> QED
    BY <1>1, <1>2, <2>1, <2>2, Owned DEF Rest
<1>4. CASE TakeHandler
  <2>1. PICK c \in HandlerConf : confs' = Append(confs, c)
    BY <1>4 DEF TakeHandler
  <2>2. Len(confs') = Len(confs) + 1 /\ Len(confs) \in Nat
    BY <1>1, <2>1 DEF Types
  <2> QED
    BY <1>1, <1>4, <2>2 DEF TakeHandler, ledger, Rest
<1>5. CASE MakeContext
  <2>1. Res("ctx", tg) \in Resource
    BY <1>1, <1>5, Creating, Owned, Resources DEF MakeContext
  <2> QED
    BY <1>1, <1>2, <1>5, <2>1 DEF MakeContext, Rest
<1>6. CASE MakePipe
  <2>1. {Res("readfd", tg), Res("writefd", tg), Res("pipe", tg)} \subseteq Resource
    BY <1>1, <1>6, Creating, Owned, Resources DEF MakePipe
  <2>2. held' \subseteq held \cup {Res("readfd", tg), Res("writefd", tg), Res("pipe", tg)}
    BY <1>6 DEF MakePipe
  <2>3. UNCHANGED <<build, confs, tgs, managed, signalPipe, prepared>>
    BY <1>6 DEF MakePipe
  <2> QED
    BY <1>1, <1>2, <2>1, <2>2, <2>3 DEF Rest
<1>7. CASE MakeGroup
  <2>1. tg \in Handler /\ Len(confs) = Len(tgs) + 1
    BY <1>1, <1>7, Creating DEF MakeGroup
  <2>2. Res("group", tg) \in Resource
    BY <2>1, Owned, Resources
  <2>3. tgs' = tgs \/ tgs' = Append(tgs, tg)
    BY <1>7 DEF MakeGroup
  <2>4. Len(tgs') <= Len(confs)
    BY <1>1, <2>1, <2>3
  <2>5. signalPipe' \in {signalPipe, tg} /\ held' \subseteq held \cup {Res("group", tg)}
        /\ UNCHANGED <<build, confs, managed, prepared>>
    BY <1>7 DEF MakeGroup
  <2>6. signalPipe' \in 0 .. MaxHandlers
    BY <1>1, <2>1, <2>5 DEF Rest, Handler
  <2> QED
    BY <1>1, <2>2, <2>4, <2>5, <2>6 DEF Rest
<1>8. CASE MakeManager
  <2>1. Len(tgs) = handlerCount
    BY <1>1, <1>8 DEF IInv, Building, MakeManager
  <2>2. SubSeq(tgs, 1, handlerCount) \in Seq(Handler)
    BY <1>1, <2>1
  <2>3. managed' \in Seq(Handler) /\ held' \subseteq held \cup {Manager}
    BY <1>1, <1>8, <2>2 DEF MakeManager, Rest
  <2> QED
    BY <1>1, <1>8, <2>3, Owned DEF MakeManager, Rest
<1>9. CASE StartAll
  <2>1. prepared' = prepared \/ \E i \in 1 .. Len(managed) : prepared' = managed[i]
    BY <1>9 DEF StartAll
  <2>2. prepared' \in 0 .. MaxHandlers
    BY <1>1, <2>1 DEF Rest, Handler
  <2> QED
    BY <1>1, <1>9, <2>2 DEF StartAll, ledger, Rest
<1> QED
  BY <1>3, <1>4, <1>5, <1>6, <1>7, <1>8, <1>9 DEF Next

\* And it holds along every run.
LEMMA FullInvariant == Spec => []FInv
<1>1. FInv /\ [Next]_vars => FInv'
  BY NextKeeps, PreparedKeeps, RestKeeps DEF FInv
<1> QED
  BY InitFull, <1>1, PTL DEF Spec

\* Whatever fails, and with any number of handlers, a process that starts its
\* threads has one complete group per configured handler (Main.c:98-115).
THEOREM SetUpComplete == Spec => []ManagerComplete
<1>1. IInv => ManagerComplete
  <2> SUFFICES ASSUME IInv, main \in {"signals", "start", "running"} PROVE ManagerComplete
    BY DEF ManagerComplete
  <2>1. Complete /\ \A g \in 1 .. handlerCount : Ready(g) \/ (main = "running" /\ GivenBack(g))
    BY DEF IInv
  <2> QED
    BY <2>1 DEF ManagerComplete, Complete, Ready, Enough, GivenBack
<1> QED
  BY InitHolds, NextKeeps, <1>1, PTL DEF Spec

\* Nothing of the set-up outlives it, and a running process holds nothing beyond
\* its manager and its groups.  When all groups have completed, main returns with
\* their records only; when it returns for a shutdown, with all that the groups
\* not cleaned up hold (Main.c:117-129, 177-180, ThreadGroup.c:203-206).
THEOREM SetUpBalanced == Spec => []LedgerBalanced
<1>1. IInv => LedgerBalanced
  <2> SUFFICES ASSUME IInv PROVE LedgerBalanced
    OBVIOUS
  <2>1. ASSUME main \in {"signals", "start", "running"}
        PROVE  held \subseteq {Manager} \cup UNION {GroupRes(managed[i]) : i \in 1 .. Len(managed)}
    <3>1. Complete /\ SetUpRes \cap held = {} /\ handlerCount \in Nat
      BY <2>1, SetUpAssumption DEF IInv, Types
    <3>2. {GroupRes(managed[i]) : i \in 1 .. Len(managed)} = {GroupRes(g) : g \in 1 .. handlerCount}
      BY <3>1, Managed
    <3> QED
      BY <3>1, <3>2 DEF Complete, Upto
  <2> QED
    BY <2>1 DEF IInv, LedgerBalanced
<1> QED
  BY InitHolds, NextKeeps, <1>1, PTL DEF Spec

\* The state of main, of the ledger and of the watched Postgres thread stays
\* typed; the credits of a pipe are a number that eventfd takes (Main.c:57-178,
\* SensorDataPipe.c:24-80).
THEOREM TypeCorrect == Spec => []TypeOK
<1>1. FInv => TypeOK
  BY DEF FInv, IInv, Types, PInv, Rest, TypeOK
<1> QED
  BY FullInvariant, <1>1, PTL

\* Whichever step of it has failed, a PgPrepareCtx that returns has deleted
\* the schema and given back its scratch arena, and one that returns NULL has
\* no connection open (Postgres.c:338-351).
THEOREM PreparationReleases == Spec => []PrepareReleases
<1>1. FInv => PrepareReleases
  BY DEF FInv, PInv, PrepareReleases
<1> QED
  BY FullInvariant, <1>1, PTL

\* A thread that gets to the barrier has described every table, and its pipe
\* holds whole rows of the last one: for any sensors, columns, sizes of arenas
\* and values of memory never written (Postgres.c:326-335).
THEOREM PreparedGeometryFits == Spec => []GeometryFits
<1>1. FInv => GeometryFits
  <2> SUFFICES ASSUME FInv, pg = "ready" PROVE GeometryFits
    BY DEF GeometryFits
  <2>1. AllThere /\ PgTypeOK
    BY DEF FInv, PInv
  <2>2. ASSUME sensorCount > 0 PROVE tables # <<>>
    BY <2>1, <2>2 DEF AllThere
  <2> QED
    BY <2>1, <2>2 DEF AllThere, Described, Fits, GeometryFits
<1> QED
  BY FullInvariant, <1>1, PTL
=============================================================================

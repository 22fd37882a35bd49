---------------------------- MODULE PgInsertData ----------------------------
(***************************************************************************)
(* PgInsertData (DatabaseSystems/Postgres.c): the rows of one pipe buffer  *)
(* are written to the table by a binary COPY inside a transaction.  PgRun  *)
(* calls it for one buffer after the other over the same connection and    *)
(* goes by what it returns.                                                *)
(*                                                                         *)
(* The server and libpq are external.  The server keeps the state of the   *)
(* session and of its transaction; it may refuse any command and the       *)
(* connection may be lost at any time, for good, since nothing makes a new *)
(* one.  What libpq is given it may only have buffered, so a put can       *)
(* succeed over a lost connection, or fail with a part of the data on its  *)
(* way.  COPY takes the rows in order, so a number of rows says which.     *)
(* Every column has a type that the conversion handles.                    *)
(***************************************************************************)
EXTENDS Integers

CONSTANTS
    MaxCalls,     \* bound: calls of PgInsertData
    ItemCounts,   \* the numbers of rows a buffer may hold
    FieldCount,   \* ColCountNoAutoIncrements
    RowSize,      \* bytes of a row as it is received
    ScratchSize   \* bytes of a scratch arena

ASSUME CallsAssumption == MaxCalls \in Nat
ASSUME SizesAssumption ==
    /\ ItemCounts \subseteq Nat
    /\ FieldCount \in Nat /\ RowSize \in Nat /\ ScratchSize \in Nat

VARIABLES
    pc,        \* where PgInsertData is; "idle" between two calls
    call,      \* calls made so far
    items,     \* items[k]: ItemCount of call k
    ret,       \* Ret
    outcome,   \* outcome[k]: what call k has returned
    conn,      \* whether the connection is up
    session,   \* the server's side of it
    received,  \* rows that have reached the server in this COPY
    pending,   \* rows added by the open transaction
    table      \* table[k]: rows of call k that are committed

serverVars == <<conn, session, received, pending, table>>
vars == <<pc, call, items, ret, outcome, serverVars>>

Calls == 1 .. MaxCalls
Pc == {"idle", "begin", "copy", "header", "data", "end", "result", "finish"}
Answer == {"ok", "err"}
\* "open": in a transaction; "copying": in COPY; "ended": the end of the COPY
\* is on its way; "failed": in a transaction that can only be rolled back.
Session == {"idle", "open", "copying", "ended", "failed"}

TypeOK ==
    /\ pc \in Pc
    /\ call \in 0 .. MaxCalls
    /\ items \in [Calls -> ItemCounts \cup {0}]
    /\ ret \in Answer
    /\ outcome \in [Calls -> Answer \cup {"none"}]
    /\ conn \in {"up", "down"}
    /\ session \in Session
    /\ received \in Nat
    /\ pending \in Nat
    /\ table \in [Calls -> Nat]

Init ==
    /\ pc = "idle"
    /\ call = 0
    /\ items = [k \in Calls |-> 0]
    /\ ret = "ok"
    /\ outcome = [k \in Calls |-> "none"]
    /\ conn = "up"
    /\ session = "idle"
    /\ received = 0
    /\ pending = 0
    /\ table = [k \in Calls |-> 0]

\* Bytes asked for to convert n rows, and bytes the conversion writes.
NtwrkConvBufSize(n) == 2 + n * 4 + n * RowSize
ConvOffset(n) == n * (2 + FieldCount * 4 + RowSize)

\* The buffer asked for fits into a scratch arena.  Numbers of rows that fit
\* as asked for but not as written are left out: the conversion would run past
\* the arena.
Fits(n) == NtwrkConvBufSize(n) <= ScratchSize

ASSUME ConversionInArena == \A n \in ItemCounts : Fits(n) => ConvOffset(n) <= ScratchSize

-----------------------------------------------------------------------------
Goto(label) == pc' = label /\ UNCHANGED <<call, items, outcome>>

Return(answer) ==
    /\ pc' = "idle"
    /\ outcome' = [outcome EXCEPT ![call] = answer]
    /\ UNCHANGED <<call, items>>

Call ==
    /\ pc = "idle" /\ call < MaxCalls
    /\ \E n \in ItemCounts : items' = [items EXCEPT ![call + 1] = n]
    /\ call' = call + 1
    /\ pc' = "begin"
    /\ ret' = "ok"
    /\ UNCHANGED <<outcome, serverVars>>

\* BEGIN inside a transaction is only warned about.
Begin ==
    /\ pc = "begin" /\ conn = "up" /\ session # "failed"
    /\ session' = "open"
    /\ Goto("copy")
    /\ UNCHANGED <<ret, conn, received, pending, table>>

BeginFails ==
    /\ pc = "begin"
    /\ conn = "down" \/ session = "failed"
    /\ Return("err")
    /\ UNCHANGED <<ret, serverVars>>

StartCopy ==
    /\ pc = "copy" /\ conn = "up"
    /\ session' = "copying"
    /\ received' = 0
    /\ Goto("header")
    /\ UNCHANGED <<ret, conn, pending, table>>

\* Faulty variant: the transaction is not rolled back.
StartCopyFailsOpen ==
    /\ pc = "copy"
    /\ session' = IF conn = "up" THEN "failed" ELSE session
    /\ Return("err")
    /\ UNCHANGED <<ret, conn, received, pending, table>>

\* Faulty variant: the status of the result is returned.
StartCopyFailsStatus ==
    /\ pc = "copy"
    /\ session' = "idle"
    /\ pending' = 0
    /\ Return("PGRES_FATAL_ERROR")
    /\ UNCHANGED <<ret, conn, received, table>>

\* The ROLLBACK that follows is not checked.
StartCopyFails ==
    /\ pc = "copy"
    /\ session' = "idle"
    /\ pending' = 0
    /\ Return("err")
    /\ UNCHANGED <<ret, conn, received, table>>

PutHeader ==
    /\ pc = "header"
    /\ \/ Goto("data") /\ UNCHANGED ret
       \/ Goto("end") /\ ret' = "err"
    /\ UNCHANGED serverVars

\* When the scratch arena is too small, cleanup follows with Ret still 0.
NoBuffer ==
    /\ pc = "data" /\ ~Fits(items[call])
    /\ Goto("end")
    /\ UNCHANGED <<ret, serverVars>>

\* The rows are converted and put in one call.
PutData ==
    /\ pc = "data" /\ Fits(items[call])
    /\ received' = IF conn = "up" THEN items[call] ELSE 0
    /\ Goto("end")
    /\ UNCHANGED <<ret, conn, session, pending, table>>

\* Faulty variant: Ret is not set on this path either.
PutDataFailsUnseen ==
    /\ pc = "data" /\ Fits(items[call])
    /\ received' \in IF conn = "up" THEN 0 .. items[call] ELSE {0}
    /\ Goto("end")
    /\ UNCHANGED <<ret, conn, session, pending, table>>

PutDataFails ==
    /\ pc = "data" /\ Fits(items[call])
    /\ ret' = "err"
    /\ received' \in IF conn = "up" THEN 0 .. items[call] ELSE {0}
    /\ Goto("end")
    /\ UNCHANGED <<conn, session, pending, table>>

\* With an error message the server gives the COPY up.
PutCopyEnd ==
    /\ pc = "end"
    /\ session' = IF session # "copying" THEN session
                  ELSE IF ret = "ok" THEN "ended" ELSE "failed"
    /\ Goto("result")
    /\ UNCHANGED <<ret, conn, received, pending, table>>

PutCopyEndFails ==
    /\ pc = "end"
    /\ ret' = "err"
    /\ Goto("result")
    /\ UNCHANGED serverVars

CopyDone ==
    /\ pc = "result" /\ conn = "up" /\ session = "ended"
    /\ session' = "open"
    /\ pending' = pending + received
    /\ received' = 0
    /\ Goto("finish")
    /\ UNCHANGED <<ret, conn, table>>

\* The server rejects the data, or gives the COPY up, or cannot be reached.
CopyFails ==
    /\ pc = "result"
    /\ ret' = "err"
    /\ session' = IF session = "ended" THEN "failed" ELSE session
    /\ Goto("finish")
    /\ UNCHANGED <<conn, received, pending, table>>

EndTransaction == session' = "idle" /\ pending' = 0 /\ received' = 0

Commit ==
    /\ pc = "finish" /\ ret = "ok" /\ conn = "up"
    /\ table' = [table EXCEPT ![call] = IF session = "open" THEN pending ELSE 0]
    /\ EndTransaction
    /\ Return("ok")
    /\ UNCHANGED <<ret, conn>>

\* The server refuses to commit, or is not there any more.
CommitFails ==
    /\ pc = "finish" /\ ret = "ok"
    /\ EndTransaction
    /\ Return("err")
    /\ UNCHANGED <<ret, conn, table>>

\* The connection is lost after the server has committed.
CommitUnanswered ==
    /\ pc = "finish" /\ ret = "ok" /\ conn = "up" /\ session = "open"
    /\ table' = [table EXCEPT ![call] = pending]
    /\ conn' = "down"
    /\ EndTransaction
    /\ Return("err")
    /\ UNCHANGED ret

\* A COPY that has not ended is given up by libpq before the command is sent.
Rollback ==
    /\ pc = "finish" /\ ret = "err"
    /\ EndTransaction
    /\ Return("err")
    /\ UNCHANGED <<ret, conn, table>>

\* The server ends the session and its transaction.
ConnectionLost ==
    /\ conn = "up"
    /\ conn' = "down"
    /\ EndTransaction
    /\ UNCHANGED <<pc, call, items, ret, outcome, table>>

Next ==
    \/ Call \/ Begin \/ BeginFails \/ StartCopy \/ StartCopyFails
    \/ PutHeader \/ NoBuffer \/ PutData \/ PutDataFails
    \/ PutCopyEnd \/ PutCopyEndFails \/ CopyDone \/ CopyFails
    \/ Commit \/ CommitFails \/ CommitUnanswered \/ Rollback
    \/ ConnectionLost

Spec == Init /\ [][Next]_vars

-----------------------------------------------------------------------------
(* Properties.                                                             *)

\* What PgInsertData returns is what has become of the rows, whichever of its
\* steps fails: after 0 all of them are in the table (none, when the scratch
\* arena was too small: that failure is reported as success), after an error
\* none is.  The one exception is a COMMIT that is carried out but not
\* answered; then all rows are there, and no later call inserts anything.
AnswerMatchesTable ==
    \A k \in Calls :
        /\ outcome[k] = "ok" => table[k] = IF Fits(items[k]) THEN items[k] ELSE 0
        /\ outcome[k] = "err" /\ table[k] # 0 =>
              /\ conn = "down"
              /\ table[k] = items[k]
              /\ \A j \in Calls : j > k => table[j] = 0

\* Between two calls no transaction or COPY is left open on the connection, so
\* the rows of a call never end up in the transaction of another.
SessionIdleBetweenCalls == pc = "idle" => session = "idle" /\ pending = 0

\* Seen from PgRun a call is atomic: the module AtomicInsert says what it
\* promises.  A call is being made from its first step to its return.
Atomic == INSTANCE AtomicInsert WITH
    Storable <- {n \in ItemCounts : Fits(n)},
    busy <- pc # "idle",
    lost <- conn = "down"

\* Whatever PgInsertData does to the table, and answers, the atomic insert may
\* do and answer (DatabaseSystems/Postgres.c:431-571).
ImplementsAtomic == Atomic!ASpec
=============================================================================

--------------------------- MODULE PgInsertProofs ---------------------------
(***************************************************************************)
(* PgInsertData returns what has become of the rows, for any number of     *)
(* calls, any numbers of rows and any size of the scratch arena.           *)
(***************************************************************************)
EXTENDS PgInsertData, TLAPS

\* The rows of a buffer of n that a call without an error inserts.
Stored(n) == IF Fits(n) THEN n ELSE 0

\* Calls that have not returned have nothing in the table.
OpenCallsEmpty ==
    /\ pc # "idle" => call \in Calls /\ outcome[call] = "none" /\ table[call] = 0
    /\ \A k \in Calls : k > call => outcome[k] = "none" /\ table[k] = 0

\* What the session and the transaction hold at each place of PgInsertData.
SessionFollows ==
    /\ pc \in {"idle", "begin"} => session = "idle"
    /\ pc # "finish" => pending = 0
    /\ conn = "down" => session = "idle" /\ pending = 0
    /\ pc \in {"header", "data"} => received = 0
    /\ (pc \in {"end", "result"} /\ ret = "ok" /\ conn = "up") =>
          received = Stored(items[call])
    /\ (pc = "finish" /\ ret = "ok" /\ conn = "up") =>
          session = "open" /\ pending = Stored(items[call])

IInv == TypeOK /\ OpenCallsEmpty /\ SessionFollows /\ AnswerMatchesTable

-----------------------------------------------------------------------------
\* A call stores a number of rows: all of its rows, or none.
LEMMA StoredNat ==
    ASSUME NEW n \in ItemCounts \cup {0}
    PROVE  Stored(n) \in Nat /\ (Stored(n) = n \/ Stored(n) = 0)
BY SizesAssumption DEF Stored

\* ItemCount is a number of rows.
LEMMA ItemsNat ==
    ASSUME TypeOK, NEW k \in Calls
    PROVE  items[k] \in ItemCounts \cup {0} /\ items[k] \in Nat
<1>1. items[k] \in ItemCounts \cup {0}
    BY DEF TypeOK
<1>2. \A n \in ItemCounts : n \in Nat
    BY SizesAssumption
<1> QED
    BY <1>1, <1>2

\* Before the first call nothing is in the table and the session is idle.
LEMMA InitIInv == Init => IInv
BY CallsAssumption, SizesAssumption
   DEF Init, IInv, TypeOK, OpenCallsEmpty, SessionFollows, AnswerMatchesTable, Calls, Pc,
       Answer, Session

\* Steps between which nothing is returned leave the answers and the table alone.
LEMMA SilentStep ==
    ASSUME IInv, UNCHANGED <<items, outcome, table, call>>, conn' = conn \/ conn' = "down",
           pc # "idle", pc' # "idle"
    PROVE  OpenCallsEmpty' /\ AnswerMatchesTable'
BY DEF IInv, TypeOK, OpenCallsEmpty, AnswerMatchesTable, Calls

\* Every step keeps the types.
LEMMA TypeStep == TypeOK /\ SessionFollows /\ OpenCallsEmpty /\ [Next]_vars => TypeOK'
<1> SUFFICES ASSUME TypeOK, SessionFollows, OpenCallsEmpty, [Next]_vars PROVE TypeOK'
    OBVIOUS
<1> USE CallsAssumption, SizesAssumption
        DEF TypeOK, Calls, Pc, Answer, Session
<1>1. CASE Call
    BY <1>1 DEF Call, serverVars
<1>2. CASE Begin \/ BeginFails
    BY <1>2 DEF Begin, BeginFails, Goto, Return, serverVars
<1>3. CASE StartCopy \/ StartCopyFails
    BY <1>3 DEF StartCopy, StartCopyFails, Goto, Return
<1>4. CASE PutHeader \/ NoBuffer
    BY <1>4 DEF PutHeader, NoBuffer, Goto, serverVars
<1>5. CASE PutData \/ PutDataFails
  <2>1. call \in Calls
      BY <1>5 DEF OpenCallsEmpty, PutData, PutDataFails
  <2>2. items[call] \in Nat
      BY <2>1, ItemsNat
  <2> QED
      BY <1>5, <2>2 DEF PutData, PutDataFails, Goto
<1>6. CASE PutCopyEnd \/ PutCopyEndFails
    BY <1>6 DEF PutCopyEnd, PutCopyEndFails, Goto, serverVars
<1>7. CASE CopyDone \/ CopyFails
    BY <1>7 DEF CopyDone, CopyFails, Goto
<1>8. CASE Commit \/ CommitUnanswered
    BY <1>8 DEF Commit, CommitUnanswered, Return, EndTransaction
<1>9. CASE CommitFails \/ Rollback \/ ConnectionLost
    BY <1>9 DEF CommitFails, Rollback, ConnectionLost, Return, EndTransaction
<1>10. CASE UNCHANGED vars
    BY <1>10 DEF vars, serverVars
<1> QED
    BY <1>1, <1>2, <1>3, <1>4, <1>5, <1>6, <1>7, <1>8, <1>9, <1>10 DEF Next

\* Every step, of PgInsertData or of the server, keeps the session where
\* PgInsertData is.
LEMMA SessionStep == IInv /\ [Next]_vars => SessionFollows'
<1> SUFFICES ASSUME IInv, [Next]_vars PROVE SessionFollows'
    OBVIOUS
<1> USE DEF IInv, SessionFollows
<1>1. CASE Call
    BY <1>1 DEF Call, serverVars
<1>2. CASE Begin \/ BeginFails
    BY <1>2 DEF Begin, BeginFails, Goto, Return, serverVars
<1>3. CASE StartCopy \/ StartCopyFails
    BY <1>3 DEF StartCopy, StartCopyFails, Goto, Return
<1>4. CASE PutHeader \/ NoBuffer
    BY <1>4 DEF PutHeader, NoBuffer, Goto, serverVars, Stored
<1>5. CASE PutData \/ PutDataFails
    BY <1>5 DEF PutData, PutDataFails, Goto, Stored
<1>6. CASE PutCopyEnd \/ PutCopyEndFails
    BY <1>6 DEF PutCopyEnd, PutCopyEndFails, Goto, serverVars
<1>7. CASE CopyDone
  <2>1. ret = "ok" => received = Stored(items[call])
      BY <1>7 DEF CopyDone
  <2>2. Stored(items[call]) \in Nat
      BY <1>7, ItemsNat, StoredNat DEF CopyDone, OpenCallsEmpty
  <2>3. pending = 0 /\ pending' = pending + received
      BY <1>7 DEF CopyDone
  <2>4. ret = "ok" => pending' = Stored(items[call])
      BY <2>1, <2>2, <2>3
  <2> QED
      BY <1>7, <2>4 DEF CopyDone, Goto
<1>8. CASE CopyFails
    BY <1>8 DEF CopyFails, Goto
<1>9. CASE Commit \/ CommitFails \/ CommitUnanswered \/ Rollback
    BY <1>9 DEF Commit, CommitFails, CommitUnanswered, Rollback, Return, EndTransaction
<1>10. CASE ConnectionLost
    BY <1>10 DEF ConnectionLost, EndTransaction
<1>11. CASE UNCHANGED vars
    BY <1>11 DEF vars, serverVars
<1> QED
    BY <1>1, <1>2, <1>3, <1>4, <1>5, <1>6, <1>7, <1>8, <1>9, <1>10, <1>11 DEF Next

\* Every return says what has become of the rows, and nothing changes it later.
LEMMA AnswerStep == IInv /\ [Next]_vars => OpenCallsEmpty' /\ AnswerMatchesTable'
<1> SUFFICES ASSUME IInv, [Next]_vars PROVE OpenCallsEmpty' /\ AnswerMatchesTable'
    OBVIOUS
<1> USE DEF IInv
<1>1. CASE Call
    BY <1>1, CallsAssumption DEF Call, serverVars, TypeOK, OpenCallsEmpty, AnswerMatchesTable, Calls
<1>2. CASE \/ Begin \/ StartCopy \/ PutHeader \/ NoBuffer \/ PutData \/ PutDataFails
           \/ PutCopyEnd \/ PutCopyEndFails \/ CopyDone \/ CopyFails
  <2>1. UNCHANGED <<items, outcome, table, call, conn>> /\ pc # "idle" /\ pc' # "idle"
      BY <1>2 DEF Begin, StartCopy, PutHeader, NoBuffer, PutData, PutDataFails, PutCopyEnd,
                  PutCopyEndFails, CopyDone, CopyFails, Goto, serverVars
  <2> QED
      BY <2>1, SilentStep
<1>3. CASE BeginFails \/ StartCopyFails \/ CommitFails \/ Rollback
  <2>1. /\ UNCHANGED <<items, table, call, conn>> /\ pc # "idle" /\ pc' = "idle"
        /\ outcome' = [outcome EXCEPT ![call] = "err"]
      BY <1>3 DEF BeginFails, StartCopyFails, CommitFails, Rollback, Return, serverVars
  <2> QED
      BY <2>1 DEF TypeOK, OpenCallsEmpty, AnswerMatchesTable, Calls
<1>4. CASE Commit \/ CommitUnanswered
  <2>1. conn = "up" /\ call \in Calls /\ table[call] = 0
      BY <1>4 DEF Commit, CommitUnanswered, OpenCallsEmpty
  <2>2. table' = [table EXCEPT ![call] = Stored(items[call])]
      BY <1>4 DEF Commit, CommitUnanswered, SessionFollows
  <2>3. /\ UNCHANGED <<items, call>> /\ pc' = "idle"
        /\ \/ outcome' = [outcome EXCEPT ![call] = "ok"] /\ conn' = "up"
           \/ outcome' = [outcome EXCEPT ![call] = "err"] /\ conn' = "down"
      BY <1>4 DEF Commit, CommitUnanswered, Return
  <2>4. Stored(items[call]) = items[call] \/ Stored(items[call]) = 0
      BY <2>1, ItemsNat, StoredNat
  <2>5. ASSUME NEW k \in Calls, k > call
        PROVE  table'[k] = 0 /\ outcome'[k] = "none"
    <3>1. k # call
        BY <2>1, <2>5 DEF Calls
    <3> QED
        BY <2>2, <2>3, <2>5, <3>1 DEF TypeOK, OpenCallsEmpty
  <2>6. OpenCallsEmpty'
      BY <2>3, <2>5 DEF OpenCallsEmpty
  <2>7. ASSUME NEW k \in Calls, k # call
        PROVE  /\ outcome'[k] = outcome[k] /\ table'[k] = table[k]
               /\ outcome[k] = "err" => table[k] = 0
      BY <2>1, <2>2, <2>3, <2>7 DEF TypeOK, AnswerMatchesTable
  <2>8. ASSUME NEW k \in Calls
        PROVE  outcome'[k] = "ok" => table'[k] = Stored(items'[k])
      BY <2>1, <2>2, <2>3, <2>7 DEF TypeOK, AnswerMatchesTable, Stored
  <2>9. ASSUME NEW k \in Calls, outcome'[k] = "err", table'[k] # 0
        PROVE  /\ conn' = "down" /\ table'[k] = items'[k]
               /\ \A j \in Calls : j > k => table'[j] = 0
    <3>1. k = call
        BY <2>7, <2>9
    <3> QED
        BY <2>1, <2>2, <2>3, <2>4, <2>5, <2>9, <3>1 DEF TypeOK
  <2> QED
      BY <2>6, <2>8, <2>9 DEF AnswerMatchesTable, Stored
<1>5. CASE ConnectionLost
    BY <1>5 DEF ConnectionLost, OpenCallsEmpty, AnswerMatchesTable
<1>6. CASE UNCHANGED vars
    BY <1>6 DEF vars, serverVars, OpenCallsEmpty, AnswerMatchesTable
<1> QED
    BY <1>1, <1>2, <1>3, <1>4, <1>5, <1>6 DEF Next

\* The three together with the initial states make IInv an invariant.
LEMMA Invariance == Spec => []IInv
<1>1. IInv /\ [Next]_vars => IInv'
    BY TypeStep, SessionStep, AnswerStep DEF IInv
<1> QED
    BY InitIInv, <1>1, PTL DEF Spec

-----------------------------------------------------------------------------
\* The variables of PgInsertData and of the server keep their types.
THEOREM TypeCorrect == Spec => []TypeOK
BY Invariance, PTL DEF IInv

\* Whichever steps fail, PgInsertData returns 0 when all rows are committed (or
\* the scratch arena was too small), and an error when none is or when the
\* connection was lost after the COMMIT.
THEOREM AnswersAreTrue == Spec => []AnswerMatchesTable
BY Invariance, PTL DEF IInv

\* No return path leaves a transaction or a COPY open on the connection.
THEOREM SessionLeftIdle == Spec => []SessionIdleBetweenCalls
<1>1. IInv => SessionIdleBetweenCalls
    BY DEF IInv, SessionFollows, SessionIdleBetweenCalls
<1> QED
    BY Invariance, <1>1, PTL

-----------------------------------------------------------------------------
\* At first no call is being made and the connection is there.
LEMMA AtomicInit == Init => Atomic!AInit
BY DEF Init, Atomic!AInit, Calls

\* The rows that the atomic insert stores are those of a call without an error.
LEMMA StoreIs ==
    ASSUME TypeOK, call \in Calls, table' = [table EXCEPT ![call] = Stored(items[call])]
    PROVE  Atomic!Store
<1>1. items[call] \in ItemCounts \cup {0}
    BY ItemsNat
<1>2. Stored(items[call]) = IF items[call] \in {n \in ItemCounts : Fits(n)}
                            THEN items[call] ELSE 0
    BY <1>1 DEF Stored
<1> QED
    BY <1>2 DEF Atomic!Store

\* Steps within a call are not seen from outside.
LEMMA SilentIsStutter ==
    ASSUME UNCHANGED <<call, items, outcome, table, conn>>, pc # "idle", pc' # "idle"
    PROVE  UNCHANGED Atomic!avars
BY DEF Atomic!avars

\* The refinement: each step of PgInsertData, and of the server, is the call,
\* the answer, the loss of the connection, or not seen from outside.
LEMMA AtomicStep == IInv /\ [Next]_vars => [Atomic!ANext]_(Atomic!avars)
<1> SUFFICES ASSUME IInv, [Next]_vars PROVE [Atomic!ANext]_(Atomic!avars)
    OBVIOUS
<1> USE DEF IInv
<1>1. CASE Call
  <2>1. Atomic!ACall
      BY <1>1 DEF Call, serverVars, Atomic!ACall
  <2> QED
      BY <2>1 DEF Atomic!ANext
<1>2. CASE \/ Begin \/ StartCopy \/ PutHeader \/ NoBuffer \/ PutData \/ PutDataFails
           \/ PutCopyEnd \/ PutCopyEndFails \/ CopyDone \/ CopyFails
  <2>1. UNCHANGED <<call, items, outcome, table, conn>> /\ pc # "idle" /\ pc' # "idle"
      BY <1>2 DEF Begin, StartCopy, PutHeader, NoBuffer, PutData, PutDataFails, PutCopyEnd,
                  PutCopyEndFails, CopyDone, CopyFails, Goto, serverVars
  <2> QED
      BY <2>1, SilentIsStutter
<1>3. CASE BeginFails \/ StartCopyFails \/ CommitFails \/ Rollback
  <2>1. /\ UNCHANGED <<items, table, call, conn>> /\ pc # "idle" /\ pc' = "idle"
        /\ outcome' = [outcome EXCEPT ![call] = "err"]
      BY <1>3 DEF BeginFails, StartCopyFails, CommitFails, Rollback, Return, serverVars
  <2>2. Atomic!AFailed
      BY <2>1 DEF Atomic!AFailed, Atomic!Answer
  <2> QED
      BY <2>2 DEF Atomic!ANext
<1>4. CASE Commit \/ CommitUnanswered
  <2>1. /\ conn = "up" /\ pc = "finish" /\ pc' = "idle" /\ UNCHANGED <<call, items>>
        /\ \/ outcome' = [outcome EXCEPT ![call] = "ok"] /\ conn' = conn
           \/ outcome' = [outcome EXCEPT ![call] = "err"] /\ conn' = "down"
      BY <1>4 DEF Commit, CommitUnanswered, Return
  <2>2. call \in Calls /\ table' = [table EXCEPT ![call] = Stored(items[call])]
      BY <1>4 DEF Commit, CommitUnanswered, OpenCallsEmpty, SessionFollows
  <2>3. Atomic!Store
      BY <2>2, StoreIs
  <2>4. Atomic!AStored \/ Atomic!AUnanswered
      BY <2>1, <2>3 DEF Atomic!AStored, Atomic!AUnanswered, Atomic!Answer
  <2> QED
      BY <2>4 DEF Atomic!ANext
<1>5. CASE ConnectionLost
  <2>1. conn = "up" /\ conn' = "down" /\ UNCHANGED <<pc, call, items, outcome, table>>
      BY <1>5 DEF ConnectionLost
  <2>2. Atomic!ALost
      BY <2>1 DEF Atomic!ALost
  <2> QED
      BY <2>2 DEF Atomic!ANext
<1>6. CASE UNCHANGED vars
    BY <1>6 DEF vars, serverVars, Atomic!avars
<1> QED
    BY <1>1, <1>2, <1>3, <1>4, <1>5, <1>6 DEF Next

\* PgInsertData implements the atomic insert, for any calls, rows, failures and
\* any loss of the connection: in the table and in its answers PgRun cannot
\* tell it from a call that stores all rows, or none, in one step.
THEOREM InsertIsAtomic == Spec => ImplementsAtomic
<1>1. Spec => []IInv
    BY Invariance
<1> QED
    BY <1>1, AtomicInit, AtomicStep, PTL DEF Spec, ImplementsAtomic, Atomic!ASpec
=============================================================================

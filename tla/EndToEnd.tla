------------------------------ MODULE EndToEnd ------------------------------
(***************************************************************************)
(* From the sensor to the table of the database: the two threads of        *)
(* ModbusWithPostgres, whose inserts are calls of AtomicInsert, which is   *)
(* what PgInsertData implements.                                           *)
(*                                                                         *)
(* ModbusWithPostgres knows what PgRun is told: the rows of the inserts    *)
(* that have answered 0 are in `table', those of the others in             *)
(* `discarded'.  Here the server has a table of its own.  The two differ   *)
(* when the answer to a COMMIT is lost with the connection, and when the   *)
(* conversion buffer has no room for the rows of an arena.                 *)
(***************************************************************************)
EXTENDS ModbusWithPostgres

CONSTANTS
    MaxInserts,  \* bound: calls of PgInsertData
    Storable     \* the numbers of rows that the conversion buffer has room for

ASSUME InsertAssumption == MaxInserts \in Nat /\ Storable \subseteq Nat

VARIABLES
    call,      \* inserts so far
    items,     \* items[k]: ItemCount of insert k
    outcome,   \* outcome[k]: its answer
    stored,    \* stored[k]: how many of its rows the server has
    lost,      \* the connection to the server is lost
    database,  \* the rows of the server's table
    unstored   \* history: rows of inserts that answered 0 and stored nothing

dbVars == <<call, items, outcome, stored, lost, database, unstored>>
allVars == <<vars, dbVars>>

Insert == INSTANCE AtomicInsert WITH
    MaxCalls <- MaxInserts,
    ItemCounts <- 0 .. ItemMax,
    busy <- pg = "insert",
    table <- stored

EndTypeOK ==
    /\ TypeOK
    /\ call \in 0 .. MaxInserts
    /\ items \in [1 .. MaxInserts -> 0 .. ItemMax]
    /\ outcome \in [1 .. MaxInserts -> {"none", "ok", "err"}]
    /\ stored \in [1 .. MaxInserts -> 0 .. ItemMax]
    /\ lost \in BOOLEAN
    /\ database \in Seq(Nat)
    /\ unstored \subseteq Nat

EndInit == Init /\ Insert!AInit /\ database = << >> /\ unstored = {}

-----------------------------------------------------------------------------
\* PgRun calls PgInsertData with all the rows of the arena.
StartInsert ==
    /\ CountItems
    /\ Insert!ACall /\ items'[call'] = itemCount'
    /\ UNCHANGED <<database, unstored>>

\* PgRun goes by the answer; what the server has done is another matter.
Answered ==
    \/ InsertCommits /\ Insert!AStored
    \/ InsertFails /\ (Insert!AFailed \/ Insert!AUnanswered)

EndInsert ==
    /\ Answered
    /\ database' = database \o SubSeq(txn, 1, stored'[call])
    /\ unstored' = IF outcome'[call] = "ok" /\ stored'[call] = 0
                     THEN unstored \cup Range(txn)
                     ELSE unstored

LoseConnection == UNCHANGED vars /\ Insert!ALost /\ UNCHANGED <<database, unstored>>

\* The steps of the two threads, and of the signal, away from an insert.
EndMbStep == MbStep /\ UNCHANGED dbVars

PgElsewhere ==
    \/ PgLoop \/ EpollReady \/ EpollTimeout \/ ReadRow \/ NextReadBuffer
    \/ ReaderPipeStep /\ UNCHANGED <<shutdown, mbVars, pgVars>>

EndPgStep == StartInsert \/ EndInsert \/ (PgElsewhere /\ UNCHANGED dbVars)

EndNext ==
    \/ EndMbStep \/ EndPgStep \/ LoseConnection
    \/ (RequestShutdown \/ Ended) /\ UNCHANGED dbVars

EndSpec == EndInit /\ [][EndNext]_allVars

\* The fairness of the two threads.  The connection need never be lost.
EndFairSpec == EndSpec /\ WF_allVars(EndMbStep) /\ WF_allVars(EndPgStep)

-----------------------------------------------------------------------------
\* Until a stale CurBuf has been written through, the server's table has
\* packets that were received, each once and in the order of arrival, also when
\* the connection is lost under a COMMIT (Modbus.c:151-203; Postgres.c:142-178).
DatabaseInOrder ==
    stray = {} =>
        /\ Range(database) \subseteq 1 .. sent
        /\ \A i, j \in DOMAIN database : i < j => database[i] < database[j]

\* The server has the rows of the inserts that have answered 0, in that order,
\* and nothing else but, after the connection has been lost, the rows of one
\* insert that has answered with an error: as long as the conversion buffer has
\* had room for the rows (DatabaseSystems/Postgres.c:467-475, 543-563).
DatabaseAsReported ==
    unstored = {} =>
        /\ Len(database) - Len(table) \in 0 .. ItemMax
        /\ \A i \in DOMAIN database :
              IF i <= Len(table) THEN database[i] = table[i]
                                 ELSE lost /\ database[i] \in discarded

DatabaseFaithful == DatabaseInOrder /\ DatabaseAsReported

\* A packet that later packets have overtaken into the server's table is there,
\* or was in an insert that PgRun has seen fail, or went through a stale CurBuf,
\* or was in an insert that had no room: there is no other way to lose one
\* between the socket and the table.
OnlyKnownLost ==
    \A p \in 1 .. sent :
        (\E q \in Range(database) : p < q) =>
            p \in Range(database) \cup discarded \cup stray \cup unstored
=============================================================================

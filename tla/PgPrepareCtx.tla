----------------------------- MODULE PgPrepareCtx -----------------------------
(***************************************************************************)
(* The preparation of a Postgres thread (the start of PgRun in             *)
(* DataHandlers/ModbusWithPostgres/Postgres.c, PgPrepareCtx and            *)
(* GetTableMetadata in DatabaseSystems/Postgres.c, DbInitGetConfFromFile   *)
(* in DatabaseSystems/DatabaseInitializer.c): its arenas are cut out of    *)
(* one allocation, the two configuration files are read, a connection is   *)
(* opened, and every sensor's table is created, described and made the     *)
(* geometry of the group's pipe.                                           *)
(*                                                                         *)
(* The thread is alone with all of this: the Modbus thread looks at the    *)
(* pipe only past the barrier.  What can go wrong is one step of several   *)
(* failing, so every step has its failures: files, JSON, the server, and a *)
(* push into an arena that the configuration made too small.  A push whose *)
(* NULL is used, a division by zero and a jump through memory that was     *)
(* never written end at "crashed".                                         *)
(***************************************************************************)
EXTENDS Integers, Sequences

CONSTANTS
    MaxSensors,   \* bound: sensors of sensor_schemas.json
    ColumnLens,   \* TypeLength of the columns that do occur; -1 is Postgres' word for "varies"
    GarbageRows,  \* what an unwritten RowSize may hold
    SizeModulus   \* size_t is counted modulo this

ASSUME PrepareAssumption ==
    /\ MaxSensors \in Nat
    /\ ColumnLens \subseteq Int
    /\ SizeModulus \in Nat \ {0}
    /\ GarbageRows \subseteq 0 .. SizeModulus - 1

VARIABLES
    pg,          \* where the thread is
    errno,       \* Errno: "0", "json" or "pg"
    arenas,      \* whether ScratchGet has an arena to give
    scratch,     \* what lies on the scratch arena above the position it had
    schema,      \* the tree of sensor_schemas.json
    pgCtx,       \* the variable PgCtx
    conn,        \* PgCtx->DbConn
    sensorCount, \* SensorCount
    tables,      \* PgCtx->TablesInfo, as far as it is written
    geometry     \* the fields of the group's pipe this thread reads or writes

pgVars == <<pg, errno, arenas, scratch, schema, pgCtx, conn, sensorCount, tables, geometry>>

Size == 0 .. SizeModulus - 1
PgPc == {"idle", "arenas", "conf", "schema", "ctx", "connect", "sensor", "create", "metadata",
         "columns", "describe", "cleanup", "epoll", "ready", "failed", "gaveup", "crashed"}
Block == {"conf", "creation", "metadata"}
\* described: the copy command is there.
Table == [rowSize: Size, described: BOOLEAN]
Geometry == [bufCount: Nat, cap: Nat, packetSize: Size, itemMaxCount: Nat, bufferMaxFill: Nat]

PgTypeOK ==
    /\ pg \in PgPc
    /\ errno \in {"0", "json", "pg"}
    /\ arenas \in BOOLEAN
    /\ scratch \in Seq(Block)
    /\ schema \in {"none", "parsed", "deleted"}
    /\ pgCtx \in {"unset", "set"}
    /\ conn \in {"none", "open", "refused", "finished"}
    /\ sensorCount \in 0 .. MaxSensors
    /\ tables \in Seq(Table) /\ Len(tables) <= MaxSensors
    /\ geometry \in Geometry

\* A pipe as SdpCreate leaves it: zeroed but for its arenas.
FreshGeometry(bufCount, cap) ==
    [bufCount |-> bufCount, cap |-> cap, packetSize |-> 0, itemMaxCount |-> 0, bufferMaxFill |-> 0]

PgInit ==
    /\ pg = "idle"
    /\ errno = "0"
    /\ arenas = FALSE
    /\ scratch = <<>>
    /\ schema = "none"
    /\ pgCtx = "unset"
    /\ conn = "none"
    /\ sensorCount = 0
    /\ tables = <<>>
    /\ geometry = FreshGeometry(0, 0)

-----------------------------------------------------------------------------
\* The thread goes on at a label; what it has is kept.
PgGoto(label) == pg' = label

\* Errno = e; goto cleanup.
FailWith(e) == errno' = e /\ pg' = "cleanup"

\* A push into a full arena returns a NULL that the code then writes through;
\* without scratch arenas there is not even an arena to push into.
PushFails ==
    /\ pg \in {"arenas", "ctx", "sensor", "metadata", "columns", "describe"}
    /\ pg = "sensor" => Len(tables) < sensorCount
    /\ PgGoto("crashed")
    /\ UNCHANGED <<errno, arenas, scratch, schema, pgCtx, conn, sensorCount, tables, geometry>>

SensorVars == <<sensorCount, tables, geometry>>

\* PgRun is called with the group's context.
PgStart(bufCount, cap) ==
    /\ pg = "idle"
    /\ PgGoto("arenas")
    /\ geometry' = FreshGeometry(bufCount, cap)
    /\ UNCHANGED <<errno, arenas, scratch, schema, pgCtx, conn, sensorCount, tables>>

\* PgRun allocates the arena and bootstraps the scratch arenas in it.  Without
\* memory the second one is laid out at an address near zero (PushFails); with
\* sizes too small for one there is none and the registered pointer is NULL.
MakeArenas ==
    /\ pg = "arenas"
    /\ PgGoto("conf")
    /\ arenas' \in BOOLEAN
    /\ UNCHANGED <<errno, scratch, schema, pgCtx, conn, SensorVars>>

\* The connection string's file goes on the scratch arena, or on the heap
\* when there is none; releasing a scratch arena that is not there crashes.
LoadConf ==
    /\ pg = "conf"
    /\ \/ /\ PgGoto("schema")
          /\ scratch' = IF arenas THEN Append(scratch, "conf") ELSE scratch
       \/ /\ PgGoto(IF arenas THEN "failed" ELSE "crashed")
          /\ UNCHANGED scratch
    /\ UNCHANGED <<errno, arenas, schema, pgCtx, conn, SensorVars>>

\* DbInitGetConfFromFile: the file's text is gone again when it returns, be
\* it parsed or not, and a file that could not be read has left nothing.
LoadSchema ==
    /\ pg = "schema"
    /\ \/ /\ schema' = "parsed"
          /\ sensorCount' \in 0 .. MaxSensors
          /\ PgGoto("ctx")
          /\ UNCHANGED errno
       \/ /\ schema' \in {"none", "parsed"}   \* no tree; or not an object, or without the array
          /\ FailWith("json")
          /\ UNCHANGED sensorCount
    /\ UNCHANGED <<arenas, scratch, pgCtx, conn, tables, geometry>>

\* PgCtx and TablesInfo are pushed on the thread's arena.
MakeCtx ==
    /\ pg = "ctx"
    /\ PgGoto("connect")
    /\ pgCtx' = "set"
    /\ UNCHANGED <<errno, arenas, scratch, schema, conn, SensorVars>>

Connect ==
    /\ pg = "connect"
    /\ \/ conn' = "open" /\ PgGoto("sensor") /\ UNCHANGED errno
       \/ conn' = "refused" /\ FailWith("pg")
    /\ UNCHANGED <<arenas, scratch, schema, pgCtx, SensorVars>>

\* The loop over the sensors: the next one is not an object or has no name,
\* or it gets a table info, pushed but not cleared, and its creation query.
TakeSensor ==
    /\ pg = "sensor" /\ Len(tables) < sensorCount
    /\ \/ FailWith("json") /\ UNCHANGED <<scratch, tables>>
       \/ /\ arenas
          /\ \E r \in GarbageRows : tables' = Append(tables, [rowSize |-> r, described |-> FALSE])
          /\ scratch' = Append(scratch, "creation")
          /\ PgGoto("create")
          /\ UNCHANGED errno
    /\ UNCHANGED <<arenas, schema, pgCtx, conn, sensorCount, geometry>>

\* The columns are appended to the query, which the server executes.
CreateTable ==
    /\ pg = "create"
    /\ \/ PgGoto("metadata") /\ UNCHANGED errno
       \/ FailWith("json")      \* no data, or an attribute that is not a string
       \/ FailWith("pg")        \* the server refuses the table
    /\ UNCHANGED <<arenas, scratch, schema, pgCtx, conn, SensorVars>>

\* GetTableMetadata: its query lies on a scratch arena of its own, which is
\* released before the rows are read.  A failed query, a full arena and a
\* table without any column are the caller's error.
ReadMetadata ==
    /\ pg = "metadata"
    /\ \/ PgGoto("columns") /\ UNCHANGED errno
       \/ FailWith("pg")
    /\ UNCHANGED <<arenas, scratch, schema, pgCtx, conn, SensorVars>>

\* *RowSize += TypeLength, a 32-bit number added to a size_t.
AddLength(rowSize, len) == (rowSize + len) % SizeModulus

\* The loop over the columns: the next one that is not auto-incremented.
ReadColumn ==
    /\ pg = "columns"
    /\ \E len \in ColumnLens :
         tables' = [tables EXCEPT ![Len(tables)].rowSize = AddLength(@, len)]
    /\ UNCHANGED <<pg, errno, arenas, scratch, schema, pgCtx, conn, sensorCount, geometry>>

\* The array of the columns is the caller's.
ColumnsDone ==
    /\ pg = "columns"
    /\ PgGoto("describe")
    /\ UNCHANGED <<errno, arenas, scratch, schema, pgCtx, conn, SensorVars>>

\* Faulty variant: a last row that fits in part is counted.
RowsPerArenaUp(cap, row) == (cap + row - 1) \div row

\* ItemMaxCount
RowsPerArena(cap, row) == cap \div row

\* The copy command is put together and the pipe takes the table's geometry:
\* without arenas to look at, or with rows of no size, there is none.
DescribeTable ==
    /\ pg = "describe"
    /\ LET row == tables[Len(tables)].rowSize
           fits == RowsPerArena(geometry.cap, row)
       IN IF geometry.bufCount = 0 \/ row = 0
          THEN PgGoto("crashed") /\ UNCHANGED <<tables, geometry>>
          ELSE /\ PgGoto("sensor")
               /\ tables' = [tables EXCEPT ![Len(tables)].described = TRUE]
               /\ geometry' = [geometry EXCEPT !.packetSize = row,
                                               !.itemMaxCount = fits,
                                               !.bufferMaxFill = row * fits]
    /\ UNCHANGED <<errno, arenas, scratch, schema, pgCtx, conn, sensorCount>>

SensorsDone ==
    /\ pg = "sensor" /\ Len(tables) = sensorCount
    /\ PgGoto("cleanup")
    /\ UNCHANGED <<errno, arenas, scratch, schema, pgCtx, conn, SensorVars>>

\* Faulty variant: only the server's errors finish the connection.
ConnAfterServerErrors == IF errno = "pg" /\ pgCtx = "set" THEN "finished" ELSE conn

ConnAfterErrors == IF errno # "0" /\ pgCtx = "set" THEN "finished" ELSE conn

\* cleanup: the tree is deleted, after an error the connection is finished,
\* the scratch arena goes back.  Jumped to before PgCtx is assigned, it reads
\* a connection out of whatever the variable holds: that crashes, or PQfinish
\* is handed a NULL and does nothing.
CleanUp ==
    /\ pg = "cleanup"
    /\ schema' = IF schema = "parsed" THEN "deleted" ELSE schema
    /\ conn' = ConnAfterErrors
    /\ \/ arenas /\ PgGoto(IF errno = "0" THEN "epoll" ELSE "failed")
       \/ ~arenas /\ PgGoto("crashed")
       \/ errno # "0" /\ pgCtx = "unset" /\ PgGoto("crashed")
    /\ scratch' = <<>>
    /\ UNCHANGED <<errno, arenas, pgCtx, SensorVars>>

\* PgRun goes on with what was prepared; if epoll fails it returns as it is,
\* connection and arena and all.
MakeEpoll ==
    /\ pg = "epoll"
    /\ pg' \in {"ready", "gaveup"}
    /\ UNCHANGED <<errno, arenas, scratch, schema, pgCtx, conn, SensorVars>>

PgNext ==
    \/ MakeArenas \/ LoadConf \/ LoadSchema \/ MakeCtx \/ Connect
    \/ TakeSensor \/ CreateTable \/ ReadMetadata \/ ReadColumn \/ ColumnsDone \/ DescribeTable
    \/ SensorsDone \/ CleanUp \/ MakeEpoll \/ PushFails

-----------------------------------------------------------------------------
\* Whichever step has failed, a PgPrepareCtx that returns has deleted the
\* schema and given back its scratch arena, and one that returns NULL has no
\* connection open (Postgres.c:338-351).
PrepareReleases ==
    pg \in {"epoll", "ready", "failed", "gaveup"} =>
        /\ schema # "parsed"
        /\ scratch = <<>>
        /\ pg = "failed" => conn # "open"

\* A thread that gets to the barrier has described every sensor's table, and
\* its pipe holds whole rows of the last one within its arenas, whatever the
\* size of the arenas and the lengths of the columns (Postgres.c:326-335).
GeometryFits ==
    pg = "ready" =>
        /\ Len(tables) = sensorCount
        /\ \A i \in 1 .. sensorCount : tables[i].described
        /\ conn = "open"
        /\ geometry.bufferMaxFill <= geometry.cap
        /\ sensorCount > 0 =>
            /\ geometry.packetSize = tables[sensorCount].rowSize
            /\ geometry.cap - geometry.bufferMaxFill < geometry.packetSize
=============================================================================

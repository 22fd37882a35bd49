---------------------------- MODULE AtomicInsert ----------------------------
(***************************************************************************)
(* What PgInsertData promises PgRun, without transactions, COPY or the     *)
(* session: a call stores all of its rows in one step, or none, and its    *)
(* answer says which.  Once the connection is lost nothing is stored any   *)
(* more; a call that it is lost under may have stored its rows and still   *)
(* answer with an error.                                                   *)
(***************************************************************************)
EXTENDS Naturals

CONSTANTS MaxCalls,   \* calls
          ItemCounts, \* the numbers of rows a call may be given
          Storable    \* those that the conversion buffer has room for

VARIABLES
    busy,     \* a call is being made
    call,     \* calls made so far
    items,    \* items[k]: rows given to call k
    outcome,  \* outcome[k]: its answer
    table,    \* table[k]: its rows that are stored
    lost      \* the connection is lost

avars == <<busy, call, items, outcome, table, lost>>

AInit ==
    /\ busy = FALSE
    /\ call = 0
    /\ items = [k \in 1 .. MaxCalls |-> 0]
    /\ outcome = [k \in 1 .. MaxCalls |-> "none"]
    /\ table = [k \in 1 .. MaxCalls |-> 0]
    /\ lost = FALSE

ACall ==
    /\ ~busy /\ call < MaxCalls
    /\ busy' = TRUE
    /\ call' = call + 1
    /\ \E n \in ItemCounts : items' = [items EXCEPT ![call + 1] = n]
    /\ UNCHANGED <<outcome, table, lost>>

\* A call whose rows have no room in the conversion buffer stores nothing
\* without an error.
Store == table' = [table EXCEPT ![call] = IF items[call] \in Storable THEN items[call] ELSE 0]

Answer(answer) ==
    /\ busy' = FALSE
    /\ outcome' = [outcome EXCEPT ![call] = answer]
    /\ UNCHANGED <<call, items>>

AStored ==
    /\ busy /\ ~lost
    /\ Store
    /\ Answer("ok")
    /\ UNCHANGED lost

AFailed ==
    /\ busy
    /\ Answer("err")
    /\ UNCHANGED <<table, lost>>

AUnanswered ==
    /\ busy /\ ~lost
    /\ Store
    /\ lost' = TRUE
    /\ Answer("err")

ALost ==
    /\ ~lost
    /\ lost' = TRUE
    /\ UNCHANGED <<busy, call, items, outcome, table>>

ANext == ACall \/ AStored \/ AFailed \/ AUnanswered \/ ALost

ASpec == AInit /\ [][ANext]_avars
=============================================================================

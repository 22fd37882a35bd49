----------------------------- MODULE ArenaQueue -----------------------------
(***************************************************************************)
(* What the sensor data pipe promises its two users, without arenas being  *)
(* reused, indices or event counters: a first-in first-out queue of        *)
(* batches.  The writer fills the open batch and publishes it, the reader  *)
(* acquires the oldest published batch and reads it to the end.            *)
(***************************************************************************)
EXTENDS Naturals, Sequences

CONSTANTS Capacity,  \* published batches that may wait
          BatchMax,  \* packets in a full batch
          Total      \* packets to send

VARIABLES open, queue, held, sent, received

qvars == <<open, queue, held, sent, received>>

QInit ==
    /\ open = << >>
    /\ queue = << >>
    /\ held = << >>
    /\ sent = 0
    /\ received = << >>

Put ==
    /\ sent < Total
    /\ Len(open) < BatchMax
    /\ open' = Append(open, sent + 1)
    /\ sent' = sent + 1
    /\ UNCHANGED <<queue, held, received>>

Publish ==
    /\ open # << >>
    /\ Len(queue) < Capacity
    /\ queue' = Append(queue, open)
    /\ open' = << >>
    /\ UNCHANGED <<held, sent, received>>

Acquire ==
    /\ held = << >>
    /\ queue # << >>
    /\ held' = Head(queue)
    /\ queue' = Tail(queue)
    /\ UNCHANGED <<open, sent, received>>

Take ==
    /\ held # << >>
    /\ received' = Append(received, Head(held))
    /\ held' = Tail(held)
    /\ UNCHANGED <<open, queue, sent>>

QNext == Put \/ Publish \/ Acquire \/ Take

\* A batch that is waiting is acquired and read to its end.
QSpec == QInit /\ [][QNext]_qvars /\ WF_qvars(Acquire) /\ WF_qvars(Take)
=============================================================================

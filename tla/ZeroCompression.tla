---------------------------- MODULE ZeroCompression ----------------------------
(***************************************************************************)
(* poc/ZeroCompression: packets whose values are all zero are not stored   *)
(* but accounted for.  FullRLEZeroCompression keeps the streak of zero     *)
(* packets that is going on in static variables and stores it as one row   *)
(* when it ends; StoreAndRemoveAllMetaData filters a block of packets.  A  *)
(* packet is the time of its measurement, which is also its place in the   *)
(* stream, and whether its values are zero.                                *)
(***************************************************************************)
EXTENDS Integers, Sequences, FiniteSets

CONSTANTS
    MaxPacketsPerCall,   \* bound: packets of one call
    MaxTime              \* bound: packets in all

ASSUME ZeroAssumption == MaxPacketsPerCall \in Nat /\ MaxTime \in Nat

VARIABLES
    startOfRLE, lastZeroEnd, zeroCount,   \* the static variables; time 0 is ZEROTIMESTAMP
    rleRows,      \* the table ShaftPowerMetaDataRLEWhenZero
    filtered,     \* what StoreAndRemoveAllMetaData has returned
    stream,       \* whether the packets so far are zero
    examined,     \* the packets the compressor has looked at
    unstored      \* the zero packets whose row could not be inserted

zeroVars == <<startOfRLE, lastZeroEnd, zeroCount, rleRows, filtered, stream, examined, unstored>>

Time == 0 .. MaxTime
Row == [start : Time, end : Time, length : Time]

ZeroTypeOK ==
    /\ startOfRLE \in Time /\ lastZeroEnd \in Time /\ zeroCount \in Time
    /\ rleRows \subseteq Row
    /\ filtered \subseteq Time
    /\ stream \in Seq(BOOLEAN) /\ Len(stream) <= MaxTime
    /\ examined \subseteq 1 .. Len(stream) /\ unstored \subseteq examined

ZeroInit ==
    /\ startOfRLE = 0 /\ lastZeroEnd = 0 /\ zeroCount = 0
    /\ rleRows = {} /\ filtered = {} /\ stream = <<>>
    /\ examined = {} /\ unstored = {}

-----------------------------------------------------------------------------
\* The packets of the next call.
NextPackets == UNION {[1 .. n -> BOOLEAN] : n \in 0 .. MaxPacketsPerCall}

ZerosOf(s) == {t \in 1 .. Len(s) : s[t]}
Streak == {t \in examined : stream[t] /\ startOfRLE # 0 /\ t >= startOfRLE}

\* Faulty variant: the next streak is taken to begin with the last.
NextStartKept == startOfRLE

NextStart == 0

\* FullRLEZeroCompression: both branches of the loop return, so of a call's
\* packets the first is looked at, and the others are not.  A packet that is
\* not zero stores the streak, an empty one too, and starts over whether that
\* has succeeded or not.
FullRLEZeroCompression ==
    \E packets \in NextPackets :
        LET now == Len(stream) + 1 IN
        /\ Len(stream) + Len(packets) <= MaxTime
        /\ stream' = stream \o packets
        /\ IF packets = <<>> THEN UNCHANGED <<startOfRLE, lastZeroEnd, zeroCount, rleRows,
                                               examined, unstored>>
           ELSE /\ examined' = examined \cup {now}
                /\ IF packets[1]
                   THEN /\ startOfRLE' = IF startOfRLE = 0 THEN now ELSE startOfRLE
                        /\ lastZeroEnd' = now
                        /\ zeroCount' = zeroCount + 1
                        /\ UNCHANGED <<rleRows, unstored>>
                   ELSE /\ \/ /\ rleRows' = rleRows \cup
                                    {[start |-> startOfRLE, end |-> lastZeroEnd,
                                      length |-> zeroCount]}
                              /\ UNCHANGED unstored
                           \/ unstored' = unstored \cup Streak /\ UNCHANGED rleRows
                        /\ startOfRLE' = NextStart /\ lastZeroEnd' = 0 /\ zeroCount' = 0
        /\ UNCHANGED filtered

\* StoreAndRemoveAllMetaData: the packets that are not zero, in their order, which
\* is that of their times.  Of the others StoreMetaData keeps nothing: its query
\* still has a %s in it, so the server refuses it, and the result is not looked at.
\* Without memory for them there is no answer.
StoreAndRemoveAllMetaData ==
    \E packets \in NextPackets :
        /\ Len(stream) + Len(packets) <= MaxTime
        /\ stream' = stream \o packets
        /\ filtered' \in {{Len(stream) + i : i \in {j \in DOMAIN packets : ~packets[j]}}, {}}
        /\ UNCHANGED <<startOfRLE, lastZeroEnd, zeroCount, rleRows, examined, unstored>>

ZeroNext == FullRLEZeroCompression \/ StoreAndRemoveAllMetaData

-----------------------------------------------------------------------------
Within(row) == {t \in examined : row.start <= t /\ t <= row.end}

\* The rows say when and how often the packets that were looked at were zero:
\* a row's packets are all zero and as many as it says, no packet is in two
\* rows, and every zero packet is in a row, in the streak that is going on, or
\* in a row that could not be inserted (ZeroValuesCompressor.c:294-318).
RunsAccountForZeros ==
    /\ \A row \in rleRows : row.length > 0 =>
         Within(row) \subseteq ZerosOf(stream) /\ Cardinality(Within(row)) = row.length
    /\ \A r, q \in rleRows : r # q => Within(r) \cap Within(q) = {}
    /\ examined \cap ZerosOf(stream) =
         (UNION {Within(row) : row \in rleRows}) \cup Streak \cup unstored
    /\ zeroCount = Cardinality(Streak)
=============================================================================

------------------------------ MODULE SdbMemory ------------------------------
(***************************************************************************)
(* The memory of one thread (Sdb.h): arenas that only grow and are cut     *)
(* back, scratch arenas that a function takes for the time it runs, and    *)
(* strings that grow in place at the end of an arena.                      *)
(*                                                                         *)
(* Nothing in memory says what is still used, so the model keeps it:       *)
(* blocks is what the functions that are running still count on.  A        *)
(* function is a frame.  It takes a scratch arena without naming a         *)
(* conflict (PgPrepareCtx, PgInsertData), or naming the arena its caller   *)
(* wants the results in (GetTableMetadata), or cuts into its caller's own  *)
(* scratch (DbInitGetConfFromFile).  Callers keep to what Sdb.h:394 asks:  *)
(* a string grows, and anything is popped, only at the end of its arena.   *)
(* A full arena answers NULL; what becomes of callers that do not test     *)
(* for it is in module PgPrepareCtx.                                       *)
(***************************************************************************)
EXTENDS Integers, Sequences

CONSTANTS
    ScratchCount,  \* scratch arenas of the thread (PG_SCRATCH_COUNT)
    Cap,           \* Cap of every arena
    MaxDepth,      \* bound: functions that run at once
    MaxPush        \* bound: bytes of one push, characters of one string

ASSUME MemoryAssumption ==
    /\ ScratchCount \in Nat \ {0} /\ Cap \in Nat
    /\ MaxDepth \in Nat /\ MaxPush \in Nat

VARIABLES
    cur,     \* cur[a]: Cur of arena a; arena 0 is the thread's own
    frames,  \* the functions that run, the innermost last
    blocks   \* the allocations in use

memVars == <<cur, frames, blocks>>

Scratch == 1 .. ScratchCount
Arena == 0 .. ScratchCount
NoArena == -1
HeaderSize == 1   \* sizeof(sdb_string_header), in the unit of the sizes

\* passed: the arena for the results, which belong to frame owner; the frames
\* count from 1, and 0 is the thread function with the thread's own arena.
\* mark: the position of that arena at the call.
Frame == [arena: Arena, f5: 0 .. Cap,
          passed: Arena \cup {NoArena}, mark: 0 .. Cap, owner: 0 .. MaxDepth]
String == [len: 0 .. Cap, cap: 0 .. Cap, terminated: BOOLEAN]
NoString == [len |-> 0, cap |-> 0, terminated |-> TRUE]
\* frame: the function whose return ends the use of the block.
Block == [arena: Arena, at: 0 .. Cap, size: 1 .. Cap, frame: 0 .. MaxDepth,
          kind: {"raw", "string"}, str: String]

MemTypeOK ==
    /\ cur \in [Arena -> 0 .. Cap]
    /\ frames \in Seq(Frame) /\ Len(frames) <= MaxDepth
    /\ blocks \subseteq Block

MemInit ==
    /\ cur = [a \in Arena |-> 0]
    /\ frames = <<>>
    /\ blocks = {}

-----------------------------------------------------------------------------
depth == Len(frames)
top == frames[depth]

\* Faulty variant: the conflicts are not looked at.
ScratchGetAny(conflicts) == 1

\* Sdb__ScratchGet__ with at most one conflict: the first arena but that one.
ScratchGet(conflicts) ==
    IF \E a \in Scratch : a \notin conflicts
    THEN CHOOSE a \in Scratch : a \notin conflicts /\ \A b \in Scratch : b < a => b \in conflicts
    ELSE NoArena

\* The arenas the innermost function can push to, and whose block that is.
Target(a, owner) ==
    IF depth = 0 THEN a = 0 /\ owner = 0
    ELSE \/ a = top.arena /\ owner = depth
         \/ a = top.passed /\ owner = top.owner

\* SdbScratchBegin
Enter(a, passed, owner) ==
    /\ depth < MaxDepth
    /\ a # NoArena
    /\ frames' = Append(frames, [arena |-> a, f5 |-> cur[a],
                               passed |-> passed, owner |-> owner,
                               mark |-> IF passed = NoArena THEN 0 ELSE cur[passed]])
    /\ UNCHANGED <<cur, blocks>>

\* SdbScratchGet(NULL, 0)
CallPlain == Enter(ScratchGet({}), NoArena, 0)

\* A function that pushes its results to an arena and names it as a conflict.
CallForResults ==
    \E a \in Arena, owner \in 0 .. MaxDepth :
        Target(a, owner) /\ Enter(ScratchGet({a}), a, owner)

\* SdbScratchBegin on the caller's own scratch arena.
CallOnScratch == depth > 0 /\ Enter(top.arena, NoArena, 0)

\* Sdb__ScratchRelease__ seeks back to the position it was given, the function
\* returns, and with it goes what it alone has used.
Return ==
    /\ depth > 0
    /\ cur' = [cur EXCEPT ![top.arena] = top.f5]
    /\ frames' = SubSeq(frames, 1, depth - 1)
    /\ blocks' = {b \in blocks : b.frame < depth}

-----------------------------------------------------------------------------
\* SdbArenaPush, when there is room.
PushBlock(size, kind, str) ==
    \E a \in Arena, owner \in 0 .. MaxDepth :
        /\ Target(a, owner)
        /\ cur[a] + size <= Cap
        /\ cur' = [cur EXCEPT ![a] = @ + size]
        /\ blocks' = blocks \cup {[arena |-> a, at |-> cur[a], size |-> size, frame |-> owner,
                                   kind |-> kind, str |-> str]}
        /\ UNCHANGED frames

Push == \E size \in 1 .. MaxPush : PushBlock(size, "raw", NoString)

\* Sdb__StringMake__.  Room for the terminator is always there; but what is
\* made of an empty string, and not of NULL, is not given one, so it is
\* terminated only if the memory happens to hold a zero.
StringMake ==
    \E len \in 0 .. MaxPush : \E terminated \in BOOLEAN :
        /\ len > 0 => terminated
        /\ PushBlock(HeaderSize + len + 1, "string",
                     [len |-> len, cap |-> len, terminated |-> terminated])

\* The innermost function changes what it has itself pushed.
Reachable(b) ==
    IF depth = 0 THEN b.frame = 0
    ELSE \/ b.arena = top.arena /\ b.frame = depth
         \/ b.arena = top.passed /\ b.frame = top.owner /\ b.at >= top.mark

AtEnd(b) == b.at + b.size = cur[b.arena]

Replace(b, c) == blocks' = (blocks \ {b}) \cup {c}

\* SdbStringFree, and the SdbArenaPop of a file that could not be read.
Pop ==
    \E b \in blocks :
        /\ Reachable(b) /\ AtEnd(b)
        /\ cur' = [cur EXCEPT ![b.arena] = @ - b.size]
        /\ blocks' = blocks \ {b}
        /\ UNCHANGED frames

\* Faulty variant: the capacity is taken for the free space.
AvailableCapacity(b) == b.str.cap

\* SdbStringAvailableSpace
AvailableSpace(b) == b.str.cap - b.str.len

\* A string that is given add bytes more and holds len characters.
Resized(b, add, len) ==
    [b EXCEPT !.size = @ + add,
              !.str = [len |-> len, cap |-> @.cap + add, terminated |-> TRUE]]

\* Sdb__StringAppend__ and SdbStringSet, to len characters after SdbStringMakeSpace
\* for add, which reserves all of add when there is too little for it; without
\* the space they return NULL and change nothing.
Write(b, add, len) ==
    IF AvailableSpace(b) >= add
    THEN Replace(b, Resized(b, 0, len)) /\ UNCHANGED cur
    ELSE /\ AtEnd(b)
         /\ cur[b.arena] + add <= Cap
         /\ cur' = [cur EXCEPT ![b.arena] = @ + add]
         /\ Replace(b, Resized(b, add, len))

StringAppend ==
    \E b \in blocks : \E add \in 0 .. MaxPush :
        /\ b.kind = "string" /\ Reachable(b)
        /\ Write(b, add, b.str.len + add)
        /\ UNCHANGED frames

StringSet ==
    \E b \in blocks : \E len \in 0 .. MaxPush :
        /\ b.kind = "string" /\ Reachable(b)
        /\ Write(b, len, len)
        /\ UNCHANGED frames

\* SdbStringBackspace of no more than there is, and SdbStringClear.
StringShorten ==
    \E b \in blocks : \E len \in 0 .. Cap :
        /\ b.kind = "string" /\ Reachable(b)
        /\ len <= b.str.len
        /\ Replace(b, Resized(b, 0, len))
        /\ UNCHANGED <<cur, frames>>

MemNext ==
    \/ CallPlain \/ CallForResults \/ CallOnScratch \/ Return
    \/ Push \/ StringMake \/ Pop
    \/ StringAppend \/ StringSet \/ StringShorten

MemSpec == MemInit /\ [][MemNext]_memVars

-----------------------------------------------------------------------------
\* Whatever calls whatever with whichever arena for its results, nothing in use
\* is cut off by the release of a scratch arena or given out a second time:
\* it lies below its arena's position, and apart from all else that is in use
\* (Sdb.h:1026-1051).
BlocksIntact ==
    /\ \A b \in blocks : b.at + b.size <= cur[b.arena]
    /\ \A b, c \in blocks :
         b # c /\ b.arena = c.arena => b.at + b.size <= c.at \/ c.at + c.size <= b.at

\* A string's characters and its terminator stay within the block it was given,
\* through every append, set and backspace, and only a string made of an empty
\* one and not written since lacks the terminator (Sdb.h:1151-1288).
StringsFit ==
    \A b \in blocks : b.kind = "string" =>
        /\ b.str.len <= b.str.cap
        /\ b.size = HeaderSize + b.str.cap + 1
        /\ ~b.str.terminated => b.str.len = 0

\* What a function still uses of the memory of its thread is not cut off, given
\* out again, or outgrown (Sdb.h:1017-1301).
MemoryIntact == BlocksIntact /\ StringsFit
=============================================================================

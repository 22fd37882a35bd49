------------------------------ MODULE SupportProofs ------------------------------
(***************************************************************************)
(* Theorems about the parts that module Support puts side by side: the     *)
(* memory of a thread, thread control, the compressor of zero packets, the *)
(* circular buffer with the metrics, timed waits, and logging and signals  *)
(* (the trees of cJSON have a module of their own, JsonProofs); and, at    *)
(* the end, about the parts together.  Each part shares no state with the  *)
(* others, so its theorems are about its own specification first.          *)
(***************************************************************************)
EXTENDS Support, JsonProofs, FiniteSetTheorems, TLAPS

-----------------------------------------------------------------------------
(***************************************************************************)
(* The memory of a thread (SdbMemory), for any number and size of arenas,  *)
(* any depth of calls and any sizes of what is pushed.                     *)
(*                                                                         *)
(* MemoryIntact is not inductive: the release of a scratch arena is safe   *)
(* only because nothing that outlives the function was pushed on that      *)
(* arena since (BlocksBelow), which in turn holds because the arena a      *)
(* function pushes its results to is none that a function between it and   *)
(* the owner of the results has taken (FramesApart).                       *)
(***************************************************************************)
\* No function from the one above the owner of the results down to the one that
\* makes them has taken the arena of the results as its scratch arena.
FramesApart ==
    \A j \in 1 .. Len(frames) : frames[j].passed # NoArena =>
        \A i \in 1 .. j : frames[j].owner < i => frames[i].arena # frames[j].passed

\* On the arena a function has taken, what its callers use lies below the
\* position the function goes back to.
BlocksBelow ==
    \A b \in blocks : \A i \in 1 .. Len(frames) :
        b.arena = frames[i].arena /\ b.frame < i => b.at + b.size <= frames[i].f5

MemInv == MemTypeOK /\ BlocksIntact /\ StringsFit /\ FramesApart /\ BlocksBelow

-----------------------------------------------------------------------------
\* Sdb__ScratchGet__ without a conflict: the first of the thread's arenas.
LEMMA ScratchGetPlain == ScratchGet({}) \in Scratch
<1>1. 1 \in Scratch
  BY MemoryAssumption DEF Scratch
<1>2. \E a \in Scratch : a \notin {} /\ \A b \in Scratch : b < a => b \in {}
  BY <1>1 DEF Scratch
<1> QED
  BY <1>1, <1>2 DEF ScratchGet

\* Sdb__ScratchGet__ with one conflict: one of the thread's arenas but not that
\* one, or none.
LEMMA ScratchGetApart ==
    ASSUME NEW x \in Arena, ScratchGet({x}) # NoArena
    PROVE  ScratchGet({x}) \in Scratch /\ ScratchGet({x}) # x
<1>1. \E a \in Scratch : a \notin {x}
  BY DEF ScratchGet
<1>2. \E a \in Scratch : a \notin {x} /\ \A b \in Scratch : b < a => b \in {x}
  <2>1. CASE x = 1
    <3>1. 2 \in Scratch
      BY <1>1, <2>1, MemoryAssumption DEF Scratch
    <3> QED
      BY <2>1, <3>1 DEF Scratch
  <2>2. CASE x # 1
    <3>1. 1 \in Scratch
      BY MemoryAssumption DEF Scratch
    <3> QED
      BY <2>2, <3>1 DEF Scratch
  <2> QED
    BY <2>1, <2>2
<1> QED
  BY <1>1, <1>2 DEF ScratchGet

\* Sizes are natural numbers.
LEMMA Sizes == Cap \in Nat /\ MaxDepth \in Nat /\ MaxPush \in Nat /\ HeaderSize = 1
               /\ NoArena \notin Arena /\ 0 \in Arena /\ Scratch \subseteq Arena /\ Arena \subseteq Int
  BY MemoryAssumption DEF HeaderSize, NoArena, Arena, Scratch

\* What the types say of a block in use.
LEMMA KnownBlock ==
    ASSUME MemInv, NEW b \in blocks
    PROVE  /\ cur \in [Arena -> 0 .. Cap] /\ blocks \subseteq Block /\ b \in Block
           /\ b.arena \in Arena /\ b.at \in 0 .. Cap /\ b.size \in 1 .. Cap
           /\ b.frame \in 0 .. MaxDepth /\ cur[b.arena] \in 0 .. Cap
           /\ b.str.cap \in 0 .. Cap /\ b.str.len \in 0 .. Cap
<1>1. cur \in [Arena -> 0 .. Cap] /\ blocks \subseteq Block
  BY DEF MemInv, MemTypeOK
<1>2. b \in Block
  BY <1>1
<1>3. /\ b.arena \in Arena /\ b.at \in 0 .. Cap /\ b.size \in 1 .. Cap
      /\ b.frame \in 0 .. MaxDepth /\ b.str \in String
  BY <1>2 DEF Block
<1>4. b.str.cap \in 0 .. Cap /\ b.str.len \in 0 .. Cap
  BY <1>3 DEF String
<1> QED
  BY <1>1, <1>2, <1>3, <1>4

\* A thread starts with empty arenas.
LEMMA MemInitHolds == MemInit => MemInv
<1> SUFFICES ASSUME MemInit PROVE MemInv
  OBVIOUS
<1>1. MemTypeOK
  BY Sizes DEF MemInit, MemTypeOK
<1>2. BlocksIntact /\ StringsFit /\ FramesApart /\ BlocksBelow
  BY DEF MemInit, BlocksIntact, StringsFit, FramesApart, BlocksBelow
<1> QED
  BY <1>1, <1>2 DEF MemInv

-----------------------------------------------------------------------------
\* A function that is called: the blocks stay, and the new frame keeps to the
\* arenas of the others when its arena is not the one of its results.
LEMMA EnterKeeps ==
    ASSUME MemInv,
           NEW a \in Arena, NEW passed \in Arena \cup {NoArena}, NEW keeper \in 0 .. MaxDepth,
           Enter(a, passed, keeper),
           passed # NoArena =>
               a # passed /\ \A i \in 1 .. depth : keeper < i => frames[i].arena # passed
    PROVE  MemInv'
<1> DEFINE new == [arena |-> a, f5 |-> cur[a], passed |-> passed, owner |-> keeper,
                   mark |-> IF passed = NoArena THEN 0 ELSE cur[passed]]
<1>1. new \in Frame
  <2>1. cur \in [Arena -> 0 .. Cap]
    BY DEF MemInv, MemTypeOK
  <2>2. new.mark \in 0 .. Cap
    BY <2>1, Sizes
  <2>3. cur[a] \in 0 .. Cap
    BY <2>1
  <2> QED
    BY <2>2, <2>3 DEF Frame
<1>2. /\ frames \in Seq(Frame) /\ depth = Len(frames) /\ depth < MaxDepth
      /\ frames' = Append(frames, new) /\ cur' = cur /\ blocks' = blocks
  BY DEF MemInv, MemTypeOK, Enter, depth
<1> HIDE DEF new
<1>3. /\ frames' \in Seq(Frame) /\ Len(frames') = Len(frames) + 1
      /\ frames'[Len(frames) + 1] = new
      /\ \A i \in 1 .. Len(frames) : frames'[i] = frames[i]
  BY <1>1, <1>2
<1>4. MemTypeOK'
  BY <1>2, <1>3, Sizes DEF MemInv, MemTypeOK
<1>5. BlocksIntact' /\ StringsFit'
  BY <1>2 DEF MemInv, BlocksIntact, StringsFit
<1>6. FramesApart'
  <2> SUFFICES ASSUME NEW j \in 1 .. Len(frames) + 1, frames'[j].passed # NoArena,
                      NEW i \in 1 .. j, frames'[j].owner < i
               PROVE  frames'[i].arena # frames'[j].passed
    BY <1>3 DEF FramesApart
  <2>1. CASE j <= Len(frames)
    <3>1. i \in 1 .. Len(frames) /\ j \in 1 .. Len(frames)
      BY <2>1, <1>2
    <3> QED
      BY <1>3, <3>1 DEF MemInv, FramesApart
  <2>2. CASE j = Len(frames) + 1
    <3>1. frames'[j].passed = passed /\ frames'[j].owner = keeper
      BY <1>3, <2>2 DEF new
    <3>2. CASE i = j
      BY <3>1, <3>2, <2>2, <1>3 DEF new
    <3>3. CASE i # j
      <4>1. i \in 1 .. Len(frames)
        BY <2>2, <3>3, <1>2
      <4> QED
        BY <3>1, <4>1, <1>2, <1>3
    <3> QED
      BY <3>2, <3>3
  <2> QED
    BY <2>1, <2>2, <1>2
<1>7. BlocksBelow'
  <2> SUFFICES ASSUME NEW b \in blocks, NEW i \in 1 .. Len(frames) + 1,
                      b.arena = frames'[i].arena, b.frame < i
               PROVE  b.at + b.size <= frames'[i].f5
    BY <1>2, <1>3 DEF BlocksBelow
  <2>1. CASE i <= Len(frames)
    BY <1>2, <1>3, <2>1 DEF MemInv, BlocksBelow
  <2>2. CASE i = Len(frames) + 1
    BY <1>3, <2>2 DEF MemInv, BlocksIntact, new
  <2> QED
    BY <2>1, <2>2, <1>2
<1> QED
  BY <1>4, <1>5, <1>6, <1>7 DEF MemInv

\* The three ways to be called.
LEMMA CallsKeep ==
    ASSUME MemInv, CallPlain \/ CallForResults \/ CallOnScratch
    PROVE  MemInv'
<1>1. CASE CallPlain
  <2>1. ScratchGet({}) \in Arena
    BY ScratchGetPlain, Sizes
  <2>2. 0 \in 0 .. MaxDepth
    BY Sizes
  <2> QED
    BY <1>1, <2>1, <2>2, EnterKeeps DEF CallPlain
<1>2. CASE CallForResults
  <2>1. PICK a \in Arena, keeper \in 0 .. MaxDepth :
               Target(a, keeper) /\ Enter(ScratchGet({a}), a, keeper)
    BY <1>2 DEF CallForResults
  <2>2. ScratchGet({a}) # NoArena
    BY <2>1 DEF Enter
  <2>3. ScratchGet({a}) \in Arena /\ ScratchGet({a}) # a
    BY <2>2, ScratchGetApart, Sizes
  <2>4. frames \in Seq(Frame) /\ depth \in Nat /\ depth = Len(frames)
    BY DEF MemInv, MemTypeOK, depth
  <2>5. \A i \in 1 .. depth : keeper < i => frames[i].arena # a
    <3>1. CASE depth = 0
      BY <3>1
    <3>2. CASE depth # 0 /\ a = top.arena /\ keeper = depth
      BY <3>2, <2>4
    <3>3. CASE depth # 0 /\ a = top.passed /\ keeper = top.owner
      BY <3>3, <2>4, Sizes DEF MemInv, FramesApart, top
    <3> QED
      BY <2>1, <3>1, <3>2, <3>3 DEF Target
  <2> QED
    BY <2>1, <2>3, <2>5, EnterKeeps
<1>3. CASE CallOnScratch
  <2>1. frames \in Seq(Frame) /\ depth \in Nat /\ depth = Len(frames) /\ depth > 0
    BY <1>3 DEF MemInv, MemTypeOK, depth, CallOnScratch
  <2>2. top.arena \in Arena
    <3>1. top \in Frame
      BY <2>1 DEF top
    <3> QED
      BY <3>1 DEF Frame
  <2>3. 0 \in 0 .. MaxDepth
    BY Sizes
  <2> QED
    BY <1>3, <2>2, <2>3, EnterKeeps DEF CallOnScratch
<1> QED
  BY <1>1, <1>2, <1>3

-----------------------------------------------------------------------------
\* A function that returns: what its callers use on its arena lies below the
\* position the release goes back to.
LEMMA ReturnKeeps ==
    ASSUME MemInv, Return
    PROVE  MemInv'
<1>1. /\ frames \in Seq(Frame) /\ depth = Len(frames) /\ depth \in Nat /\ depth > 0
      /\ cur \in [Arena -> 0 .. Cap] /\ blocks \subseteq Block
      /\ cur' = [cur EXCEPT ![top.arena] = top.f5]
      /\ blocks' = {b \in blocks : b.frame < depth}
      /\ frames' = SubSeq(frames, 1, depth - 1)
  BY DEF MemInv, MemTypeOK, Return, depth
<1>2. top = frames[Len(frames)] /\ top.arena \in Arena /\ top.f5 \in 0 .. Cap
  <2>1. top = frames[Len(frames)] /\ top \in Frame
    BY <1>1 DEF top
  <2> QED
    BY <2>1 DEF Frame
<1>3. /\ frames' \in Seq(Frame) /\ Len(frames') = Len(frames) - 1
      /\ \A i \in 1 .. Len(frames) - 1 : frames'[i] = frames[i]
  BY <1>1
<1>4. MemTypeOK'
  <2>1. cur' \in [Arena -> 0 .. Cap]
    BY <1>1, <1>2
  <2>2. Len(frames') <= MaxDepth
    BY <1>1, <1>3, Sizes DEF MemInv, MemTypeOK
  <2>3. blocks' \subseteq Block
    BY <1>1
  <2> QED
    BY <1>3, <2>1, <2>2, <2>3 DEF MemTypeOK
<1>5. BlocksIntact'
  <2>1. \A b \in blocks' : b.at + b.size <= cur'[b.arena]
    <3> SUFFICES ASSUME NEW b \in blocks'
                 PROVE  b.at + b.size <= cur'[b.arena]
      OBVIOUS
    <3>1. b \in blocks /\ b.frame < depth /\ b.arena \in Arena
      BY <1>1 DEF Block
    <3>2. CASE b.arena = top.arena
      BY <1>1, <1>2, <3>1, <3>2 DEF MemInv, BlocksBelow
    <3>3. CASE b.arena # top.arena
      BY <1>1, <3>1, <3>3 DEF MemInv, BlocksIntact
    <3> QED
      BY <3>2, <3>3
  <2> QED
    BY <1>1, <2>1 DEF MemInv, BlocksIntact
<1>6. StringsFit'
  BY <1>1 DEF MemInv, StringsFit
<1>7. FramesApart'
  <2> SUFFICES ASSUME NEW j \in 1 .. Len(frames) - 1, frames'[j].passed # NoArena,
                      NEW i \in 1 .. j, frames'[j].owner < i
               PROVE  frames'[i].arena # frames'[j].passed
    BY <1>3 DEF FramesApart
  <2>1. j \in 1 .. Len(frames) /\ i \in 1 .. Len(frames) - 1
    BY <1>1
  <2> QED
    BY <1>3, <2>1 DEF MemInv, FramesApart
<1>8. BlocksBelow'
  <2> SUFFICES ASSUME NEW b \in blocks, NEW i \in 1 .. Len(frames) - 1,
                      b.arena = frames'[i].arena, b.frame < i
               PROVE  b.at + b.size <= frames'[i].f5
    BY <1>1, <1>3 DEF BlocksBelow
  <2>1. i \in 1 .. Len(frames)
    BY <1>1
  <2> QED
    BY <1>3, <2>1 DEF MemInv, BlocksBelow
<1> QED
  BY <1>4, <1>5, <1>6, <1>7, <1>8 DEF MemInv

-----------------------------------------------------------------------------
\* No frame above the owner of a block that the innermost function may push or
\* change has taken the block's arena.
LEMMA OwnArena ==
    ASSUME MemInv, NEW a \in Arena, NEW keeper, Target(a, keeper),
           NEW i \in 1 .. Len(frames), keeper < i
    PROVE  frames[i].arena # a
<1>1. frames \in Seq(Frame) /\ depth = Len(frames) /\ depth \in Nat /\ depth # 0
  BY DEF MemInv, MemTypeOK, depth
<1>2. CASE a = top.arena /\ keeper = depth
  BY <1>1, <1>2
<1>3. CASE a = top.passed /\ keeper = top.owner
  BY <1>1, <1>3, Sizes DEF MemInv, FramesApart, top
<1> QED
  BY <1>1, <1>2, <1>3 DEF Target

\* A reachable block lies where the innermost function may push.
LEMMA ReachableTarget ==
    ASSUME MemInv, NEW b \in blocks, Reachable(b), NEW i \in 1 .. Len(frames), b.frame < i
    PROVE  frames[i].arena # b.arena
<1>1. frames \in Seq(Frame) /\ depth = Len(frames) /\ depth \in Nat /\ depth # 0
  BY DEF MemInv, MemTypeOK, depth
<1>2. Target(b.arena, b.frame)
  BY <1>1 DEF Reachable, Target
<1>3. b.arena \in Arena
  BY DEF MemInv, MemTypeOK, Block
<1> QED
  BY <1>2, <1>3, OwnArena

\* What is pushed begins where everything in use on its arena has ended.
LEMMA PushKeeps ==
    ASSUME MemInv, NEW size \in Nat \ {0}, NEW kind \in {"raw", "string"},
           NEW str \in [len: Nat, cap: Nat, terminated: BOOLEAN],
           str.len <= str.cap, str.cap < size,
           kind = "string" => size = HeaderSize + str.cap + 1 /\ (~str.terminated => str.len = 0),
           PushBlock(size, kind, str)
    PROVE  MemInv'
<1>1. PICK a \in Arena, keeper \in 0 .. MaxDepth :
        /\ Target(a, keeper)
        /\ cur[a] + size <= Cap
        /\ cur' = [cur EXCEPT ![a] = @ + size]
        /\ blocks' = blocks \cup {[arena |-> a, at |-> cur[a], size |-> size, frame |-> keeper,
                                   kind |-> kind, str |-> str]}
        /\ UNCHANGED frames
  BY DEF PushBlock
<1> DEFINE c == [arena |-> a, at |-> cur[a], size |-> size, frame |-> keeper,
                 kind |-> kind, str |-> str]
<1>2. cur \in [Arena -> 0 .. Cap] /\ cur[a] \in 0 .. Cap /\ blocks \subseteq Block
  BY DEF MemInv, MemTypeOK
<1>3. c \in Block
  <2>1. size \in 1 .. Cap
    BY <1>1, <1>2, Sizes
  <2>2. str \in String
    BY <2>1, Sizes DEF String
  <2> QED
    BY <1>2, <2>1, <2>2 DEF Block
<1>4. /\ c.arena = a /\ c.at = cur[a] /\ c.size = size /\ c.frame = keeper
      /\ c.kind = kind /\ c.str = str
  OBVIOUS
<1>5. blocks' = blocks \cup {c}
  BY <1>1
<1> HIDE DEF c
<1>6. MemTypeOK'
  BY <1>1, <1>2, <1>3, <1>5, Sizes DEF MemInv, MemTypeOK
<1>7. /\ cur'[a] = cur[a] + size
      /\ \A x \in Arena : x # a => cur'[x] = cur[x]
  BY <1>1, <1>2
<1>8. BlocksIntact'
  <2>1. \A b \in blocks : b.arena \in Arena /\ b.at \in Nat /\ b.size \in Nat
    BY <1>2 DEF Block
  <2>2. \A b \in blocks : b.arena = a => b.at + b.size <= c.at
    BY <1>4 DEF MemInv, BlocksIntact
  <2>3. \A b \in blocks' : b.at + b.size <= cur'[b.arena]
    <3> SUFFICES ASSUME NEW b \in blocks'
                 PROVE  b.at + b.size <= cur'[b.arena]
      OBVIOUS
    <3>1. CASE b = c
      BY <1>2, <1>4, <1>7, <3>1
    <3>2. CASE b \in blocks /\ b.arena = a
      BY <1>2, <1>4, <1>7, <2>1, <2>2, <3>2
    <3>3. CASE b \in blocks /\ b.arena # a
      BY <1>7, <2>1, <3>3 DEF MemInv, BlocksIntact
    <3> QED
      BY <1>5, <3>1, <3>2, <3>3
  <2>4. \A b, d \in blocks' :
          b # d /\ b.arena = d.arena => b.at + b.size <= d.at \/ d.at + d.size <= b.at
    BY <1>4, <1>5, <2>2 DEF MemInv, BlocksIntact
  <2> QED
    BY <2>3, <2>4 DEF BlocksIntact
<1>9. StringsFit'
  BY <1>4, <1>5 DEF MemInv, StringsFit
<1>10. FramesApart'
  BY <1>1 DEF MemInv, FramesApart
<1>11. BlocksBelow'
  BY <1>1, <1>4, <1>5, OwnArena DEF MemInv, BlocksBelow
<1> QED
  BY <1>6, <1>8, <1>9, <1>10, <1>11 DEF MemInv

-----------------------------------------------------------------------------
\* What shares the arena of the block at its end lies below that block.
LEMMA EndIsLast ==
    ASSUME MemInv, NEW b \in blocks, AtEnd(b), NEW c \in blocks, c # b, c.arena = b.arena
    PROVE  c.at + c.size <= b.at
<1>1. /\ b.at \in Nat /\ b.size \in Nat \ {0} /\ c.at \in Nat /\ c.size \in Nat \ {0}
      /\ b.arena \in Arena /\ cur[b.arena] \in Nat
  BY KnownBlock, Sizes
<1>2. c.at + c.size <= cur[b.arena]
  BY DEF MemInv, BlocksIntact
<1>3. b.at + b.size = cur[b.arena]
  BY DEF AtEnd
<1>4. c.at + c.size <= b.at \/ b.at + b.size <= c.at
  BY DEF MemInv, BlocksIntact
<1> QED
  BY <1>1, <1>2, <1>3, <1>4

\* ArenaPop.
LEMMA PopKeeps ==
    ASSUME MemInv, Pop
    PROVE  MemInv'
<1>1. PICK b \in blocks :
        /\ Reachable(b) /\ AtEnd(b)
        /\ cur' = [cur EXCEPT ![b.arena] = @ - b.size]
        /\ blocks' = blocks \ {b}
        /\ UNCHANGED frames
  BY DEF Pop
<1>2. /\ cur \in [Arena -> 0 .. Cap] /\ blocks \subseteq Block
      /\ b.arena \in Arena /\ b.at \in 0 .. Cap /\ b.size \in 1 .. Cap
      /\ cur[b.arena] \in 0 .. Cap
  BY DEF MemInv, MemTypeOK, Block
<1>3. /\ cur'[b.arena] = b.at
      /\ \A x \in Arena : x # b.arena => cur'[x] = cur[x]
  BY <1>1, <1>2, Sizes DEF AtEnd
<1>4. MemTypeOK'
  <2>1. cur' \in [Arena -> 0 .. Cap]
    BY <1>1, <1>2, <1>3
  <2> QED
    BY <1>1, <1>2, <2>1 DEF MemInv, MemTypeOK
<1>5. BlocksIntact'
  <2>1. \A c \in blocks' : c.at + c.size <= cur'[c.arena]
    <3> SUFFICES ASSUME NEW c \in blocks'
                 PROVE  c.at + c.size <= cur'[c.arena]
      OBVIOUS
    <3>1. c \in blocks /\ c # b /\ c.arena \in Arena
      BY <1>1, <1>2 DEF Block
    <3>2. CASE c.arena = b.arena
      BY <1>1, <1>3, <3>1, <3>2, EndIsLast
    <3>3. CASE c.arena # b.arena
      BY <1>3, <3>1, <3>3 DEF MemInv, BlocksIntact
    <3> QED
      BY <3>2, <3>3
  <2> QED
    BY <1>1, <2>1 DEF MemInv, BlocksIntact
<1>6. StringsFit' /\ FramesApart' /\ BlocksBelow'
  BY <1>1 DEF MemInv, StringsFit, FramesApart, BlocksBelow
<1> QED
  BY <1>4, <1>5, <1>6 DEF MemInv

-----------------------------------------------------------------------------
\* A block that is changed where it is, or that grows at the end of its arena.
LEMMA ResizeKeeps ==
    ASSUME MemInv, NEW b \in blocks, Reachable(b), b.kind = "string",
           NEW add \in Nat, NEW len \in Nat, len <= b.str.cap + add,
           add # 0 => AtEnd(b), cur[b.arena] + add <= Cap,
           Replace(b, Resized(b, add, len)),
           cur' = [cur EXCEPT ![b.arena] = @ + add], UNCHANGED frames
    PROVE  MemInv'
<1> DEFINE c == Resized(b, add, len)
           str == [len |-> len, cap |-> b.str.cap + add, terminated |-> TRUE]
<1>1. /\ cur \in [Arena -> 0 .. Cap] /\ blocks \subseteq Block /\ b \in Block
      /\ b.arena \in Arena /\ b.at \in 0 .. Cap /\ b.size \in 1 .. Cap
      /\ b.frame \in 0 .. MaxDepth /\ cur[b.arena] \in 0 .. Cap
      /\ b.at + b.size <= cur[b.arena]
      /\ b.size = HeaderSize + b.str.cap + 1 /\ b.str.cap \in 0 .. Cap
  BY KnownBlock DEF MemInv, BlocksIntact, StringsFit
<1>2. /\ c.arena = b.arena /\ c.at = b.at /\ c.size = b.size + add
      /\ c.frame = b.frame /\ c.kind = b.kind /\ c.str = str
      /\ str.len = len /\ str.cap = b.str.cap + add /\ str.terminated = TRUE
  BY <1>1 DEF Block, Resized
<1>3. c \in Block
  <2>1. b.size + add \in 1 .. Cap
    BY <1>1, Sizes
  <2>2. str \in String
    BY <1>1, <2>1, Sizes DEF String
  <2> QED
    BY <1>1, <2>1, <2>2 DEF Block, Resized
<1>4. blocks' = (blocks \ {b}) \cup {c}
  BY DEF Replace
<1> HIDE DEF c, str
<1>5. /\ cur'[b.arena] = cur[b.arena] + add
      /\ \A x \in Arena : x # b.arena => cur'[x] = cur[x]
  BY <1>1
<1>6. MemTypeOK'
  <2>1. cur' \in [Arena -> 0 .. Cap]
    BY <1>1, Sizes
  <2> QED
    BY <1>1, <1>3, <1>4, <2>1 DEF MemInv, MemTypeOK
<1>7. BlocksIntact'
  <2>1. \A d \in blocks : d.arena \in Arena /\ d.at \in Nat /\ d.size \in Nat \ {0}
    BY <1>1 DEF Block
  <2>2. \A d \in blocks' : d.at + d.size <= cur'[d.arena]
    <3> SUFFICES ASSUME NEW d \in blocks'
                 PROVE  d.at + d.size <= cur'[d.arena]
      OBVIOUS
    <3>1. CASE d = c
      BY <1>1, <1>2, <1>5, <3>1
    <3>2. CASE d \in blocks /\ d.arena = b.arena
      <4>1. d.at + d.size <= cur[b.arena] /\ d.at \in Nat /\ d.size \in Nat
        BY <2>1, <3>2 DEF MemInv, BlocksIntact
      <4> QED
        BY <1>1, <1>5, <3>2, <4>1
    <3>3. CASE d \in blocks /\ d.arena # b.arena
      BY <1>5, <2>1, <3>3 DEF MemInv, BlocksIntact
    <3> QED
      BY <1>4, <3>1, <3>2, <3>3
  <2>3. \A d \in blocks : d # b /\ d.arena = b.arena =>
          d.at + d.size <= c.at \/ c.at + c.size <= d.at
    <3> SUFFICES ASSUME NEW d \in blocks, d # b, d.arena = b.arena
                 PROVE  d.at + d.size <= c.at \/ c.at + c.size <= d.at
      OBVIOUS
    <3>1. CASE add = 0
      BY <1>1, <1>2, <3>1 DEF MemInv, BlocksIntact
    <3>2. CASE add # 0
      BY <1>2, <3>2, EndIsLast
    <3> QED
      BY <3>1, <3>2
  <2>4. \A d, e \in blocks' :
          d # e /\ d.arena = e.arena => d.at + d.size <= e.at \/ e.at + e.size <= d.at
    BY <1>2, <1>4, <2>3 DEF MemInv, BlocksIntact
  <2> QED
    BY <2>2, <2>4 DEF BlocksIntact
<1>8. StringsFit'
  BY <1>1, <1>2, <1>4, Sizes DEF MemInv, StringsFit
<1>9. FramesApart'
  BY DEF MemInv, FramesApart
<1>10. BlocksBelow'
  BY <1>2, <1>4, ReachableTarget DEF MemInv, BlocksBelow
<1> QED
  BY <1>6, <1>7, <1>8, <1>9, <1>10 DEF MemInv

\* Append and set: in place when there is space, and at the end of the arena
\* when there is not.
LEMMA WriteKeeps ==
    ASSUME MemInv, NEW b \in blocks, Reachable(b), b.kind = "string",
           NEW add \in Nat, NEW len \in Nat, len <= b.str.len + add,
           Write(b, add, len), UNCHANGED frames
    PROVE  MemInv'
<1>1. /\ cur \in [Arena -> 0 .. Cap] /\ b.arena \in Arena /\ cur[b.arena] \in 0 .. Cap
      /\ b.str.len \in Nat /\ b.str.cap \in Nat /\ b.str.len <= b.str.cap
  BY KnownBlock, Sizes DEF MemInv, StringsFit
<1>2. CASE AvailableSpace(b) >= add
  <2>1. Replace(b, Resized(b, 0, len)) /\ cur' = [cur EXCEPT ![b.arena] = @ + 0]
    BY <1>1, <1>2 DEF Write
  <2>2. len <= b.str.cap + 0 /\ cur[b.arena] + 0 <= Cap
    BY <1>1, <1>2, Sizes DEF AvailableSpace
  <2> QED
    BY <2>1, <2>2, ResizeKeeps
<1>3. CASE ~(AvailableSpace(b) >= add)
  <2>1. /\ AtEnd(b) /\ cur[b.arena] + add <= Cap
        /\ cur' = [cur EXCEPT ![b.arena] = @ + add]
        /\ Replace(b, Resized(b, add, len))
    BY <1>3 DEF Write
  <2>2. len <= b.str.cap + add
    BY <1>1
  <2> QED
    BY <2>1, <2>2, ResizeKeeps
<1> QED
  BY <1>2, <1>3

\* Backspace and clear change only the length.
LEMMA ShortenKeeps ==
    ASSUME MemInv, StringShorten
    PROVE  MemInv'
<1>1. PICK b \in blocks, len \in 0 .. Cap :
        /\ b.kind = "string" /\ Reachable(b)
        /\ len <= b.str.len
        /\ Replace(b, Resized(b, 0, len))
        /\ UNCHANGED <<cur, frames>>
  BY DEF StringShorten
<1>2. /\ cur \in [Arena -> 0 .. Cap] /\ b.arena \in Arena /\ cur[b.arena] \in 0 .. Cap
      /\ b.str.len \in Nat /\ b.str.cap \in Nat /\ b.str.len <= b.str.cap
  BY <1>1, KnownBlock, Sizes DEF MemInv, StringsFit
<1>3. /\ cur' = [cur EXCEPT ![b.arena] = @ + 0] /\ cur[b.arena] + 0 <= Cap
      /\ len \in Nat /\ len <= b.str.cap + 0
  BY <1>1, <1>2, Sizes
<1> QED
  BY <1>1, <1>3, ResizeKeeps

-----------------------------------------------------------------------------
\* Every step on the arenas keeps their invariant.
LEMMA MemNextKeeps == MemInv /\ [MemNext]_memVars => MemInv'
<1> SUFFICES ASSUME MemInv, [MemNext]_memVars PROVE MemInv'
  OBVIOUS
<1>1. CASE CallPlain \/ CallForResults \/ CallOnScratch
  BY <1>1, CallsKeep
<1>2. CASE Return
  BY <1>2, ReturnKeeps
<1>3. CASE Push
  <2>1. PICK size \in 1 .. MaxPush : PushBlock(size, "raw", NoString)
    BY <1>3 DEF Push
  <2>2. size \in Nat \ {0}
    BY Sizes
  <2>3. /\ NoString \in [len: Nat, cap: Nat, terminated: BOOLEAN]
        /\ NoString.len = 0 /\ NoString.cap = 0
    BY DEF NoString
  <2> QED
    BY <2>1, <2>2, <2>3, PushKeeps
<1>4. CASE StringMake
  <2>1. PICK len \in 0 .. MaxPush, terminated \in BOOLEAN :
          /\ len > 0 => terminated
          /\ PushBlock(HeaderSize + len + 1, "string",
                       [len |-> len, cap |-> len, terminated |-> terminated])
    BY <1>4 DEF StringMake
  <2>2. HeaderSize + len + 1 \in Nat \ {0} /\ len \in Nat /\ len < HeaderSize + len + 1
    BY Sizes
  <2> DEFINE str == [len |-> len, cap |-> len, terminated |-> terminated]
  <2>3. /\ str \in [len: Nat, cap: Nat, terminated: BOOLEAN]
        /\ str.len = len /\ str.cap = len /\ (~str.terminated => len = 0)
    BY <2>1, <2>2
  <2>4. PushBlock(HeaderSize + len + 1, "string", str)
    BY <2>1
  <2> HIDE DEF str
  <2> QED
    BY <2>2, <2>3, <2>4, PushKeeps
<1>5. CASE Pop
  BY <1>5, PopKeeps
<1>6. CASE StringAppend
  <2>1. PICK b \in blocks, add \in 0 .. MaxPush :
          /\ b.kind = "string" /\ Reachable(b)
          /\ Write(b, add, b.str.len + add)
          /\ UNCHANGED frames
    BY <1>6 DEF StringAppend
  <2>2. b.str.len \in Nat
    BY KnownBlock, Sizes
  <2> QED
    BY <2>1, <2>2, Sizes, WriteKeeps
<1>7. CASE StringSet
  <2>1. PICK b \in blocks, len \in 0 .. MaxPush :
          /\ b.kind = "string" /\ Reachable(b)
          /\ Write(b, len, len)
          /\ UNCHANGED frames
    BY <1>7 DEF StringSet
  <2>2. b.str.len \in Nat
    BY KnownBlock, Sizes
  <2> QED
    BY <2>1, <2>2, Sizes, WriteKeeps
<1>8. CASE StringShorten
  BY <1>8, ShortenKeeps
<1>9. CASE UNCHANGED memVars
  BY <1>9 DEF memVars, MemInv, MemTypeOK, BlocksIntact, StringsFit, FramesApart, BlocksBelow
<1> QED
  BY <1>1, <1>2, <1>3, <1>4, <1>5, <1>6, <1>7, <1>8, <1>9 DEF MemNext

-----------------------------------------------------------------------------
\* The strengthened invariant holds in every state: no function takes the arena
\* its results go to, so no release cuts off what a caller still uses.
THEOREM MemoryInvariant == MemSpec => []MemInv
  BY MemInitHolds, MemNextKeeps, PTL DEF MemSpec

\* What a running function still counts on is never cut off by the release of
\* a scratch arena, given out twice, or outgrown by a string, however deep the
\* calls and whatever the arenas (Sdb.h:1017-1301).
THEOREM MemoryStaysIntact == MemSpec => []MemoryIntact
<1>1. MemInv => MemoryIntact
  BY DEF MemInv, MemoryIntact
<1> QED
  BY <1>1, MemoryInvariant, PTL

-----------------------------------------------------------------------------
(***************************************************************************)
(* Thread control (ThreadControl), for any number of workers.              *)
(***************************************************************************)

\* Who sleeps on a control's Cond has left a note, and sleeps only as long as
\* what it waits for has not come: no broadcast is lost between its look at the
\* flag and its sleep, and none is left out for want of the note.
NoWakeUpLost ==
    \A w \in Worker :
        /\ "owner" \in asleep[w] => waitingForMark[w] /\ ~hasStopped[w]
        /\ "worker" \in asleep[w] => waitingForSignal[w] /\ ~shouldStop[w]

\* The flags say where owner and workers are.
FlagsFollow ==
    \A w \in Worker :
        /\ hasStopped[w] <=> worker[w] = "done"
        /\ owner.does = "wait" /\ owner.at > w => hasStopped[w]
        /\ shouldStop[w] <=> owner.does = "wait" \/ owner.at > w

ControlInv == ControlTypeOK /\ FlagsFollow /\ NoWakeUpLost

\* The control starts without a request.
LEMMA ControlInitHolds == ControlInit => ControlInv
<1> SUFFICES ASSUME ControlInit PROVE ControlInv
  OBVIOUS
<1>1. [at |-> 1, does |-> "signal"] \in [at : 1 .. WorkerCount + 1, does : {"signal", "wait"}]
  BY ControlAssumption
<1>2. ControlTypeOK
  BY <1>1 DEF ControlInit, ControlTypeOK
<1>3. FlagsFollow /\ NoWakeUpLost
  BY DEF ControlInit, FlagsFollow, NoWakeUpLost, Worker
<1> QED
  BY <1>2, <1>3 DEF ControlInv

\* The owner's steps.
LEMMA OwnerKeeps ==
    ASSUME ControlInv, SignalStop \/ WaitForStop
    PROVE  ControlInv'
<1>1. /\ ControlTypeOK /\ FlagsFollow /\ NoWakeUpLost /\ WorkerCount \in Nat \ {0}
      /\ owner.at \in 1 .. WorkerCount + 1 /\ owner.does \in {"signal", "wait"}
      /\ owner = [at |-> owner.at, does |-> owner.does]
  BY ControlAssumption DEF ControlInv, ControlTypeOK
<1>2. owner.at \in Worker
  BY <1>1 DEF SignalStop, WaitForStop, Worker
<1>3. CASE SignalStop
  <2>1. /\ shouldStop' = [shouldStop EXCEPT ![owner.at] = TRUE]
        /\ asleep' = [asleep EXCEPT ![owner.at] = IF waitingForSignal[owner.at] THEN {} ELSE @]
        /\ UNCHANGED <<hasStopped, waitingForSignal, waitingForMark, worker>>
        /\ owner.does = "signal"
    BY <1>3 DEF SignalStop, BroadcastIf
  <2>2. \/ owner.at < WorkerCount /\ owner' = [at |-> owner.at + 1, does |-> "signal"]
        \/ owner.at = WorkerCount /\ owner' = [at |-> 1, does |-> "wait"]
    BY <1>1, <1>2, <1>3 DEF SignalStop, Worker
  <2>3. ControlTypeOK'
    <3>1. shouldStop' \in [Worker -> BOOLEAN] /\ asleep' \in [Worker -> SUBSET {"owner", "worker"}]
      BY <1>1, <1>2, <2>1 DEF ControlTypeOK
    <3>2. owner' \in [at : 1 .. WorkerCount + 1, does : {"signal", "wait"}]
      BY <1>1, <1>2, <2>2 DEF Worker
    <3> QED
      BY <1>1, <2>1, <3>1, <3>2 DEF ControlTypeOK
  <2>4. ASSUME NEW w \in Worker
        PROVE  shouldStop'[w] <=> owner'.does = "wait" \/ owner'.at > w
    BY <1>1, <1>2, <2>1, <2>2 DEF ControlTypeOK, FlagsFollow, Worker
  <2>5. FlagsFollow'
    BY <1>1, <2>1, <2>2, <2>4 DEF FlagsFollow, Worker
  <2>6. NoWakeUpLost'
    BY <1>1, <1>2, <2>1 DEF ControlTypeOK, NoWakeUpLost
  <2> QED
    BY <2>3, <2>5, <2>6 DEF ControlInv
<1>4. CASE WaitForStop /\ hasStopped[owner.at]
  <2>1. /\ owner.does = "wait" /\ owner' = [at |-> owner.at + 1, does |-> "wait"]
        /\ UNCHANGED <<flagVars, asleep, worker>>
    BY <1>1, <1>4 DEF WaitForStop, flagVars
  <2>2. ControlTypeOK'
    BY <1>1, <1>2, <2>1 DEF ControlTypeOK, flagVars, Worker
  <2>3. FlagsFollow' /\ NoWakeUpLost'
    BY <1>1, <1>2, <1>4, <2>1 DEF FlagsFollow, NoWakeUpLost, flagVars, Worker
  <2> QED
    BY <2>2, <2>3 DEF ControlInv
<1>5. CASE WaitForStop /\ ~hasStopped[owner.at]
  <2>1. /\ waitingForMark' = [waitingForMark EXCEPT ![owner.at] = TRUE]
        /\ asleep' = [asleep EXCEPT ![owner.at] = @ \cup {"owner"}]
        /\ UNCHANGED <<owner, shouldStop, hasStopped, waitingForSignal, worker>>
    BY <1>5 DEF WaitForStop, NoteOwner
  <2>2. ControlTypeOK'
    BY <1>1, <1>2, <2>1 DEF ControlTypeOK
  <2>3. FlagsFollow' /\ NoWakeUpLost'
    BY <1>1, <1>2, <1>5, <2>1 DEF FlagsFollow, NoWakeUpLost, ControlTypeOK
  <2> QED
    BY <2>2, <2>3 DEF ControlInv
<1> QED
  BY <1>3, <1>4, <1>5

\* A worker's steps, and a wake-up that nobody has caused.
LEMMA WorkerKeeps ==
    ASSUME ControlInv, NEW w \in Worker, WorkerStep(w) \/ StopsPolling(w) \/ WakeUp(w)
    PROVE  ControlInv'
<1>1. ControlTypeOK /\ FlagsFollow /\ NoWakeUpLost
  BY DEF ControlInv
<1>2. CASE Poll(w) \/ StopsPolling(w)
  <2>1. PICK at \in {"running", "wait", "mark"} : worker' = [worker EXCEPT ![w] = at]
    BY <1>2 DEF Poll, StopsPolling
  <2>2. worker[w] = "running" /\ UNCHANGED <<flagVars, asleep, owner>>
    BY <1>2 DEF Poll, StopsPolling
  <2>3. ControlTypeOK'
    BY <1>1, <2>1, <2>2 DEF ControlTypeOK, flagVars
  <2>4. FlagsFollow' /\ NoWakeUpLost'
    BY <1>1, <2>1, <2>2 DEF FlagsFollow, NoWakeUpLost, ControlTypeOK, flagVars
  <2> QED
    BY <2>3, <2>4 DEF ControlInv
<1>3. CASE WaitForSignal(w) /\ shouldStop[w]
  <2>1. /\ worker[w] = "wait" /\ worker' = [worker EXCEPT ![w] = "mark"]
        /\ UNCHANGED <<flagVars, asleep, owner>>
    BY <1>3 DEF WaitForSignal, flagVars
  <2>2. ControlTypeOK'
    BY <1>1, <2>1 DEF ControlTypeOK, flagVars
  <2>3. FlagsFollow' /\ NoWakeUpLost'
    BY <1>1, <2>1 DEF FlagsFollow, NoWakeUpLost, ControlTypeOK, flagVars
  <2> QED
    BY <2>2, <2>3 DEF ControlInv
<1>4. CASE WaitForSignal(w) /\ ~shouldStop[w]
  <2>1. /\ waitingForSignal' = [waitingForSignal EXCEPT ![w] = TRUE]
        /\ asleep' = [asleep EXCEPT ![w] = @ \cup {"worker"}]
        /\ UNCHANGED <<worker, shouldStop, hasStopped, waitingForMark, owner>>
    BY <1>4 DEF WaitForSignal
  <2>2. ControlTypeOK'
    BY <1>1, <2>1 DEF ControlTypeOK
  <2>3. FlagsFollow' /\ NoWakeUpLost'
    BY <1>1, <1>4, <2>1 DEF FlagsFollow, NoWakeUpLost, ControlTypeOK
  <2> QED
    BY <2>2, <2>3 DEF ControlInv
<1>5. CASE MarkStopped(w)
  <2>1. /\ hasStopped' = [hasStopped EXCEPT ![w] = TRUE]
        /\ asleep' = [asleep EXCEPT ![w] = IF waitingForMark[w] THEN {} ELSE @]
        /\ worker' = [worker EXCEPT ![w] = "done"]
        /\ UNCHANGED <<shouldStop, waitingForSignal, waitingForMark, owner>>
    BY <1>5 DEF MarkStopped, BroadcastIf
  <2>2. ControlTypeOK'
    BY <1>1, <2>1 DEF ControlTypeOK
  <2>3. FlagsFollow' /\ NoWakeUpLost'
    BY <1>1, <2>1 DEF FlagsFollow, NoWakeUpLost, ControlTypeOK
  <2> QED
    BY <2>2, <2>3 DEF ControlInv
<1>6. CASE WakeUp(w)
  <2>1. PICK who \in asleep[w] : asleep' = [asleep EXCEPT ![w] = @ \ {who}]
    BY <1>6 DEF WakeUp
  <2>2. UNCHANGED <<flagVars, worker, owner>>
    BY <1>6 DEF WakeUp
  <2>3. ControlTypeOK'
    BY <1>1, <2>1, <2>2 DEF ControlTypeOK, flagVars
  <2>4. FlagsFollow' /\ NoWakeUpLost'
    BY <1>1, <2>1, <2>2 DEF FlagsFollow, NoWakeUpLost, ControlTypeOK, flagVars
  <2> QED
    BY <2>3, <2>4 DEF ControlInv
<1> QED
  BY <1>2, <1>3, <1>4, <1>5, <1>6 DEF WorkerStep

\* Its invariant, along every run.
LEMMA ControlInvariant == ControlInit /\ [][ControlNext]_controlVars => []ControlInv
<1>1. ControlInv /\ [ControlNext]_controlVars => ControlInv'
  <2> SUFFICES ASSUME ControlInv, [ControlNext]_controlVars PROVE ControlInv'
    OBVIOUS
  <2>1. CASE UNCHANGED controlVars
    BY <2>1 DEF controlVars, flagVars, ControlInv, ControlTypeOK, FlagsFollow, NoWakeUpLost
  <2> QED
    BY <2>1, OwnerKeeps, WorkerKeeps DEF ControlNext
<1> QED
  BY ControlInitHolds, <1>1, PTL

\* With any number of workers, and whenever they stop of their own accord, the
\* owner gets past its wait for one only when it has stopped (Thread.c:269-321).
THEOREM StopsAreSeen == ControlSpec => []StopSeen
<1>1. ControlInv => StopSeen
  BY DEF ControlInv, FlagsFollow, StopSeen
<1> QED
  BY ControlInvariant, <1>1, PTL DEF ControlSpec

\* Neither side sleeps through what it waits for: the owner never sleeps on a
\* worker that has stopped, a worker never on a stop that was asked for, and
\* who sleeps has left the note that the other's broadcast depends on
\* (Thread.c:256-321).
THEOREM WakeUpsReach == ControlSpec => []NoWakeUpLost
<1>1. ControlInv => NoWakeUpLost
  BY DEF ControlInv
<1> QED
  BY ControlInvariant, <1>1, PTL DEF ControlSpec

-----------------------------------------------------------------------------
(***************************************************************************)
(* The compressor of zero packets (ZeroCompression), for any number of     *)
(* packets in any number of calls.  A row that is stored has the packets   *)
(* of the streak it ends, because everything that was looked at since the  *)
(* streak began was zero and came before its last end; and no two rows     *)
(* share a packet, because a streak begins after the ends of all rows.     *)
(***************************************************************************)

\* What the argument needs of the types.
ZeroTypes ==
    /\ startOfRLE \in Nat /\ lastZeroEnd \in Nat /\ zeroCount \in Nat
    /\ stream \in Seq(BOOLEAN)
    /\ examined \subseteq 1 .. Len(stream) /\ unstored \subseteq examined
    /\ \A row \in rleRows : row.start \in Nat /\ row.end \in Nat /\ row.length \in Nat

\* The streak that is going on, and the rows before it.
StreakGoesOn ==
    /\ startOfRLE = 0 => lastZeroEnd = 0
    /\ startOfRLE <= Len(stream) /\ lastZeroEnd <= Len(stream)
    /\ startOfRLE # 0 => \A t \in examined : t >= startOfRLE => stream[t] /\ t <= lastZeroEnd
    /\ \A row \in rleRows : /\ row.end <= Len(stream)
                            /\ startOfRLE # 0 => row.end < startOfRLE
                            /\ row.length = 0 => Within(row) = {}

ZeroInv == ZeroTypes /\ StreakGoesOn /\ RunsAccountForZeros

\* The compressor starts with nothing looked at.
LEMMA ZeroInitHolds == ZeroInit => ZeroInv
<1> SUFFICES ASSUME ZeroInit PROVE ZeroInv
  OBVIOUS
<1>1. ZeroTypes /\ StreakGoesOn
  BY DEF ZeroInit, ZeroTypes, StreakGoesOn
<1>2. Streak = {} /\ Cardinality({}) = 0
  BY FS_EmptySet DEF Streak, ZeroInit
<1>3. RunsAccountForZeros
  BY <1>2 DEF ZeroInit, RunsAccountForZeros
<1> QED
  BY <1>1, <1>3 DEF ZeroInv

\* More packets come behind those that there are.
LEMMA MorePackets ==
    ASSUME ZeroTypes, NEW packets \in NextPackets
    PROVE  /\ stream \o packets \in Seq(BOOLEAN)
           /\ Len(packets) \in Nat /\ Len(stream \o packets) = Len(stream) + Len(packets)
           /\ \A t \in 1 .. Len(stream) : (stream \o packets)[t] = stream[t]
           /\ packets # <<>> => Len(packets) > 0 /\ (stream \o packets)[Len(stream) + 1] = packets[1]
<1>1. PICK n \in 0 .. MaxPacketsPerCall : packets \in [1 .. n -> BOOLEAN]
  BY DEF NextPackets
<1>2. n \in Nat
  BY ZeroAssumption
<1>3. packets \in Seq(BOOLEAN) /\ Len(packets) = n
  BY <1>1, <1>2
<1>4. stream \in Seq(BOOLEAN)
  BY DEF ZeroTypes
<1>5. packets # <<>> => Len(packets) > 0
  BY <1>3
<1> QED
  BY <1>3, <1>4, <1>5

\* What was examined is finite, and so is every part of it.
LEMMA StreakFinite == ZeroTypes => IsFiniteSet(Streak) /\ IsFiniteSet(examined)
<1> SUFFICES ASSUME ZeroTypes PROVE IsFiniteSet(Streak) /\ IsFiniteSet(examined)
  OBVIOUS
<1>1. IsFiniteSet(1 .. Len(stream))
  BY FS_Interval DEF ZeroTypes
<1> QED
  BY <1>1, FS_Subset DEF ZeroTypes, Streak

\* Packets that are not looked at change nothing.
LEMMA UnexaminedKeeps ==
    ASSUME ZeroInv, NEW packets \in NextPackets, stream' = stream \o packets,
           UNCHANGED <<startOfRLE, lastZeroEnd, zeroCount, rleRows, examined, unstored>>
    PROVE  ZeroInv'
<1>1. ZeroTypes /\ StreakGoesOn /\ RunsAccountForZeros /\ Len(stream) \in Nat
  BY DEF ZeroInv, ZeroTypes
<1>2. /\ stream' \in Seq(BOOLEAN) /\ Len(stream') \in Nat /\ Len(stream') >= Len(stream)
      /\ \A t \in 1 .. Len(stream) : stream'[t] = stream[t]
  BY <1>1, MorePackets
<1>3. examined \subseteq 1 .. Len(stream) /\ 1 .. Len(stream) \subseteq 1 .. Len(stream')
  BY <1>1, <1>2 DEF ZeroTypes
<1>4. ZeroTypes'
  BY <1>1, <1>2, <1>3 DEF ZeroTypes
<1>5. Streak' = Streak /\ \A row : Within(row)' = Within(row)
  BY <1>2, <1>3 DEF Streak, Within
<1>6. examined' \cap ZerosOf(stream') = examined \cap ZerosOf(stream)
      /\ \A s : s \subseteq examined => (s \subseteq ZerosOf(stream') <=> s \subseteq ZerosOf(stream))
  BY <1>2, <1>3 DEF ZerosOf
<1>7. \A row : Within(row) \subseteq examined
  BY DEF Within
<1>8. StreakGoesOn'
  BY <1>1, <1>2, <1>3, <1>5 DEF StreakGoesOn, ZeroTypes
<1>9. RunsAccountForZeros'
  BY <1>1, <1>5, <1>6, <1>7 DEF RunsAccountForZeros
<1> QED
  BY <1>4, <1>8, <1>9 DEF ZeroInv

\* The packet that is looked at lies behind all others.
LEMMA LookedAt ==
    ASSUME ZeroInv, NEW packets \in NextPackets, packets # <<>>, stream' = stream \o packets,
           examined' = examined \cup {Len(stream) + 1}
    PROVE  /\ stream' \in Seq(BOOLEAN) /\ Len(stream) \in Nat /\ Len(stream') \in Nat
           /\ Len(stream) + 1 <= Len(stream')
           /\ \A t \in examined : t \in 1 .. Len(stream) /\ stream'[t] = stream[t]
           /\ stream'[Len(stream) + 1] = packets[1]
           /\ examined' \subseteq 1 .. Len(stream')
<1>1. ZeroTypes
  BY DEF ZeroInv
<1>2. /\ stream' \in Seq(BOOLEAN) /\ Len(stream) \in Nat /\ Len(stream') \in Nat
      /\ Len(stream) + 1 <= Len(stream') /\ stream'[Len(stream) + 1] = packets[1]
      /\ \A t \in 1 .. Len(stream) : stream'[t] = stream[t]
  BY <1>1, MorePackets DEF ZeroTypes
<1>3. examined \subseteq 1 .. Len(stream)
  BY <1>1 DEF ZeroTypes
<1>4. \A t \in examined : t \in 1 .. Len(stream) /\ stream'[t] = stream[t]
  BY <1>2, <1>3
<1>5. examined' \subseteq 1 .. Len(stream')
  <2>1. Len(stream) + 1 \in 1 .. Len(stream') /\ 1 .. Len(stream) \subseteq 1 .. Len(stream')
    BY <1>2
  <2> QED
    BY <1>3, <2>1
<1> QED
  BY <1>2, <1>4, <1>5

\* The rows so far end before the packet that is looked at.
LEMMA RowsStay ==
    ASSUME ZeroInv, NEW row \in rleRows, examined' = examined \cup {Len(stream) + 1}
    PROVE  Within(row)' = Within(row)
<1>1. Len(stream) \in Nat /\ row.end \in Nat /\ row.end <= Len(stream)
  BY DEF ZeroInv, ZeroTypes, StreakGoesOn
<1> QED
  BY <1>1 DEF Within

\* A zero packet begins a streak or goes on with it.
LEMMA ZeroPacketKeeps ==
    ASSUME ZeroInv, NEW packets \in NextPackets, packets # <<>>, packets[1],
           stream' = stream \o packets, examined' = examined \cup {Len(stream) + 1},
           startOfRLE' = IF startOfRLE = 0 THEN Len(stream) + 1 ELSE startOfRLE,
           lastZeroEnd' = Len(stream) + 1, zeroCount' = zeroCount + 1,
           UNCHANGED <<rleRows, unstored>>
    PROVE  ZeroInv'
<1> DEFINE now == Len(stream) + 1
<1>1. ZeroTypes /\ StreakGoesOn /\ RunsAccountForZeros
  BY DEF ZeroInv
<1>2. /\ stream' \in Seq(BOOLEAN) /\ Len(stream) \in Nat /\ Len(stream') \in Nat
      /\ now \in Nat /\ now > 0 /\ now <= Len(stream') /\ stream'[now]
      /\ \A t \in examined : t \in 1 .. Len(stream) /\ stream'[t] = stream[t]
      /\ examined' = examined \cup {now} /\ examined' \subseteq 1 .. Len(stream')
  BY LookedAt
<1>3. /\ startOfRLE' = IF startOfRLE = 0 THEN now ELSE startOfRLE
      /\ lastZeroEnd' = now /\ startOfRLE' \in Nat \ {0} /\ zeroCount' \in Nat
  BY <1>1, <1>2 DEF ZeroTypes
<1>4. now \notin examined /\ \A t \in examined : t < now
  BY <1>2
<1> HIDE DEF now
<1>5. ZeroTypes'
  BY <1>1, <1>2, <1>3 DEF ZeroTypes
<1>6. \A row \in rleRows : Within(row)' = Within(row) /\ Within(row) \subseteq examined
  BY <1>1, <1>2, RowsStay DEF Within, now
<1>7. Streak' = Streak \cup {now} /\ now \notin Streak
  <2>1. CASE startOfRLE = 0
    <3>1. Streak = {}
      BY <2>1 DEF Streak
    <3>2. Streak' = {now}
      BY <1>2, <1>3, <1>4, <2>1 DEF Streak
    <3> QED
      BY <3>1, <3>2
  <2>2. CASE startOfRLE # 0
    <3>1. startOfRLE <= now
      BY <1>1, <1>2, <2>2 DEF StreakGoesOn, ZeroTypes, now
    <3> QED
      BY <1>2, <1>3, <1>4, <2>2, <3>1 DEF Streak
  <2> QED
    BY <2>1, <2>2
<1>8. StreakGoesOn'
  <2>1. startOfRLE' <= Len(stream') /\ lastZeroEnd' <= Len(stream') /\ startOfRLE' # 0
    BY <1>1, <1>2, <1>3 DEF StreakGoesOn, ZeroTypes, now
  <2>2. \A t \in examined' : t >= startOfRLE' => stream'[t] /\ t <= lastZeroEnd'
    BY <1>1, <1>2, <1>3, <1>4 DEF StreakGoesOn
  <2>3. ASSUME NEW row \in rleRows'
        PROVE  row.end <= Len(stream') /\ row.end < startOfRLE' /\ (row.length = 0 => Within(row)' = {})
    BY <1>1, <1>2, <1>3, <1>6, <2>3 DEF StreakGoesOn, ZeroTypes, now
  <2> QED
    BY <2>1, <2>2, <2>3 DEF StreakGoesOn
<1>9. zeroCount' = Cardinality(Streak')
  BY <1>1, <1>7, StreakFinite, FS_AddElement DEF RunsAccountForZeros
<1>10. examined' \cap ZerosOf(stream') = (examined \cap ZerosOf(stream)) \cup {now}
  BY <1>1, <1>2 DEF ZerosOf, ZeroTypes
<1>11. \A row \in rleRows : Within(row) \subseteq ZerosOf(stream) => Within(row) \subseteq ZerosOf(stream')
  BY <1>2, <1>6 DEF ZerosOf
<1>12. UNION {Within(row)' : row \in rleRows'} = UNION {Within(row) : row \in rleRows}
  BY <1>6
<1>13. examined' \cap ZerosOf(stream') =
         (UNION {Within(row)' : row \in rleRows'}) \cup Streak' \cup unstored'
  BY <1>1, <1>7, <1>10, <1>12 DEF RunsAccountForZeros
<1>14. RunsAccountForZeros'
  BY <1>1, <1>6, <1>9, <1>11, <1>13 DEF RunsAccountForZeros
<1> QED
  BY <1>5, <1>8, <1>14 DEF ZeroInv

\* A packet that is not zero ends the streak, and the row it makes has the
\* packets of the streak.
LEMMA OtherPacketKeeps ==
    ASSUME ZeroInv, NEW packets \in NextPackets, packets # <<>>, ~packets[1],
           stream' = stream \o packets, examined' = examined \cup {Len(stream) + 1},
           startOfRLE' = 0, lastZeroEnd' = 0, zeroCount' = 0,
           \/ /\ rleRows' = rleRows \cup {[start |-> startOfRLE, end |-> lastZeroEnd,
                                           length |-> zeroCount]}
              /\ UNCHANGED unstored
           \/ unstored' = unstored \cup Streak /\ UNCHANGED rleRows
    PROVE  ZeroInv'
<1> DEFINE now == Len(stream) + 1
<1>0. PICK new : new = [start |-> startOfRLE, end |-> lastZeroEnd, length |-> zeroCount]
  OBVIOUS
<1>1. ZeroTypes /\ StreakGoesOn /\ RunsAccountForZeros
  BY DEF ZeroInv
<1>2. /\ stream' \in Seq(BOOLEAN) /\ Len(stream) \in Nat /\ Len(stream') \in Nat
      /\ now \in Nat /\ now > 0 /\ now <= Len(stream') /\ ~stream'[now]
      /\ \A t \in examined : t \in 1 .. Len(stream) /\ stream'[t] = stream[t]
      /\ examined' = examined \cup {now} /\ examined' \subseteq 1 .. Len(stream')
  BY LookedAt
<1>3. now \notin examined /\ \A t \in examined : t < now
  BY <1>2
<1>4. \A row \in rleRows : Within(row)' = Within(row) /\ Within(row) \subseteq examined
  BY <1>1, <1>2, RowsStay DEF Within
<1>5. Streak' = {} /\ Streak \subseteq examined
  BY DEF Streak
<1>6. /\ new.start = startOfRLE /\ new.end = lastZeroEnd /\ new.length = zeroCount
      /\ lastZeroEnd <= Len(stream) /\ lastZeroEnd < now
  BY <1>0, <1>1, <1>2 DEF StreakGoesOn, ZeroTypes
<1> HIDE DEF now
<1>7. Within(new)' = Streak
  <2>1. CASE startOfRLE = 0
    <3>1. Within(new)' = {}
      BY <1>1, <1>2, <1>6, <2>1 DEF StreakGoesOn, Within
    <3> QED
      BY <2>1, <3>1 DEF Streak
  <2>2. CASE startOfRLE # 0
    <3>1. /\ startOfRLE \in Nat /\ lastZeroEnd \in Nat
          /\ \A t \in examined : t \in Nat /\ (t >= startOfRLE => stream[t] /\ t <= lastZeroEnd)
      BY <1>1, <1>2, <2>2 DEF ZeroTypes, StreakGoesOn
    <3>2. Within(new)' = {t \in examined : startOfRLE <= t /\ t <= lastZeroEnd}
      BY <1>2, <1>6, <3>1 DEF Within
    <3>3. Streak = {t \in examined : startOfRLE <= t}
      BY <2>2, <3>1 DEF Streak
    <3> QED
      BY <3>1, <3>2, <3>3
  <2> QED
    BY <2>1, <2>2
<1>8. /\ \/ rleRows' = rleRows \cup {new} /\ unstored' = unstored
         \/ rleRows' = rleRows /\ unstored' = unstored \cup Streak
      /\ rleRows' \subseteq rleRows \cup {new}
  BY <1>0
<1>9. ZeroTypes'
  <2>1. unstored' \subseteq examined'
    BY <1>1, <1>2, <1>5, <1>8 DEF ZeroTypes
  <2> QED
    BY <1>1, <1>2, <1>6, <1>8, <2>1 DEF ZeroTypes
<1>10. \A row \in rleRows' : row.length = 0 => Within(row)' = {}
  <2>1. new.length = 0 => Streak = {}
    BY <1>1, <1>6, StreakFinite, FS_EmptySet DEF RunsAccountForZeros
  <2> QED
    BY <1>1, <1>4, <1>7, <1>8, <2>1 DEF StreakGoesOn
<1>11. StreakGoesOn'
  <2>1. \A row \in rleRows' : row.end <= Len(stream')
    BY <1>1, <1>2, <1>6, <1>8 DEF StreakGoesOn, ZeroTypes, now
  <2> QED
    BY <1>2, <1>10, <2>1 DEF StreakGoesOn
<1>12. \A row \in rleRows' : row.length > 0 =>
         Within(row)' \subseteq ZerosOf(stream') /\ Cardinality(Within(row)') = row.length
  <2>1. Streak \subseteq ZerosOf(stream') /\ Cardinality(Streak) = new.length
    BY <1>1, <1>2, <1>5, <1>6 DEF ZerosOf, RunsAccountForZeros, Streak
  <2>2. \A row \in rleRows : Within(row) \subseteq ZerosOf(stream) => Within(row) \subseteq ZerosOf(stream')
    BY <1>2, <1>4 DEF ZerosOf
  <2> QED
    BY <1>1, <1>4, <1>7, <1>8, <2>1, <2>2 DEF RunsAccountForZeros
<1>13. \A row \in rleRows : Within(row) \cap Streak = {}
  <2> SUFFICES ASSUME NEW row \in rleRows, NEW t \in Within(row), t \in Streak PROVE FALSE
    OBVIOUS
  <2>1. startOfRLE # 0 /\ t >= startOfRLE /\ t <= row.end /\ row.end < startOfRLE
    BY <1>1 DEF StreakGoesOn, Within, Streak
  <2>2. startOfRLE \in Nat /\ row.end \in Nat /\ t \in Nat
    BY <1>1, <1>2, <1>5 DEF ZeroTypes
  <2> QED
    BY <2>1, <2>2
<1>14. \A r, q \in rleRows' : r # q => Within(r)' \cap Within(q)' = {}
  BY <1>1, <1>4, <1>7, <1>8, <1>13 DEF RunsAccountForZeros
<1>15. examined' \cap ZerosOf(stream') = examined \cap ZerosOf(stream)
  BY <1>1, <1>2 DEF ZerosOf, ZeroTypes
<1>16. (UNION {Within(row)' : row \in rleRows'}) \cup unstored' =
         (UNION {Within(row) : row \in rleRows}) \cup Streak \cup unstored
  <2>1. CASE rleRows' = rleRows \cup {new} /\ unstored' = unstored
    BY <1>4, <1>7, <2>1
  <2>2. CASE rleRows' = rleRows /\ unstored' = unstored \cup Streak
    BY <1>4, <2>2
  <2> QED
    BY <1>8, <2>1, <2>2
<1>17. examined' \cap ZerosOf(stream') =
         (UNION {Within(row)' : row \in rleRows'}) \cup Streak' \cup unstored'
  BY <1>1, <1>5, <1>15, <1>16 DEF RunsAccountForZeros
<1>18. zeroCount' = Cardinality(Streak')
  BY <1>5, FS_EmptySet
<1> QED
  BY <1>9, <1>11, <1>12, <1>14, <1>17, <1>18 DEF ZeroInv, RunsAccountForZeros

\* Its invariant, along every run.
LEMMA ZeroInvariant == ZeroInit /\ [][ZeroNext]_zeroVars => []ZeroInv
<1>1. ZeroInv /\ [ZeroNext]_zeroVars => ZeroInv'
  <2> SUFFICES ASSUME ZeroInv, [ZeroNext]_zeroVars PROVE ZeroInv'
    OBVIOUS
  <2>1. CASE FullRLEZeroCompression
    <3>1. PICK packets \in NextPackets :
            /\ stream' = stream \o packets
            /\ IF packets = <<>>
               THEN UNCHANGED <<startOfRLE, lastZeroEnd, zeroCount, rleRows, examined, unstored>>
               ELSE /\ examined' = examined \cup {Len(stream) + 1}
                    /\ IF packets[1]
                       THEN /\ startOfRLE' = IF startOfRLE = 0 THEN Len(stream) + 1 ELSE startOfRLE
                            /\ lastZeroEnd' = Len(stream) + 1
                            /\ zeroCount' = zeroCount + 1
                            /\ UNCHANGED <<rleRows, unstored>>
                       ELSE /\ \/ /\ rleRows' = rleRows \cup
                                        {[start |-> startOfRLE, end |-> lastZeroEnd,
                                          length |-> zeroCount]}
                                  /\ UNCHANGED unstored
                               \/ unstored' = unstored \cup Streak /\ UNCHANGED rleRows
                            /\ startOfRLE' = 0 /\ lastZeroEnd' = 0 /\ zeroCount' = 0
      BY <2>1 DEF FullRLEZeroCompression, NextStart
    <3>2. CASE packets = <<>>
      BY <3>1, <3>2, UnexaminedKeeps
    <3>3. CASE packets # <<>> /\ packets[1]
      BY <3>1, <3>3, ZeroPacketKeeps
    <3>4. CASE packets # <<>> /\ ~packets[1]
      BY <3>1, <3>4, OtherPacketKeeps
    <3> QED
      BY <3>2, <3>3, <3>4
  <2>2. CASE StoreAndRemoveAllMetaData
    BY <2>2, UnexaminedKeeps DEF StoreAndRemoveAllMetaData
  <2>3. CASE UNCHANGED zeroVars
    BY <2>3 DEF zeroVars, ZeroInv, ZeroTypes, StreakGoesOn, RunsAccountForZeros, Within, Streak
  <2> QED
    BY <2>1, <2>2, <2>3 DEF ZeroNext
<1> QED
  BY ZeroInitHolds, <1>1, PTL

\* However many packets come, in calls of whatever size, and whichever inserts
\* fail: the rows say when and how often the packets that were looked at were
\* zero, and none is missing or counted twice (ZeroValuesCompressor.c:294-318).
THEOREM ZerosAccountedFor == ZeroInit /\ [][ZeroNext]_zeroVars => []RunsAccountForZeros
<1>1. ZeroInv => RunsAccountForZeros
  BY DEF ZeroInv
<1> QED
  BY ZeroInvariant, <1>1, PTL
-----------------------------------------------------------------------------
(***************************************************************************)
(* The circular buffer and the metrics (CircularBuffer), for rings of any  *)
(* size, any sizes of inserts and reads and any interval.  Both rest on    *)
(* one fact: the n-th thing put in lies at place (n - 1) % size until size *)
(* more have come.  RingsInOrder says nothing of what has not been read or *)
(* written yet, so it is not inductive; RingInv and MetricInv add where    *)
(* that lies, what Count is between two updates, and how far the file is.  *)
(***************************************************************************)
\* What quotient and remainder are.
LEMMA Quotient ==
    ASSUME NEW n \in Nat \ {0}, NEW x \in Int
    PROVE  x \div n \in Int /\ x % n \in 0 .. n - 1 /\ x = (x \div n) * n + (x % n)
  OBVIOUS

\* They are the only ones.
LEMMA Remainder ==
    ASSUME NEW n \in Nat \ {0}, NEW q \in Int, NEW r \in 0 .. n - 1
    PROVE  (q * n + r) % n = r
<1> DEFINE x == q * n + r
           s == x % n
           p == x \div n
<1>1. q * n \in Int /\ x \in Int
  OBVIOUS
<1>2. p \in Int /\ s \in 0 .. n - 1 /\ x = p * n + s
  BY <1>1, Quotient
<1>3. (p - q) * n = r - s
  <2> HIDE DEF s, p
  <2>1. (p - q) * n = p * n - q * n
    BY <1>2
  <2>2. p * n \in Int
    BY <1>2
  <2> QED
    BY <1>1, <1>2, <2>1, <2>2
<1>4. p - q = 0
  <2> HIDE DEF s, p, x
  <2>1. CASE p - q >= 1
    <3>1. (p - q) * n >= n
      BY <1>2, <2>1
    <3> QED
      BY <1>2, <1>3, <3>1
  <2>2. CASE p - q <= -1
    <3>1. (p - q) * n <= -n
      BY <1>2, <2>2
    <3> QED
      BY <1>2, <1>3, <3>1
  <2> QED
    BY <1>2, <2>1, <2>2
<1>5. r - s = 0
  <2> HIDE DEF s, p, x
  <2> QED
    BY <1>2, <1>3, <1>4
<1> HIDE DEF s, x, p
<1>6. s = r
  BY <1>2, <1>5
<1> QED
  BY <1>6 DEF s, x

\* Whole rounds of a ring lead back to the same place.
LEMMA Shifted ==
    ASSUME NEW n \in Nat \ {0}, NEW x \in Int, NEW k \in Int
    PROVE  (x + k * n) % n = x % n
<1> DEFINE q == x \div n
           r == x % n
<1>1. q \in Int /\ r \in 0 .. n - 1 /\ x = q * n + r
  BY Quotient
<1> HIDE DEF q, r
<1>2. x + k * n = (q + k) * n + r
  <2>1. (q + k) * n = q * n + k * n /\ q * n \in Int /\ k * n \in Int
    BY <1>1
  <2> QED
    BY <1>1, <2>1
<1>3. ((q + k) * n + r) % n = r
  BY <1>1, Remainder
<1> QED
  BY <1>2, <1>3 DEF r

\* A step on a ring may be taken before or after going round it.
LEMMA StepOnRing ==
    ASSUME NEW n \in Nat \ {0}, NEW x \in Int, NEW y \in Int
    PROVE  ((x % n) + y) % n = (x + y) % n
<1> DEFINE q == x \div n
           r == x % n
<1>1. q \in Int /\ r \in 0 .. n - 1 /\ x = q * n + r
  BY Quotient
<1> HIDE DEF q, r
<1>2. ((r + y) + q * n) % n = (r + y) % n
  <2>1. r + y \in Int /\ q \in Int
    BY <1>1
  <2> QED
    BY <2>1, Shifted
<1>3. (r + y) + q * n = x + y
  BY <1>1
<1> QED
  BY <1>2, <1>3 DEF r

\* So may the distance between two places.
LEMMA DistanceOnRing ==
    ASSUME NEW n \in Nat \ {0}, NEW x \in Int, NEW y \in Int
    PROVE  ((y % n) - (x % n)) % n = (y - x) % n
<1> DEFINE q == x \div n
           r == x % n
           u == y \div n
           v == y % n
<1>1. q \in Int /\ r \in 0 .. n - 1 /\ x = q * n + r
  BY Quotient
<1>2. u \in Int /\ v \in 0 .. n - 1 /\ y = u * n + v
  BY Quotient
<1> HIDE DEF q, r, u, v
<1>3. ((v - r) + (u - q) * n) % n = (v - r) % n
  <2>1. v - r \in Int /\ u - q \in Int
    BY <1>1, <1>2
  <2> QED
    BY <2>1, Shifted
<1>4. (v - r) + (u - q) * n = y - x
  <2>1. (u - q) * n = u * n - q * n /\ u * n \in Int /\ q * n \in Int
    BY <1>1, <1>2
  <2> QED
    BY <1>1, <1>2, <2>1
<1> QED
  BY <1>3, <1>4 DEF r, v

\* Within one round, before it or behind it.
LEMMA OneRound ==
    ASSUME NEW n \in Nat \ {0}, NEW x \in Int
    PROVE  /\ x \in 0 .. n - 1 => x % n = x
           /\ x \in (-n) .. -1 => x % n = x + n
           /\ x \in n .. 2 * n - 1 => x % n = x - n
<1>1. ASSUME x \in 0 .. n - 1 PROVE x % n = x
  BY <1>1, Remainder
<1>2. ASSUME x \in (-n) .. -1 PROVE x % n = x + n
  <2>1. (-1 * n + (x + n)) % n = x + n
    BY <1>2, Remainder
  <2>2. -1 * n + (x + n) = x
    OBVIOUS
  <2> QED
    BY <2>1, <2>2
<1>3. ASSUME x \in n .. 2 * n - 1 PROVE x % n = x - n
  <2>1. (1 * n + (x - n)) % n = x - n
    BY <1>3, Remainder
  <2>2. 1 * n + (x - n) = x
    OBVIOUS
  <2> QED
    BY <2>1, <2>2
<1> QED
  BY <1>1, <1>2, <1>3


\* One step further on a ring.
LEMMA Successor ==
    ASSUME NEW n \in Nat \ {0}, NEW x \in Int
    PROVE  /\ (x + 1) % n = 0 => x % n = n - 1
           /\ (x + 1) % n # 0 => (x + 1) % n = (x % n) + 1
<1> DEFINE q == x \div n
           r == x % n
<1>1. q \in Int /\ r \in 0 .. n - 1 /\ x = q * n + r
  BY Quotient
<1> HIDE DEF q, r
<1>2. CASE r = n - 1
  <2>1. x + 1 = (q + 1) * n + 0
    <3>1. (q + 1) * n = q * n + n /\ q * n \in Int
      BY <1>1
    <3> QED
      BY <1>1, <1>2, <3>1
  <2>2. ((q + 1) * n + 0) % n = 0
    <3>1. q + 1 \in Int /\ 0 \in 0 .. n - 1
      BY <1>1
    <3> QED
      BY <3>1, Remainder
  <2>3. (x + 1) % n = 0
    BY <2>1, <2>2
  <2> QED
    BY <1>2, <2>3 DEF r
<1>3. CASE r # n - 1
  <2>1. x + 1 = q * n + (r + 1) /\ r + 1 \in 0 .. n - 1 /\ r + 1 # 0
    <3>1. q * n \in Int
      BY <1>1
    <3> QED
      BY <1>1, <1>3, <3>1
  <2>2. (q * n + (r + 1)) % n = r + 1
    BY <1>1, <2>1, Remainder
  <2>3. (x + 1) % n = r + 1
    BY <2>1, <2>2
  <2> QED
    BY <2>1, <2>3 DEF r
<1> QED
  BY <1>2, <1>3

\* Places less than a round apart differ.
LEMMA Apart ==
    ASSUME NEW n \in Nat \ {0}, NEW x \in Int, NEW d \in 1 .. n - 1
    PROVE  (x + d) % n # x % n
<1> DEFINE y == x + d
<1>1. y \in Int /\ y - x = d /\ d \in Int /\ d \in 0 .. n - 1 /\ d # 0
  OBVIOUS
<1> HIDE DEF y
<1>2. ((y % n) - (x % n)) % n = d % n
  BY <1>1, DistanceOnRing
<1>3. d % n = d
  BY <1>1, OneRound
<1>4. 0 % n = 0
  BY OneRound
<1>5. x % n \in Int
  BY Quotient
<1> SUFFICES ASSUME y % n = x % n PROVE FALSE
  BY DEF y
<1>6. (y % n) - (x % n) = 0
  BY <1>5
<1> QED
  BY <1>1, <1>2, <1>3, <1>4, <1>6

\* What is read goes behind what was read before.
LEMMA Appended ==
    ASSUME NEW s \in Seq(Int), NEW m \in Nat, NEW t \in [1 .. m -> Int]
    PROVE  /\ s \o t \in Seq(Int) /\ Len(s) \in Nat /\ Len(s \o t) = Len(s) + m
           /\ \A i \in 1 .. Len(s) : (s \o t)[i] = s[i]
           /\ \A i \in Len(s) + 1 .. Len(s) + m : (s \o t)[i] = t[i - Len(s)]
<1>1. t \in Seq(Int)
  OBVIOUS
<1>2. Len(t) = m
  OBVIOUS
<1> QED
  BY <1>1, <1>2


\* The bytes that Count does not know of yet.
Stored(c) == IF c.pc = "store" THEN c.size ELSE 0

CallPc == {"idle", "check", "sleep", "asleep", "copy", "store", "look", "full"}
RingCall == [pc : CallPc, size : Nat, seen : Int]

RingTypes ==
    /\ data \in [0 .. DataSize - 1 -> Int]
    /\ head \in Int /\ tail \in Int /\ count \in Int /\ put \in Nat
    /\ ins \in RingCall
    /\ rd \in RingCall
    /\ got \in Seq(Int)
    /\ overran \in BOOLEAN /\ raced \in BOOLEAN

\* The places, what Count is between its updates, and what is where.
Sound ==
    /\ head = put % DataSize /\ tail = Len(got) % DataSize
    /\ Len(got) <= put /\ put - Len(got) <= DataSize
    /\ count = put - Len(got) - Stored(ins) + Stored(rd)
    /\ rd.pc = "copy" => rd.size <= count
    /\ \A p \in Len(got) + 1 .. put : data[(p - 1) % DataSize] = p
    /\ \A i \in 1 .. Len(got) : got[i] = i

RingInv == RingTypes /\ (~raced /\ ~overran => Sound)

\* The buffer starts empty.
LEMMA BufferInitHolds == BufferInit => RingInv
<1> SUFFICES ASSUME BufferInit PROVE RingInv
  OBVIOUS
<1>1. DataSize \in Nat \ {0}
  BY RingAssumption
<1>2. RingTypes
  <2>1. NoCall \in RingCall
    BY DEF NoCall, RingCall, CallPc
  <2>2. got \in Seq(Int)
    BY DEF BufferInit
  <2>3. data \in [0 .. DataSize - 1 -> Int]
    BY DEF BufferInit
  <2>4. ins \in RingCall /\ rd \in RingCall
    BY <2>1 DEF BufferInit
  <2>5. head \in Int /\ tail \in Int /\ count \in Int /\ put \in Nat
    BY DEF BufferInit
  <2>6. overran \in BOOLEAN /\ raced \in BOOLEAN
    BY DEF BufferInit
  <2> QED
    BY <2>2, <2>3, <2>4, <2>5, <2>6 DEF RingTypes
<1>3. 0 % DataSize = 0
  BY <1>1, OneRound
<1>4. Len(got) = 0
  BY DEF BufferInit
<1>5. Sound
  BY <1>1, <1>3, <1>4 DEF BufferInit, NoCall, Sound, Stored
<1> QED
  BY <1>2, <1>5 DEF RingInv

\* A call goes on to another place, maybe with what it has seen of Count.
LEMMA CallGoesOn ==
    ASSUME NEW c \in RingCall, NEW pc \in CallPc, NEW after, after = [c EXCEPT !.pc = pc]
    PROVE  after \in RingCall /\ after.pc = pc /\ after.size = c.size
  BY DEF RingCall

\* What a call is made of.
LEMMA CallParts ==
    ASSUME NEW c \in RingCall
    PROVE  /\ c.pc \in CallPc /\ c.size \in Nat /\ c.seen \in Int
           /\ Stored(c) \in Nat
  BY DEF RingCall, Stored

\* Where a call waits, looks or returns it has stored nothing.
LEMMA QuietCall ==
    ASSUME NEW c \in RingCall, c.pc # "store", NEW after,
           NEW pc \in {"idle", "check", "sleep", "asleep", "copy", "full"},
           after = [c EXCEPT !.pc = pc]
    PROVE  /\ after \in RingCall /\ Stored(after) = Stored(c)
           /\ after.pc = pc /\ after.size = c.size
<1>1. pc \in CallPc
  BY DEF CallPc
<1>2. after \in RingCall /\ after.pc = pc /\ after.size = c.size
  BY <1>1, CallGoesOn
<1> QED
  BY <1>2 DEF Stored

\* A call that begins.
LEMMA FreshCall ==
    ASSUME NEW size \in Nat, NEW after, after = [pc |-> "check", size |-> size, seen |-> 0]
    PROVE  after \in RingCall /\ Stored(after) = 0 /\ after.pc = "check"
  BY DEF RingCall, CallPc, Stored

\* The steps at which neither bytes nor Count change.
LEMMA QuietKeeps ==
    ASSUME RingInv, ~raced, ~overran,
           \/ CallInsert \/ CheckNotFull \/ SleepNotFull \/ LookAtCount \/ SetFull
           \/ CallRead \/ CheckEnough \/ SleepNotEmpty \/ ClearFull
    PROVE  RingInv'
<1> DEFINE Still == /\ ins' \in RingCall /\ Stored(ins') = Stored(ins)
                    /\ rd' \in RingCall /\ Stored(rd') = Stored(rd)
                    /\ rd'.pc = "copy" => rd'.size <= count
<1>1. /\ UNCHANGED <<data, head, tail, count, put, got, overran, raced>>
      /\ RingTypes /\ Sound
  BY DEF RingInv, CallInsert, CheckNotFull, SleepNotFull, LookAtCount, SetFull,
     CallRead, CheckEnough, SleepNotEmpty, ClearFull
<1>2. /\ ins \in RingCall /\ rd \in RingCall /\ count \in Int
      /\ rd.pc = "copy" => rd.size <= count
  BY <1>1 DEF RingTypes, Sound
<1>3. ASSUME CallInsert PROVE Still
  <2>1. PICK size \in 1 .. DataSize : ins' = [pc |-> "check", size |-> size, seen |-> 0]
    BY <1>3 DEF CallInsert
  <2>2. size \in Nat
    BY RingAssumption
  <2>3. ins' \in RingCall /\ Stored(ins') = 0
    BY <2>1, <2>2, FreshCall
  <2>4. ins.pc = "idle" /\ rd' = rd
    BY <1>3 DEF CallInsert
  <2> QED
    BY <1>2, <2>3, <2>4 DEF Stored
<1>4. ASSUME CheckNotFull \/ SleepNotFull PROVE Still
  <2>1. /\ ins.pc # "store" /\ rd' = rd
        /\ \E pc \in {"sleep", "copy", "asleep"} : ins' = [ins EXCEPT !.pc = pc]
    BY <1>4 DEF CheckNotFull, SleepNotFull, InsertIsAt
  <2>2. ins' \in RingCall /\ Stored(ins') = Stored(ins)
    BY <1>2, <2>1, QuietCall
  <2> QED
    BY <1>2, <2>1, <2>2
<1>5. ASSUME LookAtCount PROVE Still
  <2>1. ins.pc = "look" /\ rd' = rd /\ ins' = [ins EXCEPT !.pc = "full", !.seen = count]
    BY <1>5 DEF LookAtCount
  <2>2. "full" \in CallPc
    BY DEF CallPc
  <2>3. ins' \in RingCall /\ ins'.pc = "full"
    BY <1>2, <2>1, <2>2 DEF RingCall
  <2> QED
    BY <1>2, <2>1, <2>3 DEF Stored
<1>6. ASSUME SetFull PROVE Still
  <2>1. ins.pc = "full" /\ ins' = [ins EXCEPT !.pc = "idle"]
    BY <1>6 DEF SetFull, InsertIsAt
  <2>2. ins' \in RingCall /\ Stored(ins') = Stored(ins)
    BY <1>2, <2>1, QuietCall
  <2>3. rd' = rd \/ (rd.pc = "asleep" /\ rd' = [rd EXCEPT !.pc = "check"])
    BY <1>6 DEF SetFull, ReadIsAt
  <2>4. ASSUME rd' # rd PROVE rd' \in RingCall /\ Stored(rd') = Stored(rd) /\ rd'.pc = "check"
    BY <1>2, <2>3, <2>4, QuietCall
  <2> QED
    BY <1>2, <2>2, <2>4
<1>7. ASSUME CallRead PROVE Still
  <2>1. PICK size \in 1 .. DataSize : rd' = [pc |-> "check", size |-> size, seen |-> 0]
    BY <1>7 DEF CallRead
  <2>2. size \in Nat
    BY RingAssumption
  <2>3. rd' \in RingCall /\ Stored(rd') = 0 /\ rd'.pc = "check"
    BY <2>1, <2>2, FreshCall
  <2>4. rd.pc = "idle" /\ ins' = ins
    BY <1>7 DEF CallRead
  <2> QED
    BY <1>2, <2>3, <2>4 DEF Stored
<1>8. ASSUME CheckEnough PROVE Still
  <2>1. /\ rd.pc = "check" /\ ins' = ins
        /\ rd' = [rd EXCEPT !.pc = IF count >= rd.size THEN "copy" ELSE "sleep"]
    BY <1>8 DEF CheckEnough, ReadIsAt, Enough
  <2>2. CASE count >= rd.size
    <3>1. rd' = [rd EXCEPT !.pc = "copy"]
      BY <2>1, <2>2
    <3>2. rd' \in RingCall /\ Stored(rd') = Stored(rd) /\ rd'.size = rd.size
      BY <1>2, <2>1, <3>1, QuietCall
    <3>3. rd.size \in Nat
      BY <1>2, CallParts
    <3> QED
      BY <1>2, <2>1, <2>2, <3>2, <3>3
  <2>3. CASE ~(count >= rd.size)
    <3>1. rd' = [rd EXCEPT !.pc = "sleep"]
      BY <2>1, <2>3
    <3>2. rd' \in RingCall /\ Stored(rd') = Stored(rd) /\ rd'.pc = "sleep"
      BY <1>2, <2>1, <3>1, QuietCall
    <3> QED
      BY <1>2, <2>1, <3>2
  <2> QED
    BY <2>2, <2>3
<1>9. ASSUME SleepNotEmpty PROVE Still
  <2>1. rd.pc = "sleep" /\ ins' = ins /\ rd' = [rd EXCEPT !.pc = "asleep"]
    BY <1>9 DEF SleepNotEmpty, ReadIsAt
  <2>2. rd' \in RingCall /\ Stored(rd') = Stored(rd) /\ rd'.pc = "asleep"
    BY <1>2, <2>1, QuietCall
  <2> QED
    BY <1>2, <2>1, <2>2
<1>10. ASSUME ClearFull PROVE Still
  <2>1. rd.pc = "full" /\ rd' = [rd EXCEPT !.pc = "idle"]
    BY <1>10 DEF ClearFull, ReadIsAt
  <2>2. rd' \in RingCall /\ Stored(rd') = Stored(rd) /\ rd'.pc = "idle"
    BY <1>2, <2>1, QuietCall
  <2>3. ins' = ins \/ (ins.pc = "asleep" /\ ins' = [ins EXCEPT !.pc = "check"])
    BY <1>10 DEF ClearFull, InsertIsAt
  <2>4. ASSUME ins' # ins PROVE ins' \in RingCall /\ Stored(ins') = Stored(ins)
    BY <1>2, <2>3, <2>4, QuietCall
  <2> QED
    BY <1>2, <2>2, <2>4
<1>11. Still
  BY <1>3, <1>4, <1>6, <1>7, <1>8, <1>9, <1>10, <1>5
<1>12. RingTypes'
  BY <1>1, <1>11 DEF RingTypes
<1>13. Sound'
  BY <1>1, <1>11 DEF Sound
<1> QED
  BY <1>12, <1>13 DEF RingInv

\* An insert that fits overwrites nothing that is still to be read.
LEMMA InsertKeeps ==
    ASSUME RingInv, ~raced, ~overran, InsertBytes
    PROVE  RingInv'
<1> DEFINE n == DataSize
           size == ins.size
           g == Len(got)
<1>1. RingTypes /\ Sound /\ ins.pc = "copy"
  BY DEF RingInv, InsertBytes
<1>2. /\ data' = [i \in DOMAIN data |->
                    IF (i - head) % n < size THEN put + ((i - head) % n) + 1 ELSE data[i]]
      /\ head' = (head + size) % n /\ put' = put + size
      /\ overran' = (overran \/ put + size - g > n)
      /\ ins' = [ins EXCEPT !.pc = "store", !.seen = count]
      /\ UNCHANGED <<tail, count, full, rd, got, raced>>
  BY DEF InsertBytes
<1>3. /\ n \in Nat \ {0} /\ put \in Nat /\ head \in Int /\ count \in Int
      /\ got \in Seq(Int) /\ rd \in RingCall /\ ins \in RingCall
      /\ DOMAIN data = 0 .. n - 1 /\ \A i \in 0 .. n - 1 : data[i] \in Int
  BY <1>1, RingAssumption DEF RingTypes
<1>4. g \in Nat
  BY <1>3
<1>5. /\ size \in Nat /\ Stored(rd) \in Nat /\ Stored(ins) = 0
      /\ ins' \in RingCall /\ ins'.pc = "store" /\ ins'.size = size
  <2>1. "store" \in CallPc
    BY DEF CallPc
  <2>2. size \in Nat /\ Stored(rd) \in Nat
    BY <1>3, CallParts
  <2>3. ins' \in RingCall /\ ins'.pc = "store" /\ ins'.size = size
    BY <1>2, <1>3, <2>1 DEF RingCall
  <2>4. Stored(ins) = 0
    BY <1>1 DEF Stored
  <2> QED
    BY <2>2, <2>3, <2>4
<1>6. head = put % n /\ g <= put /\ put - g <= n
  BY <1>1 DEF Sound
<1> HIDE DEF size, g, n
<1>7. RingTypes'
  <2>1. \A i \in 0 .. n - 1 : (i - head) % n \in Int
    <3> TAKE i \in 0 .. n - 1
    <3>1. i - head \in Int
      BY <1>3
    <3> QED
      BY <1>3, <3>1, Quotient
  <2>2. data' \in [0 .. n - 1 -> Int]
    BY <1>2, <1>3, <2>1
  <2>3. head' \in Int
    <3>1. head + size \in Int
      BY <1>3, <1>5
    <3> QED
      BY <1>2, <1>3, <3>1, Quotient
  <2>4. put' \in Nat /\ overran' \in BOOLEAN
    BY <1>1, <1>2, <1>3, <1>5 DEF RingTypes
  <2> QED
    BY <1>1, <1>2, <1>5, <2>2, <2>3, <2>4 DEF RingTypes, n
<1>8. ASSUME ~overran' PROVE Sound'
  <2>1. put + size - g <= n
    <3>1. ~(put + size - g > n)
      BY <1>2, <1>8
    <3> QED
      BY <1>3, <1>4, <1>5, <3>1
  <2>2. head' = put' % n
    BY <1>2, <1>3, <1>5, <1>6, StepOnRing
  <2>3. count' = put' - g - Stored(ins') + Stored(rd')
    <3>1. Stored(ins') = size
      BY <1>5 DEF Stored
    <3>2. count = put - g - Stored(ins) + Stored(rd)
      BY <1>1 DEF Sound, g
    <3>3. Stored(rd') = Stored(rd) /\ count' = count
      BY <1>2
    <3> QED
      BY <1>2, <1>3, <1>4, <1>5, <3>1, <3>2, <3>3
  <2>4. ASSUME NEW p \in g + 1 .. put + size
        PROVE  data'[(p - 1) % n] = p
    <3>1. PICK i \in 0 .. n - 1 : i = (p - 1) % n
      <4> DEFINE x == p - 1
      <4>1. x \in Int
        BY <1>3, <1>4
      <4> HIDE DEF x
      <4>2. x % n \in 0 .. n - 1
        BY <1>3, <4>1, Quotient
      <4> QED
        BY <4>2 DEF x
    <3>2. (i - head) % n = (p - 1 - put) % n
      <4>1. p - 1 \in Int /\ put \in Int
        BY <1>3, <1>4
      <4> QED
        BY <1>3, <1>6, <3>1, <4>1, DistanceOnRing
    <3>3. data'[i] = IF (i - head) % n < size THEN put + ((i - head) % n) + 1 ELSE data[i]
      BY <1>2, <1>3, <3>1
    <3>4. CASE p > put
      <4> DEFINE d == p - 1 - put
      <4>1. d \in Int /\ d \in 0 .. n - 1 /\ d < size /\ put + d + 1 = p
        BY <1>3, <1>4, <1>5, <1>6, <2>1, <3>4
      <4> HIDE DEF d
      <4>2. d % n = d
        BY <1>3, <4>1, OneRound
      <4>3. data'[i] = put + d + 1
        BY <3>2, <3>3, <4>1, <4>2 DEF d
      <4> QED
        BY <3>1, <4>1, <4>3
    <3>5. CASE p <= put
      <4> DEFINE d == p - 1 - put
      <4>1. d \in Int /\ d \in (-n) .. -1 /\ ~(d + n < size)
        BY <1>3, <1>4, <1>5, <1>6, <2>1, <3>5
      <4> HIDE DEF d
      <4>2. d % n = d + n
        BY <1>3, <4>1, OneRound
      <4>3. data'[i] = data[i]
        BY <3>2, <3>3, <4>1, <4>2 DEF d
      <4>4. p \in g + 1 .. put
        BY <1>3, <1>4, <3>5
      <4>5. data[i] = p
        BY <1>1, <3>1, <4>4 DEF Sound, g, n
      <4> QED
        BY <3>1, <4>3, <4>5
    <3> QED
      BY <1>3, <1>4, <3>4, <3>5
  <2>5. g <= put' /\ put' - g <= n
    BY <1>2, <1>3, <1>4, <1>5, <1>6, <2>1
  <2>6. g' = g
    BY <1>2 DEF g
  <2>7. tail' = Len(got') % n /\ (rd'.pc = "copy" => rd'.size <= count')
        /\ \A i \in 1 .. Len(got') : got'[i] = i
    BY <1>1, <1>2 DEF Sound, n
  <2>8. \A p \in g + 1 .. put' : data'[(p - 1) % n] = p
    BY <1>2, <2>4
  <2> QED
    BY <2>2, <2>3, <2>5, <2>6, <2>7, <2>8 DEF Sound, g, n
<1> QED
  BY <1>7, <1>8 DEF RingInv

\* A read that Count allows finds what was put in.
LEMMA ReadKeeps ==
    ASSUME RingInv, ~raced, ~overran, ReadBytes
    PROVE  RingInv'
<1> DEFINE n == DataSize
           size == rd.size
           g == Len(got)
           more == [k \in 1 .. size |-> data[(tail + k - 1) % n]]
<1>1. RingTypes /\ Sound /\ rd.pc = "copy"
  BY DEF RingInv, ReadBytes
<1>2. /\ got' = got \o more
      /\ tail' = (tail + size) % n
      /\ rd' = [rd EXCEPT !.pc = "store", !.seen = count]
      /\ UNCHANGED <<data, head, count, full, ins, put, overran, raced>>
  BY DEF ReadBytes
<1>3. /\ n \in Nat \ {0} /\ put \in Nat /\ tail \in Int /\ count \in Int
      /\ got \in Seq(Int) /\ rd \in RingCall /\ ins \in RingCall
  BY <1>1, RingAssumption DEF RingTypes
<1>4. g \in Nat
  BY <1>3
<1>5. /\ size \in Nat /\ Stored(ins) \in Nat
      /\ rd' \in RingCall /\ rd'.pc = "store" /\ rd'.size = size
  <2>1. "store" \in CallPc
    BY DEF CallPc
  <2>2. size \in Nat /\ Stored(ins) \in Nat
    BY <1>3, CallParts
  <2>3. rd' \in RingCall /\ rd'.pc = "store" /\ rd'.size = size
    BY <1>2, <1>3, <2>1 DEF RingCall
  <2> QED
    BY <2>2, <2>3
<1>6. tail = g % n /\ g <= put /\ put - g <= n /\ size <= count
  BY <1>1 DEF Sound
<1>7. count = put - g - Stored(ins)
  <2>1. Stored(rd) = 0
    BY <1>1 DEF Stored
  <2>2. count = put - g - Stored(ins) + Stored(rd)
    BY <1>1 DEF Sound
  <2> QED
    BY <1>3, <1>4, <1>5, <2>1, <2>2
<1> HIDE DEF size, g
<1>8. g + size <= put
  BY <1>3, <1>4, <1>5, <1>6, <1>7
<1>9. ASSUME NEW k \in 1 .. size PROVE more[k] = g + k
  <2> DEFINE m == k - 1
  <2>1. (tail + m) % n = (g + m) % n
    <3>1. m \in Int
      BY <1>5
    <3> HIDE DEF m, n
    <3>2. g \in Int /\ n \in Nat \ {0}
      BY <1>3, <1>4
    <3>3. ((g % n) + m) % n = (g + m) % n
      BY <3>1, <3>2, StepOnRing, Zenon
    <3> QED
      BY <1>6, <3>3
  <2>2. tail + k - 1 = tail + m /\ g + k - 1 = g + m
    BY <1>3, <1>4, <1>5
  <2>3. g + k \in g + 1 .. put
    BY <1>3, <1>4, <1>5, <1>8
  <2>4. data[(g + k - 1) % n] = g + k
    BY <1>1, <2>3 DEF Sound, g
  <2> QED
    BY <2>1, <2>2, <2>4
<1>10. more \in [1 .. size -> Int]
  <2>1. \A k \in 1 .. size : more[k] \in Int
    BY <1>4, <1>5, <1>9
  <2> QED
    BY <2>1
<1> HIDE DEF more
<1>11. /\ got' \in Seq(Int) /\ Len(got') = g + size
       /\ \A i \in 1 .. g : got'[i] = got[i]
       /\ \A i \in g + 1 .. g + size : got'[i] = more[i - g]
  BY <1>2, <1>3, <1>5, <1>10, Appended DEF g
<1>12. RingTypes'
  <2>1. tail' \in Int
    <3>1. tail + size \in Int
      BY <1>3, <1>5
    <3> QED
      BY <1>2, <1>3, <3>1, Quotient
  <2> QED
    BY <1>1, <1>2, <1>5, <1>11, <2>1 DEF RingTypes
<1>13. Sound'
  <2>1. tail' = Len(got') % n
    BY <1>2, <1>3, <1>4, <1>5, <1>6, <1>11, StepOnRing
  <2>2. ASSUME NEW i \in 1 .. Len(got') PROVE got'[i] = i
    <3>1. CASE i \in 1 .. g
      <4>1. got[i] = i
        BY <1>1, <3>1 DEF Sound, g
      <4> QED
        BY <1>11, <3>1, <4>1
    <3>2. CASE i \in g + 1 .. g + size
      <4>1. i - g \in 1 .. size /\ i = g + (i - g)
        BY <1>4, <1>5, <3>2
      <4> QED
        BY <1>9, <1>11, <3>2, <4>1
    <3> QED
      BY <1>4, <1>5, <1>11, <3>1, <3>2
  <2>3. count' = put' - Len(got') - Stored(ins') + Stored(rd')
    <3>1. Stored(rd') = size
      BY <1>5 DEF Stored
    <3>2. Stored(ins') = Stored(ins) /\ count' = count /\ put' = put
      BY <1>2
    <3> QED
      BY <1>3, <1>4, <1>5, <1>7, <1>11, <3>1, <3>2
  <2>4. Len(got') <= put' /\ put' - Len(got') <= n
    BY <1>2, <1>3, <1>4, <1>5, <1>6, <1>8, <1>11
  <2>5. ASSUME NEW p \in Len(got') + 1 .. put' PROVE data'[(p - 1) % n] = p
    <3>1. p \in g + 1 .. put
      BY <1>2, <1>3, <1>4, <1>5, <1>11
    <3> QED
      BY <1>1, <1>2, <3>1 DEF Sound, g
  <2>6. head' = put' % n
    BY <1>1, <1>2 DEF Sound
  <2> QED
    BY <1>2, <1>5, <2>1, <2>2, <2>3, <2>4, <2>5, <2>6 DEF Sound
<1> QED
  BY <1>12, <1>13 DEF RingInv

\* An update of Count that was not lost makes up for the bytes that it did not
\* know of.
LEMMA CountKeeps ==
    ASSUME RingInv, ~raced, ~overran, AddCount \/ SubtractCount
    PROVE  RingInv'
<1>1. RingTypes /\ Sound /\ UNCHANGED <<data, head, tail, put, got, overran>>
  BY DEF RingInv, AddCount, SubtractCount
<1>2. /\ ins \in RingCall /\ rd \in RingCall /\ count \in Int /\ put \in Nat
      /\ Len(got) \in Nat /\ raced \in BOOLEAN
  <2>1. got \in Seq(Int)
    BY <1>1 DEF RingTypes
  <2> QED
    BY <1>1, <2>1 DEF RingTypes
<1>3. /\ ins.size \in Nat /\ ins.seen \in Int /\ rd.size \in Nat /\ rd.seen \in Int
      /\ Stored(ins) \in Nat /\ Stored(rd) \in Nat
      /\ "look" \in CallPc /\ "full" \in CallPc
  BY <1>2, CallParts DEF CallPc
<1>4. /\ count = put - Len(got) - Stored(ins) + Stored(rd)
      /\ rd.pc = "copy" => rd.size <= count
  BY <1>1 DEF Sound
<1>5. CASE AddCount
  <2>1. /\ ins.pc = "store" /\ count' = ins.seen + ins.size /\ ins' = [ins EXCEPT !.pc = "look"]
        /\ raced' = (raced \/ count # ins.seen) /\ rd' = rd
    BY <1>5 DEF AddCount, InsertIsAt
  <2>2. ins' \in RingCall /\ ins'.pc = "look"
    BY <1>2, <1>3, <2>1, CallGoesOn
  <2>3. Stored(ins) = ins.size /\ Stored(ins') = 0
    BY <2>1, <2>2 DEF Stored
  <2>4. RingTypes'
    <3>1. count' \in Int
      BY <1>3, <2>1
    <3> QED
      BY <1>1, <1>2, <2>1, <2>2, <3>1 DEF RingTypes
  <2>5. ASSUME ~raced' PROVE Sound'
    <3>1. count' = count + ins.size
      BY <1>2, <2>1, <2>5
    <3>2. count' = put - Len(got) - Stored(ins') + Stored(rd)
      BY <1>2, <1>3, <1>4, <2>3, <3>1
    <3>3. rd.pc = "copy" => rd.size <= count'
      BY <1>2, <1>3, <1>4, <3>1
    <3> QED
      BY <1>1, <2>1, <3>2, <3>3 DEF Sound
  <2> QED
    BY <2>4, <2>5 DEF RingInv
<1>6. CASE SubtractCount
  <2>1. /\ rd.pc = "store" /\ count' = rd.seen - rd.size /\ rd' = [rd EXCEPT !.pc = "full"]
        /\ raced' = (raced \/ count # rd.seen) /\ ins' = ins
    BY <1>6 DEF SubtractCount, ReadIsAt
  <2>2. rd' \in RingCall /\ rd'.pc = "full"
    BY <1>2, <1>3, <2>1, CallGoesOn
  <2>3. Stored(rd) = rd.size /\ Stored(rd') = 0
    BY <2>1, <2>2 DEF Stored
  <2>4. RingTypes'
    <3>1. count' \in Int
      BY <1>3, <2>1
    <3> QED
      BY <1>1, <1>2, <2>1, <2>2, <3>1 DEF RingTypes
  <2>5. ASSUME ~raced' PROVE Sound'
    <3>1. count' = count - rd.size
      BY <1>2, <2>1, <2>5
    <3>2. count' = put - Len(got) - Stored(ins) + Stored(rd')
      BY <1>2, <1>3, <1>4, <2>3, <3>1
    <3> QED
      BY <1>1, <2>1, <2>2, <3>2 DEF Sound
  <2> QED
    BY <2>4, <2>5 DEF RingInv
<1> QED
  BY <1>5, <1>6

\* No update of Count lost and no byte overwritten: the buffer is sound.
LEMMA BufferInvariant == BufferInit /\ [][BufferNext]_bufferVars => []RingInv
<1>1. RingInv /\ [BufferNext]_bufferVars => RingInv'
  <2> SUFFICES ASSUME RingInv, [BufferNext]_bufferVars PROVE RingInv'
    OBVIOUS
  <2>1. CASE UNCHANGED bufferVars
    BY <2>1 DEF bufferVars, RingInv, RingTypes, Sound, Stored
  <2>2. CASE BufferNext
    BY <2>2, QuietKeeps, InsertKeeps, ReadKeeps, CountKeeps DEF BufferNext
  <2> QED
    BY <2>1, <2>2
<1> QED
  BY BufferInitHolds, <1>1, PTL

-----------------------------------------------------------------------------
\* What the file is up to, and whether it is still written to: the interval
\* divides the size of the ring, or the ring has never been full.
Written == added - (sampleCount % interval)
Due == added < MaxSamples \/ MaxSamples % interval = 0

MetricTypes ==
    /\ samples \in [0 .. MaxSamples - 1 -> Int]
    /\ interval \in Intervals
    /\ added \in Nat /\ wIndex \in Int
    /\ file \in Seq(Int)
    /\ writeFailed \in BOOLEAN

\* The ring holds the last samples up to upTo, each at its place.
InRing(ring, n, upTo) == \A s \in 1 .. upTo : s > upTo - n => ring[(s - 1) % n] = s

Ringed ==
    /\ sampleTail = added % MaxSamples
    /\ sampleCount = IF added < MaxSamples THEN added ELSE MaxSamples
    /\ InRing(samples, MaxSamples, added)

\* The file is behind the ring, and as far as Written while it is written to.
Filed ==
    /\ \A i \in 1 .. Len(file) : file[i] \in 1 .. added
    /\ \A i \in 1 .. Len(file) - 1 : file[i] < file[i + 1]
    /\ ~writeFailed => \A i \in 1 .. Len(file) : file[i] = i
    /\ Due => /\ wIndex = Written % MaxSamples
              /\ \A i \in 1 .. Len(file) : file[i] <= Written
              /\ ~writeFailed => Len(file) = Written

MetricInv == MetricTypes /\ Ringed /\ Filed

\* A metric starts without samples.
LEMMA MetricInitHolds == MetricInit => MetricInv
<1> SUFFICES ASSUME MetricInit PROVE MetricInv
  OBVIOUS
<1>1. MaxSamples \in Nat \ {0} /\ interval \in Nat \ {0} /\ interval \in Intervals
  BY RingAssumption DEF MetricInit
<1>2. 0 % MaxSamples = 0 /\ 0 % interval = 0
  BY <1>1, OneRound
<1>3. /\ added = 0 /\ sampleTail = 0 /\ sampleCount = 0 /\ wIndex = 0
      /\ Len(file) = 0
  BY DEF MetricInit
<1>4. MetricTypes
  <2>1. file \in Seq(Int)
    BY DEF MetricInit
  <2>2. writeFailed \in BOOLEAN
    BY DEF MetricInit
  <2>3. samples \in [0 .. MaxSamples - 1 -> Int]
    BY DEF MetricInit
  <2> QED
    BY <1>1, <1>3, <2>1, <2>2, <2>3 DEF MetricTypes
<1>5. Ringed
  BY <1>1, <1>2, <1>3 DEF Ringed, InRing
<1>6. Filed
  BY <1>1, <1>2, <1>3 DEF Filed, Due, Written
<1> QED
  BY <1>4, <1>5, <1>6 DEF MetricInv

\* The next sample takes the place of the oldest.
LEMMA AddedToRing ==
    ASSUME MetricInv, NEW ring, ring = [samples EXCEPT ![sampleTail] = added + 1]
    PROVE  /\ ring \in [0 .. MaxSamples - 1 -> Int]
           /\ NextPlace(sampleTail) = (added + 1) % MaxSamples
           /\ InRing(ring, MaxSamples, added + 1)
<1> DEFINE n == MaxSamples
<1>1. /\ n \in Nat \ {0} /\ added \in Nat /\ samples \in [0 .. n - 1 -> Int]
      /\ sampleTail = added % n
      /\ \A s \in 1 .. added : s > added - n => samples[(s - 1) % n] = s
  BY RingAssumption DEF MetricInv, MetricTypes, Ringed, InRing
<1> HIDE DEF n
<1>2. sampleTail \in 0 .. n - 1
  BY <1>1, Quotient
<1>3. ring \in [0 .. n - 1 -> Int]
  BY <1>1, <1>2
<1>4. ((added % n) + 1) % n = (added + 1) % n
  <2>1. added \in Int /\ 1 \in Int
    BY <1>1
  <2> QED
    BY <1>1, <2>1, StepOnRing, Zenon
<1>5. ASSUME NEW s \in 1 .. added + 1, s > added + 1 - n
      PROVE  ring[(s - 1) % n] = s
  <2>1. CASE s = added + 1
    <3>1. s - 1 = added
      BY <1>1, <2>1
    <3> QED
      BY <1>1, <1>2, <2>1, <3>1
  <2>2. CASE s # added + 1
    <3> DEFINE x == s - 1
               d == added - x
    <3>1. x \in Int /\ d \in 1 .. n - 1 /\ x + d = added /\ s \in 1 .. added /\ s > added - n
      BY <1>1, <1>5, <2>2
    <3> HIDE DEF x, d
    <3>2. x % n # added % n /\ x % n \in 0 .. n - 1
      <4>1. (x + d) % n # x % n
        BY <1>1, <3>1, Apart
      <4>2. x % n \in 0 .. n - 1
        BY <1>1, <3>1, Quotient
      <4> QED
        BY <3>1, <4>1, <4>2
    <3>3. ring[x % n] = samples[x % n]
      BY <1>1, <3>2
    <3>4. samples[(s - 1) % n] = s
      BY <1>1, <3>1
    <3> QED
      BY <3>3, <3>4 DEF x
  <2> QED
    BY <2>1, <2>2
<1> QED
  BY <1>1, <1>3, <1>4, <1>5 DEF NextPlace, InRing, n

\* When the number of samples is at a multiple of the interval, the samples
\* that are pending are fewer than the ring holds.
LEMMA PendingAtWrite ==
    ASSUME MetricInv,
           NEW n, n = IF sampleCount < MaxSamples THEN sampleCount + 1 ELSE sampleCount,
           n % interval = 0
    PROVE  /\ Due /\ Written \in Nat
           /\ added + 1 - Written \in 1 .. MaxSamples - 1
           /\ MaxSamples % interval = 0 \/ added + 1 < MaxSamples
<1>1. /\ MaxSamples \in Nat \ {0} /\ added \in Nat
      /\ interval \in 1 .. MaxSamples - 1
      /\ sampleCount = IF added < MaxSamples THEN added ELSE MaxSamples
  BY RingAssumption DEF MetricInv, MetricTypes, Ringed
<1>2. CASE added < MaxSamples
  <2>1. n = added + 1 /\ sampleCount = added
    BY <1>1, <1>2
  <2>2. added % interval = interval - 1
    <3>1. added \in Int /\ interval \in Nat \ {0} /\ (added + 1) % interval = 0
      BY <1>1, <2>1
    <3> QED
      BY <3>1, Successor, Zenon
  <2>3. added \div interval \in Int /\ added = (added \div interval) * interval + (added % interval)
    BY <1>1, Quotient
  <2>4. Written = added - (interval - 1)
    BY <2>1, <2>2 DEF Written
  <2>5. added - (interval - 1) \in Nat
    <3> DEFINE q == added \div interval
    <3>1. q \in Int /\ added = q * interval + (interval - 1) /\ q * interval \in Int
      BY <1>1, <2>2, <2>3
    <3> HIDE DEF q
    <3>2. q >= 0
      <4>1. ASSUME q <= -1 PROVE FALSE
        <5>1. q * interval <= -interval
          BY <1>1, <3>1, <4>1
        <5> QED
          BY <1>1, <3>1, <5>1
      <4> QED
        BY <3>1, <4>1
    <3>3. q * interval >= 0
      BY <1>1, <3>1, <3>2
    <3> QED
      BY <1>1, <3>1, <3>3
  <2>6. MaxSamples % interval = 0 \/ added + 1 < MaxSamples
    <3>1. CASE added + 1 = MaxSamples
      BY <2>1, <3>1
    <3> QED
      BY <1>1, <1>2, <3>1
  <2> QED
    BY <1>1, <1>2, <2>4, <2>5, <2>6 DEF Due
<1>3. CASE ~(added < MaxSamples)
  <2>1. n = MaxSamples /\ sampleCount = MaxSamples
    BY <1>1, <1>3
  <2>2. MaxSamples % interval = 0
    BY <2>1
  <2>3. Written = added
    BY <1>1, <2>1, <2>2 DEF Written
  <2> QED
    BY <1>1, <2>2, <2>3 DEF Due
<1> QED
  BY <1>2, <1>3
\* A file with samples none of which is past upTo, in order; one that has them all; some that
\* follow the first low ones.
Rising(f, upTo) ==
    /\ f \in Seq(Int)
    /\ \A i \in 1 .. Len(f) : f[i] \in 1 .. upTo
    /\ \A i \in 1 .. Len(f) - 1 : f[i] < f[i + 1]
Gapless(f, upTo) == Len(f) = upTo /\ \A i \in 1 .. Len(f) : f[i] = i
Following(t, low, m) == t \in [1 .. m -> Int] /\ \A k \in 1 .. m : t[k] = low + k

\* What is written goes behind what the file has, however little of it.
LEMMA FileGrows ==
    ASSUME NEW low \in Nat, NEW m \in Nat, NEW f, Rising(f, low), NEW t, Following(t, low, m)
    PROVE  Rising(f \o t, low + m) /\ (Gapless(f, low) => Gapless(f \o t, low + m))
<1> DEFINE g == f \o t
<1>1. /\ t \in [1 .. m -> Int] /\ \A k \in 1 .. m : t[k] = low + k
      /\ f \in Seq(Int)
      /\ \A i \in 1 .. Len(f) : f[i] \in 1 .. low
      /\ \A i \in 1 .. Len(f) - 1 : f[i] < f[i + 1]
  BY DEF Rising, Following
<1>2. /\ g \in Seq(Int) /\ Len(f) \in Nat /\ Len(g) = Len(f) + m
      /\ \A i \in 1 .. Len(f) : g[i] = f[i]
      /\ \A i \in Len(f) + 1 .. Len(f) + m : g[i] = t[i - Len(f)]
  BY <1>1, Appended
<1> HIDE DEF g
<1>3. \A i \in Len(f) + 1 .. Len(f) + m : g[i] = low + (i - Len(f))
  <2> TAKE i \in Len(f) + 1 .. Len(f) + m
  <2>1. i - Len(f) \in 1 .. m
    BY <1>2
  <2> QED
    BY <1>1, <1>2, <2>1
<1>4. ASSUME NEW i \in 1 .. Len(g) PROVE g[i] \in 1 .. low + m
  <2>1. CASE i \in 1 .. Len(f)
    <3>1. f[i] \in 1 .. low /\ g[i] = f[i]
      BY <1>1, <1>2, <2>1
    <3> QED
      BY <3>1
  <2>2. CASE i \in Len(f) + 1 .. Len(f) + m
    <3>1. g[i] = low + (i - Len(f))
      BY <1>3, <2>2
    <3> QED
      BY <1>2, <2>2, <3>1
  <2> QED
    BY <1>2, <2>1, <2>2
<1>5. ASSUME NEW i \in 1 .. Len(g) - 1 PROVE g[i] < g[i + 1]
  <2>1. CASE i + 1 \in 1 .. Len(f)
    <3>1. i \in 1 .. Len(f) /\ i \in 1 .. Len(f) - 1
      BY <1>2, <1>5, <2>1
    <3>2. f[i] < f[i + 1] /\ g[i] = f[i] /\ g[i + 1] = f[i + 1]
      BY <1>1, <1>2, <2>1, <3>1
    <3> QED
      BY <3>2
  <2>2. CASE i = Len(f)
    <3>1. i \in 1 .. Len(f) /\ i + 1 \in Len(f) + 1 .. Len(f) + m
      BY <1>2, <1>5, <2>2
    <3>2. f[i] \in 1 .. low /\ g[i] = f[i]
      BY <1>1, <1>2, <3>1
    <3>3. g[i + 1] = low + (i + 1 - Len(f))
      BY <1>3, <3>1
    <3> QED
      BY <1>2, <2>2, <3>2, <3>3
  <2>3. CASE i \in Len(f) + 1 .. Len(f) + m
    <3>1. i + 1 \in Len(f) + 1 .. Len(f) + m
      BY <1>2, <1>5, <2>3
    <3>2. g[i] = low + (i - Len(f)) /\ g[i + 1] = low + (i + 1 - Len(f))
      BY <1>3, <2>3, <3>1
    <3> QED
      BY <1>2, <3>2
  <2> QED
    BY <1>2, <1>5, <2>1, <2>2, <2>3
<1>6. ASSUME Gapless(f, low) PROVE Gapless(g, low + m)
  <2>1. Len(f) = low /\ \A i \in 1 .. Len(f) : f[i] = i
    BY <1>6 DEF Gapless
  <2>2. ASSUME NEW i \in 1 .. Len(g) PROVE g[i] = i
    <3>1. CASE i \in 1 .. Len(f)
      BY <1>2, <2>1, <3>1
    <3>2. CASE i \in Len(f) + 1 .. Len(f) + m
      BY <1>2, <1>3, <2>1, <3>2
    <3> QED
      BY <1>2, <3>1, <3>2
  <2> QED
    BY <1>2, <2>1, <2>2 DEF Gapless
<1>7. Rising(g, low + m)
  BY <1>2, <1>4, <1>5 DEF Rising
<1> QED
  BY <1>6, <1>7 DEF g

\* The d samples that come after w are those from start to end of the ring.
Pending(ring, start, end, w, d) ==
    /\ ToWrite(start, end) \in Nat /\ ToWriteAtBeginning(start, end) \in Nat
    /\ ToWrite(start, end) + ToWriteAtBeginning(start, end) = d
    /\ \A k \in 1 .. ToWrite(start, end) : ring[(start + k - 1) % MaxSamples] = w + k
    /\ \A k \in 1 .. ToWriteAtBeginning(start, end) :
         ring[(0 + k - 1) % MaxSamples] = w + ToWrite(start, end) + k

\* A write starts where the file ends, and what goes round the end of the ring
\* goes on at its beginning.
LEMMA PendingInRing ==
    ASSUME NEW w \in Nat, NEW d \in 1 .. MaxSamples - 1,
           NEW start, start = w % MaxSamples, NEW end, end = (w + d) % MaxSamples,
           NEW ring, InRing(ring, MaxSamples, w + d)
    PROVE  end # start /\ end \in Int /\ Pending(ring, start, end, w, d)
<1> DEFINE first == ToWrite(start, end)
           second == ToWriteAtBeginning(start, end)
<1>1. MaxSamples \in Nat \ {0}
  BY RingAssumption
<1>2. w \in Int /\ d \in Int /\ w + d \in Int
  OBVIOUS
<1>3. start \in 0 .. MaxSamples - 1 /\ end \in 0 .. MaxSamples - 1
  BY <1>1, <1>2, Quotient
<1>4. end # start
  BY <1>1, <1>2, Apart
<1>5. (end - start) % MaxSamples = d
  <2> DEFINE y == w + d
  <2>1. y \in Int /\ y - w = d
    BY <1>1
  <2>2. end = y % MaxSamples
    BY <1>1
  <2> HIDE DEF y
  <2>3. ((y % MaxSamples) - (w % MaxSamples)) % MaxSamples = (y - w) % MaxSamples
    BY <1>1, <1>2, <2>1, DistanceOnRing, Zenon
  <2>4. d % MaxSamples = d
    <3>1. d \in 0 .. MaxSamples - 1
      BY <1>1
    <3> QED
      BY <1>1, <1>2, <3>1, OneRound
  <2> QED
    BY <1>1, <2>1, <2>2, <2>3, <2>4
<1>6. IF end > start THEN end - start = d ELSE end - start + MaxSamples = d
  <2> DEFINE x == end - start
  <2>1. x \in Int
    BY <1>1, <1>3
  <2>2. CASE end > start
    <3>1. x \in 0 .. MaxSamples - 1
      BY <1>1, <1>3, <2>2
    <3> HIDE DEF x
    <3>2. x % MaxSamples = x
      BY <1>1, <2>1, <3>1, OneRound
    <3> QED
      BY <1>1, <1>5, <2>2, <3>2 DEF x
  <2>3. CASE ~(end > start)
    <3>1. x \in (-MaxSamples) .. -1
      BY <1>1, <1>3, <1>4, <2>3
    <3> HIDE DEF x
    <3>2. x % MaxSamples = x + MaxSamples
      BY <1>1, <2>1, <3>1, OneRound
    <3> QED
      BY <1>1, <1>5, <2>3, <3>2 DEF x
  <2> QED
    BY <1>1, <2>2, <2>3
<1>7. /\ first = IF end > start THEN end - start ELSE MaxSamples - start
      /\ second = IF end > start THEN 0 ELSE end
  BY DEF ToWrite, ToWriteAtBeginning
<1> HIDE DEF first, second, Pending
<1>8. first \in Nat /\ second \in Nat /\ first + second = d
  BY <1>1, <1>3, <1>4, <1>6, <1>7
<1>9. ASSUME NEW j \in 0 .. d - 1 PROVE ring[(w + j) % MaxSamples] = w + j + 1
  <2> DEFINE s == w + j + 1
  <2>1. s \in 1 .. w + d /\ s > w + d - MaxSamples /\ s - 1 = w + j
    BY <1>1, <1>8
  <2> HIDE DEF s
  <2>2. ring[(s - 1) % MaxSamples] = s
    BY <1>1, <2>1 DEF InRing
  <2> QED
    BY <1>1, <2>1, <2>2 DEF s
<1>10. ASSUME NEW k \in 1 .. first PROVE ring[(start + k - 1) % MaxSamples] = w + k
  <2> DEFINE j == k - 1
  <2>1. j \in Int /\ j \in 0 .. d - 1 /\ start + k - 1 = start + j /\ w + j + 1 = w + k
    BY <1>1, <1>3, <1>8
  <2> HIDE DEF j
  <2>2. ((w % MaxSamples) + j) % MaxSamples = (w + j) % MaxSamples
    BY <1>1, <1>2, <2>1, StepOnRing, Zenon
  <2> QED
    BY <1>1, <1>9, <2>1, <2>2
<1>11. ASSUME NEW k \in 1 .. second PROVE ring[(0 + k - 1) % MaxSamples] = w + first + k
  <2> DEFINE j == k - 1
             i == first + j
  <2>1. ~(end > start) /\ first = MaxSamples - start
    BY <1>1, <1>11, <1>7
  <2>2. /\ j \in Int /\ i \in Int /\ i \in 0 .. d - 1 /\ 0 + k - 1 = j
        /\ w + i + 1 = w + first + k
    BY <1>1, <1>8
  <2>3. start + i = j + 1 * MaxSamples
    BY <1>1, <1>3, <2>1
  <2> HIDE DEF i, j
  <2>4. ((w % MaxSamples) + i) % MaxSamples = (w + i) % MaxSamples
    BY <1>1, <1>2, <2>2, StepOnRing, Zenon
  <2>5. (j + 1 * MaxSamples) % MaxSamples = j % MaxSamples
    <3>1. 1 \in Int
      BY <1>1
    <3> QED
      BY <1>1, <2>2, <3>1, Shifted, Zenon
  <2> QED
    BY <1>1, <1>9, <2>2, <2>3, <2>4, <2>5
<1> QED
  BY <1>1, <1>3, <1>4, <1>8, <1>10, <1>11 DEF first, second, Pending

\* MetricAddSample, with the write or without.
LEMMA AddSampleKeeps ==
    ASSUME MetricInv, AddSample
    PROVE  MetricInv'
<1> DEFINE ring == [samples EXCEPT ![sampleTail] = added + 1]
           end == NextPlace(sampleTail)
           n == IF sampleCount < MaxSamples THEN sampleCount + 1 ELSE sampleCount
           first == ToWrite(wIndex, end)
           second == ToWriteAtBeginning(wIndex, end)
<1>1. /\ added' = added + 1 /\ samples' = ring /\ sampleTail' = end /\ sampleCount' = n
      /\ interval' = interval
  BY DEF AddSample
<1>2. IF n % interval = 0 /\ wIndex # end
       THEN /\ wIndex' = end
            /\ \E w1 \in 0 .. first, w2 \in 0 .. second :
                 /\ file' = file \o SamplesFrom(ring, wIndex, w1) \o SamplesFrom(ring, 0, w2)
                 /\ writeFailed' = (writeFailed \/ w1 < first \/ w2 < second)
       ELSE UNCHANGED <<wIndex, file, writeFailed>>
  BY DEF AddSample
<1>3. /\ MaxSamples \in Nat \ {0} /\ added \in Nat /\ interval \in 1 .. MaxSamples - 1
      /\ wIndex \in Int /\ file \in Seq(Int) /\ interval \in Intervals
      /\ sampleCount = IF added < MaxSamples THEN added ELSE MaxSamples
  BY RingAssumption DEF MetricInv, MetricTypes, Ringed
<1>4. writeFailed \in BOOLEAN
  BY DEF MetricInv, MetricTypes
<1>5. Filed
  BY DEF MetricInv
<1>6. /\ ring \in [0 .. MaxSamples - 1 -> Int] /\ end = (added + 1) % MaxSamples
      /\ InRing(ring, MaxSamples, added + 1)
  BY AddedToRing
<1>7. n = IF added + 1 < MaxSamples THEN added + 1 ELSE MaxSamples
  BY <1>3
<1> HIDE DEF ring, end, n
<1>8. Ringed'
  <2>1. sampleTail' = added' % MaxSamples
    BY <1>1, <1>6
  <2>2. sampleCount' = IF added' < MaxSamples THEN added' ELSE MaxSamples
    BY <1>1, <1>7
  <2>3. InRing(samples', MaxSamples, added')
    BY <1>1, <1>6
  <2> QED
    BY <2>1, <2>2, <2>3 DEF Ringed, InRing
<1>9. Written' = (added + 1) - (n % interval)
  <2>1. sampleCount' % interval' = n % interval /\ added' = added + 1
    BY <1>1
  <2> QED
    <3>1. Written' = added' - (sampleCount' % interval')
      BY DEF Written
    <3> QED
      BY <2>1, <3>1
<1>10. Due' <=> added + 1 < MaxSamples \/ MaxSamples % interval = 0
  BY <1>1 DEF Due
<1>11. CASE n % interval = 0
  <2>1. /\ Due /\ Written \in Nat /\ added + 1 - Written \in 1 .. MaxSamples - 1
        /\ MaxSamples % interval = 0 \/ added + 1 < MaxSamples
    BY <1>11, PendingAtWrite DEF n
  <2> DEFINE d == added + 1 - Written
  <2>2. d \in 1 .. MaxSamples - 1 /\ Written + d = added + 1
    BY <1>3, <2>1
  <2>3. /\ wIndex = Written % MaxSamples
        /\ \A i \in 1 .. Len(file) : file[i] <= Written
        /\ ~writeFailed => Len(file) = Written
    BY <1>5, <2>1 DEF Filed
  <2> HIDE DEF d
  <2>4. /\ end # wIndex /\ end \in Int
        /\ first \in Nat /\ second \in Nat /\ first + second = d
        /\ \A k \in 1 .. first : ring[(wIndex + k - 1) % MaxSamples] = Written + k
        /\ \A k \in 1 .. second : ring[(0 + k - 1) % MaxSamples] = Written + first + k
    <3>1. end = (Written + d) % MaxSamples
      BY <1>6, <2>2
    <3>2. InRing(ring, MaxSamples, Written + d)
      BY <1>6, <2>2
    <3>3. end # wIndex /\ end \in Int /\ Pending(ring, wIndex, end, Written, d)
      BY <2>1, <2>2, <2>3, <3>1, <3>2, PendingInRing
    <3> QED
      BY <3>3 DEF Pending
  <2> HIDE DEF first, second
  <2>5. PICK w1 \in 0 .. first, w2 \in 0 .. second :
             /\ file' = file \o SamplesFrom(ring, wIndex, w1) \o SamplesFrom(ring, 0, w2)
             /\ writeFailed' = (writeFailed \/ w1 < first \/ w2 < second)
    BY <1>2, <1>11, <2>4
  <2>6. wIndex' = end
    BY <1>2, <1>11, <2>4
  <2>7. w1 \in Nat /\ w2 \in Nat /\ w1 <= first /\ w2 <= second
    BY <2>4
  <2> DEFINE a == SamplesFrom(ring, wIndex, w1)
             b == SamplesFrom(ring, 0, w2)
             f == file \o a
  <2>8. Following(a, Written, w1)
    <3>1. \A k \in 1 .. w1 : a[k] = Written + k
      BY <2>4, <2>7 DEF SamplesFrom
    <3>2. DOMAIN a = 1 .. w1 /\ a = [k \in 1 .. w1 |-> a[k]]
      BY DEF SamplesFrom
    <3> HIDE DEF a
    <3>3. \A k \in 1 .. w1 : a[k] \in Int
      BY <2>1, <2>7, <3>1
    <3> QED
      BY <3>1, <3>2, <3>3 DEF Following
  <2>9. Following(b, Written + first, w2)
    <3>1. \A k \in 1 .. w2 : b[k] = Written + first + k
      BY <2>4, <2>7 DEF SamplesFrom
    <3>2. DOMAIN b = 1 .. w2 /\ b = [k \in 1 .. w2 |-> b[k]]
      BY DEF SamplesFrom
    <3> HIDE DEF b
    <3>3. \A k \in 1 .. w2 : b[k] \in Int
      BY <2>1, <2>4, <2>7, <3>1
    <3> QED
      BY <3>1, <3>2, <3>3 DEF Following
  <2> HIDE DEF a, b
  <2>10. Rising(file, Written) /\ (~writeFailed => Gapless(file, Written))
    BY <1>3, <1>5, <2>1, <2>3 DEF Filed, Rising, Gapless
  <2>11. Rising(f, Written + w1) /\ (Gapless(file, Written) => Gapless(f, Written + w1))
    BY <2>1, <2>7, <2>8, <2>10, FileGrows
  <2> HIDE DEF f
  <2> DEFINE low == Written + first
  <2>12. low \in Nat /\ Written + w1 <= low /\ Rising(f, low)
    <3>1. low \in Nat /\ Written + w1 \in Nat /\ Written + w1 <= low
      BY <2>1, <2>4, <2>7
    <3> HIDE DEF low
    <3>2. \A i \in 1 .. Len(f) : f[i] \in 1 .. Written + w1 => f[i] \in 1 .. low
      BY <3>1
    <3> QED
      BY <2>11, <3>1, <3>2 DEF Rising
  <2>13. Following(b, low, w2)
    BY <2>9
  <2> HIDE DEF low
  <2>14. Rising(f \o b, low + w2) /\ (Gapless(f, low) => Gapless(f \o b, low + w2))
    BY <2>7, <2>12, <2>13, FileGrows
  <2>15. file' = f \o b
    BY <2>5 DEF a, b, f
  <2>16. low + w2 <= added + 1 /\ low + second = added + 1
    BY <2>1, <2>2, <2>4, <2>7 DEF low
  <2>17. Written' = added + 1 /\ added' = added + 1
    BY <1>1, <1>3, <1>9, <1>11
  <2>18. ASSUME ~writeFailed' PROVE Gapless(file', added + 1)
    <3>1. ~(writeFailed \/ w1 < first \/ w2 < second)
      BY <2>5, <2>18
    <3>2. ~writeFailed
      BY <3>1
    <3>3. w1 = first /\ w2 = second
      BY <2>4, <2>7, <3>1
    <3>4. Gapless(f, low)
      BY <2>10, <2>11, <3>2, <3>3 DEF low
    <3> QED
      BY <2>14, <2>15, <2>16, <3>3, <3>4
  <2>19. /\ file' \in Seq(Int)
         /\ \A i \in 1 .. Len(file') : file'[i] \in 1 .. added + 1 /\ file'[i] <= added + 1
         /\ \A i \in 1 .. Len(file') - 1 : file'[i] < file'[i + 1]
    <3>1. low + w2 \in Int
      BY <2>7, <2>12
    <3>2. Rising(file', low + w2)
      BY <2>14, <2>15
    <3> QED
      BY <1>3, <2>16, <3>1, <3>2 DEF Rising
  <2>20. Filed'
    BY <1>1, <1>6, <2>6, <2>17, <2>18, <2>19 DEF Filed, Gapless
  <2>21. MetricTypes'
    <3>1. writeFailed' \in BOOLEAN
      BY <2>5
    <3>2. file' \in Seq(Int) /\ wIndex' \in Int /\ added' \in Nat
      BY <1>1, <1>3, <2>4, <2>6, <2>19
    <3> QED
      BY <1>1, <1>3, <1>6, <3>1, <3>2 DEF MetricTypes
  <2> QED
    BY <1>8, <2>20, <2>21 DEF MetricInv
<1>12. CASE n % interval # 0
  <2>1. UNCHANGED <<wIndex, file, writeFailed>>
    BY <1>2, <1>12
  <2>2. MetricTypes'
    <3>1. added' \in Nat
      BY <1>1, <1>3
    <3> QED
      BY <1>1, <1>3, <1>4, <1>6, <2>1, <3>1 DEF MetricTypes
  <2>3. Due' => Due /\ Written' = Written
    <3> SUFFICES ASSUME Due' PROVE Due /\ Written' = Written
      OBVIOUS
    <3>1. added < MaxSamples /\ n = added + 1 /\ sampleCount = added
      BY <1>3, <1>7, <1>10, <1>12
    <3>2. n % interval = (added % interval) + 1
      <4>1. added \in Int /\ interval \in Nat \ {0} /\ (added + 1) % interval # 0
        BY <1>3, <1>12, <3>1
      <4>2. (added + 1) % interval = (added % interval) + 1
        BY <4>1, Successor, Zenon
      <4> QED
        BY <3>1, <4>2
    <3>3. added % interval \in Int
      BY <1>3, Quotient
    <3>4. Written = added - (added % interval)
      BY <3>1 DEF Written
    <3> QED
      BY <1>3, <1>9, <3>1, <3>2, <3>3, <3>4 DEF Due
  <2>4. Filed'
    <3>1. \A i \in 1 .. Len(file) : file[i] \in 1 .. added + 1
      BY <1>3, <1>5 DEF Filed
    <3>2. Due' => /\ wIndex = Written' % MaxSamples
                  /\ \A i \in 1 .. Len(file) : file[i] <= Written'
                  /\ ~writeFailed => Len(file) = Written'
      BY <1>5, <2>3 DEF Filed
    <3> QED
      BY <1>1, <1>5, <2>1, <3>1, <3>2 DEF Filed
  <2> QED
    BY <1>8, <2>2, <2>4 DEF MetricInv
<1> QED
  BY <1>11, <1>12

\* The invariant of a metric, from the first sample on.
LEMMA MetricInvariant == MetricInit /\ [][AddSample]_metricVars => []MetricInv
<1>1. MetricInv /\ [AddSample]_metricVars => MetricInv'
  <2> SUFFICES ASSUME MetricInv, UNCHANGED metricVars PROVE MetricInv'
    BY AddSampleKeeps
  <2> QED
    BY DEF metricVars, MetricInv, MetricTypes, Ringed, Filed, Due, Written
<1> QED
  BY MetricInitHolds, <1>1, PTL

\* What CbRead returns are the bytes CbInsert was given, in their order across
\* the end of the buffer (CircularBuffer.c:110-187), and what a metric's file
\* has are samples in their order, all of them as long as no write has failed
\* (Metrics.c:70-142): for every size of the two rings, every size of the calls
\* and every interval.
THEOREM RingsKeepOrder ==
    /\ BufferInit /\ [][BufferNext]_bufferVars
    /\ MetricInit /\ [][AddSample]_metricVars
    => []RingsInOrder
<1>1. RingInv /\ MetricInv => RingsInOrder
  <2> SUFFICES ASSUME RingInv, MetricInv PROVE RingsInOrder
    OBVIOUS
  <2>1. got \in Seq(Int) /\ file \in Seq(Int)
    BY DEF RingInv, RingTypes, MetricInv, MetricTypes
  <2>2. ASSUME ~raced, ~overran PROVE got = [i \in 1 .. Len(got) |-> i]
    <3>1. \A i \in 1 .. Len(got) : got[i] = i
      BY <2>2 DEF RingInv, Sound
    <3> QED
      BY <2>1, <3>1
  <2>3. ASSUME ~writeFailed PROVE file = [i \in 1 .. Len(file) |-> i]
    <3>1. \A i \in 1 .. Len(file) : file[i] = i
      BY <2>3 DEF MetricInv, Filed
    <3> QED
      BY <2>1, <3>1
  <2>4. \A i \in 1 .. Len(file) - 1 : file[i] < file[i + 1]
    BY DEF MetricInv, Filed
  <2> QED
    BY <2>2, <2>3, <2>4 DEF RingsInOrder
<1> QED
  BY BufferInvariant, MetricInvariant, <1>1, PTL

-----------------------------------------------------------------------------
(***************************************************************************)
(* Timed waits (SdbTime), for any times of the clock and any timeouts.     *)
(* What the conversions return is exact, so that a wait that has reached   *)
(* its limit has lasted its timeout (TimerFollows relates the timer to the *)
(* clock, which does not go back).                                         *)
(***************************************************************************)
\* What SdbTimeval makes of a number of microseconds is a number.
LEMMA MaskedIs ==
    ASSUME NEW x \in Nat
    PROVE  Masked(x) \in Nat
<1>1. \A b \in Nat : Bit(x, b) \in Nat
  BY DEF Bit
<1>2. /\ Bit(x, 524288) \in Nat /\ Bit(x, 262144) \in Nat /\ Bit(x, 131072) \in Nat
      /\ Bit(x, 65536) \in Nat /\ Bit(x, 16384) \in Nat /\ Bit(x, 512) \in Nat
      /\ Bit(x, 64) \in Nat
  BY <1>1
<1> QED
  BY <1>2 DEF Masked

\* SdbTimeAdd, and with it CreateTimeout: the sum is exact and a proper time.
LEMMA AddIsExact ==
    ASSUME NEW t \in Timespec, Normal(t), NEW delta \in Nat
    PROVE  /\ TimeAdd(t, delta) \in Timespec /\ Normal(TimeAdd(t, delta))
           /\ Ns(TimeAdd(t, delta)) = Ns(t) + delta
BY SMT DEF Timespec, Normal, TimeAdd, Ns, NsPerS

\* SdbTimePrintSpecDiffWT: the difference is exact and a proper time.
LEMMA DiffIsExact ==
    ASSUME NEW start \in Timespec, Normal(start), NEW end \in Timespec, Normal(end)
    PROVE  /\ Normal(SpecDiff(start, end))
           /\ Ns(SpecDiff(start, end)) = Ns(end) - Ns(start)
BY SMT DEF Timespec, Normal, SpecDiff, Ns, NsPerS

\* The times of the clock are proper times.
LEMMA ClockIsNormal ==
    ASSUME NEW t \in ClockTime \cup {NoTime}
    PROVE  t \in Timespec /\ Normal(t) /\ Ns(t) \in Nat
<1>1. CASE t = NoTime
  BY <1>1, SMT DEF NoTime, Timespec, Normal, Ns, NsPerS
<1>2. CASE t \in ClockTime
  <2>1. PICK i \in Instants : t = [s |-> i[1], ns |-> i[2]]
    BY <1>2 DEF ClockTime
  <2>2. i[1] \in Nat /\ i[2] \in Nat /\ i[2] < NsPerS
    <3>1. i[1] \in Nat /\ i[2] \in 0 .. NsPerS - 1
      BY TimeAssumption
    <3>2. NsPerS \in Nat
      BY SMT DEF NsPerS
    <3> QED
      BY <3>1, <3>2
  <2>3. t \in Timespec
    BY <2>1, <2>2 DEF Timespec
  <2>4. t.ns = i[2] /\ t.s = i[1]
    BY <2>1
  <2>5. Normal(t)
    BY <2>2, <2>4 DEF Normal
  <2>6. t.s \in Nat /\ t.ns \in Nat
    BY <2>3 DEF Timespec
  <2>7. Ns(t) \in Nat
    BY <2>6, SMT DEF Ns, NsPerS
  <2> QED
    BY <2>3, <2>5, <2>7
<1> QED
  BY <1>1, <1>2

\* The timer is what a call has made of it: the clock has not gone back since,
\* and the wait for a response is the one with a limit of SdbTimeval.
TimerFollows ==
    /\ timer = [does |-> timer.does, timeout |-> timer.timeout,
                began |-> timer.began, until |-> timer.until]
    /\ timer.does # "idle" => Ns(timer.began) <= Ns(clock)
    /\ timer.does = "select" => timer.timeout = RecvTimeout

TimeInv == TimeTypeOK /\ TimerFollows /\ TimesExact

\* Before a call the timer is idle.
LEMMA TimeInitInv == TimeInit => TimeInv
<1> SUFFICES ASSUME TimeInit PROVE TimeInv
  OBVIOUS
<1>1. clock \in ClockTime /\ timer = Idle
  BY DEF TimeInit
<1>2. /\ timer.does = "idle" /\ timer.timeout = TIMEOUT_NONE
      /\ timer.began = NoTime /\ timer.until = NoTime
  BY <1>1 DEF Idle, TIMEOUT_NONE
<1>3. NoTime \in Timespec
  BY DEF NoTime, Timespec
<1>4. TimeTypeOK
  BY <1>1, <1>2, <1>3 DEF TimeTypeOK
<1>5. TimerFollows
  BY <1>1, <1>2 DEF TimerFollows, Idle
<1>6. TimesExact
  BY <1>2 DEF TimesExact, Ends
<1> QED
  BY <1>4, <1>5, <1>6 DEF TimeInv

\* A call that does not wait with a limit starts no timer.
LEMMA CallWithoutLimit ==
    ASSUME TimeInv, UNCHANGED clock,
           NEW does \in {"granted", "busy", "forever", "invalid"},
           NEW timeout \in Timeouts \cup {TIMEOUT_NONE, TIMEOUT_MAX, RecvTimeout},
           Calling(does, timeout, NoTime)
    PROVE  TimeInv'
<1>1. timer' = [does |-> does, timeout |-> timeout, began |-> clock, until |-> NoTime]
  BY DEF Calling
<1>2. clock \in ClockTime /\ clock \in Timespec /\ Normal(clock) /\ Ns(clock) \in Nat
  BY ClockIsNormal DEF TimeInv, TimeTypeOK
<1>3. NoTime \in Timespec
  BY DEF NoTime, Timespec
<1>4. TimeTypeOK'
  BY <1>1, <1>2, <1>3 DEF TimeTypeOK, Ends
<1>5. TimerFollows'
  BY <1>1, <1>2 DEF TimerFollows
<1>6. Normal(SpecDiff(clock, clock)) /\ Ns(SpecDiff(clock, clock)) = Ns(clock) - Ns(clock)
  BY <1>2, DiffIsExact
<1>7. TimesExact'
  BY <1>1, <1>6 DEF TimesExact, Ends
<1> QED
  BY <1>4, <1>5, <1>7 DEF TimeInv

\* A call that waits with a limit: the limit is a proper time, and, but for a
\* response, the one asked for.
LEMMA CallWithLimit ==
    ASSUME TimeInv, UNCHANGED clock, NEW does \in {"timed", "select"},
           NEW timeout \in Timeouts \cup {RecvTimeout}, NEW limit \in Nat,
           does = "timed" => limit = timeout,
           does = "select" => timeout = RecvTimeout,
           Calling(does, timeout, TimeAdd(clock, limit))
    PROVE  TimeInv'
<1> DEFINE until == TimeAdd(clock, limit)
<1>1. timer' = [does |-> does, timeout |-> timeout, began |-> clock, until |-> until]
  BY DEF Calling
<1>2. clock \in ClockTime /\ clock \in Timespec /\ Normal(clock) /\ Ns(clock) \in Nat
  BY ClockIsNormal DEF TimeInv, TimeTypeOK
<1>3. until \in Timespec /\ Normal(until) /\ Ns(until) = Ns(clock) + limit
  BY <1>2, AddIsExact
<1> HIDE DEF until
<1>4. TimeTypeOK'
  BY <1>1, <1>2, <1>3 DEF TimeTypeOK, Ends
<1>5. TimerFollows'
  BY <1>1, <1>2 DEF TimerFollows
<1>6. Normal(SpecDiff(clock, clock)) /\ Ns(SpecDiff(clock, clock)) = Ns(clock) - Ns(clock)
  BY <1>2, DiffIsExact
<1>7. does = "timed" => Ns(until) = Ns(clock) + timeout
  BY <1>3
<1>8. TimesExact'
  BY <1>1, <1>3, <1>6, <1>7 DEF TimesExact, Ends
<1> QED
  BY <1>4, <1>5, <1>8 DEF TimeInv

\* A wait that ends changes only what the call does.
LEMMA WaitEnds ==
    ASSUME TimeInv, UNCHANGED clock,
           timer.does \in {"forever", "timed", "select"},
           NEW does \in {"granted", "timedout"}, does = "timedout" => timer.does \in Ends, timer' = [timer EXCEPT !.does = does],
           does = "timedout" /\ timer.timeout # RecvTimeout =>
               Ns(clock) >= Ns(timer.began) + timer.timeout
    PROVE  TimeInv'
<1>1. timer' = [does |-> does, timeout |-> timer.timeout,
                began |-> timer.began, until |-> timer.until]
  BY DEF TimeInv, TimerFollows
<1>2. TimeTypeOK'
  BY <1>1 DEF TimeInv, TimeTypeOK, Ends
<1>3. TimerFollows'
  BY <1>1 DEF TimeInv, TimerFollows
<1>4. TimesExact'
  BY <1>1 DEF TimeInv, TimesExact, Ends
<1> QED
  BY <1>2, <1>3, <1>4 DEF TimeInv

\* The clock goes on, and the time a copy takes with it.
LEMMA TickStep == TimeInv /\ Tick => TimeInv'
<1> SUFFICES ASSUME TimeInv, Tick PROVE TimeInv'
  OBVIOUS
<1>1. clock' \in ClockTime /\ Ns(clock') > Ns(clock) /\ timer' = timer
  BY DEF Tick
<1>2. /\ Ns(clock) \in Nat /\ Ns(clock') \in Nat /\ Ns(timer.began) \in Nat
      /\ clock' \in Timespec /\ Normal(clock') /\ timer.began \in Timespec /\ Normal(timer.began)
  BY <1>1, ClockIsNormal DEF TimeInv, TimeTypeOK
<1>3. TimeTypeOK'
  BY <1>1 DEF TimeInv, TimeTypeOK
<1>4. TimerFollows'
  BY <1>1, <1>2 DEF TimeInv, TimerFollows
<1>5. /\ Normal(SpecDiff(timer.began, clock'))
      /\ Ns(SpecDiff(timer.began, clock')) = Ns(clock') - Ns(timer.began)
  BY <1>2, DiffIsExact
<1>6. timer.timeout \in Int
  <2>1. (\A timeout \in Timeouts : timeout \in Int) /\ RecvTimeout \in Int
    BY TimeAssumption
  <2>2. TIMEOUT_NONE \in Int /\ TIMEOUT_MAX \in Int
    BY DEF TIMEOUT_NONE, TIMEOUT_MAX
  <2>3. timer.timeout \in Timeouts \cup {TIMEOUT_NONE, TIMEOUT_MAX, RecvTimeout}
    BY DEF TimeInv, TimeTypeOK
  <2> QED
    BY <2>1, <2>2, <2>3
<1>7. timer.does = "timedout" /\ timer.timeout # RecvTimeout =>
          Ns(clock') >= Ns(timer.began) + timer.timeout
  BY <1>1, <1>2, <1>6 DEF TimeInv, TimesExact
<1>8. TimesExact'
  BY <1>1, <1>5, <1>7 DEF TimeInv, TimesExact
<1> QED
  BY <1>3, <1>4, <1>8 DEF TimeInv

\* The semaphore, the mutex and the condition variable: a limit is set only for
\* a timeout that is neither none nor for ever.
LEMMA WaitStep == TimeInv /\ (WaitOrLock \/ CondWait) => TimeInv'
<1> SUFFICES ASSUME TimeInv, WaitOrLock \/ CondWait PROVE TimeInv'
  OBVIOUS
<1>1. UNCHANGED clock
  BY DEF WaitOrLock, CondWait
<1>2. PICK timeout \in Timeouts \cup {TIMEOUT_NONE, TIMEOUT_MAX} :
         \/ \E does \in {"granted", "busy", "forever", "invalid"} :
              Calling(does, timeout, NoTime)
         \/ timeout \notin {TIMEOUT_NONE, TIMEOUT_MAX}
            /\ Calling("timed", timeout, TimeAdd(clock, timeout))
  BY DEF WaitOrLock, CondWait
<1>3. CASE \E does \in {"granted", "busy", "forever", "invalid"} :
             Calling(does, timeout, NoTime)
  BY <1>1, <1>3, CallWithoutLimit
<1>4. CASE timeout \notin {TIMEOUT_NONE, TIMEOUT_MAX}
           /\ Calling("timed", timeout, TimeAdd(clock, timeout))
  <2>1. timeout \in Timeouts /\ timeout \in Nat
    BY <1>2, <1>4, TimeAssumption
  <2> QED
    BY <1>1, <1>4, <2>1, CallWithLimit
<1> QED
  BY <1>2, <1>3, <1>4

\* The wait for a response.
LEMMA RecvStep ==
    ASSUME TimeInv, RecvWithTimeout
    PROVE  TimeInv'
<1> DEFINE us == Masked(RecvTimeout \div NsPerUs)
           limit == (RecvTimeout \div NsPerS) * NsPerS + us * NsPerUs
<1>1. RecvTimeout \in Nat /\ UNCHANGED clock
  BY TimeAssumption DEF RecvWithTimeout
<1>2. us \in Nat
  <2>1. RecvTimeout \div NsPerUs \in Nat
    BY <1>1, SMT DEF NsPerUs
  <2> QED
    BY <2>1, MaskedIs
<1>3. Calling("invalid", RecvTimeout, NoTime)
      \/ Calling("select", RecvTimeout, TimeAdd(clock, limit))
  BY DEF RecvWithTimeout, Timeval
<1> HIDE DEF us
<1>4. limit \in Nat
  BY <1>1, <1>2, SMT DEF NsPerS, NsPerUs
<1> HIDE DEF limit
<1>5. CASE Calling("invalid", RecvTimeout, NoTime)
  BY <1>1, <1>5, CallWithoutLimit
<1>6. CASE Calling("select", RecvTimeout, TimeAdd(clock, limit))
  BY <1>1, <1>4, <1>6, CallWithLimit
<1> QED
  BY <1>3, <1>5, <1>6

\* What was waited for comes, or the kernel sees that the limit has passed.
LEMMA EndStep == TimeInv /\ (Grant \/ TimeOut) => TimeInv'
<1> SUFFICES ASSUME TimeInv, Grant \/ TimeOut PROVE TimeInv'
  OBVIOUS
<1>1. CASE Grant
  BY <1>1, WaitEnds DEF Grant
<1>2. CASE TimeOut
  <2>1. /\ timer.does \in {"timed", "select"} /\ timer' = [timer EXCEPT !.does = "timedout"]
        /\ clock.s > timer.until.s \/ (clock.s = timer.until.s /\ clock.ns >= timer.until.ns)
        /\ UNCHANGED clock
    BY <1>2 DEF TimeOut
  <2>2. /\ clock \in Timespec /\ Normal(clock) /\ timer.until \in Timespec /\ Normal(timer.until)
    BY <2>1, ClockIsNormal DEF TimeInv, TimeTypeOK, TimesExact, Ends
  <2>3. Ns(clock) >= Ns(timer.until)
    BY <2>1, <2>2, SMT DEF Timespec, Normal, Ns, NsPerS
  <2>4. timer.timeout # RecvTimeout => Ns(timer.until) = Ns(timer.began) + timer.timeout
    BY <2>1 DEF TimeInv, TimerFollows, TimesExact
  <2> QED
    BY <2>1, <2>3, <2>4, WaitEnds DEF Ends
<1> QED
  BY <1>1, <1>2

\* A wait of a semaphore, a mutex or a condition variable ends exactly its
\* timeout after it began and not before, and the time a copy took is reported as
\* it was, whatever the clock shows and the timeouts are (Time.c:34-44, 59-81).
\* Nothing is said of how long a wait for a response lasts.
THEOREM TimeLimitsKept == TimeSpec => []TimesExact
<1>1. TimeInv /\ [TimeNext]_timeVars => TimeInv'
  <2> SUFFICES ASSUME TimeInv, [TimeNext]_timeVars PROVE TimeInv'
    OBVIOUS
  <2>1. CASE UNCHANGED timeVars
    BY <2>1 DEF timeVars, TimeInv, TimeTypeOK, TimerFollows, TimesExact
  <2> QED
    BY <2>1, WaitStep, RecvStep, EndStep, TickStep DEF TimeNext
<1>2. TimeInv => TimesExact
  BY DEF TimeInv
<1> QED
  BY TimeInitInv, <1>1, <1>2, PTL DEF TimeSpec

-----------------------------------------------------------------------------
(***************************************************************************)
(* Logging and signals (LogSignals), for any number of threads, messages,  *)
(* frames and faults.                                                      *)
(*                                                                         *)
(* WholeMessages rests on the lock: a frame that is past taking it holds   *)
(* it under its own name until it gives it back (LockHeld), also when what *)
(* comes in between is a handler on the same thread.  An error return      *)
(* that keeps the lock only makes later calls wait.                        *)
(***************************************************************************)
\* Places in a log call between taking the module's lock and giving it back.
InLog == {"time", "zone", "zoned", "write", "unlock"}

\* Only a crash handler has a second dump.
GoodFrame == {f \in LogFrame : f.run \in Termination \cup {"abort"} => f.stage <= 2}

LogTypes ==
    /\ LogTypeOK
    /\ stack \in [Thread -> Seq(GoodFrame)]
    /\ \A t \in Thread : stack[t][1].run = "thread"

LockHeld ==
    \A t \in Thread : \A d \in 1 .. Len(stack[t]) :
        stack[t][d].pc \in InLog => holder[ModuleOf(stack[t][d].run)] = At(t, d)

LogInv == LogTypes /\ LockHeld /\ WholeMessages

-----------------------------------------------------------------------------
\* The running frame of a thread.
LEMMA Running ==
    ASSUME LogTypes, NEW t \in Thread
    PROVE  /\ stack[t] \in Seq(GoodFrame) /\ level(t) = Len(stack[t]) /\ level(t) \in 1 .. MaxFrames
           /\ level(t) = 1 => running(t).run = "thread"
           /\ running(t) = stack[t][level(t)] /\ running(t) \in GoodFrame
           /\ me(t) \in FrameName /\ me(t) # NoFrame /\ module(t) \in LogModule
<1>1. stack[t] \in Seq(GoodFrame) /\ level(t) = Len(stack[t]) /\ level(t) \in 1 .. MaxFrames
  BY DEF LogTypes, LogTypeOK, level
<1>2. running(t) = stack[t][level(t)]
  BY DEF running, level, Last
<1>3. running(t) \in GoodFrame
  BY <1>1, <1>2
<1>4. me(t) \in FrameName
  BY <1>1 DEF me, FrameName
<1>5. me(t) # NoFrame
  BY DEF me, NoFrame, At, Thread
<1>6. module(t) \in LogModule
  BY DEF module, ModuleOf, LogModule
<1>7. level(t) = 1 => running(t).run = "thread"
  BY <1>2 DEF LogTypes
<1> QED
  BY <1>1, <1>2, <1>3, <1>4, <1>5, <1>6, <1>7

\* The running frame is replaced by f.
LEMMA TopReplaced ==
    ASSUME LogTypes, NEW t \in Thread, NEW f \in GoodFrame,
           stack' = [stack EXCEPT ![t] = [stack[t] EXCEPT ![level(t)] = f]]
    PROVE  /\ stack' \in [Thread -> Seq(GoodFrame)]
           /\ \A u \in Thread : Len(stack'[u]) = Len(stack[u])
           /\ \A u \in Thread : u # t => stack'[u] = stack[u]
           /\ \A d \in 1 .. Len(stack[t]) : d # level(t) => stack'[t][d] = stack[t][d]
           /\ stack'[t][level(t)] = f
<1>1. stack \in [Thread -> Seq(GoodFrame)]
  BY DEF LogTypes
<1>2. stack'[t] = [stack[t] EXCEPT ![level(t)] = f]
  BY <1>1
<1>3. /\ stack'[t] \in Seq(GoodFrame) /\ Len(stack'[t]) = Len(stack[t])
      /\ \A d \in 1 .. Len(stack[t]) : d # level(t) => stack'[t][d] = stack[t][d]
      /\ stack'[t][level(t)] = f
  BY <1>2, Running
<1> QED
  BY <1>1, <1>3

\* The running frame goes on at pc.
LEMMA GoesOn ==
    ASSUME LogTypes, NEW t \in Thread, NEW pc \in LogPc, LogGoto(t, pc)
    PROVE  /\ stack' \in [Thread -> Seq(GoodFrame)]
           /\ \A u \in Thread : Len(stack'[u]) = Len(stack[u])
           /\ \A u \in Thread : u # t => stack'[u] = stack[u]
           /\ \A d \in 1 .. Len(stack[t]) : d # level(t) => stack'[t][d] = stack[t][d]
           /\ stack'[t][level(t)].pc = pc /\ stack'[t][level(t)].run = running(t).run
           /\ \A u \in Thread :
                 stack'[u][1].run = "thread" /\ Len(stack'[u]) \in 1 .. MaxFrames
<1> DEFINE f == [stack[t][level(t)] EXCEPT !.pc = pc]
<1>1. stack[t][level(t)] \in GoodFrame /\ running(t) = stack[t][level(t)]
  BY Running
<1>2. f \in GoodFrame /\ f.pc = pc /\ f.run = running(t).run
  BY <1>1 DEF GoodFrame, LogFrame
<1>3. stack' = [stack EXCEPT ![t] = [stack[t] EXCEPT ![level(t)] = f]]
  BY DEF LogGoto, Going
<1> HIDE DEF f
<1>4. /\ stack' \in [Thread -> Seq(GoodFrame)]
      /\ \A u \in Thread : Len(stack'[u]) = Len(stack[u])
      /\ \A u \in Thread : u # t => stack'[u] = stack[u]
      /\ \A d \in 1 .. Len(stack[t]) : d # level(t) => stack'[t][d] = stack[t][d]
      /\ stack'[t][level(t)] = f
  BY <1>2, <1>3, TopReplaced
<1>5. ASSUME NEW u \in Thread
      PROVE  stack'[u][1].run = "thread" /\ Len(stack'[u]) \in 1 .. MaxFrames
  <2>1. stack[u][1].run = "thread" /\ Len(stack[u]) \in 1 .. MaxFrames
    BY Running DEF LogTypes
  <2>2. u = t /\ level(t) # 1 => stack'[u][1] = stack[u][1]
    BY <1>4, Running
  <2>3. u = t /\ level(t) = 1 => stack'[u][1].run = "thread"
    BY <1>2, <1>4, Running
  <2> QED
    BY <1>4, <2>1, <2>2, <2>3
<1> QED
  BY <1>2, <1>4, <1>5

\* A handler is put on top of a thread whose frames are then s.
LEMMA HandlerPushed ==
    ASSUME LogTypes, NEW t \in Thread, NEW run \in Run \ {"thread"}, level(t) < MaxFrames,
           NEW s \in Seq(GoodFrame), Len(s) = Len(stack[t]),
           stack' = [stack EXCEPT ![t] = Append(s, HandlerFrame(run))]
    PROVE  /\ stack' \in [Thread -> Seq(GoodFrame)]
           /\ \A u \in Thread : u # t => stack'[u] = stack[u]
           /\ Len(stack'[t]) = Len(s) + 1 /\ Len(stack'[t]) \in 1 .. MaxFrames
           /\ \A d \in 1 .. Len(s) : stack'[t][d] = s[d]
           /\ stack'[t][Len(s) + 1].pc = "lock"
<1>1. stack \in [Thread -> Seq(GoodFrame)]
  BY DEF LogTypes
<1> DEFINE h == HandlerFrame(run)
<1>2. h \in GoodFrame /\ h.pc = "lock"
  BY DEF HandlerFrame, GoodFrame, LogFrame, LogPc
<1> HIDE DEF h
<1>3. stack'[t] = Append(s, h)
  BY <1>1 DEF h
<1>4. /\ stack'[t] \in Seq(GoodFrame) /\ Len(stack'[t]) = Len(s) + 1
      /\ \A d \in 1 .. Len(s) : stack'[t][d] = s[d]
      /\ stack'[t][Len(s) + 1] = h
  BY <1>2, <1>3
<1> QED
  BY <1>1, <1>2, <1>4, Running, LogAssumption

\* After a log call the running frame is out of it, or it is a handler that
\* has returned.
LEMMA AfterCall ==
    ASSUME LogTypes, NEW t \in Thread, AfterLog(t)
    PROVE  /\ stack' \in [Thread -> Seq(GoodFrame)]
           /\ requested' \in BOOLEAN
           /\ stack'[t][1].run = "thread"
           /\ \A u \in Thread : u # t => stack'[u] = stack[u]
           /\ Len(stack'[t]) \in 1 .. Len(stack[t])
           /\ \A d \in 1 .. Len(stack'[t]) :
                 (stack'[t][d] = stack[t][d] /\ d # level(t)) \/ stack'[t][d].pc \notin InLog
<1> DEFINE f == running(t)
<1>1. /\ f \in GoodFrame /\ stack[t] \in Seq(GoodFrame) /\ level(t) = Len(stack[t])
      /\ level(t) \in Nat /\ level(t) > 0 /\ (level(t) = 1 => f.run = "thread")
      /\ f = stack[t][level(t)] /\ stack[t][1].run = "thread" /\ requested \in BOOLEAN
      /\ stack \in [Thread -> Seq(GoodFrame)]
  BY Running DEF LogTypes, LogTypeOK
<1>2. f \in LogFrame /\ (f.run \in Termination \cup {"abort"} => f.stage <= 2)
      /\ f.run \in Run /\ f.stage \in 1 .. 3
  BY <1>1 DEF GoodFrame, LogFrame
<1> HIDE DEF f
<1>3. \/ f.run = "thread" /\ LogGoto(t, "work") /\ UNCHANGED requested
      \/ \E g \in GoodFrame :
            /\ g.pc \in {"lock", "dump"} /\ f.run # "thread" /\ requested' \in BOOLEAN
            /\ stack' = [stack EXCEPT ![t] = [stack[t] EXCEPT ![level(t)] = g]]
      \/ /\ stack' = [stack EXCEPT ![t] = Front(stack[t])]
         /\ f.run # "thread" /\ UNCHANGED requested
  <2> DEFINE Top(g) == stack' = [stack EXCEPT ![t] = [stack[t] EXCEPT ![level(t)] = g]]
             again == [run |-> f.run, pc |-> "lock", stage |-> 2]
             dump == [run |-> f.run, pc |-> "dump", stage |-> f.stage + 1]
  <2>1. \/ f.run = "thread" /\ LogGoto(t, "work") /\ UNCHANGED requested
        \/ /\ f.run \in Termination /\ requested' = (requested \/ Requests(f.run))
           /\ Top(again)
        \/ /\ f.run \in Termination /\ UNCHANGED requested
           /\ stack' = [stack EXCEPT ![t] = Front(stack[t])]
        \/ f.run \in Crash /\ Top(HandlerFrame(f.run)) /\ UNCHANGED requested
        \/ /\ f.run \in Crash /\ f.stage # LastStage(f.run)
           /\ Top(dump) /\ UNCHANGED requested
    BY DEF AfterLog, f
  <2>2. f.run \in Termination => again \in GoodFrame /\ again.pc = "lock"
    BY <1>2 DEF GoodFrame, LogFrame, LogPc
  <2>3. f.run \in Crash => HandlerFrame(f.run) \in GoodFrame /\ HandlerFrame(f.run).pc = "lock"
    BY <1>2 DEF GoodFrame, LogFrame, LogPc, HandlerFrame
  <2>4. f.run \in Crash /\ f.stage # LastStage(f.run) => dump \in GoodFrame /\ dump.pc = "dump"
    BY <1>2 DEF GoodFrame, LogFrame, LogPc, LastStage, Crash, Termination
  <2>5. f.run \in Termination \cup Crash => f.run # "thread"
    BY DEF Termination, Crash
  <2>6. requested' = (requested \/ Requests(f.run)) => requested' \in BOOLEAN
    BY DEF Requests
  <2>7. UNCHANGED requested => requested' \in BOOLEAN
    BY <1>1
  <2> HIDE DEF again, dump
  <2> QED
    BY <2>1, <2>2, <2>3, <2>4, <2>5, <2>6, <2>7
<1>4. CASE f.run = "thread" /\ LogGoto(t, "work") /\ UNCHANGED requested
  <2>1. "work" \in LogPc /\ "work" \notin InLog
    BY DEF LogPc, InLog
  <2>2. stack'[t][1].run = "thread"
    BY <1>1, <1>4, <2>1, GoesOn DEF f
  <2> QED
    BY <1>1, <1>4, <2>1, <2>2, GoesOn
<1>5. ASSUME NEW g \in GoodFrame, g.pc \in {"lock", "dump"}, f.run # "thread",
             requested' \in BOOLEAN,
             stack' = [stack EXCEPT ![t] = [stack[t] EXCEPT ![level(t)] = g]]
      PROVE  /\ stack' \in [Thread -> Seq(GoodFrame)]
             /\ stack'[t][1].run = "thread"
             /\ \A u \in Thread : u # t => stack'[u] = stack[u]
             /\ Len(stack'[t]) \in 1 .. Len(stack[t])
             /\ \A d \in 1 .. Len(stack'[t]) :
                   (stack'[t][d] = stack[t][d] /\ d # level(t)) \/ stack'[t][d].pc \notin InLog
  <2>1. g.pc \notin InLog
    BY <1>5 DEF InLog
  <2> QED
    BY <1>1, <1>5, <2>1, TopReplaced
<1>6. CASE /\ stack' = [stack EXCEPT ![t] = Front(stack[t])]
           /\ f.run # "thread" /\ UNCHANGED requested
  <2>1. stack'[t] = SubSeq(stack[t], 1, Len(stack[t]) - 1)
    BY <1>1, <1>6 DEF Front
  <2>2. Len(stack[t]) > 1
    BY <1>1, <1>6
  <2>3. /\ stack'[t] \in Seq(GoodFrame) /\ Len(stack'[t]) = Len(stack[t]) - 1
        /\ \A d \in 1 .. Len(stack'[t]) : stack'[t][d] = stack[t][d]
    BY <1>1, <2>1, <2>2
  <2> QED
    BY <1>1, <1>6, <2>2, <2>3
<1> QED
  BY <1>3, <1>4, <1>5, <1>6

-----------------------------------------------------------------------------
\* A step that brings no frame into a log call or to its write, and takes no
\* lock from one that is in a call.
LEMMA LogQuiet ==
    ASSUME LogTypes, LockHeld, WholeMessages, buffer' = buffer,
           \A u \in Thread : \A d \in 1 .. Len(stack'[u]) :
               stack'[u][d].pc \in InLog =>
                   /\ d \in 1 .. Len(stack[u])
                   /\ stack'[u][d].run = stack[u][d].run
                   /\ stack[u][d].pc \in InLog
                   /\ stack'[u][d].pc = "write" => stack[u][d].pc = "write"
                   /\ holder'[ModuleOf(stack[u][d].run)] = holder[ModuleOf(stack[u][d].run)]
    PROVE  LockHeld' /\ WholeMessages'
<1>1. LockHeld'
  BY DEF LockHeld
<1>2. WholeMessages'
  BY DEF WholeMessages, InLog, level
<1> QED
  BY <1>1, <1>2

\* LogTypes, from what a step does to the stacks.
LEMMA LogTypesKept ==
    ASSUME LogTypes, stack' \in [Thread -> Seq(GoodFrame)],
           \A t \in Thread : stack'[t][1].run = "thread" /\ Len(stack'[t]) \in 1 .. MaxFrames,
           logBuild' = logBuild, holder' \in [Lock -> FrameName], leaked' \subseteq LogModule,
           buffer' \in [LogModule -> FrameName], requested' \in BOOLEAN,
           sent' \subseteq Termination, logs' \in [Thread -> 0 .. MaxLogs],
           faults' \in 0 .. MaxFaults
    PROVE  LogTypes'
<1>1. stack' \in [Thread -> Seq(LogFrame)]
  <2>1. GoodFrame \subseteq LogFrame
    BY DEF GoodFrame
  <2> QED
    BY <2>1
<1> QED
  BY <1>1 DEF LogTypes, LogTypeOK

\* No message has been begun and no lock is taken.
LEMMA LogInitHolds == LogInit => LogInv
<1> SUFFICES ASSUME LogInit PROVE LogInv
  OBVIOUS
<1> DEFINE f == [run |-> "thread", pc |-> "work", stage |-> 1]
<1>1. f \in GoodFrame /\ f \in LogFrame /\ f.run = "thread" /\ f.pc = "work"
  BY DEF GoodFrame, LogFrame, Run, LogPc, Termination
<1>2. stack = [t \in Thread |-> <<f>>]
  BY DEF LogInit
<1> HIDE DEF f
<1>3. /\ stack \in [Thread -> Seq(GoodFrame)] /\ stack \in [Thread -> Seq(LogFrame)]
      /\ \A t \in Thread : Len(stack[t]) = 1 /\ stack[t][1] = f
  BY <1>1, <1>2
<1>4. LogTypes
  <2>1. NoFrame \in FrameName
    BY DEF FrameName
  <2>2. /\ holder \in [Lock -> FrameName] /\ buffer \in [LogModule -> FrameName]
        /\ logs \in [Thread -> 0 .. MaxLogs] /\ faults \in 0 .. MaxFaults
    BY <2>1, LogAssumption DEF LogInit
  <2>3. /\ logBuild \in {"debug", "release"} /\ leaked \subseteq LogModule
        /\ requested \in BOOLEAN /\ sent \subseteq Termination
    BY DEF LogInit
  <2>4. \A t \in Thread : Len(stack[t]) \in 1 .. MaxFrames /\ stack[t][1].run = "thread"
    <3>1. 1 \in 1 .. MaxFrames
      BY LogAssumption
    <3> QED
      BY <1>1, <1>3, <3>1
  <2> QED
    BY <1>3, <2>2, <2>3, <2>4 DEF LogTypes, LogTypeOK
<1>5. LockHeld
  BY <1>1, <1>3 DEF LockHeld, InLog
<1>6. WholeMessages
  BY <1>1, <1>3 DEF WholeMessages, level
<1> QED
  BY <1>4, <1>5, <1>6 DEF LogInv

\* The steps that only move a thread on, without getting into a log call, to
\* its write or out of it.
LEMMA MoveKeeps ==
    ASSUME LogInv, NEW t \in Thread, NEW pc \in LogPc, LogGoto(t, pc),
           pc \in InLog => pc # "write" /\ running(t).pc \in InLog,
           logBuild' = logBuild, holder' \in [Lock -> FrameName],
           \A m \in LogModule : holder'[m] = holder[m],
           leaked' = leaked, buffer' = buffer, requested' = requested, sent' = sent,
           logs' \in [Thread -> 0 .. MaxLogs], faults' = faults
    PROVE  LogInv'
<1>1. LogTypes /\ LockHeld /\ WholeMessages
  BY DEF LogInv
<1>2. /\ stack' \in [Thread -> Seq(GoodFrame)]
      /\ \A u \in Thread : Len(stack'[u]) = Len(stack[u])
      /\ \A u \in Thread : u # t => stack'[u] = stack[u]
      /\ \A d \in 1 .. Len(stack[t]) : d # level(t) => stack'[t][d] = stack[t][d]
      /\ stack'[t][level(t)].pc = pc /\ stack'[t][level(t)].run = running(t).run
  BY <1>1, GoesOn
<1>3. running(t) = stack[t][level(t)] /\ level(t) = Len(stack[t]) /\ level(t) \in Nat /\ level(t) > 0
  BY <1>1, Running
<1>4. LogTypes'
  <2>1. \A u \in Thread : stack'[u][1].run = "thread" /\ Len(stack'[u]) \in 1 .. MaxFrames
    BY <1>1, GoesOn
  <2> QED
    BY <1>1, <1>2, <2>1, LogTypesKept DEF LogTypes, LogTypeOK
<1>5. \A u \in Thread : \A d \in 1 .. Len(stack'[u]) :
          stack'[u][d].pc \in InLog =>
              /\ d \in 1 .. Len(stack[u])
              /\ stack'[u][d].run = stack[u][d].run
              /\ stack[u][d].pc \in InLog
              /\ stack'[u][d].pc = "write" => stack[u][d].pc = "write"
              /\ holder'[ModuleOf(stack[u][d].run)] = holder[ModuleOf(stack[u][d].run)]
  <2> SUFFICES ASSUME NEW u \in Thread, NEW d \in 1 .. Len(stack'[u]), stack'[u][d].pc \in InLog
               PROVE  /\ d \in 1 .. Len(stack[u])
                      /\ stack'[u][d].run = stack[u][d].run
                      /\ stack[u][d].pc \in InLog
                      /\ stack'[u][d].pc = "write" => stack[u][d].pc = "write"
    BY DEF ModuleOf, LogModule
  <2>1. CASE u = t /\ d = level(t)
    BY <1>2, <1>3, <2>1
  <2>2. CASE ~(u = t /\ d = level(t))
    BY <1>2, <2>2
  <2> QED
    BY <2>1, <2>2
<1>6. LockHeld' /\ WholeMessages'
  BY <1>1, <1>5, LogQuiet
<1> QED
  BY <1>4, <1>6 DEF LogInv

\* Taking the module's lock: no other frame is in a call to that module.
LEMMA TakeLogLockKeeps ==
    ASSUME LogInv, NEW t \in Thread, TakeLogLock(t)
    PROVE  LogInv'
<1>1. LogTypes /\ LockHeld /\ WholeMessages
  BY DEF LogInv
<1>2. /\ LogGoto(t, "time") /\ running(t).pc = "lock" /\ holder[module(t)] = NoFrame
      /\ holder' = [holder EXCEPT ![module(t)] = me(t)]
      /\ UNCHANGED <<logBuild, leaked, buffer, requested, sent, logs, faults>>
  BY DEF TakeLogLock, Take, LockFree, AtPc
<1>3. /\ stack' \in [Thread -> Seq(GoodFrame)]
      /\ \A u \in Thread : Len(stack'[u]) = Len(stack[u])
      /\ \A u \in Thread : u # t => stack'[u] = stack[u]
      /\ \A d \in 1 .. Len(stack[t]) : d # level(t) => stack'[t][d] = stack[t][d]
      /\ stack'[t][level(t)].pc = "time" /\ stack'[t][level(t)].run = running(t).run
  BY <1>1, <1>2, GoesOn DEF LogPc
<1>4. /\ running(t) = stack[t][level(t)] /\ level(t) = Len(stack[t]) /\ level(t) \in Nat
      /\ level(t) > 0 /\ me(t) \in FrameName /\ module(t) \in LogModule
      /\ holder \in [Lock -> FrameName] /\ module(t) \in Lock
  BY <1>1, Running DEF LogTypes, LogTypeOK, Lock
<1>5. /\ holder' \in [Lock -> FrameName] /\ holder'[module(t)] = me(t)
      /\ \A m \in LogModule : m # module(t) => holder'[m] = holder[m]
  BY <1>2, <1>4 DEF Lock
<1>6. LogTypes'
  <2>1. \A u \in Thread : stack'[u][1].run = "thread" /\ Len(stack'[u]) \in 1 .. MaxFrames
    BY <1>1, <1>2, GoesOn DEF LogPc
  <2> QED
    BY <1>1, <1>2, <1>3, <1>5, <2>1, LogTypesKept DEF LogTypes, LogTypeOK
<1>7. \A u \in Thread, d \in Nat : At(u, d) # NoFrame
  BY DEF At, NoFrame, Thread
<1>8. ASSUME NEW u \in Thread, NEW d \in 1 .. Len(stack'[u]), stack'[u][d].pc \in InLog
      PROVE  /\ holder'[ModuleOf(stack'[u][d].run)] = At(u, d)
             /\ stack'[u][d].pc = "write" => buffer[ModuleOf(stack'[u][d].run)] = At(u, d)
  <2>1. CASE u = t /\ d = level(t)
    BY <1>3, <1>4, <1>5, <2>1 DEF module, me
  <2>2. CASE ~(u = t /\ d = level(t))
    <3>1. stack'[u][d] = stack[u][d] /\ d \in 1 .. Len(stack[u]) /\ d \in Nat
      BY <1>3, <2>2
    <3>2. holder[ModuleOf(stack[u][d].run)] = At(u, d)
      BY <1>1, <1>8, <3>1 DEF LockHeld
    <3>3. ModuleOf(stack[u][d].run) # module(t)
      BY <1>2, <1>7, <3>1, <3>2
    <3>4. ModuleOf(stack[u][d].run) \in LogModule
      BY DEF ModuleOf, LogModule
    <3> QED
      BY <1>1, <1>5, <3>1, <3>2, <3>3, <3>4 DEF WholeMessages, level
  <2> QED
    BY <2>1, <2>2
<1>9. LockHeld' /\ WholeMessages'
  BY <1>2, <1>8 DEF LockHeld, WholeMessages, level, InLog
<1> QED
  BY <1>6, <1>9 DEF LogInv

\* The message goes to the buffer of the frame that holds the lock.
LEMMA FormatMessageKeeps ==
    ASSUME LogInv, NEW t \in Thread, FormatMessage(t)
    PROVE  LogInv'
<1>1. LogTypes /\ LockHeld /\ WholeMessages
  BY DEF LogInv
<1>2. /\ LogGoto(t, "write") /\ running(t).pc = "zoned"
      /\ holder' = [holder EXCEPT !["tz"] = NoFrame]
      /\ buffer' = [buffer EXCEPT ![module(t)] = me(t)]
      /\ UNCHANGED <<logBuild, leaked, requested, sent, logs, faults>>
  BY DEF FormatMessage, Release, AtPc
<1>3. /\ stack' \in [Thread -> Seq(GoodFrame)]
      /\ \A u \in Thread : Len(stack'[u]) = Len(stack[u])
      /\ \A u \in Thread : u # t => stack'[u] = stack[u]
      /\ \A d \in 1 .. Len(stack[t]) : d # level(t) => stack'[t][d] = stack[t][d]
      /\ stack'[t][level(t)].pc = "write" /\ stack'[t][level(t)].run = running(t).run
  BY <1>1, <1>2, GoesOn DEF LogPc
<1>4. /\ running(t) = stack[t][level(t)] /\ level(t) = Len(stack[t]) /\ level(t) \in Nat
      /\ level(t) > 0 /\ me(t) \in FrameName /\ module(t) \in LogModule
      /\ holder \in [Lock -> FrameName] /\ buffer \in [LogModule -> FrameName]
  BY <1>1, Running DEF LogTypes, LogTypeOK
<1>5. /\ holder' \in [Lock -> FrameName] /\ buffer' \in [LogModule -> FrameName]
      /\ \A m \in LogModule : holder'[m] = holder[m]
      /\ buffer'[module(t)] = me(t)
      /\ \A m \in LogModule : m # module(t) => buffer'[m] = buffer[m]
  <2>1. NoFrame \in FrameName
    BY DEF FrameName
  <2> QED
    BY <1>2, <1>4, <2>1 DEF Lock, LogModule
<1>6. LogTypes'
  <2>1. \A u \in Thread : stack'[u][1].run = "thread" /\ Len(stack'[u]) \in 1 .. MaxFrames
    BY <1>1, <1>2, GoesOn DEF LogPc
  <2> QED
    BY <1>1, <1>2, <1>3, <1>5, <2>1, LogTypesKept DEF LogTypes, LogTypeOK
<1>7. holder[module(t)] = me(t)
  BY <1>1, <1>2, <1>4 DEF LockHeld, InLog, module, me
<1>8. ASSUME NEW u \in Thread, NEW d \in 1 .. Len(stack'[u]), stack'[u][d].pc \in InLog
      PROVE  /\ holder'[ModuleOf(stack'[u][d].run)] = At(u, d)
             /\ stack'[u][d].pc = "write" => buffer'[ModuleOf(stack'[u][d].run)] = At(u, d)
  <2>1. CASE u = t /\ d = level(t)
    BY <1>3, <1>4, <1>5, <1>7, <2>1 DEF module, me
  <2>2. CASE ~(u = t /\ d = level(t))
    <3>1. stack'[u][d] = stack[u][d] /\ d \in 1 .. Len(stack[u])
      BY <1>3, <2>2
    <3>2. holder[ModuleOf(stack[u][d].run)] = At(u, d)
      BY <1>1, <1>8, <3>1 DEF LockHeld
    <3>3. ModuleOf(stack[u][d].run) # module(t)
      BY <1>7, <2>2, <3>2 DEF me, At
    <3>4. ModuleOf(stack[u][d].run) \in LogModule
      BY DEF ModuleOf, LogModule
    <3> QED
      BY <1>1, <1>5, <3>1, <3>2, <3>3, <3>4 DEF WholeMessages, level
  <2> QED
    BY <2>1, <2>2
<1>9. LockHeld' /\ WholeMessages'
  BY <1>8 DEF LockHeld, WholeMessages, level, InLog
<1> QED
  BY <1>6, <1>9 DEF LogInv

\* Giving the lock back, and the error return that does not, both leave the call.
LEMMA CallEnds ==
    ASSUME LogInv, NEW t \in Thread, AfterLog(t), running(t).pc \in InLog,
           \/ holder' = [holder EXCEPT ![module(t)] = NoFrame] /\ leaked' = leaked
           \/ holder' = holder /\ leaked' = leaked \cup {module(t)},
           UNCHANGED <<logBuild, buffer, sent, logs>>, faults' \in 0 .. MaxFaults
    PROVE  LogInv'
<1>1. LogTypes /\ LockHeld /\ WholeMessages
  BY DEF LogInv
<1>2. /\ stack' \in [Thread -> Seq(GoodFrame)]
      /\ requested' \in BOOLEAN
      /\ stack'[t][1].run = "thread"
      /\ \A u \in Thread : u # t => stack'[u] = stack[u]
      /\ Len(stack'[t]) \in 1 .. Len(stack[t])
      /\ \A d \in 1 .. Len(stack'[t]) :
            (stack'[t][d] = stack[t][d] /\ d # level(t)) \/ stack'[t][d].pc \notin InLog
  BY <1>1, AfterCall
<1>3. /\ running(t) = stack[t][level(t)] /\ level(t) = Len(stack[t]) /\ level(t) \in Nat
      /\ level(t) > 0 /\ module(t) \in LogModule /\ level(t) \in 1 .. MaxFrames
  BY <1>1, Running
<1>4. holder[module(t)] = me(t)
  BY <1>1, <1>3 DEF LockHeld, module, me
<1>5. holder \in [Lock -> FrameName] /\ module(t) \in Lock /\ NoFrame \in FrameName
  BY <1>1, <1>3 DEF LogTypes, LogTypeOK, Lock, FrameName
<1>6. /\ holder' \in [Lock -> FrameName]
      /\ \A m \in LogModule : m # module(t) => holder'[m] = holder[m]
  BY <1>5 DEF Lock
<1>7. LogTypes'
  <2>1. ASSUME NEW u \in Thread
        PROVE  stack'[u][1].run = "thread" /\ Len(stack'[u]) \in 1 .. MaxFrames
    <3>1. stack[u][1].run = "thread" /\ Len(stack[u]) \in 1 .. MaxFrames
      BY <1>1, Running DEF LogTypes
    <3>2. CASE u = t
      BY <1>2, <3>1, <3>2, LogAssumption
    <3>3. CASE u # t
      BY <1>2, <3>1, <3>3
    <3> QED
      BY <3>2, <3>3
  <2>2. leaked' \subseteq LogModule
    BY <1>1, <1>3 DEF LogTypes, LogTypeOK
  <2> QED
    BY <1>1, <1>2, <1>6, <2>1, <2>2, LogTypesKept DEF LogTypes, LogTypeOK
<1>8. ASSUME NEW u \in Thread, NEW d \in 1 .. Len(stack'[u]), stack'[u][d].pc \in InLog
      PROVE  /\ d \in 1 .. Len(stack[u])
             /\ stack'[u][d].run = stack[u][d].run
             /\ stack[u][d].pc \in InLog
             /\ stack'[u][d].pc = "write" => stack[u][d].pc = "write"
             /\ holder'[ModuleOf(stack[u][d].run)] = holder[ModuleOf(stack[u][d].run)]
  <2>1. stack'[u][d] = stack[u][d] /\ d \in 1 .. Len(stack[u]) /\ ~(u = t /\ d = level(t))
    <3>1. CASE u = t
      BY <1>2, <1>3, <1>8, <3>1
    <3>2. CASE u # t
      BY <1>2, <3>2
    <3> QED
      BY <3>1, <3>2
  <2>2. holder[ModuleOf(stack[u][d].run)] = At(u, d)
    BY <1>1, <1>8, <2>1 DEF LockHeld
  <2>3. ModuleOf(stack[u][d].run) # module(t)
    BY <1>4, <2>1, <2>2 DEF me, At
  <2>4. ModuleOf(stack[u][d].run) \in LogModule
    BY DEF ModuleOf, LogModule
  <2> QED
    BY <1>6, <1>8, <2>1, <2>3, <2>4
<1>9. LockHeld' /\ WholeMessages'
  BY <1>1, <1>8, LogQuiet
<1> QED
  BY <1>7, <1>9 DEF LogInv

\* A handler that interrupts a thread begins outside every log call; s is the
\* thread as it has been interrupted.
LEMMA InterruptKeeps ==
    ASSUME LogInv, NEW t \in Thread, NEW run \in Run \ {"thread"}, level(t) < MaxFrames,
           NEW s \in Seq(GoodFrame), Len(s) = Len(stack[t]),
           \A d \in 1 .. Len(stack[t]) :
               s[d] = stack[t][d] \/ (s[d].run = stack[t][d].run /\ s[d].pc \notin InLog),
           stack' = [stack EXCEPT ![t] = Append(s, HandlerFrame(run))],
           UNCHANGED <<logBuild, holder, leaked, buffer, requested, logs>>,
           sent' \subseteq Termination, faults' \in 0 .. MaxFaults
    PROVE  LogInv'
<1>1. LogTypes /\ LockHeld /\ WholeMessages
  BY DEF LogInv
<1>2. /\ stack' \in [Thread -> Seq(GoodFrame)]
      /\ \A u \in Thread : u # t => stack'[u] = stack[u]
      /\ Len(stack'[t]) = Len(s) + 1 /\ Len(stack'[t]) \in 1 .. MaxFrames
      /\ \A d \in 1 .. Len(s) : stack'[t][d] = s[d]
      /\ stack'[t][Len(s) + 1].pc = "lock"
  BY <1>1, HandlerPushed
<1>3. LogTypes'
  <2>1. ASSUME NEW u \in Thread
        PROVE  stack'[u][1].run = "thread" /\ Len(stack'[u]) \in 1 .. MaxFrames
    <3>1. stack[u][1].run = "thread" /\ Len(stack[u]) \in 1 .. MaxFrames
      BY <1>1, Running DEF LogTypes
    <3>2. CASE u = t
      <4>1. 1 \in 1 .. Len(s)
        BY <3>1, <3>2, LogAssumption
      <4> QED
        BY <1>2, <3>1, <3>2, <4>1
    <3>3. CASE u # t
      BY <1>2, <3>1, <3>3
    <3> QED
      BY <3>2, <3>3
  <2> QED
    BY <1>1, <1>2, <2>1, LogTypesKept DEF LogTypes, LogTypeOK
<1>4. ASSUME NEW u \in Thread, NEW d \in 1 .. Len(stack'[u]), stack'[u][d].pc \in InLog
      PROVE  d \in 1 .. Len(stack[u]) /\ stack'[u][d] = stack[u][d]
  <2>1. CASE u = t
    <3>1. d # Len(s) + 1
      BY <1>2, <1>4, <2>1 DEF InLog
    <3>2. d \in 1 .. Len(s)
      BY <1>2, <2>1, <3>1
    <3> QED
      BY <1>2, <1>4, <2>1, <3>2
  <2>2. CASE u # t
    BY <1>2, <2>2
  <2> QED
    BY <2>1, <2>2
<1>5. LockHeld' /\ WholeMessages'
  BY <1>1, <1>4, LogQuiet
<1> QED
  BY <1>3, <1>5 DEF LogInv

\* The two outcomes of a failure within a log call.
LEMMA LogFailsKeeps ==
    ASSUME LogInv, NEW t \in Thread, LogFails(t)
    PROVE  LogInv'
<1>1. /\ running(t).pc \in InLog /\ faults' \in 0 .. MaxFaults
      /\ UNCHANGED <<logBuild, holder, buffer, sent, logs>>
  BY LogAssumption DEF LogFails, AtPc, InLog, LogInv, LogTypes, LogTypeOK
<1>2. CASE logBuild = "debug"
  <2> DEFINE s == Going(t, "aborted")
  <2>1. /\ level(t) < MaxFrames
        /\ stack' = [stack EXCEPT ![t] = Append(s, HandlerFrame("abort"))]
        /\ UNCHANGED <<leaked, requested>>
    BY <1>2 DEF LogFails
  <2>2. /\ stack[t] \in Seq(GoodFrame) /\ stack[t][level(t)] \in GoodFrame
        /\ level(t) = Len(stack[t]) /\ level(t) \in Nat /\ level(t) > 0
    BY Running DEF LogInv
  <2> DEFINE f == [stack[t][level(t)] EXCEPT !.pc = "aborted"]
  <2>3. f \in GoodFrame /\ f.run = stack[t][level(t)].run /\ f.pc \notin InLog
    BY <2>2 DEF GoodFrame, LogFrame, LogPc, InLog
  <2>4. s = [stack[t] EXCEPT ![level(t)] = f]
    BY DEF Going
  <2> HIDE DEF f, s
  <2>5. /\ s \in Seq(GoodFrame) /\ Len(s) = Len(stack[t])
        /\ \A d \in 1 .. Len(stack[t]) :
              s[d] = stack[t][d] \/ (s[d].run = stack[t][d].run /\ s[d].pc \notin InLog)
    BY <2>2, <2>3, <2>4
  <2>6. "abort" \in Run \ {"thread"} /\ sent' \subseteq Termination
    BY <1>1 DEF Run, Crash, LogInv, LogTypes, LogTypeOK
  <2> QED
    BY <1>1, <2>1, <2>5, <2>6, InterruptKeeps
<1>3. CASE logBuild # "debug"
  <2>1. leaked' = leaked \cup {module(t)} /\ AfterLog(t)
    BY <1>3 DEF LogFails
  <2> QED
    BY <1>1, <2>1, CallEnds
<1> QED
  BY <1>2, <1>3

-----------------------------------------------------------------------------
\* Every step of the log and its handlers keeps their invariant.
LEMMA LogNextKeeps == LogInv /\ [LogNext]_logVars => LogInv'
<1> SUFFICES ASSUME LogInv, [LogNext]_logVars PROVE LogInv'
  OBVIOUS
<1>1. LogTypes
  BY DEF LogInv
<1>2. /\ holder \in [Lock -> FrameName] /\ logs \in [Thread -> 0 .. MaxLogs]
      /\ faults \in 0 .. MaxFaults /\ NoFrame \in FrameName /\ sent \subseteq Termination
  BY <1>1 DEF LogTypes, LogTypeOK, FrameName
<1>3. ASSUME NEW t \in Thread, LogStep(t) PROVE LogInv'
  <2>1. CASE Work(t)
    <3>1. PICK pc \in {"ended", "lock"} : LogGoto(t, pc)
      BY <2>1 DEF Work
    <3>2. pc \in LogPc /\ pc \notin InLog
      BY DEF LogPc, InLog
    <3>3. logs' \in [Thread -> 0 .. MaxLogs]
      BY <1>2, <2>1, LogAssumption DEF Work
    <3>4. UNCHANGED <<logBuild, holder, leaked, buffer, requested, sent, faults>>
      BY <2>1 DEF Work
    <3> QED
      BY <1>2, <1>3, <3>1, <3>2, <3>3, <3>4, MoveKeeps
  <2>2. CASE TakeLogLock(t)
    BY <1>3, <2>2, TakeLogLockKeeps
  <2>3. CASE GetTime(t)
    BY <1>2, <2>3, MoveKeeps DEF GetTime, AtPc, LogPc, InLog
  <2>4. CASE TakeZoneLock(t)
    <3>1. me(t) \in FrameName
      BY <1>1, Running
    <3>2. /\ holder' \in [Lock -> FrameName]
          /\ \A m \in LogModule : holder'[m] = holder[m]
      BY <1>2, <2>4, <3>1 DEF TakeZoneLock, Take, Lock, LogModule
    <3> QED
      BY <1>2, <2>4, <3>2, MoveKeeps DEF TakeZoneLock, AtPc, LogPc, InLog
  <2>5. CASE FormatMessage(t)
    BY <2>5, FormatMessageKeeps
  <2>6. CASE WriteMessage(t)
    BY <1>2, <2>6, MoveKeeps DEF WriteMessage, AtPc, LogPc, InLog
  <2>7. CASE Unlock(t)
    BY <1>2, <2>7, CallEnds DEF Unlock, Release, AtPc, InLog
  <2>8. CASE StartDump(t)
    <3>1. me(t) \in FrameName
      BY <1>1, Running
    <3>2. /\ holder' \in [Lock -> FrameName]
          /\ \A m \in LogModule : holder'[m] = holder[m]
      BY <1>2, <2>8, <3>1 DEF StartDump, Take, Lock, LogModule
    <3>3. PICK pc \in {"dumped", "lock"} : LogGoto(t, pc)
      BY <2>8 DEF StartDump
    <3>4. pc \in LogPc /\ pc \notin InLog
      BY DEF LogPc, InLog
    <3>5. UNCHANGED <<logBuild, leaked, buffer, requested, sent, logs, faults>>
      BY <2>8 DEF StartDump
    <3> QED
      BY <1>2, <3>2, <3>3, <3>4, <3>5, MoveKeeps
  <2>9. CASE EndDump(t)
    <3>1. /\ holder' \in [Lock -> FrameName]
          /\ \A m \in LogModule : holder'[m] = holder[m]
      BY <1>2, <2>9 DEF EndDump, Release, Lock, LogModule
    <3> QED
      BY <1>2, <2>9, <3>1, MoveKeeps DEF EndDump, LogPc, InLog
  <2> QED
    BY <1>3, <2>1, <2>2, <2>3, <2>4, <2>5, <2>6, <2>7, <2>8, <2>9 DEF LogStep
<1>4. ASSUME NEW t \in Thread, LogFails(t) PROVE LogInv'
  BY <1>4, LogFailsKeeps
<1>5. ASSUME NEW t \in Thread, Fault(t) PROVE LogInv'
  <2>1. PICK run \in Crash :
          stack' = [stack EXCEPT ![t] = Append(stack[t], HandlerFrame(run))]
    BY <1>5 DEF Fault
  <2>2. run \in Run \ {"thread"} /\ stack[t] \in Seq(GoodFrame)
    BY <1>1, Running DEF Run, Crash
  <2>3. /\ level(t) < MaxFrames /\ faults' \in 0 .. MaxFaults /\ sent' \subseteq Termination
        /\ UNCHANGED <<logBuild, holder, leaked, buffer, requested, logs>>
    BY <1>2, <1>5, LogAssumption DEF Fault
  <2> QED
    BY <2>1, <2>2, <2>3, InterruptKeeps
<1>6. ASSUME NEW t \in Thread, NEW signal \in Termination, Deliver(t, signal) PROVE LogInv'
  <2>1. stack' = [stack EXCEPT ![t] = Append(stack[t], HandlerFrame(signal))]
    BY <1>6 DEF Deliver
  <2>2. signal \in Run \ {"thread"} /\ stack[t] \in Seq(GoodFrame)
    BY <1>1, Running DEF Run, Termination
  <2>3. /\ level(t) < MaxFrames /\ faults' \in 0 .. MaxFaults /\ sent' \subseteq Termination
        /\ UNCHANGED <<logBuild, holder, leaked, buffer, requested, logs>>
    BY <1>2, <1>6 DEF Deliver
  <2> QED
    BY <2>1, <2>2, <2>3, InterruptKeeps
<1>7. CASE UNCHANGED logVars
  BY <1>7 DEF logVars, LogInv, LogTypes, LogTypeOK, LockHeld, WholeMessages, level
<1> QED
  BY <1>3, <1>4, <1>5, <1>6, <1>7 DEF LogNext

-----------------------------------------------------------------------------
\* A frame between taking a module's lock and giving it back holds it, and no
\* other frame is there, whatever interrupts whatever.
LEMMA LogInvariant == LogInit /\ [][LogNext]_logVars => []LogInv
  BY LogInitHolds, LogNextKeeps, PTL

\* The same of the specification with its fairness.
THEOREM LockInvariant == LogSpec => []LogInv
  BY LogInvariant, PTL DEF LogSpec

\* A message is written as it was formatted: no other call, and no handler that
\* interrupts the thread, gets at the module's buffer before (Sdb.h:746-819).
THEOREM MessagesAreWhole == LogSpec => []WholeMessages
<1>1. LogInv => WholeMessages
  BY DEF LogInv
<1> QED
  BY <1>1, LockInvariant, PTL

-----------------------------------------------------------------------------
(***************************************************************************)
(* The parts together: the type invariant of Support.  Of the memory, the  *)
(* logs, thread control and the trees it is part of the invariants above.  *)
(* Of the others it says more than those need: no counter passes its       *)
(* bound, also in the states where a count is already wrong.               *)
(***************************************************************************)
\* The timer of a call is a record of its four fields.
Timer == timer = [does |-> timer.does, timeout |-> timer.timeout,
                  began |-> timer.began, until |-> timer.until]

\* A call that begins, with an end that is a time.
LEMMA CallTyped ==
    ASSUME TimeTypeOK, UNCHANGED clock,
           NEW does \in {"timed", "select", "forever", "granted", "busy", "invalid"},
           NEW timeout \in Timeouts \cup {TIMEOUT_NONE, TIMEOUT_MAX, RecvTimeout},
           NEW until \in Timespec, Calling(does, timeout, until)
    PROVE  TimeTypeOK' /\ Timer'
<1>1. timer' = [does |-> does, timeout |-> timeout, began |-> clock, until |-> until]
  BY DEF Calling
<1>2. timer'.does = does /\ timer'.timeout = timeout /\ timer'.began = clock /\ timer'.until = until
  BY <1>1
<1>3. TimeTypeOK'
  BY <1>2 DEF TimeTypeOK, Ends
<1>4. Timer'
  BY <1>1, <1>2 DEF Timer
<1> QED
  BY <1>3, <1>4

\* The types of a timed wait, whatever the timeout of the wait for a response: a
\* wait that SdbTimeval has rounded to nothing still ends at a time.
LEMMA TimeTypesKept == TimeInit /\ [][TimeNext]_timeVars => []TimeTypeOK
<1>1. TimeInit => TimeTypeOK /\ Timer
  BY TimeInitInv DEF TimeInv, TimeTypeOK, TimerFollows, Timer
<1>2. TimeTypeOK /\ Timer /\ [TimeNext]_timeVars => TimeTypeOK' /\ Timer'
  <2> SUFFICES ASSUME TimeTypeOK, Timer, [TimeNext]_timeVars PROVE TimeTypeOK' /\ Timer'
    OBVIOUS
  <2>1. NoTime \in Timespec
    BY DEF NoTime, Timespec
  <2>2. clock \in Timespec /\ Normal(clock)
    BY ClockIsNormal DEF TimeTypeOK
  <2>3. \A limit \in Nat : TimeAdd(clock, limit) \in Timespec
    BY <2>2, AddIsExact
  <2>4. CASE WaitOrLock \/ CondWait
    <3>1. UNCHANGED clock
      BY <2>4 DEF WaitOrLock, CondWait
    <3>2. PICK timeout \in Timeouts \cup {TIMEOUT_NONE, TIMEOUT_MAX} :
             \/ \E does \in {"granted", "busy", "forever", "invalid"} :
                  Calling(does, timeout, NoTime)
             \/ timeout \notin {TIMEOUT_NONE, TIMEOUT_MAX}
                /\ Calling("timed", timeout, TimeAdd(clock, timeout))
      BY <2>4 DEF WaitOrLock, CondWait
    <3>3. timeout \notin {TIMEOUT_NONE, TIMEOUT_MAX} => TimeAdd(clock, timeout) \in Timespec
      BY <2>3, <3>2, TimeAssumption
    <3> QED
      BY <2>1, <3>1, <3>2, <3>3, CallTyped
  <2>5. CASE RecvWithTimeout
    <3> DEFINE us == Masked(RecvTimeout \div NsPerUs)
               limit == (RecvTimeout \div NsPerS) * NsPerS + us * NsPerUs
    <3>1. RecvTimeout \in Nat /\ UNCHANGED clock
      BY <2>5, TimeAssumption DEF RecvWithTimeout
    <3>2. us \in Nat
      <4>1. RecvTimeout \div NsPerUs \in Nat
        BY <3>1, SMT DEF NsPerUs
      <4> QED
        BY <4>1, MaskedIs
    <3>3. Calling("invalid", RecvTimeout, NoTime)
          \/ Calling("select", RecvTimeout, TimeAdd(clock, limit))
      BY <2>5 DEF RecvWithTimeout, Timeval
    <3> HIDE DEF us
    <3>4. limit \in Nat
      BY <3>1, <3>2, SMT DEF NsPerS, NsPerUs
    <3> HIDE DEF limit
    <3> QED
      BY <2>1, <2>3, <3>1, <3>3, <3>4, CallTyped
  <2>6. CASE Grant \/ TimeOut
    <3>1. PICK does \in {"granted", "timedout"} :
             timer' = [timer EXCEPT !.does = does] /\ UNCHANGED clock
      BY <2>6 DEF Grant, TimeOut
    <3>2. timer' = [does |-> does, timeout |-> timer.timeout,
                    began |-> timer.began, until |-> timer.until]
      BY <3>1 DEF Timer
    <3> QED
      BY <3>1, <3>2 DEF TimeTypeOK, Timer, Ends
  <2>7. CASE Tick
    BY <2>7 DEF Tick, TimeTypeOK, Timer
  <2>8. CASE UNCHANGED timeVars
    BY <2>8 DEF timeVars, TimeTypeOK, Timer
  <2> QED
    BY <2>4, <2>5, <2>6, <2>7, <2>8 DEF TimeNext
<1> QED
  BY <1>1, <1>2, PTL

\* The counters of the compressor do not pass the packets that have come, as the
\* streak lies within them.
LEMMA StreakBounded ==
    ASSUME ZeroInv, Len(stream) <= MaxTime
    PROVE  startOfRLE \in Time /\ lastZeroEnd \in Time /\ zeroCount \in Time
<1>1. /\ startOfRLE \in Nat /\ lastZeroEnd \in Nat /\ zeroCount \in Nat /\ Len(stream) \in Nat
      /\ startOfRLE <= Len(stream) /\ lastZeroEnd <= Len(stream)
  BY DEF ZeroInv, ZeroTypes, StreakGoesOn
<1>2. IsFiniteSet(1 .. Len(stream)) /\ Cardinality(1 .. Len(stream)) = Len(stream)
  <2>1. 1 \in Int /\ Len(stream) \in Int
    BY <1>1
  <2>2. /\ IsFiniteSet(1 .. Len(stream))
        /\ Cardinality(1 .. Len(stream)) = IF 1 > Len(stream) THEN 0 ELSE Len(stream) - 1 + 1
    BY <2>1, FS_Interval
  <2> QED
    BY <1>1, <2>2
<1>3. Streak \in SUBSET (1 .. Len(stream))
  BY DEF ZeroInv, ZeroTypes, Streak
<1>4. Cardinality(Streak) <= Cardinality(1 .. Len(stream))
  BY <1>2, <1>3, FS_Subset
<1>5. zeroCount <= Len(stream)
  BY <1>2, <1>4 DEF ZeroInv, RunsAccountForZeros
<1> QED
  BY <1>1, <1>5, ZeroAssumption DEF Time

\* The bound on the packets, and what is stored and returned of them.
ZeroStored == Len(stream) <= MaxTime /\ rleRows \subseteq Row /\ filtered \subseteq Time

\* The types of the compressor.
LEMMA ZeroTypesKept == ZeroInit /\ [][ZeroNext]_zeroVars => []ZeroTypeOK
<1>1. ZeroInit => ZeroStored
  <2> SUFFICES ASSUME ZeroInit PROVE ZeroStored
    OBVIOUS
  <2>1. Len(stream) = 0 /\ rleRows = {} /\ filtered = {}
    BY DEF ZeroInit
  <2> QED
    BY <2>1, ZeroAssumption DEF ZeroStored
<1>2. ZeroInv /\ ZeroStored /\ [ZeroNext]_zeroVars => ZeroStored'
  <2> SUFFICES ASSUME ZeroInv, ZeroStored, [ZeroNext]_zeroVars PROVE ZeroStored'
    OBVIOUS
  <2>1. CASE UNCHANGED zeroVars
    BY <2>1 DEF zeroVars, ZeroStored
  <2>2. CASE ZeroNext
    <3>1. PICK packets \in NextPackets :
            Len(stream) + Len(packets) <= MaxTime /\ stream' = stream \o packets
      BY <2>2 DEF ZeroNext, FullRLEZeroCompression, StoreAndRemoveAllMetaData
    <3>2. Len(stream') <= MaxTime
      BY <3>1, MorePackets DEF ZeroInv
    <3>3. startOfRLE \in Time /\ lastZeroEnd \in Time /\ zeroCount \in Time
      BY StreakBounded DEF ZeroStored
    <3>4. rleRows' \subseteq rleRows \cup
                     {[start |-> startOfRLE, end |-> lastZeroEnd, length |-> zeroCount]}
      BY <2>2 DEF ZeroNext, FullRLEZeroCompression, StoreAndRemoveAllMetaData
    <3>5. rleRows' \subseteq Row
      BY <3>3, <3>4 DEF ZeroStored, Row
    <3>6. filtered' \subseteq Time
      <4>1. CASE FullRLEZeroCompression
        BY <4>1 DEF FullRLEZeroCompression, ZeroStored
      <4>2. CASE StoreAndRemoveAllMetaData
        <5>1. PICK more \in NextPackets :
                /\ Len(stream) + Len(more) <= MaxTime
                /\ filtered' \in {{Len(stream) + i : i \in {j \in DOMAIN more : ~more[j]}}, {}}
          BY <4>2 DEF StoreAndRemoveAllMetaData
        <5>2. PICK n \in 0 .. MaxPacketsPerCall : more \in [1 .. n -> BOOLEAN]
          BY DEF NextPackets
        <5>3. n \in Nat /\ DOMAIN more = 1 .. n /\ Len(more) = n
          BY <5>2, ZeroAssumption
        <5>4. Len(stream) \in Nat
          BY DEF ZeroInv, ZeroTypes
        <5>5. \A i \in 1 .. n : Len(stream) + i \in Time
          BY <5>1, <5>3, <5>4, ZeroAssumption DEF Time
        <5> QED
          BY <5>1, <5>3, <5>5
      <4> QED
        BY <2>2, <4>1, <4>2 DEF ZeroNext
    <3> QED
      BY <3>2, <3>5, <3>6 DEF ZeroStored
  <2> QED
    BY <2>1, <2>2
<1>3. ZeroInv /\ ZeroStored => ZeroTypeOK
  BY StreakBounded DEF ZeroInv, ZeroTypes, ZeroStored, ZeroTypeOK
<1> QED
  BY <1>1, <1>2, <1>3, ZeroInvariant, PTL

\* A sequence of numbers that are all in S.
LEMMA NarrowSeq ==
    ASSUME NEW S, NEW s \in Seq(Int), \A i \in 1 .. Len(s) : s[i] \in S
    PROVE  s \in Seq(S)
<1>1. Len(s) \in Nat /\ DOMAIN s = 1 .. Len(s)
  OBVIOUS
<1>2. s = [i \in 1 .. Len(s) |-> s[i]]
  OBVIOUS
<1>3. s \in [1 .. Len(s) -> S]
  BY <1>2
<1> QED
  BY <1>1, <1>3

\* The types of a metric: the ring has no sample but those that have been added,
\* and the indices stay in it.
LEMMA MetricTypesKept == MetricInit /\ [][AddSample]_metricVars => []MetricTypeOK
<1>1. MaxSamples \in Nat \ {0} /\ MaxAdded \in Nat
  BY RingAssumption
<1>2. MetricInit => MetricTypeOK
  <2> SUFFICES ASSUME MetricInit PROVE MetricTypeOK
    OBVIOUS
  <2>1. samples \in [0 .. MaxSamples - 1 -> 0 .. MaxAdded]
    BY <1>1 DEF MetricInit
  <2>2. file \in Seq(1 .. MaxAdded) /\ 0 \in 0 .. MaxSamples - 1 /\ 0 \in 0 .. MaxSamples
    BY <1>1 DEF MetricInit
  <2>3. /\ sampleTail = 0 /\ sampleCount = 0 /\ wIndex = 0 /\ added = 0
        /\ interval \in Intervals /\ writeFailed = FALSE
    BY DEF MetricInit
  <2>4. added \in 0 .. MaxAdded
    BY <1>1, <2>3
  <2> QED
    BY <2>1, <2>2, <2>3, <2>4 DEF MetricTypeOK
<1>3. MetricInv /\ MetricInv' /\ MetricTypeOK /\ [AddSample]_metricVars => MetricTypeOK'
  <2> SUFFICES ASSUME MetricInv, MetricInv', MetricTypeOK, [AddSample]_metricVars
               PROVE  MetricTypeOK'
    OBVIOUS
  <2>1. CASE UNCHANGED metricVars
    BY <2>1 DEF metricVars, MetricTypeOK
  <2>2. CASE AddSample
    <3>1. /\ added \in Nat /\ added < MaxAdded /\ added' = added + 1 /\ interval' = interval
          /\ samples' = [samples EXCEPT ![sampleTail] = added + 1]
          /\ sampleTail' = NextPlace(sampleTail) /\ wIndex' \in {wIndex, NextPlace(sampleTail)}
      BY <2>2 DEF AddSample, MetricTypeOK
    <3>2. added' \in 0 .. MaxAdded /\ added + 1 \in 0 .. MaxAdded
      BY <1>1, <3>1
    <3>3. samples' \in [0 .. MaxSamples - 1 -> 0 .. MaxAdded]
      BY <3>1, <3>2 DEF MetricTypeOK
    <3>4. sampleTail + 1 \in Int
      BY <1>1 DEF MetricTypeOK
    <3>5. NextPlace(sampleTail) \in 0 .. MaxSamples - 1
      BY <1>1, <3>4, Quotient DEF NextPlace
    <3>6. sampleCount' \in 0 .. MaxSamples
      BY <1>1, <3>1 DEF MetricInv, Ringed
    <3>7. file' \in Seq(1 .. MaxAdded)
      <4>1. file' \in Seq(Int) /\ \A i \in 1 .. Len(file') : file'[i] \in 1 .. added'
        BY DEF MetricInv, MetricTypes, Filed
      <4>2. \A i \in 1 .. Len(file') : file'[i] \in 1 .. MaxAdded
        BY <1>1, <3>2, <4>1
      <4> QED
        BY <4>1, <4>2, NarrowSeq
    <3>8. writeFailed' \in BOOLEAN /\ interval' \in Intervals
      BY DEF MetricInv, MetricTypes
    <3> QED
      BY <3>1, <3>2, <3>3, <3>5, <3>6, <3>7, <3>8 DEF MetricTypeOK
  <2> QED
    BY <2>1, <2>2
<1> QED
  BY <1>2, <1>3, MetricInvariant, PTL

\* What bounds Count and what is put: an insert has room before it copies; what a
\* call has seen of Count is no more than what had been put by then; and a read
\* takes no more than Count, so that Count is not below zero, even when an update
\* of it is lost.
CountBounded ==
    /\ count <= put
    /\ ins.pc \in {"check", "sleep", "asleep", "copy"} => put + ins.size <= MaxBytes
    /\ ins.pc = "store" => ins.seen + ins.size <= put
    /\ rd.pc = "copy" /\ ~raced => rd.size <= count
    /\ rd.pc = "store" => rd.size <= rd.seen /\ rd.seen <= put

RingBounds == BufferTypeOK /\ ins \in Call /\ rd \in Call /\ CountBounded

\* A call at another place.
LEMMA CallAt ==
    ASSUME NEW c \in Call, NEW pc \in CallPc, NEW d, d = [c EXCEPT !.pc = pc]
    PROVE  d \in Call /\ d.pc = pc /\ d.size = c.size /\ d.seen = c.seen
  BY DEF Call, CallPc

\* The numbers of the buffer.
LEMMA RingNumbers ==
    ASSUME RingBounds
    PROVE  /\ MaxBytes \in Nat /\ DataSize \in Nat \ {0}
           /\ count \in 0 .. MaxBytes /\ put \in 0 .. MaxBytes
           /\ ins.size \in 0 .. DataSize /\ ins.seen \in 0 .. MaxBytes
           /\ rd.size \in 0 .. DataSize /\ rd.seen \in 0 .. MaxBytes
           /\ head \in Int /\ tail \in Int /\ ins.pc \in CallPc /\ rd.pc \in CallPc
  BY RingAssumption DEF RingBounds, BufferTypeOK, Call, CallPc

\* The steps of CbInsert.
LEMMA InsertBounded ==
    ASSUME RingBounds, ~raced,
           \/ CallInsert \/ CheckNotFull \/ SleepNotFull \/ InsertBytes \/ AddCount
           \/ LookAtCount \/ SetFull
    PROVE  RingBounds'
<1>1. /\ BufferTypeOK /\ CountBounded /\ ins \in Call /\ rd \in Call
      /\ MaxBytes \in Nat /\ DataSize \in Nat \ {0}
      /\ count \in 0 .. MaxBytes /\ put \in 0 .. MaxBytes
      /\ ins.size \in 0 .. DataSize /\ ins.seen \in 0 .. MaxBytes
      /\ rd.size \in 0 .. DataSize /\ rd.seen \in 0 .. MaxBytes
      /\ head \in Int
  BY RingNumbers DEF RingBounds
<1>2. CASE CallInsert
  <2>1. PICK size \in 1 .. DataSize :
           put + size <= MaxBytes /\ ins' = [pc |-> "check", size |-> size, seen |-> 0]
    BY <1>2 DEF CallInsert
  <2>2. ins' \in Call /\ ins'.pc = "check" /\ ins'.size = size
    BY <1>1, <2>1 DEF Call
  <2> QED
    BY <1>1, <1>2, <2>1, <2>2 DEF CallInsert, RingBounds, BufferTypeOK, CountBounded
<1>3. CASE CheckNotFull \/ SleepNotFull
  <2>1. PICK pc \in {"sleep", "asleep", "copy"} : ins' = [ins EXCEPT !.pc = pc]
    BY <1>3 DEF CheckNotFull, SleepNotFull, InsertIsAt
  <2>2. pc \in CallPc
    BY DEF CallPc
  <2>3. ins' \in Call /\ ins'.pc = pc /\ ins'.size = ins.size
    BY <1>1, <2>1, <2>2, CallAt
  <2>4. /\ ins.pc \in {"check", "sleep"}
        /\ UNCHANGED <<data, head, tail, count, full, rd, put, got, overran, raced>>
    BY <1>3 DEF CheckNotFull, SleepNotFull
  <2> QED
    BY <1>1, <2>1, <2>3, <2>4 DEF RingBounds, BufferTypeOK, CountBounded
<1>4. CASE InsertBytes
  <2>1. /\ ins.pc = "copy" /\ head' = (head + ins.size) % DataSize /\ put' = put + ins.size
        /\ UNCHANGED <<tail, count, full, rd, got, raced>>
    BY <1>4 DEF InsertBytes
  <2>2. put' \in 0 .. MaxBytes /\ put <= put' /\ count + ins.size <= put'
    BY <1>1, <2>1 DEF CountBounded
  <2>3. ins' \in Call /\ ins'.pc = "store" /\ ins'.size = ins.size /\ ins'.seen = count
    <3>1. ins \in Call /\ count \in 0 .. MaxBytes /\ ins' = [ins EXCEPT !.pc = "store", !.seen = count]
      BY <1>1, <1>4 DEF InsertBytes
    <3> QED
      BY <3>1 DEF Call
  <2>4. head' \in 0 .. DataSize - 1
    <3>1. head + ins.size \in Int
      BY <1>1
    <3> QED
      BY <1>1, <2>1, <3>1, Quotient
  <2>5. data' \in [0 .. DataSize - 1 -> 0 .. MaxBytes]
    <3>1. DOMAIN data = 0 .. DataSize - 1
      BY <1>1 DEF BufferTypeOK
    <3>2. data' = [i \in 0 .. DataSize - 1 |->
                     IF (i - head) % DataSize < ins.size
                     THEN put + ((i - head) % DataSize) + 1 ELSE data[i]]
      BY <1>4, <3>1 DEF InsertBytes
    <3>3. ASSUME NEW i \in 0 .. DataSize - 1
          PROVE  (IF (i - head) % DataSize < ins.size
                  THEN put + ((i - head) % DataSize) + 1 ELSE data[i]) \in 0 .. MaxBytes
      <4>1. i - head \in Int
        BY <1>1
      <4>2. (i - head) % DataSize \in 0 .. DataSize - 1
        BY <1>1, <4>1, Quotient
      <4>3. data[i] \in 0 .. MaxBytes
        BY <1>1 DEF BufferTypeOK
      <4> DEFINE k == (i - head) % DataSize
      <4>4. k \in Nat
        BY <1>1, <4>2
      <4> HIDE DEF k
      <4>5. k < ins.size => put + k + 1 \in 0 .. MaxBytes
        BY <1>1, <2>1, <2>2, <4>4
      <4> QED
        BY <4>3, <4>5 DEF k
    <3> QED
      BY <3>2, <3>3
  <2>6. overran' \in BOOLEAN
    BY <1>1, <1>4 DEF InsertBytes, BufferTypeOK
  <2>7. BufferTypeOK'
    BY <1>1, <2>1, <2>2, <2>3, <2>4, <2>5, <2>6 DEF BufferTypeOK
  <2>8. CountBounded'
    BY <1>1, <2>1, <2>2, <2>3 DEF CountBounded
  <2> QED
    BY <1>1, <2>1, <2>3, <2>7, <2>8 DEF RingBounds
<1>5. CASE AddCount
  <2>1. /\ ins.pc = "store" /\ count' = ins.seen + ins.size /\ raced' = (raced \/ count # ins.seen)
        /\ ins' = [ins EXCEPT !.pc = "look"]
        /\ UNCHANGED <<data, head, tail, full, rd, put, got, overran>>
    BY <1>5 DEF AddCount, InsertIsAt
  <2>2. "look" \in CallPc
    BY DEF CallPc
  <2>3. ins' \in Call /\ ins'.pc = "look"
    BY <1>1, <2>1, <2>2, CallAt
  <2>4. count' \in 0 .. MaxBytes /\ count' <= put /\ (~raced' => count <= count')
    <3>1. ~raced' => count = ins.seen
      BY <2>1
    <3> QED
      BY <1>1, <2>1, <3>1 DEF CountBounded
  <2>5. raced' \in BOOLEAN
    BY <2>1
  <2>6. CountBounded'
    BY <1>1, <2>1, <2>3, <2>4 DEF CountBounded
  <2>7. BufferTypeOK'
    BY <1>1, <2>1, <2>3, <2>4, <2>5 DEF BufferTypeOK
  <2> QED
    BY <1>1, <2>1, <2>3, <2>6, <2>7 DEF RingBounds
<1>6. CASE LookAtCount
  <2>1. /\ ins' = [ins EXCEPT !.pc = "full", !.seen = count]
        /\ UNCHANGED <<data, head, tail, count, full, rd, put, got, overran, raced>>
    BY <1>6 DEF LookAtCount
  <2>2. /\ ins \in Call /\ count \in 0 .. MaxBytes
        /\ ins' = [ins EXCEPT !.pc = "full", !.seen = count]
    BY <1>1, <2>1
  <2>3. ins' \in Call /\ ins'.pc = "full"
    BY <2>2 DEF Call
  <2> QED
    BY <1>1, <2>1, <2>3 DEF RingBounds, BufferTypeOK, CountBounded
<1>7. CASE SetFull
  <2>1. /\ full' = (ins.seen = DataSize) /\ ins' = [ins EXCEPT !.pc = "idle"]
        /\ rd' = rd \/ (rd.pc = "asleep" /\ rd' = [rd EXCEPT !.pc = "check"])
        /\ UNCHANGED <<data, head, tail, count, put, got, overran, raced>>
    BY <1>7 DEF SetFull, InsertIsAt, ReadIsAt
  <2>2. "idle" \in CallPc /\ "check" \in CallPc
    BY DEF CallPc
  <2>3. ins' \in Call /\ ins'.pc = "idle"
    BY <1>1, <2>1, <2>2, CallAt
  <2>4. rd' = rd \/ (rd' \in Call /\ rd'.pc = "check")
    BY <1>1, <2>1, <2>2, CallAt
  <2>5. BufferTypeOK'
    BY <1>1, <2>1, <2>3, <2>4 DEF BufferTypeOK
  <2>6. CountBounded'
    BY <1>1, <2>1, <2>3, <2>4 DEF CountBounded
  <2> QED
    BY <1>1, <2>3, <2>4, <2>5, <2>6 DEF RingBounds
<1> QED
  BY <1>2, <1>3, <1>4, <1>5, <1>6, <1>7

\* More elements of S behind those that there are.
LEMMA MoreOf ==
    ASSUME NEW S, NEW s \in Seq(S), NEW m \in Nat, NEW t \in [1 .. m -> S]
    PROVE  s \o t \in Seq(S)
<1>1. t \in Seq(S)
  OBVIOUS
<1> QED
  BY <1>1

\* The steps of CbRead.
LEMMA ReadBounded ==
    ASSUME RingBounds, ~raced,
           \/ CallRead \/ CheckEnough \/ SleepNotEmpty \/ ReadBytes \/ SubtractCount \/ ClearFull
    PROVE  RingBounds'
<1>1. /\ BufferTypeOK /\ CountBounded /\ ins \in Call /\ rd \in Call
      /\ MaxBytes \in Nat /\ DataSize \in Nat \ {0}
      /\ count \in 0 .. MaxBytes /\ put \in 0 .. MaxBytes
      /\ rd.size \in 0 .. DataSize /\ rd.seen \in 0 .. MaxBytes
      /\ tail \in Int
  BY RingNumbers DEF RingBounds
<1>2. CASE CallRead
  <2>1. PICK size \in 1 .. DataSize : rd' = [pc |-> "check", size |-> size, seen |-> 0]
    BY <1>2 DEF CallRead
  <2>2. rd' \in Call /\ rd'.pc = "check"
    BY <1>1, <2>1 DEF Call
  <2> QED
    BY <1>1, <1>2, <2>2 DEF CallRead, RingBounds, BufferTypeOK, CountBounded
<1>3. CASE CheckEnough \/ SleepNotEmpty
  <2>1. PICK pc \in {"copy", "sleep", "asleep"} : rd' = [rd EXCEPT !.pc = pc]
    BY <1>3 DEF CheckEnough, SleepNotEmpty, ReadIsAt
  <2>2. pc \in CallPc
    BY DEF CallPc
  <2>3. rd' \in Call /\ rd'.pc = pc /\ rd'.size = rd.size
    BY <1>1, <2>1, <2>2, CallAt
  <2>4. UNCHANGED <<data, head, tail, count, full, ins, put, got, overran, raced>>
    BY <1>3 DEF CheckEnough, SleepNotEmpty
  <2>5. rd'.pc = "copy" => rd'.size <= count
    <3>1. CASE CheckEnough
      <4>1. rd' = [rd EXCEPT !.pc = IF count >= rd.size THEN "copy" ELSE "sleep"]
        BY <3>1 DEF CheckEnough, ReadIsAt, Enough
      <4>2. rd'.pc = IF count >= rd.size THEN "copy" ELSE "sleep"
        BY <1>1, <4>1 DEF Call
      <4> QED
        BY <1>1, <2>3, <4>2
    <3>2. CASE SleepNotEmpty
      <4>1. rd' = [rd EXCEPT !.pc = "asleep"]
        BY <3>2 DEF SleepNotEmpty, ReadIsAt
      <4> QED
        BY <1>1, <4>1 DEF Call
    <3> QED
      BY <1>3, <3>1, <3>2
  <2> QED
    BY <1>1, <2>3, <2>4, <2>5 DEF RingBounds, BufferTypeOK, CountBounded
<1>4. CASE ReadBytes
  <2>1. /\ rd.pc = "copy" /\ tail' = (tail + rd.size) % DataSize
        /\ got' = got \o [k \in 1 .. rd.size |-> data[(tail + k - 1) % DataSize]]
        /\ rd' = [rd EXCEPT !.pc = "store", !.seen = count]
        /\ UNCHANGED <<data, head, count, full, ins, put, overran, raced>>
    BY <1>4 DEF ReadBytes
  <2>2. /\ rd \in Call /\ count \in 0 .. MaxBytes
        /\ rd' = [rd EXCEPT !.pc = "store", !.seen = count]
    BY <1>1, <2>1
  <2>3. rd' \in Call /\ rd'.pc = "store" /\ rd'.size = rd.size /\ rd'.seen = count
    BY <2>2 DEF Call
  <2>4. tail' \in 0 .. DataSize - 1
    <3>1. tail + rd.size \in Int
      BY <1>1
    <3> QED
      BY <1>1, <2>1, <3>1, Quotient
  <2>5. got' \in Seq(0 .. MaxBytes)
    <3>1. ASSUME NEW k \in 1 .. rd.size
          PROVE  data[(tail + k - 1) % DataSize] \in 0 .. MaxBytes
      <4>1. tail + k - 1 \in Int
        BY <1>1
      <4>2. (tail + k - 1) % DataSize \in 0 .. DataSize - 1
        BY <1>1, <4>1, Quotient
      <4> QED
        BY <1>1, <4>2 DEF BufferTypeOK
    <3>2. [k \in 1 .. rd.size |-> data[(tail + k - 1) % DataSize]] \in [1 .. rd.size -> 0 .. MaxBytes]
      BY <3>1
    <3>3. rd.size \in Nat /\ got \in Seq(0 .. MaxBytes)
      BY <1>1 DEF BufferTypeOK
    <3> QED
      BY <2>1, <3>2, <3>3, MoreOf
  <2>6. rd'.size <= rd'.seen /\ rd'.seen <= put'
    BY <1>1, <2>1, <2>3 DEF CountBounded
  <2>7. BufferTypeOK'
    BY <1>1, <2>1, <2>3, <2>4, <2>5 DEF BufferTypeOK
  <2>8. CountBounded'
    BY <1>1, <2>1, <2>3, <2>6 DEF CountBounded
  <2> QED
    BY <1>1, <2>1, <2>3, <2>7, <2>8 DEF RingBounds
<1>5. CASE SubtractCount
  <2>1. /\ rd.pc = "store" /\ count' = rd.seen - rd.size /\ raced' = (raced \/ count # rd.seen)
        /\ rd' = [rd EXCEPT !.pc = "full"]
        /\ UNCHANGED <<data, head, tail, full, ins, put, got, overran>>
    BY <1>5 DEF SubtractCount, ReadIsAt
  <2>2. "full" \in CallPc
    BY DEF CallPc
  <2>3. rd' \in Call /\ rd'.pc = "full"
    BY <1>1, <2>1, <2>2, CallAt
  <2>4. count' \in 0 .. MaxBytes /\ count' <= put
    BY <1>1, <2>1 DEF CountBounded
  <2>5. CountBounded'
    BY <1>1, <2>1, <2>3, <2>4 DEF CountBounded
  <2>6. raced' \in BOOLEAN
    BY <2>1
  <2>7. BufferTypeOK'
    BY <1>1, <2>1, <2>3, <2>4, <2>6 DEF BufferTypeOK
  <2> QED
    BY <1>1, <2>1, <2>3, <2>5, <2>7 DEF RingBounds
<1>6. CASE ClearFull
  <2>1. /\ full' = FALSE /\ rd' = [rd EXCEPT !.pc = "idle"]
        /\ ins' = ins \/ (ins.pc = "asleep" /\ ins' = [ins EXCEPT !.pc = "check"])
        /\ UNCHANGED <<data, head, tail, count, put, got, overran, raced>>
    BY <1>6 DEF ClearFull, InsertIsAt, ReadIsAt
  <2>2. "idle" \in CallPc /\ "check" \in CallPc
    BY DEF CallPc
  <2>3. rd' \in Call /\ rd'.pc = "idle"
    BY <1>1, <2>1, <2>2, CallAt
  <2>4. ins' = ins \/ (ins.pc = "asleep" /\ ins' \in Call /\ ins'.pc = "check" /\ ins'.size = ins.size)
    BY <1>1, <2>1, <2>2, CallAt
  <2>5. BufferTypeOK'
    BY <1>1, <2>1, <2>3, <2>4 DEF BufferTypeOK
  <2>6. CountBounded'
    BY <1>1, <2>1, <2>3, <2>4 DEF CountBounded
  <2> QED
    BY <1>1, <2>3, <2>4, <2>5, <2>6 DEF RingBounds
<1> QED
  BY <1>2, <1>3, <1>4, <1>5, <1>6

\* The types of the circular buffer.
LEMMA BufferTypesKept == BufferInit /\ [][BufferNext]_bufferVars => []BufferTypeOK
<1>1. BufferInit => RingBounds
  <2> SUFFICES ASSUME BufferInit PROVE RingBounds
    OBVIOUS
  <2>1. MaxBytes \in Nat /\ DataSize \in Nat \ {0}
    BY RingAssumption
  <2>2. /\ ins = NoCall /\ rd = NoCall /\ head = 0 /\ tail = 0 /\ count = 0 /\ put = 0
        /\ full = FALSE /\ overran = FALSE /\ raced = FALSE
        /\ data \in [0 .. DataSize - 1 -> 0 .. MaxBytes] /\ got \in Seq(0 .. MaxBytes)
    BY <2>1 DEF BufferInit
  <2>3. NoCall \in Call /\ NoCall.pc = "idle"
    BY <2>1 DEF NoCall, Call
  <2>4. 0 \in 0 .. DataSize - 1 /\ 0 \in 0 .. MaxBytes
    BY <2>1
  <2>5. BufferTypeOK
    BY <2>2, <2>3, <2>4 DEF BufferTypeOK
  <2>6. CountBounded
    BY <2>2, <2>3 DEF CountBounded
  <2> QED
    BY <2>2, <2>3, <2>5, <2>6 DEF RingBounds
<1>2. RingBounds /\ [BufferNext]_bufferVars => RingBounds'
  <2> SUFFICES ASSUME RingBounds, [BufferNext]_bufferVars PROVE RingBounds'
    OBVIOUS
  <2>1. CASE UNCHANGED bufferVars
    BY <2>1 DEF bufferVars, RingBounds, BufferTypeOK, CountBounded
  <2> QED
    BY <2>1, InsertBounded, ReadBounded DEF BufferNext
<1>3. RingBounds => BufferTypeOK
  BY DEF RingBounds
<1> QED
  BY <1>1, <1>2, <1>3, PTL

-----------------------------------------------------------------------------
\* A step of Support is a step of one part, which leaves the variables of all
\* others alone.
LEMMA PartSteps ==
    ASSUME [Next]_vars
    PROVE  /\ [MemNext]_memVars /\ [LogNext]_logVars
           /\ [ControlNext]_controlVars /\ [TimeNext]_timeVars
           /\ [BufferNext]_bufferVars /\ [AddSample]_metricVars
           /\ [ZeroNext]_zeroVars /\ [JsonNext]_jsonVars
           /\ UNCHANGED part
<1>1. CASE UNCHANGED vars
  BY <1>1 DEF vars
<1>2. CASE MemNext /\ UNCHANGED <<notMem, part>>
  BY <1>2 DEF notMem
<1>3. CASE LogNext /\ UNCHANGED <<notLog, part>>
  BY <1>3 DEF notLog
<1>4. CASE ControlNext /\ UNCHANGED <<notControl, part>>
  BY <1>4 DEF notControl
<1>5. CASE TimeNext /\ UNCHANGED <<notTime, part>>
  BY <1>5 DEF notTime
<1>6. CASE BufferNext /\ UNCHANGED <<notBuffer, part>>
  BY <1>6 DEF notBuffer
<1>7. CASE AddSample /\ UNCHANGED <<notMetric, part>>
  BY <1>7 DEF notMetric
<1>8. CASE ZeroNext /\ UNCHANGED <<notZero, part>>
  BY <1>8 DEF notZero
<1>9. CASE JsonNext /\ UNCHANGED <<notJson, part>>
  BY <1>9 DEF notJson
<1> QED
  BY <1>1, <1>2, <1>3, <1>4, <1>5, <1>6, <1>7, <1>8, <1>9 DEF Next

\* Every run of Support is a run of each part.
LEMMA PartRuns ==
    Spec => /\ MemSpec
            /\ LogInit /\ [][LogNext]_logVars
            /\ ControlInit /\ [][ControlNext]_controlVars
            /\ TimeSpec
            /\ BufferInit /\ [][BufferNext]_bufferVars
            /\ MetricInit /\ [][AddSample]_metricVars
            /\ ZeroInit /\ [][ZeroNext]_zeroVars
            /\ JsonSpec
            /\ [](part \in Parts)
<1>1. Init => /\ MemInit /\ LogInit /\ ControlInit /\ TimeInit /\ BufferInit
              /\ MetricInit /\ ZeroInit /\ JsonInit /\ part \in Parts
  BY DEF Init
<1>2. part \in Parts /\ UNCHANGED part => (part \in Parts)'
  BY DEF Parts
<1> QED
  BY <1>1, <1>2, PartSteps, PTL DEF Spec, MemSpec, TimeSpec, JsonSpec

\* Whatever the number of threads, the size of the rings and the bounds of the
\* calls, no part leaves its types: no arena or ring gets past its end, no frame
\* past its thread's depth, no count below nothing or above what was put in, no
\* timer past a time that struct timespec can hold (Sdb.h:746-1301;
\* Thread.c:228-321; Time.c:34-95; CircularBuffer.c:27-187; Metrics.c:70-142;
\* ZeroValuesCompressor.c:46-235; cJSON.c:248-2560).
THEOREM SupportTypes == Spec => []TypeOK
<1>1. MemInv => MemTypeOK
  BY DEF MemInv
<1>2. LogInv => LogTypeOK
  BY DEF LogInv, LogTypes
<1>3. ControlInv => ControlTypeOK
  BY DEF ControlInv
<1>4. /\ MemTypeOK /\ LogTypeOK /\ ControlTypeOK /\ TimeTypeOK /\ BufferTypeOK
      /\ MetricTypeOK /\ ZeroTypeOK /\ JsonTypeOK /\ part \in Parts
      => TypeOK
  BY DEF TypeOK
<1> QED
  BY <1>1, <1>2, <1>3, <1>4, PartRuns, MemoryInvariant, LogInvariant, ControlInvariant,
     TimeTypesKept, BufferTypesKept, MetricTypesKept, ZeroTypesKept, JsonTypesRespected, PTL
     DEF TimeSpec

\* What holds of each part alone holds of the specification that TLC runs: blocks
\* and strings stay whole (Sdb.h:1017-1301), a message is written as it was
\* formatted (Sdb.h:746-819), samples keep their order (CircularBuffer.c:110-187;
\* Metrics.c:70-142), the rows stored account for the zeros seen
\* (ZeroValuesCompressor.c:46-235), every item has one owner (cJSON.c:248-2560),
\* no owner gets past its wait for a worker that runs (Thread.c:269-321), and a
\* timed wait is given its proper end (Thread.c:68, 118, 161; Time.c:34-44).
THEOREM PartsSafe ==
    Spec => /\ []MemoryIntact /\ []WholeMessages /\ []RingsInOrder
            /\ []RunsAccountForZeros /\ []TreeIntact /\ []StopSeen /\ []TimesExact
<1>1. LogInv => WholeMessages
  BY DEF LogInv
<1>2. ControlInv => StopSeen
  BY DEF ControlInv, FlagsFollow, StopSeen
<1> QED
  BY <1>1, <1>2, PartRuns, MemoryStaysIntact, LogInvariant, ControlInvariant,
     RingsKeepOrder, ZerosAccountedFor, TreesIntact, TimeLimitsKept, PTL
=============================================================================

---------------------------- MODULE StreamProofs ----------------------------
(***************************************************************************)
(* Theorems about ModbusStream, for every length of a header and of a      *)
(* body, every capacity of a connection and every number of packets,       *)
(* connections and torn frames.                                            *)
(*                                                                         *)
(* InStep speaks of the first unit on the wire only.  It is kept because   *)
(* behind it the wire holds whole frames: from any unit the rest of its    *)
(* frame follows, and then another frame begins (WholeFrames).  So a read  *)
(* of a header leaves the body of the same packet in front, and a read of  *)
(* a body leaves the beginning of a frame.                                 *)
(***************************************************************************)
EXTENDS ModbusStream, FiniteSetTheorems, TLAPS

\* MbRun has a connection while it reads, the server while it sends.
Places ==
    /\ mb \in {"loop", "rotate", "header", "data", "reconnect", "flush", "close"} => conn \in Conn
    /\ srv \in {"check", "send"} => served \in Conn
    /\ mb = "data" => Len(header) = HeaderLen

\* The unit of packet p at position i.
UnitOf(p, i) == [packet |-> p, pos |-> i]

\* Behind every unit of w comes the rest of its frame, and then another frame.
WholeFrames(w) ==
    /\ \A i \in 1 .. Len(w) : \A k \in 0 .. FrameLen - w[i].pos :
          i + k <= Len(w) /\ w[i + k] = UnitOf(w[i].packet, w[i].pos + k)
    /\ \A i \in 1 .. Len(w) - 1 : w[i].pos = FrameLen => w[i + 1].pos = 1

\* A connection without a torn frame carries whole frames, from where MbRun is
\* in them, and a connection that has not been made carries nothing.
InFrames ==
    /\ \A c \in Conn : c > conn => wire[c] = << >>
    /\ \A c \in Conn \ torn : WholeFrames(wire[c])
    /\ conn > 0 /\ conn \notin torn =>
          /\ mb \in {"loop", "rotate", "header"} => wire[conn] = << >> \/ wire[conn][1].pos = 1
          /\ mb = "data" =>
                /\ wire[conn] # << >>
                /\ wire[conn][1] = UnitOf(header[1].packet, HeaderLen + 1)
                /\ \A i \in 1 .. HeaderLen : header[i] = UnitOf(header[1].packet, i)

IInv == TypeOK /\ Places /\ InFrames

-----------------------------------------------------------------------------
(* Frames, and pieces of what is on the wire.                              *)

\* The lengths are numbers.
LEMMA Lengths ==
    /\ HeaderLen \in Nat \ {0} /\ BodyLen \in Nat \ {0} /\ FrameLen \in Nat \ {0}
    /\ FrameLen = HeaderLen + BodyLen
    /\ Capacity \in Nat /\ MaxPackets \in Nat /\ MaxConns \in Nat \ {0} /\ MaxTorn \in Nat
BY FrameAssumption, CapacityAssumption, StreamBounds DEF FrameLen

\* The frame of a packet is the sequence of its units.
LEMMA FrameIs ==
    ASSUME NEW p \in 1 .. MaxPackets
    PROVE  /\ Frame(p) \in Seq(Unit) /\ Len(Frame(p)) = FrameLen
           /\ \A i \in 1 .. FrameLen : Frame(p)[i] = UnitOf(p, i)
<1>1. \A i \in 1 .. FrameLen : [packet |-> p, pos |-> i] \in Unit
  BY DEF Unit
<1>2. Frame(p) \in [1 .. FrameLen -> Unit]
  BY <1>1 DEF Frame
<1>3. Frame(p) \in Seq(Unit) /\ Len(Frame(p)) = FrameLen
  BY <1>2, Lengths
<1> QED BY <1>3 DEF Frame, UnitOf

\* What SocketRecvWithTimeout takes, and what it leaves.
LEMMA Pieces ==
    ASSUME NEW w \in Seq(Unit), NEW n \in Nat, n <= Len(w)
    PROVE  /\ SubSeq(w, 1, n) \in Seq(Unit) /\ Len(SubSeq(w, 1, n)) = n
           /\ \A i \in 1 .. n : SubSeq(w, 1, n)[i] = w[i]
           /\ SubSeq(w, n + 1, Len(w)) \in Seq(Unit)
           /\ Len(SubSeq(w, n + 1, Len(w))) = Len(w) - n
           /\ \A i \in 1 .. Len(w) - n : SubSeq(w, n + 1, Len(w))[i] = w[n + i]
<1>0. Len(w) \in Nat
  OBVIOUS
<1>1. SubSeq(w, 1, n) \in Seq(Unit) /\ Len(SubSeq(w, 1, n)) = n
  BY <1>0
<1>2. \A i \in 1 .. n : SubSeq(w, 1, n)[i] = w[i]
  BY <1>0
<1>3. /\ SubSeq(w, n + 1, Len(w)) \in Seq(Unit)
      /\ Len(SubSeq(w, n + 1, Len(w))) = Len(w) - n
  BY <1>0
<1>4. ASSUME NEW i \in 1 .. Len(w) - n
      PROVE  SubSeq(w, n + 1, Len(w))[i] = w[n + i]
  BY <1>0
<1> QED BY <1>1, <1>2, <1>3, <1>4

\* The type of a unit.
LEMMA UnitOn ==
    ASSUME NEW w \in Seq(Unit), NEW i \in 1 .. Len(w)
    PROVE  /\ w[i] \in Unit /\ w[i].packet \in 1 .. MaxPackets /\ w[i].pos \in 1 .. FrameLen
           /\ w[i] = UnitOf(w[i].packet, w[i].pos)
<1>1. w[i] \in Unit
  OBVIOUS
<1> QED BY <1>1 DEF Unit, UnitOf

\* Whatever a read takes, whole frames follow what it leaves.
LEMMA WholeFramesLeft ==
    ASSUME NEW w \in Seq(Unit), WholeFrames(w), NEW n \in Nat, n <= Len(w)
    PROVE  WholeFrames(SubSeq(w, n + 1, Len(w)))
<1> DEFINE t == SubSeq(w, n + 1, Len(w))
<1>0. Len(w) \in Nat /\ Len(t) = Len(w) - n /\ \A i \in 1 .. Len(w) - n : t[i] = w[n + i]
  BY Pieces
<1> HIDE DEF t
<1>1. ASSUME NEW i \in 1 .. Len(t), NEW k \in 0 .. FrameLen - t[i].pos
      PROVE  i + k <= Len(t) /\ t[i + k] = UnitOf(t[i].packet, t[i].pos + k)
  <2>1. n + i \in 1 .. Len(w) /\ t[i] = w[n + i]
    BY <1>0
  <2>2. n + i + k <= Len(w) /\ w[n + i + k] = UnitOf(w[n + i].packet, w[n + i].pos + k)
    BY <2>1 DEF WholeFrames
  <2>3. k \in Nat
    OBVIOUS
  <2>4. i + k \in 1 .. Len(t) /\ n + (i + k) = n + i + k
    BY <1>0, <2>2, <2>3
  <2>5. t[i + k] = w[n + i + k]
    BY <1>0, <2>4
  <2> QED BY <2>1, <2>2, <2>4, <2>5
<1>2. ASSUME NEW i \in 1 .. Len(t) - 1, t[i].pos = FrameLen
      PROVE  t[i + 1].pos = 1
  <2>1. /\ n + i \in 1 .. Len(w) - 1 /\ t[i] = w[n + i] /\ t[i + 1] = w[n + (i + 1)]
        /\ n + (i + 1) = n + i + 1
    BY <1>0
  <2> QED BY <1>2, <2>1 DEF WholeFrames
<1> QED BY <1>1, <1>2 DEF WholeFrames, t

\* A send of a whole frame leaves whole frames.
LEMMA WholeFramesSent ==
    ASSUME NEW w \in Seq(Unit), WholeFrames(w), NEW p \in 1 .. MaxPackets
    PROVE  WholeFrames(w \o Frame(p))
<1> DEFINE t == w \o Frame(p)
<1>0. /\ Len(w) \in Nat /\ Len(t) = Len(w) + FrameLen
      /\ \A i \in 1 .. Len(w) : t[i] = w[i]
      /\ \A i \in 1 .. FrameLen : t[Len(w) + i] = UnitOf(p, i)
  <2> DEFINE f == Frame(p)
  <2>1. f \in Seq(Unit) /\ Len(f) = FrameLen /\ \A i \in 1 .. FrameLen : f[i] = UnitOf(p, i)
    BY FrameIs
  <2> HIDE DEF f
  <2>2. Len(w) \in Nat /\ Len(w \o f) = Len(w) + FrameLen
    BY <2>1, Lengths
  <2>3. \A i \in 1 .. Len(w) : (w \o f)[i] = w[i]
    BY <2>1, <2>2, Lengths
  <2>4. \A i \in 1 .. FrameLen : (w \o f)[Len(w) + i] = f[i]
    BY <2>1, <2>2, Lengths
  <2> QED BY <2>1, <2>2, <2>3, <2>4 DEF f
<1> HIDE DEF t
<1>1. ASSUME NEW i \in 1 .. Len(t), NEW k \in 0 .. FrameLen - t[i].pos
      PROVE  i + k <= Len(t) /\ t[i + k] = UnitOf(t[i].packet, t[i].pos + k)
  <2>1. CASE i <= Len(w)
    <3>1. i \in 1 .. Len(w) /\ t[i] = w[i]
      BY <1>0, <2>1
    <3>2. i + k <= Len(w) /\ w[i + k] = UnitOf(w[i].packet, w[i].pos + k)
      BY <3>1 DEF WholeFrames
    <3>3. i + k \in 1 .. Len(w)
      BY <1>0, <3>2
    <3> QED BY <1>0, <3>1, <3>2, <3>3, Lengths
  <2>2. CASE i > Len(w)
    <3>1. PICK j \in 1 .. FrameLen : i = Len(w) + j
      <4>1. i - Len(w) \in 1 .. FrameLen /\ i = Len(w) + (i - Len(w))
        BY <1>0, <2>2, Lengths
      <4> QED BY <4>1
    <3>2. t[i] = UnitOf(p, j) /\ t[i].pos = j /\ t[i].packet = p
      BY <1>0, <3>1 DEF UnitOf
    <3>3. j + k \in 1 .. FrameLen /\ i + k = Len(w) + (j + k)
      BY <1>0, <3>1, <3>2, Lengths
    <3> QED BY <1>0, <3>2, <3>3, Lengths
  <2> QED BY <1>0, <2>1, <2>2
<1>2. ASSUME NEW i \in 1 .. Len(t) - 1, t[i].pos = FrameLen
      PROVE  t[i + 1].pos = 1
  <2>1. CASE i < Len(w)
    <3>1. i \in 1 .. Len(w) - 1 /\ i \in 1 .. Len(w) /\ i + 1 \in 1 .. Len(w)
      BY <1>0, <2>1
    <3> QED BY <1>0, <1>2, <3>1 DEF WholeFrames
  <2>2. CASE i = Len(w)
    <3>1. 1 \in 1 .. FrameLen
      BY Lengths
    <3>2. t[i + 1] = UnitOf(p, 1)
      BY <1>0, <2>2, <3>1
    <3> QED BY <3>2 DEF UnitOf
  <2>3. CASE i > Len(w)
    <3>1. PICK j \in 1 .. FrameLen : i = Len(w) + j /\ j < FrameLen
      <4>1. i - Len(w) \in 1 .. FrameLen /\ i = Len(w) + (i - Len(w)) /\ i - Len(w) < FrameLen
        BY <1>0, <2>3, Lengths
      <4> QED BY <4>1
    <3>2. t[i] = UnitOf(p, j) /\ t[i].pos = j
      BY <1>0, <3>1 DEF UnitOf
    <3> QED BY <1>2, <3>1, <3>2, Lengths
  <2> QED BY <1>0, <2>1, <2>2, <2>3
<1> QED BY <1>1, <1>2 DEF WholeFrames, t

-----------------------------------------------------------------------------
(* Types.                                                                  *)

\* Two sequences of units one behind the other.
LEMMA Joined ==
    ASSUME NEW s \in Seq(Unit), NEW t \in Seq(Unit)
    PROVE  /\ s \o t \in Seq(Unit) /\ Len(s \o t) = Len(s) + Len(t)
           /\ \A i \in 1 .. Len(s) : (s \o t)[i] = s[i]
           /\ \A i \in 1 .. Len(t) : (s \o t)[Len(s) + i] = t[i]
<1>1. s \o t \in Seq(Unit) /\ Len(s \o t) = Len(s) + Len(t)
  OBVIOUS
<1>2. \A i \in 1 .. Len(s) : (s \o t)[i] = s[i]
  OBVIOUS
<1>3. \A i \in 1 .. Len(t) : (s \o t)[Len(s) + i] = t[i]
  OBVIOUS
<1> QED BY <1>1, <1>2, <1>3

\* SocketRecvWithTimeout shortens what is on the wire of MbRun's connection.
LEMMA ReceiveTypes ==
    ASSUME TypeOK, NEW n \in Nat, conn \in Conn, Receive(n)
    PROVE  /\ wire' \in [Conn -> Seq(Unit)] /\ \A c \in Conn : Len(wire'[c]) <= Capacity
           /\ n <= Len(wire[conn]) /\ wire[conn] \in Seq(Unit)
           /\ wire'[conn] = SubSeq(wire[conn], n + 1, Len(wire[conn]))
           /\ \A c \in Conn : c # conn => wire'[c] = wire[c]
<1>1. /\ wire \in [Conn -> Seq(Unit)] /\ \A c \in Conn : Len(wire[c]) <= Capacity
      /\ wire[conn] \in Seq(Unit)
  BY DEF TypeOK
<1>2. n <= Len(wire[conn]) /\ wire' = [wire EXCEPT ![conn] = SubSeq(@, n + 1, Len(@))]
  BY DEF Receive
<1> DEFINE t == SubSeq(wire[conn], n + 1, Len(wire[conn]))
<1>3. t \in Seq(Unit) /\ Len(t) = Len(wire[conn]) - n
  BY <1>1, <1>2, Pieces
<1>4. wire'[conn] = t /\ \A c \in Conn : c # conn => wire'[c] = wire[c]
  BY <1>1, <1>2
<1> HIDE DEF t
<1>5. wire' = [wire EXCEPT ![conn] = t]
  BY <1>2 DEF t
<1>6. Len(wire[conn]) \in Nat /\ Len(wire[conn]) <= Capacity
  BY <1>1
<1>7. Len(t) <= Capacity
  BY <1>3, <1>6, Lengths
<1>8. wire' \in [Conn -> Seq(Unit)] /\ \A c \in Conn : Len(wire'[c]) <= Capacity
  BY <1>1, <1>3, <1>4, <1>5, <1>7
<1> QED BY <1>1, <1>2, <1>4, <1>8 DEF t

\* The server's send puts the first n units of a frame behind what is there.
LEMMA SendTypes ==
    ASSUME TypeOK, NEW n \in 1 .. FrameLen, served \in Conn, packets < MaxPackets, n <= Room,
           Send(n)
    PROVE  /\ wire' \in [Conn -> Seq(Unit)] /\ \A c \in Conn : Len(wire'[c]) <= Capacity
           /\ packets' = packets + 1 /\ packets' \in 1 .. MaxPackets
           /\ wire'[served] = wire[served] \o SubSeq(Frame(packets'), 1, n)
           /\ \A c \in Conn : c # served => wire'[c] = wire[c]
<1>1. /\ wire \in [Conn -> Seq(Unit)] /\ \A c \in Conn : Len(wire[c]) <= Capacity
      /\ wire[served] \in Seq(Unit)
  BY DEF TypeOK
<1>2. packets' = packets + 1 /\ packets' \in 1 .. MaxPackets
  BY Lengths DEF TypeOK, Send
<1> DEFINE t == SubSeq(Frame(packets'), 1, n)
<1>3. t \in Seq(Unit) /\ Len(t) = n
  BY <1>2, FrameIs, Pieces, Lengths
<1>4. wire' = [wire EXCEPT ![served] = wire[served] \o t]
  BY <1>2 DEF Send
<1> HIDE DEF t
<1>5. Len(wire[served]) \in Nat /\ n <= Capacity - Len(wire[served])
  BY <1>1 DEF Room
<1>6. wire[served] \o t \in Seq(Unit) /\ Len(wire[served] \o t) = Len(wire[served]) + n
  BY <1>1, <1>3, Joined
<1>7. Len(wire[served] \o t) <= Capacity
  BY <1>5, <1>6, Lengths
<1>8. wire'[served] = wire[served] \o t /\ \A c \in Conn : c # served => wire'[c] = wire[c]
  BY <1>1, <1>4
<1>9. wire' \in [Conn -> Seq(Unit)] /\ \A c \in Conn : Len(wire'[c]) <= Capacity
  BY <1>1, <1>4, <1>6, <1>7, <1>8
<1> QED BY <1>2, <1>8, <1>9 DEF t

\* Every initial state satisfies the invariant.
LEMMA InitIInv == Init => IInv
<1> SUFFICES ASSUME Init PROVE IInv
  OBVIOUS
<1>1. Cardinality({}) = 0
  BY FS_EmptySet
<1>2. << >> \in Seq(Unit) /\ << >> \in Seq(0 .. MaxPackets) /\ Len(<< >>) = 0
  OBVIOUS
<1>3. TypeOK
  <2>1. wire \in [Conn -> Seq(Unit)] /\ \A c \in Conn : Len(wire[c]) <= Capacity
    BY <1>2, Lengths DEF Init
  <2>2. sock \in [Conn -> SockState]
    BY DEF Init, SockState
  <2>3. header \in Seq(Unit) /\ Len(header) <= HeaderLen /\ accepted \in Seq(0 .. MaxPackets)
    BY <1>2, Lengths DEF Init
  <2>4. /\ conn \in 0 .. MaxConns /\ served \in 0 .. conn /\ packets \in 0 .. MaxPackets
        /\ Cardinality(torn) <= MaxTorn
    BY <1>1, Lengths DEF Init
  <2> QED BY <2>1, <2>2, <2>3, <2>4 DEF Init, TypeOK, MbPc, SrvPc
<1>4. WholeFrames(<< >>)
  BY DEF WholeFrames
<1> QED BY <1>3, <1>4 DEF Init, IInv, Places, InFrames

\* Which packet the frame put together is: one of those it equals, or none.
LEMMA PacketOf ==
    ASSUME NEW whole \in SUBSET (1 .. MaxPackets)
    PROVE  /\ (IF whole = {} THEN 0 ELSE CHOOSE p \in whole : TRUE) \in 0 .. MaxPackets
           /\ whole # {} => (IF whole = {} THEN 0 ELSE CHOOSE p \in whole : TRUE) # 0
<1>1. CASE whole = {}
  BY <1>1, Lengths
<1>2. CASE whole # {}
  <2>1. (CHOOSE p \in whole : TRUE) \in whole
    BY <1>2, Zenon
  <2>2. (IF whole = {} THEN 0 ELSE CHOOSE p \in whole : TRUE) \in whole
    BY <1>2, <2>1
  <2> DEFINE q == IF whole = {} THEN 0 ELSE CHOOSE p \in whole : TRUE
  <2>3. q \in whole
    BY <2>2
  <2> HIDE DEF q
  <2>4. q \in 0 .. MaxPackets /\ q # 0
    BY <2>3, Lengths
  <2> QED BY <2>4 DEF q
<1> QED BY <1>1, <1>2

\* One packet more.
LEMMA OneMore ==
    ASSUME NEW s \in Seq(0 .. MaxPackets), NEW e \in 0 .. MaxPackets
    PROVE  /\ Append(s, e) \in Seq(0 .. MaxPackets)
           /\ Append(s, e)[Len(Append(s, e))] = e
OBVIOUS

\* The flag of PassesFor is a truth value.
LEMMA PassesForIs ==
    ASSUME NEW unit, NEW pos, NEW ok \in PassesFor(unit, pos)
    PROVE  ok \in BOOLEAN
BY DEF PassesFor

\* The steps of MbRun keep the types and the places.
LEMMA MbTypes == ASSUME TypeOK, Places, MbStep PROVE TypeOK' /\ Places'
<1> USE DEF TypeOK, Places, MbPc, mbVars, srvVars
<1>1. CASE Connect
  <2>1. conn + 1 \in Conn /\ conn' = conn + 1
    BY <1>1, Lengths DEF Connect, Conn
  <2>2. sock' \in [Conn -> SockState]
    BY <1>1, <2>1 DEF Connect, SockState
  <2>3. served \in 0 .. conn'
    BY <2>1 DEF Conn
  <2> QED BY <1>1, <2>1, <2>2, <2>3 DEF Connect, Conn
<1>2. CASE LeaveConnect \/ ReceiveLoop \/ HeaderTimeout \/ FlushPipe \/ PipeReturns \/ PipeBlocks
  BY <1>2 DEF LeaveConnect, ReceiveLoop, HeaderTimeout, FlushPipe, PipeReturns, PipeBlocks
<1>3. CASE HeaderFailure
  <2>1. PICK n \in 0 .. HeaderLen - 1 : Receive(n)
    BY <1>3 DEF HeaderFailure
  <2>2. n \in Nat /\ conn \in Conn
    BY <1>3, <2>1, Lengths DEF HeaderFailure
  <2>3. wire' \in [Conn -> Seq(Unit)] /\ \A c \in Conn : Len(wire'[c]) <= Capacity
    BY <2>1, <2>2, ReceiveTypes
  <2> QED BY <1>3, <2>3 DEF HeaderFailure
<1>4. CASE ReceiveHeader
  <2>1. HeaderLen \in Nat /\ conn \in Conn /\ Receive(HeaderLen)
    BY <1>4, Lengths DEF ReceiveHeader
  <2>2. /\ wire' \in [Conn -> Seq(Unit)] /\ \A c \in Conn : Len(wire'[c]) <= Capacity
        /\ HeaderLen <= Len(wire[conn]) /\ wire[conn] \in Seq(Unit)
    BY <2>1, ReceiveTypes
  <2>3. header' \in Seq(Unit) /\ Len(header') = HeaderLen
    BY <1>4, <2>1, <2>2, Pieces DEF ReceiveHeader
  <2>4. mb' \in {"data", "reconnect"}
    BY <1>4 DEF ReceiveHeader
  <2> QED BY <1>4, <2>1, <2>2, <2>3, <2>4 DEF ReceiveHeader
<1>5. CASE DataFailure
  <2>1. PICK n \in 0 .. BodyLen - 1 : Receive(n)
    BY <1>5 DEF DataFailure
  <2>2. n \in Nat /\ conn \in Conn
    BY <1>5, <2>1, Lengths DEF DataFailure
  <2>3. wire' \in [Conn -> Seq(Unit)] /\ \A c \in Conn : Len(wire'[c]) <= Capacity
    BY <2>1, <2>2, ReceiveTypes
  <2> QED BY <1>5, <2>3 DEF DataFailure
<1>6. CASE ReceiveData
  <2>1. BodyLen \in Nat /\ conn \in Conn /\ Receive(BodyLen)
    BY <1>6, Lengths DEF ReceiveData
  <2>2. wire' \in [Conn -> Seq(Unit)] /\ \A c \in Conn : Len(wire'[c]) <= Capacity
    BY <2>1, ReceiveTypes
  <2> DEFINE units == header \o SubSeq(wire[conn], 1, BodyLen)
             whole == {p \in 1 .. MaxPackets : Frame(p) = units}
             packet == IF whole = {} THEN 0 ELSE CHOOSE p \in whole : TRUE
  <2>3. packet \in 0 .. MaxPackets
    <3>1. whole \in SUBSET (1 .. MaxPackets)
      OBVIOUS
    <3> HIDE DEF whole
    <3> QED BY <3>1, PacketOf
  <2>4. mb' \in {"loop", "reconnect"} /\ accepted' \in {accepted, Append(accepted, packet)}
    BY <1>6 DEF ReceiveData
  <2> HIDE DEF packet
  <2>5. accepted' \in Seq(0 .. MaxPackets)
    <3>1. accepted \in Seq(0 .. MaxPackets)
      OBVIOUS
    <3>2. Append(accepted, packet) \in Seq(0 .. MaxPackets)
      BY <2>3, <3>1, OneMore
    <3> QED BY <2>4, <3>1, <3>2
  <2> QED BY <1>6, <2>1, <2>2, <2>4, <2>5 DEF ReceiveData
<1>7. CASE Reconnect
  <2>1. conn \in Conn /\ << >> \in Seq(Unit) /\ Len(<< >>) = 0
    BY <1>7 DEF Reconnect
  <2>2. PICK s \in {"fin", "reset", "epipe"} : sock' = [sock EXCEPT ![conn] = s]
    BY <1>7 DEF Reconnect
  <2>3. sock' \in [Conn -> SockState]
    BY <2>1, <2>2 DEF SockState
  <2>4. wire' = [wire EXCEPT ![conn] = << >>]
    BY <1>7 DEF Reconnect
  <2>5. wire' \in [Conn -> Seq(Unit)]
    BY <2>1, <2>4
  <2>6. \A c \in Conn : Len(wire'[c]) <= Capacity
    BY <2>1, <2>4, Lengths
  <2> QED BY <1>7, <2>3, <2>5, <2>6 DEF Reconnect
<1> QED
  BY <1>1, <1>2, <1>3, <1>4, <1>5, <1>6, <1>7 DEF MbStep

\* The steps of the server keep the types and the places.
LEMMA ServerTypes ==
    ASSUME TypeOK, Places, ServerStep \/ SendPart
    PROVE  TypeOK' /\ Places'
<1> USE DEF TypeOK, Places, SrvPc, mbVars, srvVars
<1>0. served \in 0 .. conn /\ conn \in 0 .. MaxConns /\ sock \in [Conn -> SockState]
  OBVIOUS
<1>1. CASE Accept
  <2>1. served' \in 0 .. conn /\ served' \in Conn
    BY <1>1, Lengths DEF Accept, Conn
  <2> QED BY <1>1, <2>1 DEF Accept
<1>2. CASE LeaveAccept \/ CheckShutdown
  <2>1. (served + 1 .. conn) \subseteq Conn
    BY Lengths DEF Conn
  <2>2. srv = "check" => (served .. conn) \subseteq Conn
    BY Lengths DEF Conn
  <2>3. closed' \subseteq Conn
    BY <1>2, <2>1, <2>2 DEF LeaveAccept, CheckShutdown
  <2> QED BY <1>2, <2>3 DEF LeaveAccept, CheckShutdown
<1>3. CASE SendFrame
  <2>1. FrameLen \in 1 .. FrameLen /\ served \in Conn /\ packets < MaxPackets /\ FrameLen <= Room
        /\ Send(FrameLen)
    <3>1. FrameLen \in 1 .. FrameLen
      BY Lengths
    <3>2. Room \in Int
      BY Lengths DEF Room, SendFrame, CanSend
    <3> QED BY <1>3, <3>1, <3>2, Lengths DEF SendFrame, CanSend
  <2>2. /\ wire' \in [Conn -> Seq(Unit)] /\ \A c \in Conn : Len(wire'[c]) <= Capacity
        /\ packets' \in 1 .. MaxPackets
    BY <2>1, SendTypes
  <2> QED BY <1>3, <2>1, <2>2 DEF SendFrame, Send
<1>4. CASE SendPart
  <2>1. PICK n \in 1 .. Room : Send(n)
    BY <1>4 DEF SendPart
  <2>2. Room \in Int /\ Room < FrameLen /\ served \in Conn /\ packets < MaxPackets
    BY <1>4, Lengths DEF Room, SendPart, CanSend
  <2>3. n \in 1 .. FrameLen /\ n <= Room
    BY <2>1, <2>2, Lengths
  <2>4. /\ wire' \in [Conn -> Seq(Unit)] /\ \A c \in Conn : Len(wire'[c]) <= Capacity
        /\ packets' \in 1 .. MaxPackets
    BY <2>1, <2>2, <2>3, SendTypes
  <2>5. torn' \subseteq Conn /\ Cardinality(torn') <= MaxTorn
    BY <1>4, <2>2 DEF SendPart
  <2> QED BY <1>4, <2>1, <2>2, <2>4, <2>5 DEF SendPart, Send
<1>5. CASE SendNothing
  BY <1>5 DEF SendNothing
<1>6. CASE SendToClosed
  <2>1. sock' \in [Conn -> SockState]
    BY <1>6 DEF SendToClosed, SockState
  <2> QED BY <1>6, <2>1 DEF SendToClosed
<1>7. CASE SendError \/ SendKills
  BY <1>7 DEF SendError, SendKills
<1> QED
  BY <1>1, <1>2, <1>3, <1>4, <1>5, <1>6, <1>7 DEF ServerStep

-----------------------------------------------------------------------------
(* Whole frames.                                                           *)

\* A step that leaves the wire alone and brings MbRun nowhere it reads from
\* keeps the frames; torn only grows.
LEMMA QuietStep ==
    ASSUME InFrames, torn \subseteq torn',
           UNCHANGED <<wire, conn, header>>,
           \/ mb' = mb \/ mb' \notin {"loop", "rotate", "header", "data"}
           \/ mb \in {"loop", "rotate", "header"} /\ mb' \in {"loop", "rotate", "header"}
    PROVE  InFrames'
BY DEF InFrames

\* The steps of MbRun keep the frames.
LEMMA MbFrames == ASSUME TypeOK, Places, InFrames, MbStep PROVE InFrames'
<1> USE DEF mbVars, srvVars
<1>0. /\ \A c \in Conn : c > conn => wire[c] = << >>
      /\ \A c \in Conn \ torn : WholeFrames(wire[c])
      /\ conn \in 0 .. MaxConns
  BY DEF InFrames, TypeOK
<1>1. CASE Connect
  <2>1. conn' = conn + 1 /\ mb' = "loop" /\ wire' = wire /\ torn' = torn
    BY <1>1 DEF Connect
  <2>2. wire[conn'] = << >>
    <3>1. conn + 1 \in Conn /\ conn + 1 > conn
      BY <1>0, <1>1, Lengths DEF Connect, Conn
    <3> QED BY <1>0, <2>1, <3>1
  <2>3. \A c \in Conn : c > conn' => wire[c] = << >>
    BY <1>0, <2>1 DEF Conn
  <2> QED BY <1>0, <2>1, <2>2, <2>3 DEF InFrames
<1>2. CASE LeaveConnect \/ ReceiveLoop \/ HeaderTimeout \/ FlushPipe \/ PipeReturns \/ PipeBlocks
  BY <1>2, QuietStep
     DEF LeaveConnect, ReceiveLoop, HeaderTimeout, FlushPipe, PipeReturns, PipeBlocks
<1>3. ASSUME NEW n \in Nat, Receive(n), conn \in Conn, UNCHANGED <<conn, torn>>
      PROVE  /\ \A c \in Conn : c > conn' => wire'[c] = << >>
             /\ \A c \in Conn \ torn' : WholeFrames(wire'[c])
  <2>1. /\ n <= Len(wire[conn]) /\ wire[conn] \in Seq(Unit)
        /\ wire'[conn] = SubSeq(wire[conn], n + 1, Len(wire[conn]))
        /\ \A c \in Conn : c # conn => wire'[c] = wire[c]
    BY <1>3, ReceiveTypes
  <2>2. conn \notin torn => WholeFrames(wire'[conn])
    BY <1>0, <1>3, <2>1, WholeFramesLeft
  <2>3. ASSUME NEW c \in Conn, c > conn'
        PROVE  wire'[c] = << >>
    <3>1. c # conn /\ c > conn
      BY <1>0, <1>3, <2>3 DEF Conn
    <3> QED BY <1>0, <2>1, <3>1
  <2> QED BY <1>0, <1>3, <2>1, <2>2, <2>3
<1>4. CASE HeaderFailure
  <2>1. PICK n \in 0 .. HeaderLen - 1 : Receive(n)
    BY <1>4 DEF HeaderFailure
  <2>2. n \in Nat /\ conn \in Conn /\ UNCHANGED <<conn, torn>> /\ mb' = "reconnect"
    BY <1>4, <2>1, Lengths DEF HeaderFailure, Places
  <2> QED BY <1>3, <2>1, <2>2 DEF InFrames
<1>5. CASE DataFailure
  <2>1. PICK n \in 0 .. BodyLen - 1 : Receive(n)
    BY <1>5 DEF DataFailure
  <2>2. n \in Nat /\ conn \in Conn /\ UNCHANGED <<conn, torn>> /\ mb' = "reconnect"
    BY <1>5, <2>1, Lengths DEF DataFailure, Places
  <2> QED BY <1>3, <2>1, <2>2 DEF InFrames
<1>6. CASE ReceiveHeader
  <2>1. /\ HeaderLen \in Nat /\ conn \in Conn /\ Receive(HeaderLen) /\ UNCHANGED <<conn, torn>>
        /\ mb = "header" /\ mb' \in {"data", "reconnect"}
        /\ header' = SubSeq(wire[conn], 1, HeaderLen)
    BY <1>6, Lengths DEF ReceiveHeader, Places
  <2>2. /\ HeaderLen <= Len(wire[conn]) /\ wire[conn] \in Seq(Unit)
        /\ wire'[conn] = SubSeq(wire[conn], HeaderLen + 1, Len(wire[conn]))
    BY <2>1, ReceiveTypes
  <2> DEFINE w == wire[conn]
  <2>3. ASSUME conn \notin torn
        PROVE  /\ wire'[conn] # << >>
               /\ wire'[conn][1] = UnitOf(header'[1].packet, HeaderLen + 1)
               /\ \A i \in 1 .. HeaderLen : header'[i] = UnitOf(header'[1].packet, i)
    <3>1. WholeFrames(w) /\ w # << >> /\ w[1].pos = 1 /\ Len(w) \in Nat /\ 1 \in 1 .. Len(w)
      BY <1>0, <2>1, <2>2, <2>3, Lengths DEF InFrames, Conn
    <3>2. \A k \in 0 .. FrameLen - 1 : 1 + k <= Len(w) /\ w[1 + k] = UnitOf(w[1].packet, 1 + k)
      BY <3>1 DEF WholeFrames
    <3>3. FrameLen <= Len(w) /\ \A i \in 1 .. FrameLen : w[i] = UnitOf(w[1].packet, i)
      <4>1. FrameLen - 1 \in 0 .. FrameLen - 1 /\ 1 + (FrameLen - 1) = FrameLen
        BY Lengths
      <4>2. ASSUME NEW i \in 1 .. FrameLen
            PROVE  i - 1 \in 0 .. FrameLen - 1 /\ 1 + (i - 1) = i
        BY Lengths
      <4> QED BY <3>2, <4>1, <4>2
    <3>4. /\ \A i \in 1 .. HeaderLen : header'[i] = w[i]
          /\ Len(wire'[conn]) = Len(w) - HeaderLen
          /\ \A i \in 1 .. Len(w) - HeaderLen : wire'[conn][i] = w[HeaderLen + i]
          /\ wire'[conn] \in Seq(Unit)
      <4>1. \A i \in 1 .. HeaderLen : header'[i] = w[i]
        BY <2>1, <2>2, Pieces
      <4>2. /\ wire'[conn] \in Seq(Unit) /\ Len(wire'[conn]) = Len(w) - HeaderLen
            /\ \A i \in 1 .. Len(w) - HeaderLen : wire'[conn][i] = w[HeaderLen + i]
        BY <2>1, <2>2, Pieces
      <4> QED BY <4>1, <4>2
    <3>5. 1 \in 1 .. HeaderLen /\ 1 \in 1 .. Len(w) - HeaderLen /\ HeaderLen + 1 \in 1 .. FrameLen
          /\ HeaderLen <= FrameLen
      BY <3>1, <3>3, Lengths
    <3> HIDE DEF w
    <3>6. header'[1].packet = w[1].packet
      BY <3>4, <3>5
    <3>7. Len(wire'[conn]) # 0
      BY <3>1, <3>4, <3>5
    <3> QED BY <3>3, <3>4, <3>5, <3>6, <3>7, Lengths
  <2> QED BY <1>3, <2>1, <2>3 DEF InFrames
<1>7. CASE ReceiveData
  <2>1. /\ BodyLen \in Nat /\ conn \in Conn /\ Receive(BodyLen) /\ UNCHANGED <<conn, torn, header>>
        /\ mb = "data" /\ mb' \in {"loop", "reconnect"}
    BY <1>7, Lengths DEF ReceiveData, Places
  <2>2. /\ BodyLen <= Len(wire[conn]) /\ wire[conn] \in Seq(Unit)
        /\ wire'[conn] = SubSeq(wire[conn], BodyLen + 1, Len(wire[conn]))
    BY <2>1, ReceiveTypes
  <2> DEFINE w == wire[conn]
  <2>3. ASSUME conn \notin torn
        PROVE  wire'[conn] = << >> \/ wire'[conn][1].pos = 1
    <3>1. /\ WholeFrames(w) /\ w[1] = UnitOf(header[1].packet, HeaderLen + 1) /\ Len(w) \in Nat
          /\ 1 \in 1 .. Len(w)
      BY <1>0, <2>1, <2>2, <2>3, Lengths DEF InFrames, Conn
    <3>2. w[1].pos = HeaderLen + 1
      BY <3>1 DEF UnitOf
    <3>3. BodyLen - 1 \in 0 .. FrameLen - w[1].pos /\ 1 + (BodyLen - 1) = BodyLen
          /\ w[1].pos + (BodyLen - 1) = FrameLen
      BY <3>2, Lengths
    <3>4. w[BodyLen] = UnitOf(w[1].packet, FrameLen)
      BY <3>1, <3>3 DEF WholeFrames
    <3>5. w[BodyLen].pos = FrameLen
      BY <3>4 DEF UnitOf
    <3>6. /\ wire'[conn] \in Seq(Unit) /\ Len(wire'[conn]) = Len(w) - BodyLen
          /\ \A i \in 1 .. Len(w) - BodyLen : wire'[conn][i] = w[BodyLen + i]
      <4> DEFINE rest == SubSeq(w, BodyLen + 1, Len(w))
      <4>1. wire'[conn] = rest /\ w \in Seq(Unit) /\ BodyLen \in Nat /\ BodyLen <= Len(w)
        BY <2>1, <2>2
      <4> HIDE DEF w
      <4>2. /\ rest \in Seq(Unit) /\ Len(rest) = Len(w) - BodyLen
            /\ \A i \in 1 .. Len(w) - BodyLen : rest[i] = w[BodyLen + i]
        BY <4>1, Pieces
      <4> HIDE DEF rest
      <4> QED BY <4>1, <4>2
    <3>7. CASE Len(w) = BodyLen
      <4>1. Len(wire'[conn]) = 0
        BY <3>1, <3>6, <3>7
      <4> QED BY <3>6, <4>1
    <3>8. CASE Len(w) # BodyLen
      <4>1. BodyLen \in 1 .. Len(w) - 1 /\ 1 \in 1 .. Len(w) - BodyLen
        BY <2>2, <3>1, <3>8, Lengths
      <4>2. w[BodyLen + 1].pos = 1
        BY <3>1, <3>5, <4>1 DEF WholeFrames
      <4> QED BY <3>6, <4>1, <4>2
    <3> QED BY <3>7, <3>8
  <2> QED BY <1>3, <2>1, <2>3 DEF InFrames
<1>8. CASE Reconnect
  <2>1. conn \in Conn /\ wire' = [wire EXCEPT ![conn] = << >>] /\ UNCHANGED <<conn, torn>>
        /\ mb' = "connect"
    BY <1>8 DEF Reconnect, Places
  <2>2. \A c \in Conn : wire'[c] = wire[c] \/ wire'[c] = << >>
    BY <2>1 DEF TypeOK
  <2>3. WholeFrames(<< >>)
    BY DEF WholeFrames
  <2> QED BY <1>0, <2>1, <2>2, <2>3 DEF InFrames
<1> QED
  BY <1>1, <1>2, <1>4, <1>5, <1>6, <1>7, <1>8 DEF MbStep

\* The steps of the server keep the frames: a part of a frame goes only over a
\* connection that is torn from then on.
LEMMA ServerFrames ==
    ASSUME TypeOK, Places, InFrames, ServerStep \/ SendPart
    PROVE  InFrames'
<1> USE DEF mbVars, srvVars
<1>0. /\ \A c \in Conn : c > conn => wire[c] = << >>
      /\ \A c \in Conn \ torn : WholeFrames(wire[c])
      /\ conn \in 0 .. MaxConns /\ served \in 0 .. conn
  BY DEF InFrames, TypeOK
<1>1. CASE Accept \/ LeaveAccept \/ CheckShutdown \/ SendNothing \/ SendToClosed \/ SendError
           \/ SendKills
  BY <1>1, QuietStep
     DEF Accept, LeaveAccept, CheckShutdown, SendNothing, SendToClosed, SendError, SendKills
<1>2. ASSUME NEW n \in 1 .. FrameLen, n <= Room, CanSend, Send(n)
      PROVE  /\ wire'[served] = wire[served] \o SubSeq(Frame(packets'), 1, n)
             /\ wire[served] \in Seq(Unit) /\ packets' \in 1 .. MaxPackets
             /\ \A c \in Conn : c # served => wire'[c] = wire[c]
             /\ served \in Conn /\ UNCHANGED <<conn, mb, header>>
             /\ \A c \in Conn : c > conn => wire'[c] = << >>
  <2>1. served \in Conn /\ packets < MaxPackets /\ wire[served] \in Seq(Unit)
    BY <1>2, Lengths DEF CanSend, Places, TypeOK
  <2>2. /\ wire'[served] = wire[served] \o SubSeq(Frame(packets'), 1, n)
        /\ packets' \in 1 .. MaxPackets
        /\ \A c \in Conn : c # served => wire'[c] = wire[c]
    BY <1>2, <2>1, SendTypes
  <2>3. ASSUME NEW c \in Conn, c > conn
        PROVE  wire'[c] = << >>
    <3>1. c # served
      BY <1>0, <2>3 DEF Conn
    <3> QED BY <1>0, <2>2, <2>3, <3>1
  <2> QED BY <1>2, <2>1, <2>2, <2>3 DEF Send
<1>3. CASE SendFrame
  <2>1. FrameLen \in 1 .. FrameLen /\ FrameLen <= Room /\ CanSend /\ Send(FrameLen)
        /\ torn' = torn
    <3>1. FrameLen \in 1 .. FrameLen
      BY Lengths
    <3>2. served \in Conn
      BY <1>3 DEF SendFrame, CanSend, Places
    <3>3. Room \in Int
      BY <3>2, Lengths DEF Room, TypeOK
    <3> QED BY <1>3, <3>1, <3>3, Lengths DEF SendFrame
  <2>2. /\ wire'[served] = wire[served] \o SubSeq(Frame(packets'), 1, FrameLen)
        /\ wire[served] \in Seq(Unit) /\ packets' \in 1 .. MaxPackets
        /\ \A c \in Conn : c # served => wire'[c] = wire[c]
        /\ served \in Conn /\ UNCHANGED <<conn, mb, header>>
        /\ \A c \in Conn : c > conn => wire'[c] = << >>
    BY <1>2, <2>1
  <2> DEFINE w == wire[served]
             f == Frame(packets')
  <2>3. wire'[served] = w \o f
    <3>1. f \in Seq(Unit) /\ Len(f) = FrameLen
      BY <2>2, FrameIs
    <3> HIDE DEF f
    <3>2. SubSeq(f, 1, FrameLen) = f
      BY <3>1
    <3> QED BY <2>2, <3>2 DEF f
  <2>4. served \notin torn => WholeFrames(wire'[served])
    BY <1>0, <2>2, <2>3, WholeFramesSent
  <2>5. \A c \in Conn \ torn : WholeFrames(wire'[c])
    BY <1>0, <2>2, <2>4
  <2>6. ASSUME served = conn, conn \notin torn
        PROVE  /\ wire'[conn] # << >>
               /\ wire[conn] = << >> => wire'[conn][1].pos = 1
               /\ wire[conn] # << >> => wire'[conn][1] = wire[conn][1]
    <3>1. /\ f \in Seq(Unit) /\ Len(f) = FrameLen /\ f[1] = UnitOf(packets', 1) /\ w \in Seq(Unit)
          /\ FrameLen \in Nat \ {0}
      BY <2>2, FrameIs, Lengths
    <3> HIDE DEF w, f
    <3>2. /\ w \o f # << >>
          /\ w = << >> => w \o f = f
          /\ w # << >> => (w \o f)[1] = w[1]
      BY <3>1
    <3>3. f[1].pos = 1
      BY <3>1 DEF UnitOf
    <3>4. w = wire[conn] /\ wire'[conn] = w \o f
      BY <2>3, <2>6 DEF w
    <3> QED BY <3>1, <3>2, <3>3, <3>4
  <2>7. served # conn => wire'[conn] = wire[conn] \/ conn = 0
    BY <1>0, <2>2 DEF Conn
  <2>8. ASSUME conn > 0, conn \notin torn
        PROVE  /\ mb \in {"loop", "rotate", "header"} => wire'[conn] = << >> \/ wire'[conn][1].pos = 1
               /\ mb = "data" =>
                     /\ wire'[conn] # << >>
                     /\ wire'[conn][1] = UnitOf(header[1].packet, HeaderLen + 1)
                     /\ \A i \in 1 .. HeaderLen : header[i] = UnitOf(header[1].packet, i)
    <3>1. CASE served = conn
      BY <2>6, <2>8, <3>1 DEF InFrames
    <3>2. CASE served # conn
      BY <1>0, <2>7, <2>8, <3>2 DEF InFrames
    <3> QED BY <3>1, <3>2
  <2> QED BY <2>1, <2>2, <2>5, <2>8 DEF InFrames
<1>4. CASE SendPart
  <2>1. PICK n \in 1 .. Room : Send(n)
    BY <1>4 DEF SendPart
  <2>2. Room \in Int /\ Room < FrameLen /\ CanSend /\ torn' = torn \cup {served}
    <3>1. served \in Conn
      BY <1>4 DEF SendPart, CanSend, Places
    <3> QED BY <1>4, <3>1, Lengths DEF Room, SendPart, TypeOK
  <2>3. n \in 1 .. FrameLen /\ n <= Room
    BY <2>1, <2>2, Lengths
  <2>4. /\ \A c \in Conn : c # served => wire'[c] = wire[c]
        /\ UNCHANGED <<conn, mb, header>>
        /\ \A c \in Conn : c > conn => wire'[c] = << >>
    BY <1>2, <2>1, <2>2, <2>3
  <2>5. \A c \in Conn \ torn' : WholeFrames(wire'[c]) /\ wire'[c] = wire[c]
    BY <1>0, <2>2, <2>4
  <2>6. conn > 0 => conn \in Conn
    BY <1>0 DEF Conn
  <2> QED BY <2>2, <2>4, <2>5, <2>6 DEF InFrames
<1> QED BY <1>1, <1>3, <1>4 DEF ServerStep

\* The invariant is kept by every step.
LEMMA StepIInv == IInv /\ [Next]_vars => IInv'
<1> SUFFICES ASSUME IInv, [Next]_vars PROVE IInv'
  OBVIOUS
<1>0. TypeOK /\ Places /\ InFrames
  BY DEF IInv
<1>1. CASE MbStep
  BY <1>0, <1>1, MbTypes, MbFrames DEF IInv
<1>2. CASE ServerStep \/ SendPart
  BY <1>0, <1>2, ServerTypes, ServerFrames DEF IInv
<1>3. CASE PgEnds \/ RequestShutdown
  BY <1>0, <1>3, QuietStep DEF IInv, PgEnds, RequestShutdown, TypeOK, Places, mbVars, srvVars
<1>4. CASE UNCHANGED vars
  BY <1>0, <1>4, QuietStep DEF IInv, TypeOK, Places, vars
<1> QED BY <1>1, <1>2, <1>3, <1>4 DEF Next, Ended

\* The invariant holds in every reachable state.
LEMMA Invariance == Spec => []IInv
BY InitIInv, StepIInv, PTL DEF Spec

\* The variables of MbRun, the server and the connections keep their types: no
\* connection holds more than its capacity, and no read goes past what is there.
THEOREM TypeCorrect == Spec => []TypeOK
<1>1. IInv => TypeOK
  BY DEF IInv
<1> QED BY <1>1, Invariance, PTL

\* On a connection over which only whole frames went, MbRun's reads stay in
\* step with the frames, whichever of them time out, fail or come up short and
\* however often it has made a new connection.
THEOREM ReadsStayInStep == Spec => []InStep
<1>1. IInv => InStep
  <2> SUFFICES ASSUME IInv, conn > 0, conn \notin torn, wire[conn] # << >>
               PROVE  /\ mb \in {"loop", "rotate", "header"} => Head(wire[conn]).pos = 1
                      /\ mb = "data" => Head(wire[conn]) = Frame(header[1].packet)[HeaderLen + 1]
    BY DEF InStep
  <2>1. Head(wire[conn]) = wire[conn][1]
    OBVIOUS
  <2>2. mb \in {"loop", "rotate", "header"} => wire[conn][1].pos = 1
    BY DEF IInv, InFrames
  <2>3. ASSUME mb = "data"
        PROVE  Head(wire[conn]) = Frame(header[1].packet)[HeaderLen + 1]
    <3>1. Frame(header[1].packet)[HeaderLen + 1] = UnitOf(header[1].packet, HeaderLen + 1)
      <4>1. HeaderLen + 1 \in 1 .. FrameLen
        BY Lengths
      <4> QED BY <4>1 DEF Frame, UnitOf
    <3>2. wire[conn][1] = UnitOf(header[1].packet, HeaderLen + 1)
      BY <2>3 DEF IInv, InFrames
    <3> QED BY <2>1, <3>1, <3>2
  <2> QED BY <2>1, <2>2, <2>3
<1> QED BY <1>1, Invariance, PTL

\* The header of one frame and the rest of it are that frame.
LEMMA PutTogether ==
    ASSUME NEW h \in Seq(Unit), Len(h) = HeaderLen, NEW w \in Seq(Unit), BodyLen <= Len(w),
           NEW p \in 1 .. MaxPackets,
           \A i \in 1 .. HeaderLen : h[i] = UnitOf(p, i),
           \A i \in 1 .. BodyLen : w[i] = UnitOf(p, HeaderLen + i)
    PROVE  h \o SubSeq(w, 1, BodyLen) = Frame(p)
<1> DEFINE b == SubSeq(w, 1, BodyLen)
           u == h \o b
<1>1. b \in Seq(Unit) /\ Len(b) = BodyLen /\ \A i \in 1 .. BodyLen : b[i] = w[i]
  BY Pieces, Lengths
<1> HIDE DEF b
<1>2. u \in Seq(Unit) /\ Len(u) = FrameLen
  BY <1>1, Lengths, Joined
<1>3. ASSUME NEW i \in 1 .. FrameLen
      PROVE  u[i] = UnitOf(p, i)
  <2>1. CASE i <= HeaderLen
    <3>1. i \in 1 .. HeaderLen /\ i \in 1 .. Len(h)
      BY <2>1, Lengths
    <3>2. u[i] = h[i]
      BY <1>1, <3>1
    <3> QED BY <3>1, <3>2
  <2>2. CASE i > HeaderLen
    <3>1. PICK j \in 1 .. BodyLen : i = HeaderLen + j
      <4>1. i - HeaderLen \in 1 .. BodyLen /\ i = HeaderLen + (i - HeaderLen)
        BY <2>2, Lengths
      <4> QED BY <4>1
    <3>2. u[i] = b[j]
      <4>1. j \in 1 .. Len(b) /\ i = Len(h) + j
        BY <1>1, <3>1
      <4> QED BY <1>1, <4>1, Joined
    <3> QED BY <1>1, <3>1, <3>2
  <2>3. i \in Nat /\ HeaderLen \in Nat
    BY Lengths
  <2> HIDE DEF u
  <2> QED BY <2>1, <2>2, <2>3
<1> HIDE DEF u
<1>4. Frame(p) \in Seq(Unit) /\ Len(Frame(p)) = FrameLen
      /\ \A i \in 1 .. FrameLen : Frame(p)[i] = UnitOf(p, i)
  BY FrameIs
<1>5. u = Frame(p)
  BY <1>2, <1>3, <1>4, Lengths
<1> QED BY <1>5 DEF u, b

\* No step puts a packet together from two frames on a connection over which
\* only whole frames went.
LEMMA SplicedStep ==
    ASSUME IInv, [Next]_vars, accepted' # accepted, conn \notin torn
    PROVE  Last(accepted') # 0
<1>0. TypeOK /\ Places /\ InFrames
  BY DEF IInv
<1>1. ReceiveData
  BY DEF Next, Ended, MbStep, ServerStep, RequestShutdown, vars, mbVars, Connect, LeaveConnect,
         ReceiveLoop, HeaderTimeout, HeaderFailure, ReceiveHeader, DataFailure, FlushPipe, PipeReturns,
         PipeBlocks, Reconnect, PgEnds, Accept, LeaveAccept, CheckShutdown, SendFrame, SendPart, Send, SendNothing, SendToClosed,
         SendError, SendKills
<1> DEFINE w == wire[conn]
           units == header \o SubSeq(w, 1, BodyLen)
           whole == {q \in 1 .. MaxPackets : Frame(q) = units}
           packet == IF whole = {} THEN 0 ELSE CHOOSE q \in whole : TRUE
           p == header[1].packet
<1>2. /\ mb = "data" /\ conn \in Conn /\ BodyLen <= Len(w) /\ w \in Seq(Unit)
      /\ accepted' = Append(accepted, packet) /\ accepted \in Seq(0 .. MaxPackets)
      /\ header \in Seq(Unit) /\ Len(header) = HeaderLen
  BY <1>0, <1>1 DEF ReceiveData, Receive, Places, TypeOK
<1>3. /\ WholeFrames(w) /\ w[1] = UnitOf(p, HeaderLen + 1)
      /\ \A i \in 1 .. HeaderLen : header[i] = UnitOf(p, i)
  <2>1. conn > 0 /\ conn \in Conn \ torn
    BY <1>2, Lengths DEF Conn
  <2> QED BY <1>0, <1>2, <2>1 DEF InFrames
<1>4. p \in 1 .. MaxPackets
  <2>1. 1 \in 1 .. Len(header)
    BY <1>2, Lengths
  <2> QED BY <1>2, <2>1, UnitOn
<1> HIDE DEF w
<1>5. ASSUME NEW i \in 1 .. BodyLen
      PROVE  w[i] = UnitOf(p, HeaderLen + i)
  <2>1. w[1].pos = HeaderLen + 1 /\ w[1].packet = p
    BY <1>3 DEF UnitOf
  <2>2. 1 \in 1 .. Len(w) /\ i - 1 \in 0 .. FrameLen - w[1].pos /\ 1 + (i - 1) = i
        /\ w[1].pos + (i - 1) = HeaderLen + i
    BY <1>2, <2>1, Lengths
  <2>3. w[1 + (i - 1)] = UnitOf(w[1].packet, w[1].pos + (i - 1))
    BY <1>3, <2>2 DEF WholeFrames
  <2> QED BY <2>1, <2>2, <2>3
<1>6. units = Frame(p)
  BY <1>2, <1>3, <1>4, <1>5, PutTogether
<1>7. p \in whole /\ whole \in SUBSET (1 .. MaxPackets)
  BY <1>4, <1>6
<1> HIDE DEF whole
<1>8. packet # 0 /\ packet \in 0 .. MaxPackets
  BY <1>7, PacketOf
<1> HIDE DEF packet
<1> QED BY <1>2, <1>8, OneMore DEF Last

\* A packet that MbRun has put together from two frames came over a connection
\* on which the server's non-blocking send had taken only a part of a frame.
THEOREM SplicedOnlyAfterTorn == Spec => OnlyTornSpliced
<1>1. IInv /\ [Next]_vars => [(accepted' # accepted /\ Last(accepted') = 0) => conn \in torn]_vars
  BY SplicedStep
<1> QED BY <1>1, Invariance, PTL DEF Spec, OnlyTornSpliced
=============================================================================

---------------------------- MODULE ModbusStream ----------------------------
(***************************************************************************)
(* Modbus over TCP: the test server (DevUtils/ModbusTestServer.c) writes   *)
(* frames into a non-blocking socket, the kernel carries a byte stream,    *)
(* and MbRun (DataHandlers/ModbusWithPostgres/Modbus.c) cuts packets out   *)
(* of the stream again, with SocketRecvWithTimeout for every piece.  Both  *)
(* are threads of one process, so a signal that kills one kills the other. *)
(*                                                                         *)
(* A frame is HeaderLen units of header followed by BodyLen units, the     *)
(* first of which stands for the function code and the byte count, the     *)
(* others for the payload.  A unit knows its packet and its position.      *)
(* Connections are numbered in the order in which MbRun makes them, and    *)
(* the server accepts them in order.                                       *)
(* What MbRun does with a packet is the subject of ModbusWithPostgres; of  *)
(* the pipe only the waits for an arena are here, which come back as long  *)
(* as PgRun is there to return arenas (WriterServed, MbStops).             *)
(***************************************************************************)
EXTENDS Integers, Sequences, FiniteSets, SequencesExt

CONSTANTS
    HeaderLen,    \* MODBUS_TCP_HEADER_LEN
    BodyLen,      \* the Length field: units that follow the header
    Capacity,     \* units a connection can hold
    MaxPackets,   \* bound: packets the server gets rid of
    MaxConns,     \* bound: connections made before the server is out of reach
    MaxTorn       \* bound: connections on which a part of a frame is sent

ASSUME FrameAssumption == HeaderLen \in Nat \ {0} /\ BodyLen \in Nat \ {0}
ASSUME CapacityAssumption == Capacity \in Nat /\ Capacity >= HeaderLen + BodyLen
ASSUME StreamBounds == MaxPackets \in Nat /\ MaxConns \in Nat \ {0} /\ MaxTorn \in Nat

VARIABLES
    mb,          \* where MbRun is
    conn,        \* connections made so far; MbRun uses the last
    header,      \* the units MbRun has read as a header
    accepted,    \* packets pushed, 0 for a packet put together from two frames
    srv,         \* where RunModbusTestServer is
    served,      \* connections accepted so far; the server uses the last
    packets,     \* packets sent
    torn,        \* connections on which a part of a frame has been sent
    wire,        \* wire[c]: units on their way over connection c
    sock,        \* sock[c]: what the server's end of c has learnt of MbRun's
    closed,      \* connections the server's side has closed
    pgGone,      \* PgRun has returned
    shutdown,    \* the flag SdbShouldShutdown reads
    killed       \* SIGPIPE has ended the process

mbVars == <<mb, header, accepted>>
srvVars == <<srv, served, packets, torn, closed>>
vars == <<mb, conn, header, accepted, srv, served, packets, torn, wire, sock,
          closed, pgGone, shutdown, killed>>

FrameLen == HeaderLen + BodyLen
Conn == 1 .. MaxConns
Unit == [packet : 1 .. MaxPackets, pos : 1 .. FrameLen]

\* The frame SendModbusData builds around packet p.
Frame(p) == [i \in 1 .. FrameLen |-> [packet |-> p, pos |-> i]]

\* "rotate", "flush": in SdPipeGetWriteBuffer, in SdPipeFlush, waiting for an
\* arena; "blocked": waiting for one that nobody will return.
MbPc == {"connect", "loop", "rotate", "header", "data", "reconnect", "flush", "close",
         "blocked", "done"}
SrvPc == {"accept", "check", "send", "done"}
\* "fin": MbRun has closed its end; "reset": it has, with data unread;
\* "epipe": data has since arrived at the closed end and was refused.
SockState == {"none", "open", "fin", "reset", "epipe"}

TypeOK ==
    /\ mb \in MbPc
    /\ conn \in 0 .. MaxConns
    /\ header \in Seq(Unit) /\ Len(header) <= HeaderLen
    /\ accepted \in Seq(0 .. MaxPackets)
    /\ srv \in SrvPc
    /\ served \in 0 .. conn
    /\ packets \in 0 .. MaxPackets
    /\ torn \subseteq Conn /\ Cardinality(torn) <= MaxTorn
    /\ wire \in [Conn -> Seq(Unit)]
    /\ \A c \in Conn : Len(wire[c]) <= Capacity
    /\ sock \in [Conn -> SockState]
    /\ closed \subseteq Conn
    /\ pgGone \in BOOLEAN
    /\ shutdown \in BOOLEAN
    /\ killed \in BOOLEAN

Init ==
    /\ mb = "connect"
    /\ conn = 0
    /\ header = << >>
    /\ accepted = << >>
    /\ srv = "accept"
    /\ served = 0
    /\ packets = 0
    /\ torn = {}
    /\ wire = [c \in Conn |-> << >>]
    /\ sock = [c \in Conn |-> "none"]
    /\ closed = {}
    /\ pgGone = FALSE
    /\ shutdown = FALSE
    /\ killed = FALSE

-----------------------------------------------------------------------------
(* MbRun.                                                                  *)

\* MbPrepareCtx: connect succeeds while the server listens, accepted or not.
Connect ==
    /\ mb = "connect" /\ ~shutdown
    /\ conn < MaxConns /\ srv # "done"
    /\ conn' = conn + 1
    /\ sock' = [sock EXCEPT ![conn + 1] = "open"]
    /\ mb' = "loop"
    /\ UNCHANGED <<header, accepted, srvVars, wire, pgGone, shutdown, killed>>

\* Faulty variant: the flag is not looked at before another attempt.
ConnectAgain ==
    /\ mb = "connect" /\ shutdown
    /\ UNCHANGED vars

LeaveConnect ==
    /\ mb = "connect" /\ shutdown
    /\ mb' = "done"
    /\ UNCHANGED <<conn, header, accepted, srvVars, wire, sock, pgGone, shutdown, killed>>

\* The head of the receiving loop.  CurBuf may be full once packets have been
\* pushed; the next one then waits for another arena.
ReceiveLoop ==
    /\ mb = "loop"
    /\ mb' \in IF shutdown THEN {"reconnect"}
              ELSE {"header"} \cup (IF accepted = << >> THEN {} ELSE {"rotate"})
    /\ UNCHANGED <<conn, header, accepted, srvVars, wire, sock, pgGone, shutdown, killed>>

\* SocketRecvWithTimeout takes the first n units of the connection.
Receive(n) ==
    /\ n <= Len(wire[conn])
    /\ wire' = [wire EXCEPT ![conn] = SubSeq(@, n + 1, Len(@))]

\* Nothing arrives within the time limit.
HeaderTimeout ==
    /\ mb = "header"
    /\ wire[conn] = << >> /\ conn \notin closed
    /\ mb' = "loop"
    /\ UNCHANGED <<conn, header, accepted, srvVars, wire, sock, pgGone, shutdown, killed>>

\* Faulty variant: a short read is taken for a timeout.
HeaderRetried ==
    /\ mb = "header"
    /\ \E n \in 0 .. HeaderLen - 1 : Receive(n)
    /\ mb' = "loop"
    /\ UNCHANGED <<conn, header, accepted, srvVars, sock, pgGone, shutdown, killed>>

\* An error, the end of the connection, or a part of the header.
HeaderFailure ==
    /\ mb = "header"
    /\ \E n \in 0 .. HeaderLen - 1 : Receive(n)
    /\ mb' = "reconnect"
    /\ UNCHANGED <<conn, header, accepted, srvVars, sock, pgGone, shutdown, killed>>

\* Whether a unit passes for the one at pos.  Headers, function codes and byte
\* counts differ from each other; the payload, which is random, may look like
\* any of them.
PassesFor(unit, pos) ==
    IF unit.pos > HeaderLen + 1 THEN BOOLEAN ELSE {unit.pos = pos}

\* Faulty variant: the frame is not cleared before the next header.
ReceiveHeaderKept ==
    /\ mb = "header"
    /\ Receive(HeaderLen)
    /\ header' = header \o SubSeq(wire[conn], 1, HeaderLen)
    /\ mb' = "data"
    /\ UNCHANGED <<conn, accepted, srvVars, sock, pgGone, shutdown, killed>>

\* The Length field is in the last unit of the header.
ReceiveHeader ==
    /\ mb = "header"
    /\ Receive(HeaderLen)
    /\ header' = SubSeq(wire[conn], 1, HeaderLen)
    /\ \E ok \in PassesFor(header'[HeaderLen], HeaderLen) :
          mb' = IF ok THEN "data" ELSE "reconnect"
    /\ UNCHANGED <<conn, accepted, srvVars, sock, pgGone, shutdown, killed>>

\* Faulty variant: what there is of the data is taken for a packet.
DataShortAccepted ==
    /\ mb = "data"
    /\ \E n \in 1 .. BodyLen - 1 : Receive(n)
    /\ accepted' = Append(accepted, 0)
    /\ mb' = "loop"
    /\ UNCHANGED <<conn, header, srvVars, sock, pgGone, shutdown, killed>>

\* DataResult # Length: an error, a timeout, or a part of the data.
DataFailure ==
    /\ mb = "data"
    /\ \E n \in 0 .. BodyLen - 1 : Receive(n)
    /\ mb' = "reconnect"
    /\ UNCHANGED <<conn, header, accepted, srvVars, sock, pgGone, shutdown, killed>>

\* MbParseTcpFrame compares the header's length with the byte count, and MbRun
\* the byte count with the packet size.
ReceiveData ==
    /\ mb = "data"
    /\ Receive(BodyLen)
    /\ LET units == header \o SubSeq(wire[conn], 1, BodyLen)
           whole == {p \in 1 .. MaxPackets : Frame(p) = units}
       IN  \E ok \in PassesFor(units[HeaderLen + 1], HeaderLen + 1) :
              /\ mb' = IF ok THEN "loop" ELSE "reconnect"
              /\ accepted' = IF ~ok THEN accepted
                             ELSE Append(accepted, IF whole = {} THEN 0
                                                   ELSE CHOOSE p \in whole : TRUE)
    /\ UNCHANGED <<conn, header, srvVars, sock, pgGone, shutdown, killed>>

\* The label reconnect: SdPipeFlush waits for another arena when there are
\* packets in the one being filled.
FlushPipe ==
    /\ mb = "reconnect"
    /\ mb' \in {"close"} \cup (IF accepted = << >> THEN {} ELSE {"flush"})
    /\ UNCHANGED <<conn, header, accepted, srvVars, wire, sock, pgGone, shutdown, killed>>

\* The pipe has an arena for MbRun.
PipeReturns ==
    /\ mb \in {"rotate", "flush"}
    /\ mb' = IF mb = "rotate" THEN "header" ELSE "close"
    /\ UNCHANGED <<conn, header, accepted, srvVars, wire, sock, pgGone, shutdown, killed>>

\* The pipe has none, and PgRun, which would return one, has gone.
PipeBlocks ==
    /\ mb \in {"rotate", "flush"} /\ pgGone
    /\ mb' = "blocked"
    /\ UNCHANGED <<conn, header, accepted, srvVars, wire, sock, pgGone, shutdown, killed>>

\* The socket is closed.  The kernel tells the server at once when data is
\* still unread; otherwise only that MbRun will send nothing more, and refuses
\* what the server sends from then on.
Reconnect ==
    /\ mb = "close"
    /\ \E s \in IF wire[conn] = << >> THEN {"fin"} ELSE {"reset", "epipe"} :
          sock' = [sock EXCEPT ![conn] = s]
    /\ wire' = [wire EXCEPT ![conn] = << >>]
    /\ mb' = "connect"
    /\ UNCHANGED <<conn, header, accepted, srvVars, pgGone, shutdown, killed>>

MbStep ==
    /\ ~killed
    /\ \/ Connect \/ LeaveConnect \/ ReceiveLoop \/ HeaderTimeout \/ HeaderFailure
       \/ ReceiveHeader \/ DataFailure \/ ReceiveData
       \/ FlushPipe \/ PipeReturns \/ PipeBlocks \/ Reconnect

-----------------------------------------------------------------------------
(* RunModbusTestServer.                                                    *)

\* accept does not block; without a connection it is tried again later.
Accept ==
    /\ srv = "accept" /\ ~shutdown
    /\ served < conn
    /\ served' = served + 1
    /\ srv' = "check"
    /\ UNCHANGED <<packets, torn, closed, mbVars, conn, wire, sock, pgGone, shutdown, killed>>

\* The connections nobody has accepted go with the listening socket.
LeaveAccept ==
    /\ srv = "accept" /\ shutdown
    /\ srv' = "done"
    /\ closed' = closed \cup (served + 1 .. conn)
    /\ UNCHANGED <<served, packets, torn, mbVars, conn, wire, sock, pgGone, shutdown, killed>>

\* The head of the sending loop; on shutdown both sockets are closed.
CheckShutdown ==
    /\ srv = "check"
    /\ srv' = IF shutdown THEN "done" ELSE "send"
    /\ closed' = IF shutdown THEN closed \cup (served .. conn) ELSE closed
    /\ UNCHANGED <<served, packets, torn, mbVars, conn, wire, sock, pgGone, shutdown, killed>>

Room == Capacity - Len(wire[served])

CanSend == srv = "send" /\ sock[served] = "open" /\ packets < MaxPackets

\* send takes the first n units of the frame.
Send(n) ==
    /\ packets' = packets + 1
    /\ wire' = [wire EXCEPT ![served] = @ \o SubSeq(Frame(packets + 1), 1, n)]
    /\ srv' = "check"
    /\ UNCHANGED <<served, closed, mbVars, conn, sock, pgGone, shutdown, killed>>

SendFrame == CanSend /\ Room >= FrameLen /\ Send(FrameLen) /\ UNCHANGED torn

\* A non-blocking send takes what fits.  The server counts the frame as sent
\* and goes on with the next one.
SendPart ==
    /\ CanSend
    /\ torn' = torn \cup {served}
    /\ Cardinality(torn') <= MaxTorn
    /\ Room < FrameLen
    /\ \E n \in 1 .. Room : Send(n)

\* EAGAIN, or the server has sent all its packets: it comes back later.
SendNothing ==
    /\ srv = "send" /\ sock[served] = "open"
    /\ Room < FrameLen \/ packets = MaxPackets
    /\ srv' = "check"
    /\ UNCHANGED <<served, packets, torn, closed, mbVars, conn, wire, sock, pgGone, shutdown,
                   killed>>

\* The send succeeds, and its data is refused.
SendToClosed ==
    /\ srv = "send" /\ sock[served] = "fin"
    /\ sock' = [sock EXCEPT ![served] = "epipe"]
    /\ srv' = "check"
    /\ UNCHANGED <<served, packets, torn, closed, mbVars, conn, wire, pgGone, shutdown, killed>>

\* Faulty variant: the sending loop goes on after an error.
SendErrorIgnored ==
    /\ srv = "send" /\ sock[served] = "reset"
    /\ srv' = "check"
    /\ UNCHANGED <<served, packets, torn, closed, mbVars, conn, wire, sock, pgGone, shutdown,
                   killed>>

\* ECONNRESET: the server closes the connection and waits for the next.
SendError ==
    /\ srv = "send" /\ sock[served] = "reset"
    /\ closed' = closed \cup {served}
    /\ srv' = "accept"
    /\ UNCHANGED <<served, packets, torn, mbVars, conn, wire, sock, pgGone, shutdown, killed>>

\* EPIPE comes with SIGPIPE, which is neither handled nor suppressed.
SendKills ==
    /\ srv = "send" /\ sock[served] = "epipe"
    /\ killed' = TRUE
    /\ UNCHANGED <<mbVars, srvVars, conn, wire, sock, pgGone, shutdown>>

ServerStep ==
    /\ ~killed
    /\ \/ Accept \/ LeaveAccept \/ CheckShutdown \/ SendFrame \/ SendNothing
       \/ SendToClosed \/ SendError \/ SendKills

-----------------------------------------------------------------------------
\* PgRun leaves its loop on a shutdown, or on an error of epoll without one.
PgEnds ==
    /\ ~pgGone /\ ~killed
    /\ pgGone' = TRUE
    /\ UNCHANGED <<mbVars, srvVars, conn, wire, sock, shutdown, killed>>

RequestShutdown ==
    /\ ~shutdown /\ ~killed
    /\ shutdown' = TRUE
    /\ UNCHANGED <<mbVars, srvVars, conn, wire, sock, pgGone, killed>>

Ended ==
    /\ killed \/ (mb \in {"done", "blocked"} /\ srv = "done")
    /\ UNCHANGED vars

Next ==
    \/ MbStep \/ ServerStep \/ (~killed /\ SendPart)
    \/ PgEnds \/ RequestShutdown \/ Ended

Spec == Init /\ [][Next]_vars

\* Both threads run.  Whether a read comes up short is not in their hands, nor
\* whether PgRun ends.
FairSpec == Spec /\ WF_vars(MbStep) /\ WF_vars(ServerStep)

-----------------------------------------------------------------------------
(* Properties.                                                             *)

\* On a connection that carries whole frames, MbRun reads every header where a
\* frame begins and every body where that of the same packet begins: a read
\* that times out or comes up short never leaves the rest of a frame to be
\* taken for the next, and a new connection starts in step whatever went wrong
\* on the one before.
InStep ==
    (conn > 0 /\ conn \notin torn /\ wire[conn] # << >>) =>
        /\ mb \in {"loop", "rotate", "header"} => Head(wire[conn]).pos = 1
        /\ mb = "data" => Head(wire[conn]) = Frame(header[1].packet)[HeaderLen + 1]

\* A packet put together from two frames comes only over a connection on which
\* the server has sent a part of a frame.
OnlyTornSpliced ==
    [][(accepted' # accepted /\ Last(accepted') = 0) => conn \in torn]_vars

\* The server serves one connection at a time: when MbRun has dropped one and
\* made another, the server lets go of the old one and accepts the new one.
NewConnectionServed == served < conn ~> (served = conn \/ shutdown \/ killed)

\* A shutdown ends both threads, wherever it meets them: in a read, between a
\* header and its data, in the pipe or before another connection.  MbRun alone
\* may stay behind, in the pipe only, and only when PgRun has gone first.
ShutdownStopsBoth ==
    shutdown ~> \/ killed
                \/ srv = "done" /\ mb = "done"
                \/ srv = "done" /\ mb = "blocked" /\ pgGone
=============================================================================

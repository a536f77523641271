--------------------------- MODULE TcpConnection ---------------------------
(***************************************************************************)
(* The daemon's ends of its TCP connections,                               *)
(* library/src/network/tcpconnection.cpp.                                  *)
(*                                                                         *)
(* All handlers run on the one thread of the io_context; a handler is one  *)
(* action, except that the loop over tryParsePacket() is one action per    *)
(* call, with io naming the connection the thread is busy with.  The other *)
(* threads only post.  A completed asynchronous operation and its handler  *)
(* are two actions: in between the socket may be closed.                   *)
(*                                                                         *)
(* Bytes are abstracted to pieces.  A frame is HeaderPieces pieces of      *)
(* header and one piece for the checksum, with one for the payload before  *)
(* it when there is one; a piece knows its frame and its place in it, the  *)
(* peer's history knows what is wrong with the frame.                      *)
(***************************************************************************)
EXTENDS Integers, Sequences, FiniteSets

CONSTANTS
    Conns,          \* the connections that are ever accepted
    PeerKinds,      \* the kinds of frames the peers send
    HeaderPieces,   \* the pieces a header arrives in
    MaxFrames,      \* bound: frames a peer sends
    MaxSends        \* bound: packets other threads send on a connection

\* bad: wrong magic, version or size; sum: wrong checksum.
Kinds == {"empty", "payload", "bad", "sum"}
Idle == "idle"      \* the io thread is busy with no connection

ASSUME TcpConnectionAssumption ==
    /\ PeerKinds \subseteq Kinds
    /\ Idle \notin Conns
    /\ HeaderPieces \in Nat \ {0}
    /\ MaxFrames \in Nat /\ MaxSends \in Nat

VARIABLES
    open,       \* socket_.is_open()
    rd,         \* the asynchronous read: none, pending, or ready for its handler
    readBuffer, \* readBuffer_
    receiveBuffer, \* receiveBuffer_
    io,         \* the connection whose pieces are being parsed, or Idle
    posted,     \* what other code has posted to the io thread for a connection
    writeQueue, \* writeQueue_
    writes,     \* asynchronous writes that have not called their handler
    written,    \* the write in flight has put its frame on the network
    wire,       \* pieces on their way to us
    peerSent,   \* history: the frames the peer has sent
    peerClosed, \* the peer has closed its end
    delivered,  \* history: the frames given to packetHandler_
    sends,      \* history: packets sent so far
    out         \* history: the packets put on the network

readVars == <<rd, readBuffer, receiveBuffer, io, delivered>>
writeVars == <<writeQueue, writes, written, out>>
peerVars == <<wire, peerSent, peerClosed>>
connVars == <<open, readVars, writeVars, peerVars, posted, sends>>

Ping == 0           \* the empty MSG_PING packet; other packets are numbered from 1
Stop == -1          \* what stop() posts

Good == {"empty", "payload"}

Size(kind) == HeaderPieces + (IF kind = "payload" THEN 2 ELSE 1)
Pieces(n, kind) == [p \in 1..Size(kind) |-> [frame |-> n, part |-> p]]

-----------------------------------------------------------------------------
(* The peer and the network. *)

PeerSend(c, kind) ==
    /\ rd[c] # "new" /\ ~peerClosed[c] /\ Len(peerSent[c]) < MaxFrames
    /\ peerSent' = [peerSent EXCEPT ![c] = Append(@, kind)]
    /\ wire' = [wire EXCEPT ![c] = @ \o Pieces(Len(peerSent[c]) + 1, kind)]
    /\ UNCHANGED <<open, readVars, writeVars, peerClosed, posted, sends>>

\* The peer closes in order, or resets and what is under way is lost.
PeerClose(c) ==
    /\ rd[c] # "new" /\ ~peerClosed[c]
    /\ peerClosed' = [peerClosed EXCEPT ![c] = TRUE]
    /\ \E rest \in {wire[c], <<>>} : wire' = [wire EXCEPT ![c] = rest]
    /\ UNCHANGED <<open, readVars, writeVars, peerSent, posted, sends>>

\* do_read(): at the end of a handler, on a closed socket too.
ReadAgain(c) == rd' = [rd EXCEPT ![c] = "pending"]

-----------------------------------------------------------------------------
(* Construction and start(): the first read is started. *)
Connect(c) ==
    /\ rd[c] = "new" /\ io = Idle
    /\ open' = [open EXCEPT ![c] = TRUE]
    /\ rd' = [rd EXCEPT ![c] = "pending"]
    /\ UNCHANGED <<readBuffer, receiveBuffer, io, delivered, writeVars, peerVars,
                   posted, sends>>

\* closeWithError() as far as the connection goes.
Closed(c) == open' = [open EXCEPT ![c] = FALSE]

-----------------------------------------------------------------------------
(* Reading. *)

\* async_read_some puts k pieces into readBuffer_; its handler is queued.
ReadReady(c, k) ==
    /\ rd[c] = "pending" /\ open[c]
    /\ k \in 1..Len(wire[c])
    /\ readBuffer' = [readBuffer EXCEPT ![c] = SubSeq(wire[c], 1, k)]
    /\ wire' = [wire EXCEPT ![c] = SubSeq(@, k + 1, Len(@))]
    /\ rd' = [rd EXCEPT ![c] = "ready"]
    /\ UNCHANGED <<open, receiveBuffer, io, delivered, writeVars, peerSent,
                   peerClosed, posted, sends>>

\* consumeIncomingBytes(): where the new pieces go.
AppendPieces(c) == receiveBuffer[c] \o readBuffer[c]
ReplacePieces(c) == readBuffer[c]

\* The read handler without error, up to the loop.
ReadHandler(c) ==
    /\ io = Idle /\ rd[c] = "ready"
    /\ receiveBuffer' = [receiveBuffer EXCEPT ![c] = AppendPieces(c)]
    /\ readBuffer' = [readBuffer EXCEPT ![c] = <<>>]
    /\ rd' = [rd EXCEPT ![c] = "none"]
    /\ io' = c
    /\ UNCHANGED <<open, delivered, writeVars, peerVars, posted, sends>>

\* The read handler with an error: closed here, or by the peer.
ReadFails(c) ==
    /\ io = Idle /\ rd[c] = "pending"
    /\ ~open[c] \/ (peerClosed[c] /\ wire[c] = <<>>)
    /\ rd' = [rd EXCEPT ![c] = "none"]
    /\ Closed(c)
    /\ UNCHANGED <<readBuffer, receiveBuffer, io, delivered, writeVars, peerVars,
                   posted, sends>>

\* tryParsePacket(): the verdict on the front of receiveBuffer_.
HaveHeader(c) == Len(receiveBuffer[c]) >= HeaderPieces
Kind(c) == peerSent[c][Head(receiveBuffer[c]).frame]
FrameSize(c) == Size(Kind(c))
HaveFrame(c) == HaveHeader(c) /\ Len(receiveBuffer[c]) >= FrameSize(c)
RejectNothing(c) == FALSE
Reject(c) ==
    \/ HaveHeader(c) /\ Kind(c) = "bad"
    \/ HaveFrame(c) /\ Kind(c) = "sum"

ParseFrame(c) ==
    /\ io = c /\ HaveFrame(c) /\ ~Reject(c)
    /\ receiveBuffer' = [receiveBuffer EXCEPT ![c] = SubSeq(@, FrameSize(c) + 1, Len(@))]
    /\ delivered' = [delivered EXCEPT ![c] = Append(@, Head(receiveBuffer[c]).frame)]
    /\ UNCHANGED <<open, rd, readBuffer, io, writeVars, peerVars, posted, sends>>

\* closeWithError() in the parser ends the loop; the handler still reads on.
ParseReject(c) ==
    /\ io = c /\ Reject(c)
    /\ Closed(c)
    /\ ReadAgain(c)
    /\ io' = Idle
    /\ UNCHANGED <<readBuffer, receiveBuffer, delivered, writeVars, peerVars, posted,
                   sends>>

ParseIncomplete(c) ==
    /\ io = c /\ ~HaveFrame(c) /\ ~Reject(c)
    /\ ReadAgain(c)
    /\ io' = Idle
    /\ UNCHANGED <<open, readBuffer, receiveBuffer, delivered, writeVars, peerVars,
                   posted, sends>>

-----------------------------------------------------------------------------
(* Writing. *)

\* sendPacket(): both overloads post.
SendPacket(c) ==
    /\ rd[c] # "new" /\ sends[c] < MaxSends
    /\ sends' = [sends EXCEPT ![c] = @ + 1]
    /\ posted' = [posted EXCEPT ![c] = Append(@, sends[c] + 1)]
    /\ UNCHANGED <<open, readVars, writeVars, peerVars>>

\* Whether the lambda of sendPacket() starts a write.
StartsWrite(c) == writeQueue[c] = <<>>

\* The posted lambda of sendPacket().
RunSend(c) ==
    /\ io = Idle /\ posted[c] # <<>> /\ Head(posted[c]) # Stop
    /\ writeQueue' = [writeQueue EXCEPT ![c] = Append(@, Head(posted[c]))]
    /\ writes' = IF StartsWrite(c) THEN [writes EXCEPT ![c] = @ + 1] ELSE writes
    /\ posted' = [posted EXCEPT ![c] = Tail(@)]
    /\ UNCHANGED <<open, readVars, written, out, peerVars, sends>>

\* The posted lambda of stop().
RunStop(c) ==
    /\ io = Idle /\ posted[c] # <<>> /\ Head(posted[c]) = Stop
    /\ Closed(c)
    /\ posted' = [posted EXCEPT ![c] = Tail(@)]
    /\ UNCHANGED <<readVars, writeVars, peerVars, sends>>

\* async_write has put the frame at the front on the network.
WriteReady(c) ==
    /\ writes[c] > 0 /\ ~written[c] /\ open[c]
    /\ written' = [written EXCEPT ![c] = TRUE]
    /\ out' = IF Head(writeQueue[c]) = Ping
                THEN out
                ELSE [out EXCEPT ![c] = Append(@, Head(writeQueue[c]))]
    /\ UNCHANGED <<open, readVars, writeQueue, writes, peerVars, posted, sends>>

\* The write handler without error: the next frame, if there is one.
QueueKept(c) == writeQueue[c]
QueuePopped(c) == Tail(writeQueue[c])

WriteHandler(c) ==
    /\ io = Idle /\ writes[c] > 0 /\ written[c]
    /\ written' = [written EXCEPT ![c] = FALSE]
    /\ writeQueue' = [writeQueue EXCEPT ![c] = QueuePopped(c)]
    /\ writes' = IF QueuePopped(c) = <<>> THEN [writes EXCEPT ![c] = @ - 1] ELSE writes
    /\ UNCHANGED <<open, readVars, out, peerVars, posted, sends>>

\* The write handler with an error: the queue keeps its front for ever.
WriteFails(c) ==
    /\ io = Idle /\ writes[c] > 0 /\ ~written[c]
    /\ ~open[c] \/ peerClosed[c]
    /\ writes' = [writes EXCEPT ![c] = @ - 1]
    /\ Closed(c)
    /\ UNCHANGED <<readVars, writeQueue, written, out, peerVars, posted, sends>>

-----------------------------------------------------------------------------
ConnInit ==
    /\ open = [c \in Conns |-> FALSE]
    /\ rd = [c \in Conns |-> "new"]
    /\ readBuffer = [c \in Conns |-> <<>>]
    /\ receiveBuffer = [c \in Conns |-> <<>>]
    /\ io = Idle
    /\ posted = [c \in Conns |-> <<>>]
    /\ writeQueue = [c \in Conns |-> <<>>]
    /\ writes = [c \in Conns |-> 0]
    /\ written = [c \in Conns |-> FALSE]
    /\ wire = [c \in Conns |-> <<>>]
    /\ peerSent = [c \in Conns |-> <<>>]
    /\ peerClosed = [c \in Conns |-> FALSE]
    /\ delivered = [c \in Conns |-> <<>>]
    /\ sends = [c \in Conns |-> 0]
    /\ out = [c \in Conns |-> <<>>]

Peer(c) == (\E kind \in PeerKinds : PeerSend(c, kind)) \/ PeerClose(c)

\* The steps of a connection that touch nothing of the server.
Reading(c) ==
    \/ \E k \in 1..Len(wire[c]) : ReadReady(c, k)
    \/ ReadHandler(c) \/ ParseIncomplete(c)
Posted(c) == RunSend(c) \/ RunStop(c)
Writing(c) == WriteReady(c) \/ WriteHandler(c)

\* The steps that call closeWithError() and with it disconnectHandler_.
ReadCloses(c) == ReadFails(c) \/ ParseReject(c)
WriteCloses(c) == WriteFails(c)

-----------------------------------------------------------------------------
(* Whatever pieces the reads return, the packets delivered are the frames   *)
(* the peer sent, from the first on, none twice, none skipped, and none     *)
(* from the first malformed frame on.                                       *)
DeliversFrames ==
    \A c \in Conns : \A n \in 1..Len(delivered[c]) :
        /\ delivered[c][n] = n
        /\ \A i \in 1..n : peerSent[c][i] \in Good

(* Packets go out in the order in which they were sent, none twice, none    *)
(* skipped; at most one write is outstanding per socket, as async_write     *)
(* demands, and while one is, the queue still holds the frame it refers to. *)
WritesInOrder ==
    \A c \in Conns :
        /\ \A n \in 1..Len(out[c]) : out[c][n] = n
        /\ writes[c] <= 1
        /\ writes[c] = 1 => writeQueue[c] # <<>>

=============================================================================

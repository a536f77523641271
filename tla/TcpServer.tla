------------------------------ MODULE TcpServer ------------------------------
(***************************************************************************)
(* The TCP server of the daemon, daemon/src/network/tcpserver.cpp, with    *)
(* the list of connections of TcpSink, daemon/src/sinks/tcp_sink.cpp, and  *)
(* the connections themselves (module TcpConnection).                      *)
(*                                                                         *)
(* The scheduler posts a heartbeat every five seconds; a session that has  *)
(* received nothing for maxIdle is dropped.  Workers of the pool send      *)
(* events to a copy of the sink's list.                                    *)
(***************************************************************************)
EXTENDS TcpConnection

CONSTANTS
    Senders,    \* the workers that may be in TcpSink::handle()
    MaxIdle,    \* maxIdle, in ticks
    MaxTime,    \* bound: the last clock value
    MaxPings    \* bound: pings waiting to be written to a connection

ASSUME TcpServerAssumption ==
    /\ IsFiniteSet(Conns)
    /\ MaxIdle \in Nat /\ MaxTime \in Nat /\ MaxPings \in Nat

VARIABLES
    sessions,       \* sessions_: the connections that have a session
    connections,    \* TcpSink::connections_
    now,            \* the steady clock
    lastReceived,   \* lastReceivedNanos_ of each connection
    beat,           \* a heartbeat is posted and has not run
    copy,           \* the local conns of each sender in TcpSink::handle()
    announced       \* n_sessions of the last ServerConnCountEvent

serverVars == <<sessions, connections, now, lastReceived, beat, copy, announced>>
allVars == <<connVars, serverVars>>

\* removeSession(), with TcpSink::removeConnection().
RemoveFromSessions(c) ==
    /\ sessions' = sessions \ {c}
    /\ UNCHANGED connections
RemoveSession(c) ==
    /\ sessions' = sessions \ {c}
    /\ connections' = connections \ {c}

\* n_sessions of the ServerConnCountEvent published at the end of a handler.
SessionCount == Cardinality(sessions')

\* The handler of async_accept without error.
Accept(c) ==
    /\ Connect(c)
    /\ sessions' = sessions \cup {c}
    /\ connections' = connections \cup {c}
    /\ lastReceived' = [lastReceived EXCEPT ![c] = now]
    /\ announced' = SessionCount
    /\ UNCHANGED <<now, beat, copy>>

\* closeWithError() calls the disconnect handler, which removes the session.
Disconnects(c) == RemoveSession(c) /\ UNCHANGED <<now, lastReceived, beat, copy, announced>>

\* A frame is delivered; lastReceivedNanos_ is set after the handler's return.
Receive(c) ==
    /\ ParseFrame(c)
    /\ lastReceived' = [lastReceived EXCEPT ![c] = now]
    /\ UNCHANGED <<sessions, connections, now, beat, copy, announced>>

\* The scheduler's task posts heartbeatAndCleanup()'s lambda.
PostHeartbeat ==
    /\ ~beat
    /\ beat' = TRUE
    /\ UNCHANGED <<connVars, sessions, connections, now, lastReceived, copy, announced>>

\* The sessions the heartbeat drops.
Stale(c) == now - lastReceived[c] > MaxIdle
DroppedWhenClosed == {c \in sessions : ~open[c]}
Dropped == {c \in sessions : ~open[c] \/ Stale(c)}

\* What it posts for a connection: stop() for a dropped one, a ping else.
JustForget(c) == IF c \in sessions \ Dropped THEN <<Ping>> ELSE <<>>
BeatPosts(c) ==
    IF c \in Dropped THEN <<Stop>> ELSE IF c \in sessions THEN <<Ping>> ELSE <<>>

Pings(s) == Cardinality({n \in 1..Len(s) : s[n] = Ping})

\* The posted lambda, with TcpSink::pruneDisconnected() at its end.
Heartbeat ==
    /\ beat /\ io = Idle
    /\ \A c \in sessions : Pings(posted[c]) + Pings(writeQueue[c]) < MaxPings
    /\ beat' = FALSE
    /\ sessions' = sessions \ Dropped
    /\ connections' = {c \in connections \ Dropped : open[c]}
    /\ posted' = [c \in Conns |-> posted[c] \o BeatPosts(c)]
    /\ announced' = IF Dropped # {} THEN SessionCount ELSE announced
    /\ UNCHANGED <<open, readVars, writeVars, peerVars, sends, now, lastReceived, copy>>

\* TcpSink::handle(): the copy under the mutex, then a send to each of it.
SinkCopy(w) ==
    /\ copy[w] = {} /\ connections # {}
    /\ copy' = [copy EXCEPT ![w] = connections]
    /\ UNCHANGED <<connVars, sessions, connections, now, lastReceived, beat, announced>>

SinkSend(w, c) ==
    /\ c \in copy[w]
    /\ SendPacket(c)
    /\ copy' = [copy EXCEPT ![w] = @ \ {c}]
    /\ UNCHANGED <<sessions, connections, now, lastReceived, beat, announced>>

Tick ==
    /\ now < MaxTime
    /\ now' = now + 1
    /\ UNCHANGED <<connVars, sessions, connections, lastReceived, beat, copy, announced>>

Init ==
    /\ ConnInit
    /\ sessions = {} /\ connections = {}
    /\ now = 0
    /\ lastReceived = [c \in Conns |-> 0]
    /\ beat = FALSE
    /\ copy = [w \in Senders |-> {}]
    /\ announced = 0

\* The handlers of a connection, by what makes them run.
ReadSide(c) ==
    \/ Reading(c) /\ UNCHANGED serverVars
    \/ Receive(c)
    \/ ReadCloses(c) /\ Disconnects(c)
PostSide(c) == Posted(c) /\ UNCHANGED serverVars
WriteSide(c) ==
    \/ Writing(c) /\ UNCHANGED serverVars
    \/ WriteCloses(c) /\ Disconnects(c)
PeerSide(c) == Peer(c) /\ UNCHANGED serverVars

Next ==
    \/ \E c \in Conns : Accept(c) \/ ReadSide(c) \/ PostSide(c) \/ WriteSide(c) \/ PeerSide(c)
    \/ \E w \in Senders : SinkCopy(w) \/ \E c \in Conns : SinkSend(w, c)
    \/ PostHeartbeat \/ Heartbeat \/ Tick

Spec == Init /\ [][Next]_allVars

(***************************************************************************)
(* Fairness: the io_context runs the handlers that are ready in turn, so   *)
(* none waits for ever although others keep the thread busy; the network   *)
(* takes what is written to an open socket; the scheduler goes on posting  *)
(* heartbeats.  Peers need not send, close or answer.                      *)
(***************************************************************************)
Fairness ==
    /\ \A c \in Conns : SF_allVars(ReadSide(c)) /\ SF_allVars(PostSide(c)) /\ SF_allVars(WriteSide(c))
    /\ WF_allVars(PostHeartbeat) /\ SF_allVars(Heartbeat)

FairSpec == Spec /\ Fairness

-----------------------------------------------------------------------------
(* The sink sends to the connections that have a session, and to those of   *)
(* them only: the two lists, changed by different code, stay the same.      *)
SinkMatchesSessions == connections = sessions

(* TcpSink::handle() serves every session and nobody else, and each gets    *)
(* its packets whole and in order.                                          *)
SinkServesSessions == SinkMatchesSessions /\ WritesInOrder

(* Session and socket belong together, whichever handler closed what: a     *)
(* session's socket is open and has a read under way or its handler         *)
(* running, so that a closing peer is noticed; an open socket without a     *)
(* session is about to be closed, so that none stays open unattended.       *)
SessionsHaveSockets ==
    /\ \A c \in sessions : open[c] /\ (rd[c] \in {"pending", "ready"} \/ io = c)
    /\ \A c \in Conns : open[c] /\ c \notin sessions =>
          \E n \in 1..Len(posted[c]) : posted[c][n] = Stop

(* A connection that has been silent for longer than maxIdle loses its      *)
(* session, unless a packet comes after all; when the peer closes, the      *)
(* session and the socket go.                                               *)
LostPeersAreDropped ==
    \A c \in Conns :
        /\ (c \in sessions /\ Stale(c)) ~> (c \notin sessions \/ ~Stale(c))
        /\ (c \in sessions /\ peerClosed[c]) ~> (c \notin sessions /\ ~open[c])

=============================================================================

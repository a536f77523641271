--------------------------- MODULE GuiConnection ---------------------------
(***************************************************************************)
(* The connection of the GUI's MainWindow to a daemon                      *)
(* (gui/src/mainwindow.cpp).  Two threads work on it: the Qt thread, which *)
(* runs clicks, timers, message boxes and the lambdas queued with          *)
(* invokeMethod, and the io thread, which completes the asynchronous       *)
(* operations of the sockets.  Every connection attempt has a socket of    *)
(* its own; a queued lambda remembers the attempt it is about, or, as the  *)
(* lambda queued by the disconnect handler, forgets it.                    *)
(***************************************************************************)
EXTENDS Naturals, Sequences

CONSTANT MaxAttempts    \* bound: how often the user may start a connection

ASSUME AttemptsAssumption == MaxAttempts \in Nat

VARIABLES
    connecting,     \* connecting_
    clientSocket,   \* clientSocket_: the attempt whose socket it is, 0 if null
    clientConn,     \* clientConn: the attempt that became it, 0 if null
    shown,          \* the state the widgets show
    connectTimer,   \* connectTimer_ (the progress bar): its attempt, 0 if null
    timeouts,       \* the attempts whose single-shot timer is running
    sockets,        \* the state of every attempt's socket
    outstanding,    \* the asynchronous operations of every connection
    handled,        \* the connections whose two handlers are set
    stopping,       \* the connections with a posted close (TcpConnection::stop)
    qtQueue,        \* the lambdas queued for the Qt thread, oldest first
    box,            \* the message box that is open, and its attempt
    attempts,       \* connection attempts made so far
    guiFault,       \* "none", or what ended the process
    crossed         \* a disconnect lambda met a connection that is not its own

guiVars == <<connecting, clientSocket, clientConn, shown, connectTimer, timeouts,
             sockets, outstanding, handled, stopping, qtQueue, box, attempts,
             guiFault, crossed>>

ioVars == <<sockets, outstanding, handled, stopping>>
windowVars == <<connecting, clientSocket, clientConn, shown, connectTimer,
                timeouts, box, attempts, crossed>>

Attempts == 1..MaxAttempts
NoBox == [of |-> "none", attempt |-> 0]

GuiInit ==
    /\ connecting = FALSE
    /\ clientSocket = 0 /\ clientConn = 0 /\ connectTimer = 0 /\ attempts = 0
    /\ shown = "disconnected"
    /\ timeouts = {} /\ handled = {} /\ stopping = {}
    /\ sockets = [a \in Attempts |-> "new"]
    /\ outstanding = [a \in Attempts |-> {}]
    /\ qtQueue = <<>>
    /\ box = NoBox
    /\ guiFault = "none"
    /\ crossed = FALSE

Queued(lambda, about, failed) ==
    Append(qtQueue, [of |-> lambda, attempt |-> about, error |-> failed])

----------------------------------------------------------------------------
(* The Qt thread: the button.  A message box is modal: while one is open    *)
(* the queue and the timers run on, but nobody can click.                   *)

Clickable == guiFault = "none" /\ box = NoBox

(* makeConnection starts only the timer of the progress bar *)
makeConnectionUntimed ==
    /\ ~connecting /\ clientConn = 0 /\ attempts < MaxAttempts
    /\ attempts' = attempts + 1
    /\ clientSocket' = attempts'
    /\ connecting' = TRUE
    /\ connectTimer' = attempts'
    /\ sockets' = [sockets EXCEPT ![attempts'] = "connecting"]
    /\ outstanding' = [outstanding EXCEPT ![attempts'] = {"connect"}]
    /\ qtQueue' = Queued("uiConnecting", 0, FALSE)
    /\ UNCHANGED <<clientConn, shown, timeouts, handled, stopping, box, guiFault, crossed>>

(* makeConnection, also when the address does not parse: the new socket has *)
(* replaced clientSocket_ by then                                           *)
makeConnection ==
    /\ ~connecting /\ clientConn = 0 /\ attempts < MaxAttempts
    /\ attempts' = attempts + 1
    /\ clientSocket' = attempts'
    /\ \/ UNCHANGED <<connecting, connectTimer, timeouts, sockets, outstanding, qtQueue>>
       \/ /\ connecting' = TRUE
          /\ connectTimer' = attempts'
          /\ timeouts' = timeouts \cup {attempts'}
          /\ sockets' = [sockets EXCEPT ![attempts'] = "connecting"]
          /\ outstanding' = [outstanding EXCEPT ![attempts'] = {"connect"}]
          /\ qtQueue' = Queued("uiConnecting", 0, FALSE)
    /\ UNCHANGED <<clientConn, shown, handled, stopping, box, guiFault, crossed>>

cancelConnection ==
    /\ connecting
    /\ connecting' = FALSE
    /\ connectTimer' = 0
    /\ sockets' = [sockets EXCEPT ![clientSocket] = "closed"]
    /\ clientSocket' = 0
    /\ qtQueue' = Queued("uiDisconnected", 0, FALSE)
    /\ UNCHANGED <<clientConn, shown, timeouts, outstanding, handled, stopping, box,
                   attempts, guiFault, crossed>>

Disconnect ==
    /\ ~connecting /\ clientConn # 0
    /\ stopping' = stopping \cup {clientConn}
    /\ handled' = handled \ {clientConn}
    /\ clientConn' = 0
    /\ qtQueue' = Queued("uiDisconnected", 0, FALSE)
    /\ UNCHANGED <<connecting, clientSocket, shown, connectTimer, timeouts, sockets,
                   outstanding, box, attempts, guiFault, crossed>>

onIpButtonClicked == Clickable /\ (cancelConnection \/ Disconnect \/ makeConnection)

(* sendCmdIfConnected, for any of the commands the widgets can send *)
SendToDaemon ==
    /\ Clickable /\ clientConn # 0 /\ sockets[clientConn] = "open"
    /\ outstanding' = [outstanding EXCEPT ![clientConn] = @ \cup {"write"}]
    /\ UNCHANGED <<windowVars, sockets, handled, stopping, qtQueue, guiFault>>

----------------------------------------------------------------------------
(* The Qt thread: timers and message boxes.                                 *)

(* the guard of the timeout and of the completion handler *)
Current(a) == connecting /\ clientSocket = a

(* the single-shot timer: its seconds are long enough for the Qt thread to  *)
(* have shown the attempt                                                   *)
ConnectTimeout(a) ==
    /\ guiFault = "none" /\ a \in timeouts
    /\ \A i \in DOMAIN qtQueue : qtQueue[i].of # "uiConnecting"
    /\ timeouts' = timeouts \ {a}
    /\ \/ ~Current(a) /\ UNCHANGED <<connecting, connectTimer, sockets, box>>
       \/ /\ Current(a)
          /\ connecting' = FALSE
          /\ connectTimer' = 0
          /\ sockets' = [sockets EXCEPT ![a] = "closed"]
          /\ box' = [of |-> "timeout", attempt |-> a]
    /\ UNCHANGED <<clientSocket, clientConn, shown, outstanding, handled, stopping,
                   qtQueue, attempts, guiFault, crossed>>

(* the progress bar has reached its end *)
ProgressEnds ==
    /\ guiFault = "none" /\ connectTimer # 0
    /\ connectTimer' = 0
    /\ UNCHANGED <<connecting, clientSocket, clientConn, shown, timeouts, ioVars,
                   qtQueue, box, attempts, guiFault, crossed>>

(* what the handler that opened the box does after it was dismissed *)
DismissBox ==
    /\ guiFault = "none" /\ box # NoBox
    /\ connecting' = FALSE
    /\ sockets' = [sockets EXCEPT ![box.attempt] = "closed"]
    /\ clientSocket' = 0
    /\ shown' = "disconnected"
    /\ box' = NoBox
    /\ UNCHANGED <<clientConn, connectTimer, timeouts, outstanding, handled, stopping,
                   qtQueue, attempts, guiFault, crossed>>

----------------------------------------------------------------------------
(* The Qt thread: the queued lambdas.                                       *)

ShowState(state) ==
    /\ shown' = state
    /\ qtQueue' = Tail(qtQueue)
    /\ UNCHANGED <<connecting, clientSocket, clientConn, connectTimer, timeouts, ioVars,
                   box, attempts, guiFault, crossed>>

(* the handler no longer looks at which attempt is current *)
ConnectDoneUnguarded(a, error) ==
    /\ qtQueue' = Tail(qtQueue)
    /\ timeouts' = timeouts \ {a}
    /\ connectTimer' = 0
    /\ \/ error /\ box' = [of |-> "failed", attempt |-> a]
          /\ UNCHANGED <<connecting, clientSocket, clientConn, shown, outstanding, handled>>
       \/ /\ ~error
          /\ connecting' = FALSE
          /\ clientSocket' = 0
          /\ clientConn' = a
          /\ handled' = handled \cup {a}
          /\ shown' = "connected"
          /\ outstanding' = [outstanding EXCEPT ![a] = {"read", "write"}]
          /\ UNCHANGED box
    /\ UNCHANGED <<sockets, stopping, attempts, guiFault, crossed>>

(* the completion handler of async_connect, as queued for the Qt thread:    *)
(* whatever attempt it is of, it stops the progress bar's timer             *)
ConnectDone(a, error) ==
    /\ qtQueue' = Tail(qtQueue)
    /\ timeouts' = timeouts \ {a}
    /\ connectTimer' = 0
    /\ \/ ~Current(a) /\ UNCHANGED <<connecting, clientSocket, clientConn, shown,
                                     outstanding, handled, box>>
       \/ /\ Current(a) /\ error
          /\ box' = [of |-> "failed", attempt |-> a]
          /\ UNCHANGED <<connecting, clientSocket, clientConn, shown, outstanding, handled>>
       \/ /\ Current(a) /\ ~error
          /\ connecting' = FALSE
          /\ clientSocket' = 0
          /\ clientConn' = a
          /\ handled' = handled \cup {a}
          /\ shown' = "connected"
          /\ outstanding' = [outstanding EXCEPT ![a] = {"read", "write"}]
          /\ UNCHANGED box
    /\ UNCHANGED <<sockets, stopping, attempts, guiFault, crossed>>

(* the lambda queued by the disconnect handler: it works on whatever        *)
(* connection the window has by now, or on the null pointer                 *)
ConnectionClosed(a, error) ==
    /\ shown' = IF error THEN "disconnected" ELSE shown
    /\ qtQueue' = IF error THEN Tail(qtQueue)
                           ELSE Append(Tail(qtQueue), [of |-> "uiDisconnected",
                                                       attempt |-> 0, error |-> FALSE])
    /\ \/ clientConn = 0 /\ guiFault' = "null" /\ UNCHANGED <<clientConn, handled, crossed>>
       \/ /\ clientConn # 0
          /\ handled' = handled \ {clientConn}
          /\ clientConn' = 0
          /\ crossed' = (crossed \/ clientConn # a)
          /\ UNCHANGED guiFault
    /\ UNCHANGED <<connecting, clientSocket, connectTimer, timeouts, sockets,
                   outstanding, stopping, box, attempts>>

QtStep ==
    /\ guiFault = "none" /\ qtQueue # <<>>
    /\ LET l == Head(qtQueue)
       IN  \/ l.of = "uiConnecting" /\ ShowState("connecting")
           \/ l.of = "uiDisconnected" /\ ShowState("disconnected")
           \/ l.of = "connectDone" /\ ConnectDone(l.attempt, l.error)
           \/ l.of = "closed" /\ ConnectionClosed(l.attempt, l.error)

----------------------------------------------------------------------------
(* The io thread.                                                           *)

ConnectCompletes(a) ==
    /\ guiFault = "none" /\ "connect" \in outstanding[a]
    /\ outstanding' = [outstanding EXCEPT ![a] = {}]
    /\ \/ /\ sockets[a] = "connecting"
          /\ sockets' = [sockets EXCEPT ![a] = "open"]
          /\ qtQueue' = Queued("connectDone", a, FALSE)
       \/ qtQueue' = Queued("connectDone", a, TRUE) /\ UNCHANGED sockets
    /\ UNCHANGED <<windowVars, handled, stopping, guiFault>>

(* TcpConnection::closeWithError *)
CloseWithError(a) ==
    /\ sockets' = [sockets EXCEPT ![a] = "closed"]
    /\ qtQueue' \in IF a \in handled THEN {Queued("closed", a, e) : e \in BOOLEAN}
                                     ELSE {qtQueue}

(* a read or a write ends in an error: the peer has gone, or the socket was *)
(* closed under it                                                          *)
OperationFails(a, operation) ==
    /\ guiFault = "none" /\ operation \in outstanding[a] \ {"connect"}
    /\ outstanding' = [outstanding EXCEPT ![a] = @ \ {operation}]
    /\ CloseWithError(a)
    /\ UNCHANGED <<windowVars, handled, stopping, guiFault>>

(* a frame that does not parse: the connection is closed, but the read loop *)
(* goes on and meets the closed socket                                      *)
BadFrame(a) ==
    /\ guiFault = "none" /\ "read" \in outstanding[a] /\ sockets[a] = "open"
    /\ CloseWithError(a)
    /\ UNCHANGED <<windowVars, outstanding, handled, stopping, guiFault>>

(* a packet goes to the packet handler, or to an empty std::function *)
PacketArrives(a) ==
    /\ guiFault = "none" /\ "read" \in outstanding[a] /\ sockets[a] = "open"
    /\ a \notin handled
    /\ guiFault' = "nohandler"
    /\ UNCHANGED <<windowVars, ioVars, qtQueue>>

WriteDone(a) ==
    /\ guiFault = "none" /\ "write" \in outstanding[a] /\ sockets[a] = "open"
    /\ outstanding' = [outstanding EXCEPT ![a] = @ \ {"write"}]
    /\ UNCHANGED <<windowVars, sockets, handled, stopping, qtQueue, guiFault>>

PostedClose(a) ==
    /\ guiFault = "none" /\ a \in stopping
    /\ stopping' = stopping \ {a}
    /\ sockets' = [sockets EXCEPT ![a] = "closed"]
    /\ UNCHANGED <<windowVars, outstanding, handled, qtQueue, guiFault>>

GuiNext ==
    \/ onIpButtonClicked \/ SendToDaemon \/ ProgressEnds \/ DismissBox \/ QtStep
    \/ \E a \in Attempts :
          \/ ConnectTimeout(a) \/ ConnectCompletes(a) \/ BadFrame(a) \/ PacketArrives(a)
          \/ WriteDone(a) \/ PostedClose(a)
          \/ \E operation \in {"read", "write"} : OperationFails(a, operation)

(* the Qt event loop runs what is queued and fires what is due; nobody      *)
(* promises that a connection attempt is answered                           *)
GuiFairness ==
    /\ WF_guiVars(QtStep)
    /\ \A a \in Attempts : WF_guiVars(ConnectTimeout(a))

GuiSpec == GuiInit /\ [][GuiNext]_guiVars /\ GuiFairness

----------------------------------------------------------------------------
(* Whenever the Qt thread has worked off its queue and no box is open, the  *)
(* widgets show the connection there is: "connecting" while an attempt is   *)
(* under way, "connected" while there is a connection object; the progress  *)
(* bar runs only during an attempt; and every socket that is connecting or  *)
(* open is the current one or about to be closed, so a cancelled or         *)
(* timed-out attempt that succeeds late leaves nothing behind.  Excepted    *)
(* are the behaviours in which a disconnect lambda has torn down another    *)
(* connection than its own (crossed) and those in which the process died.   *)
WindowMatchesConnection ==
    (guiFault = "none" /\ ~crossed /\ qtQueue = <<>> /\ box = NoBox) =>
        /\ shown = IF connecting THEN "connecting"
                   ELSE IF clientConn # 0 THEN "connected" ELSE "disconnected"
        /\ connectTimer # 0 => connecting
        /\ \A a \in Attempts : sockets[a] \in {"connecting", "open"} =>
              a \in {clientSocket, clientConn} \cup stopping

(* A connection attempt does not stay under way for ever, even if the       *)
(* network never answers: it succeeds, is cancelled, or the user is told.   *)
AttemptEnds == connecting ~> (~connecting \/ box # NoBox \/ guiFault # "none")

(* "safely close async connection without segfault" (onIpButtonClicked): no *)
(* lambda works on a connection that has been dropped.                      *)
DisconnectIsSafe == guiFault # "null"
============================================================================

---------------------------- MODULE ClientSocket ----------------------------
(***************************************************************************)
(* The connection of a desktop browser to coolwsd: app/Socket.ts, with     *)
(* Control.IdleHandler.ts and the event handlers of Map.js that take part  *)
(* in losing, closing and resuming it.                                     *)
(*                                                                         *)
(* A handler of the page is an operator from the state s of the page to    *)
(* the state it leaves.  The main thread runs one callback at a time; the  *)
(* loop of _emitSlurpedEvents is modelled as one step per message, and     *)
(* while emitting holds no other callback runs.                            *)
(*                                                                         *)
(* Inputs are the messages that a user's doings send to coolwsd, numbered  *)
(* in the order they are made.                                             *)
(***************************************************************************)
EXTENDS Integers, Sequences, FiniteSets

CONSTANTS
    Budget,         \* how often each of Interference may happen
    MaxKinds,       \* how many kinds of it one behaviour meets
    MsgQueueLimit,  \* how many messages wait for the connection, 80 in the code
    MaxReconnects   \* how often an unloading document is tried, 10 in the code

\* What the user, the network and coolwsd may do to a page that works.
Interference == {"inputs", "dims", "losses", "unloadings", "idles", "recyclings",
                 "conflicts", "shutdowns", "errors"}

ASSUME SocketAssumption ==
    /\ Budget \in [Interference -> Nat]
    /\ MaxKinds \in Nat
    /\ MsgQueueLimit \in Nat \ {0}
    /\ MaxReconnects \in Nat

\* Keystrokes and commands, mouse buttons, selections and mouse moves that
\* are compacted, messages that can be dropped.
InputClass == {"key", "button", "select", "other"}
Input == [n : Nat, class : InputClass]

ServerMsg == {"ready", "perm", "status", "idle", "recycling", "shuttingdown",
              "documentconflict", "docunloading", "internal"}

VARIABLES
    socket,    \* the page and its connection
    spent      \* of the budget

vars == <<socket, spent>>

Page == [
    \* the WebSocket, and what coolwsd does with it
    readyState : {"connecting", "open", "closed"},
    up : BOOLEAN,                  \* nobody has ended the connection
    session : {"none", "new", "ready", "loaded", "leaving"},
    incoming : Seq(ServerMsg),     \* sent by coolwsd, not received yet
    \* Socket
    slurpQueue : Seq(ServerMsg),
    slurpTimer : BOOLEAN,
    emitting : BOOLEAN,
    inLayerTransaction : BOOLEAN,
    slurpDuringTransaction : BOOLEAN,
    reconnecting : BOOLEAN,
    reconnectCount : Nat,
    timer : {"none", "activate", "loadDocument"},
    reconnectTimer : BOOLEAN,      \* the timeout of _onSocketClose
    msgQueue : Seq(Input),
    pointer : Seq(Input),          \* _reconnectQueuedPointerMessages
    \* IdleHandler; the dialog stays in the page until a layouting task
    active : BOOLEAN,
    documentIdle : BOOLEAN,
    serverRecycling : BOOLEAN,
    dim : {"none", "shown", "closing"},
    \* Map
    docLayer : BOOLEAN,
    docLoaded : BOOLEAN,
    docLoadedOnce : BOOLEAN,
    editMode : BOOLEAN,
    fatal : BOOLEAN,
    \* history: what was sent on this connection, and on earlier ones
    sent : Seq(Input),
    sentBefore : Seq(Input),
    \* history: coolwsd closed the idle document, and the user is not back
    resting : BOOLEAN,
    \* history: the page left a lost connection alone, with an error or
    \* silently
    left : {"no", "error", "silent"}]

\* The page has been opened, and main.js has called loadDocument.
FirstPage ==
    [readyState |-> "connecting", up |-> TRUE, session |-> "none",
     incoming |-> <<>>, slurpQueue |-> <<>>, slurpTimer |-> FALSE,
     emitting |-> FALSE, inLayerTransaction |-> FALSE,
     slurpDuringTransaction |-> FALSE, reconnecting |-> FALSE,
     reconnectCount |-> 0, timer |-> "none", reconnectTimer |-> FALSE,
     msgQueue |-> <<>>, pointer |-> <<>>, active |-> TRUE,
     documentIdle |-> FALSE, serverRecycling |-> FALSE, dim |-> "none",
     docLayer |-> FALSE, docLoaded |-> FALSE, docLoadedOnce |-> FALSE,
     editMode |-> FALSE, fatal |-> FALSE, sent |-> <<>>, sentBefore |-> <<>>,
     resting |-> FALSE, left |-> "no"]

-----------------------------------------------------------------------------
(* Connecting.                                                             *)

Connected(s) == s.readyState = "open"

\* close(): the handlers are detached, so no close event follows.
Close(s) ==
    [s EXCEPT !.readyState = "closed", !.up = FALSE, !.incoming = <<>>,
              !.docLoaded = FALSE]

\* loadDocument, which is connect(): whatever there was is closed.
Connect(s) ==
    [Close(s) EXCEPT !.readyState = "connecting", !.up = TRUE,
                     !.session = "none", !.left = "no", !.sent = <<>>,
                     !.sentBefore = @ \o s.sent]

\* jsdialog.closeAll: dialogs, the one of an idle document too, leave the page
\* with the next layouting task.
CloseAll(s) == [s EXCEPT !.dim = IF @ = "shown" THEN "closing" ELSE @]

\* IdleHandler._activate.  A dialog is not closed: closeDialog is called with
\* an id that no dialog has.
Activate(s) ==
    IF s.serverRecycling \/ s.documentIdle \/ s.active THEN s
    ELSE IF Connected(s) THEN [s EXCEPT !.active = TRUE]
    ELSE Connect(s)

\* IdleHandler._dim: all dialogs are closed; one that has not left the page is
\* in the way of another.
Dim(s) ==
    IF s.dim # "none" THEN CloseAll(s)
    ELSE [s EXCEPT !.active = FALSE, !.dim = "shown"]

\* Mutant: the document is left idle.
RestartIdle(s) == Activate(s)

\* restartConnectionFn, when the dialog of an idle document is touched or
\* leaves the page.
RestartConnection(s) == Activate([s EXCEPT !.documentIdle = FALSE])

-----------------------------------------------------------------------------
(* Sending.                                                                *)

DoSend(s, ms) == [s EXCEPT !.sent = @ \o ms]

IsCriticalReconnectMessage(m) == m.class # "other"

\* A full queue loses its first message that is not critical, else its first.
DropOne(q) ==
    LET spare == {i \in 1..Len(q) : ~IsCriticalReconnectMessage(q[i])}
        i == IF spare = {} THEN 1
             ELSE CHOOSE j \in spare : \A k \in spare : j <= k
    IN  SubSeq(q, 1, i - 1) \o SubSeq(q, i + 1, Len(q))

\* Mutant: a queue full of critical messages is not cut.
DropSpare(s, m) ==
    LET spare == \E i \in 1..Len(s.msgQueue) :
                   ~IsCriticalReconnectMessage(s.msgQueue[i])
    IN  IF m.class = "select" THEN [s EXCEPT !.pointer = <<m>>]
        ELSE [s EXCEPT !.msgQueue =
                Append(IF Len(@) >= MsgQueueLimit /\ spare THEN DropOne(@)
                       ELSE @, m)]

\* _enqueueMessageForReconnect: of the compacted ones only the last is kept.
EnqueueMessageForReconnect(s, m) ==
    IF m.class = "select" THEN [s EXCEPT !.pointer = <<m>>]
    ELSE [s EXCEPT !.msgQueue =
            Append(IF Len(@) >= MsgQueueLimit THEN DropOne(@) ELSE @, m)]

ShouldDeferDuringReconnect(m) == m.class # "button"

\* sendMessage: an inactive page only collects what can wait for the
\* connection; a page that finds its socket closed connects, unless it did so
\* in the last 1200 ms.
SendMessage(s, m, recently) ==
    CASE s.fatal -> s
      [] ~s.fatal /\ ~s.active ->
           IF s.reconnecting /\ ShouldDeferDuringReconnect(m)
           THEN EnqueueMessageForReconnect(s, m) ELSE s
      [] ~s.fatal /\ s.active /\ Connected(s) -> DoSend(s, <<m>>)
      [] OTHER ->
           EnqueueMessageForReconnect(
             IF s.readyState = "closed" /\ ~s.reconnecting /\ ~recently
             THEN Connect(s) ELSE s, m)

\* _resetReconnectTransientState.
ResetReconnectTransientState(s) == [s EXCEPT !.msgQueue = <<>>, !.pointer = <<>>]

-----------------------------------------------------------------------------
(* The events of the WebSocket.                                            *)

\* Mutant: what was flushed stays in the queue.
OpenKeepsQueue(s) ==
    Activate(DoSend([s EXCEPT !.readyState = "open", !.session = "new",
                         !.serverRecycling = FALSE, !.documentIdle = FALSE,
                         !.reconnecting = @ \/ s.docLayer, !.pointer = <<>>],
                    s.msgQueue \o s.pointer))

\* _onSocketOpen: the document is loaded, and what has waited is sent, the
\* compacted messages last.
OnSocketOpen(s) ==
    Activate(ResetReconnectTransientState(
      DoSend([s EXCEPT !.readyState = "open", !.session = "new",
                       !.serverRecycling = FALSE, !.documentIdle = FALSE,
                       !.reconnecting = @ \/ s.docLayer],
             s.msgQueue \o s.pointer)))

\* setPermission('view'), which closes all dialogs.
EnterViewMode(s) ==
    IF s.editMode THEN [CloseAll(s) EXCEPT !.editMode = FALSE] ELSE s

\* _onSocketClose: a document that never was loaded, or that is being tried
\* again, is left to the error message or to the timer.
OnSocketClose(s) ==
    LET closed == [s EXCEPT !.readyState = "closed", !.up = FALSE]
    IN  IF ~s.docLoadedOnce \/ s.reconnectCount > 0
        THEN [closed EXCEPT !.left = CASE s.reconnectCount = 0 -> "error"
                                       [] s.reconnectCount > 0 /\ s.active -> "silent"
                                       [] OTHER -> "no"]
        ELSE EnterViewMode(ResetReconnectTransientState(
               [closed EXCEPT !.active = FALSE, !.serverRecycling = FALSE,
                              !.docLoaded = FALSE, !.reconnectTimer = TRUE]))

-----------------------------------------------------------------------------
(* The messages of coolwsd.                                                *)

\* Mutant: the count of attempts is kept.
ReadyKeepsCount(s) == [s EXCEPT !.timer = "none"]

\* _onProgressMsg, "ready".
OnReady(s) == [s EXCEPT !.reconnectCount = 0, !.timer = "none"]

\* _onPermMsg, of a user who may edit.
OnPermMsg(s) == [s EXCEPT !.editMode = @ \/ s.docLayer]

\* _onStatusMsg, and the docloaded event.
OnStatusMsg(s) ==
    LET restored ==
          IF ~s.docLayer THEN [s EXCEPT !.docLayer = TRUE, !.editMode = TRUE]
          ELSE IF s.reconnecting
               THEN [CloseAll(ResetReconnectTransientState(s))
                       EXCEPT !.editMode = TRUE]
               ELSE s
    IN  [Activate([restored EXCEPT !.docLoaded = TRUE, !.docLoadedOnce = TRUE])
           EXCEPT !.reconnecting = FALSE]

\* _onCloseMsg, of each reason.
OnIdle(s) == Dim(CloseAll([s EXCEPT !.documentIdle = TRUE]))

OnShuttingDown(s) ==
    CloseAll([s EXCEPT !.active = FALSE, !.serverRecycling = TRUE])

OnRecycling(s) == [OnShuttingDown(s) EXCEPT !.timer = "loadDocument"]

\* Mutant: the page believes it is still active.
ConflictStaysActive(s) == CloseAll([Close(s) EXCEPT !.timer = "activate"])

\* documentconflict, prerestore_ack and reloadafterrename.
OnReload(s) ==
    CloseAll([Close(s) EXCEPT !.active = FALSE, !.timer = "activate"])

\* _onErrorMsg, "docunloading": try again, later and later.
OnDocUnloading(s) ==
    [Close(s) EXCEPT !.active = FALSE, !.reconnectCount = @ + 1,
       !.timer = IF s.reconnectCount >= MaxReconnects THEN "none"
                 ELSE "activate"]

\* _onErrorMsg, of an internal error.
OnInternalError(s) == [Close(s) EXCEPT !.fatal = TRUE]

OnMessage(s, m) ==
    CASE m = "ready" -> OnReady(s)
      [] m = "perm" -> OnPermMsg(s)
      [] m = "status" -> OnStatusMsg(s)
      [] m = "idle" -> OnIdle(s)
      [] m = "recycling" -> OnRecycling(s)
      [] m = "shuttingdown" -> OnShuttingDown(s)
      [] m = "documentconflict" -> OnReload(s)
      [] m = "docunloading" -> OnDocUnloading(s)
      [] m = "internal" -> OnInternalError(s)

-----------------------------------------------------------------------------
(* Steps.  A callback of the page runs to its end before the next one.     *)

Init == socket = FirstPage /\ spent = [i \in Interference |-> 0]

Spend(i) ==
    /\ spent[i] < Budget[i]
    /\ Cardinality({j \in Interference \ {i} : spent[j] > 0}) < MaxKinds
    /\ spent' = [spent EXCEPT ![i] = @ + 1]

Callback(s) == ~socket.emitting /\ socket' = s /\ UNCHANGED spent

\* The user comes back to the page.
Back(s) == [s EXCEPT !.resting = FALSE]

UserInput(class, recently) ==
    /\ ~socket.emitting
    /\ socket.docLayer
    /\ Spend("inputs")
    /\ socket' = SendMessage(Back(socket),
                             [n |-> spent["inputs"] + 1, class |-> class], recently)

\* The tab gets the focus: Map._onGotFocus.
Focus == Callback(Activate(Back(socket)))

\* The mouse is over the dialog of an idle document.
Hover ==
    /\ socket.dim = "shown"
    /\ Callback(CloseAll(RestartConnection(Back(socket))))

\* The layouting task removes the dialog, and its MutationObserver sees it.
DimRemoved ==
    /\ socket.dim = "closing"
    /\ Callback(RestartConnection([socket EXCEPT !.dim = "none"]))

\* _dimIfInactive, and the out-of-focus timer, which runs on whatever happens.
Inactivity ==
    /\ ~socket.emitting
    /\ socket.docLoadedOnce
    /\ Spend("dims")
    /\ socket' = Dim(socket)

\* _deactivate, when the tab loses the focus while the dialog is in the page.
Blur ==
    /\ ~socket.emitting
    /\ socket.docLoaded /\ ~socket.serverRecycling /\ ~socket.documentIdle
    /\ socket.active /\ socket.dim # "none"
    /\ Spend("dims")
    /\ socket' = [socket EXCEPT !.active = FALSE]

\* _slurpMessage.
SlurpMessage ==
    /\ Connected(socket) /\ socket.incoming # <<>>
    /\ Callback([socket EXCEPT !.incoming = Tail(@), !.slurpTimer = TRUE,
                               !.slurpQueue = Append(@, Head(socket.incoming))])

\* The timer of _queueSlurpEventEmission, and _emitSlurpedEvents up to its loop.
SlurpTimer ==
    /\ socket.slurpTimer
    /\ Callback(IF socket.inLayerTransaction
                THEN [socket EXCEPT !.slurpTimer = FALSE,
                                    !.slurpDuringTransaction = TRUE]
                ELSE [socket EXCEPT !.slurpTimer = FALSE, !.emitting = TRUE,
                                    !.inLayerTransaction = socket.docLayer])

\* One turn of the loop of _emitSlurpedEvents.
EmitMessage ==
    /\ socket.emitting /\ socket.slurpQueue # <<>>
    /\ socket' = OnMessage([socket EXCEPT !.slurpQueue = Tail(@)],
                           Head(socket.slurpQueue))
    /\ UNCHANGED spent

\* completeCallback of _emitSlurpedEvents.
CompleteCallback(s) ==
    [s EXCEPT !.inLayerTransaction = FALSE, !.slurpDuringTransaction = FALSE,
              !.slurpTimer = @ \/ s.slurpDuringTransaction]

\* The end of _emitSlurpedEvents: the transaction is over at once, or when
\* the workers have decompressed its tiles.
EmitEnd ==
    /\ socket.emitting /\ socket.slurpQueue = <<>>
    /\ \/ socket' = [CompleteCallback(socket) EXCEPT !.emitting = FALSE]
       \/ /\ socket.inLayerTransaction
          /\ socket' = [socket EXCEPT !.emitting = FALSE]
    /\ UNCHANGED spent

TransactionEnds ==
    /\ socket.inLayerTransaction
    /\ Callback(CompleteCallback(socket))

\* The timeout of _onSocketClose.
ReconnectTimer ==
    /\ socket.reconnectTimer
    /\ LET s == [socket EXCEPT !.reconnectTimer = FALSE]
       IN  Callback(IF s.reconnecting THEN s
                    ELSE Activate([s EXCEPT !.reconnecting = TRUE]))

\* The interval in Socket.timer.
Interval ==
    \/ socket.timer = "activate" /\ Callback(Activate(socket))
    \/ /\ socket.timer = "loadDocument"
       /\ Callback(IF Connected(socket) THEN [socket EXCEPT !.timer = "none"]
                   ELSE Connect(socket))

\* The handshake of a connection takes longer than the 1 ms of that timeout.
Handshake == socket.readyState = "connecting" /\ ~socket.reconnectTimer

Open == Handshake /\ Callback(OnSocketOpen(socket))

ConnectFails ==
    /\ ~socket.emitting
    /\ Handshake
    /\ Spend("losses")
    /\ socket' = OnSocketClose(socket)

CloseEvent ==
    /\ Connected(socket) /\ ~socket.up /\ socket.incoming = <<>>
    /\ Callback(OnSocketClose(socket))

-----------------------------------------------------------------------------
(* coolwsd and the network.                                                *)

Serving(states) == Connected(socket) /\ socket.up /\ socket.session \in states

\* What coolwsd sends before it ends the connection.
SendAndClose(m) ==
    socket' = [socket EXCEPT !.incoming = Append(@, m), !.up = FALSE,
                             !.resting = (m = "idle")]

\* createNewClientSession: the document is there, or is being unloaded.
ServerReady ==
    /\ Serving({"new"})
    /\ socket' = [socket EXCEPT !.incoming = Append(@, "ready"),
                                !.session = "ready"]
    /\ UNCHANGED spent

Refuse ==
    /\ Serving({"new"})
    /\ \/ Spend("unloadings") /\ SendAndClose("docunloading")
       \/ Spend("errors") /\ SendAndClose("internal")

Load ==
    /\ Serving({"ready"})
    /\ socket' = [socket EXCEPT !.incoming = @ \o <<"perm", "status">>,
                                !.session = "loaded"]
    /\ UNCHANGED spent

\* The document is idle, coolwsd is recycled, or the document was changed on
\* the storage.
CloseSession ==
    /\ Serving({"loaded"})
    /\ \/ Spend("idles") /\ SendAndClose("idle")
       \/ Spend("recyclings") /\ SendAndClose("recycling")
       \/ Spend("conflicts") /\ SendAndClose("documentconflict")

\* coolwsd tells that it shuts down, and exits when documents are saved.
ShuttingDown ==
    /\ Serving({"loaded"})
    /\ Spend("shutdowns")
    /\ socket' = [socket EXCEPT !.incoming = Append(@, "shuttingdown"),
                                !.session = "leaving"]

Exit ==
    /\ Serving({"leaving"})
    /\ socket' = [socket EXCEPT !.up = FALSE]
    /\ UNCHANGED spent

\* The connection is lost, with or without what was under way.
Drop ==
    /\ Connected(socket) /\ socket.up
    /\ Spend("losses")
    /\ \E kept \in {<<>>, socket.incoming} :
         socket' = [socket EXCEPT !.up = FALSE, !.incoming = kept]

-----------------------------------------------------------------------------
MainThread ==
    \/ SlurpMessage \/ SlurpTimer \/ EmitMessage \/ EmitEnd \/ TransactionEnds
    \/ ReconnectTimer \/ Open \/ CloseEvent \/ DimRemoved

Coolwsd == ServerReady \/ Load \/ Exit

Next ==
    \/ \E class \in InputClass, recently \in BOOLEAN : UserInput(class, recently)
    \/ Focus \/ Hover \/ Inactivity \/ Blur
    \/ MainThread \/ Interval \/ ConnectFails
    \/ Coolwsd \/ Refuse \/ CloseSession \/ ShuttingDown \/ Drop

Spec == Init /\ [][Next]_vars

\* The event loop of the page runs what is due, coolwsd answers, and the user
\* comes back to the page and moves the mouse over it.
Fairness ==
    /\ WF_vars(MainThread) /\ WF_vars(Interval)
    /\ WF_vars(Coolwsd)
    /\ WF_vars(Focus) /\ WF_vars(Hover)

FairSpec == Spec /\ Fairness

-----------------------------------------------------------------------------
\* The types, and the bound on what waits for the connection.
TypeOK ==
    /\ socket \in Page
    /\ Len(socket.msgQueue) <= MsgQueueLimit
    /\ spent \in [Interference -> Nat]

Numbers(ms) == {ms[i].n : i \in 1..Len(ms)}

\* No input reaches coolwsd twice, and on a connection the ones that are not
\* compacted are sent in the order the user made them, although they wait in a
\* queue that overflows, and connections are lost, refused and made again.
InputOrder ==
    /\ Cardinality(Numbers(socket.sentBefore \o socket.sent))
         = Len(socket.sentBefore) + Len(socket.sent)
    /\ \A i, j \in 1..Len(socket.sent) :
         i < j => \/ "select" \in {socket.sent[i].class, socket.sent[j].class}
                  \/ socket.sent[i].n < socket.sent[j].n

\* Nothing of coolwsd is on its way to the page.
Quiet(s) == s.incoming = <<>> /\ s.slurpQueue = <<>> /\ ~s.emitting

Loaded(s) == Connected(s) /\ s.up /\ s.session = "loaded" /\ Quiet(s)

\* Whatever went wrong before, a page that has loaded the document is in
\* order: it can edit, is not waiting for a reconnection, and no timer or
\* count of attempts is left that would stop the next reconnection.
ReconnectComplete ==
    Loaded(socket) =>
      /\ socket.docLoaded /\ socket.editMode /\ ~socket.reconnecting
      /\ socket.reconnectCount = 0 /\ socket.timer # "activate"

\* _documentIdle keeps _activate from connecting, and only the dialog resets
\* it: while it is set the dialog is in the page.
IdleHasDialog == socket.documentIdle => socket.dim # "none"

\* An error is shown, or the server is going down.
GaveUp(s) == s.fatal \/ s.left = "error" \/ s.serverRecycling

\* Once the interference is over, a user who comes back to the page has the
\* document, connected and active, unless the page has given up, or has lost
\* the connection while it tried an unloading document again.
Resumes ==
    <>[](\/ Loaded(socket) /\ socket.active
         \/ GaveUp(socket) \/ socket.left = "silent")

\* _onSocketClose: "there could have been a message like "close: idle" from
\* the server.  Without the timeout, we'd immediately reconnect".  So the page
\* does not connect to a document that was closed for being idle before the
\* user is back.
IdleStaysClosed == socket.resting => socket.readyState # "connecting"
=============================================================================

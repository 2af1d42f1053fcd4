------------------------- MODULE ClientSocketProofs -------------------------
(***************************************************************************)
(* For every budget and every limit: the types of the page, the bound on   *)
(* what waits for the connection, that an idle document has its dialog,    *)
(* that inputs are sent once and in order, and that a page which has       *)
(* loaded the document is in order.  A handler is an operator on the page, *)
(* so there is one lemma for each: it keeps the page Sound, and, in the    *)
(* second part, it sends nothing and leaves the connection as it is unless *)
(* that is what it is for.  Where a handler stores sequences, a lemma on   *)
(* the update takes them as parameters.                                    *)
(***************************************************************************)
EXTENDS ClientSocket, SequenceTheorems, QueueLemmas, TLAPS

Bounded(s) == Len(s.msgQueue) <= MsgQueueLimit
Typed(s) == s \in Page /\ Bounded(s)
IdleDialog(s) == s.documentIdle => s.dim # "none"

\* What every handler of the page keeps.
Sound(s) == Typed(s) /\ IdleDialog(s)

\* Messages and inputs stay sequences of their kind.
LEMMA SeqTypes ==
  /\ <<>> \in Seq(ServerMsg) /\ <<>> \in Seq(Input)
  /\ Len(<<>>) <= MsgQueueLimit
  /\ \A q \in Seq(Input), r \in Seq(Input) : q \o r \in Seq(Input)
BY SocketAssumption

\* What a step that leaves the queue, the dialog and the idle flag keeps.
Same(s, t) ==
  /\ t.msgQueue = s.msgQueue
  /\ t.documentIdle = s.documentIdle /\ t.dim = s.dim

\* What changes neither the queue nor the dialog keeps a page sound.
LEMMA SoundFrame ==
  ASSUME NEW s, NEW t, Sound(s), t \in Page, Same(s, t)
  PROVE  Sound(t)
BY DEF Sound, Typed, Bounded, IdleDialog, Same

-----------------------------------------------------------------------------
(* Connecting.                                                             *)

\* The fields that close() assigns.
LEMMA CloseUpdate ==
  ASSUME NEW s \in Page, NEW e \in Seq(ServerMsg)
  PROVE  [s EXCEPT !.readyState = "closed", !.up = FALSE, !.incoming = e,
                   !.docLoaded = FALSE] \in Page
BY DEF Page

\* close() keeps the page, its queue and its dialog.
LEMMA CloseSound ==
  ASSUME NEW s \in Page
  PROVE  Close(s) \in Page /\ Same(s, Close(s))
<1>1. Close(s) \in Page
  BY CloseUpdate, SeqTypes DEF Close
<1>2. Same(s, Close(s))
  BY DEF Close, Same, Page
<1> QED
  BY <1>1, <1>2

\* The fields that connect() assigns.
LEMMA ConnectUpdate ==
  ASSUME NEW s \in Page, NEW e \in Seq(Input), NEW f \in Seq(Input)
  PROVE  LET t == [s EXCEPT !.readyState = "connecting", !.up = TRUE,
                            !.session = "none", !.left = "no", !.sent = e,
                            !.sentBefore = f]
         IN  t \in Page /\ Same(s, t)
BY DEF Page, Same

\* So does connect().
LEMMA ConnectSound ==
  ASSUME NEW s \in Page
  PROVE  Connect(s) \in Page /\ Same(s, Connect(s))
<1>1. Close(s) \in Page /\ Same(s, Close(s))
  BY CloseSound
<1>2. Close(s).sentBefore \o s.sent \in Seq(Input)
  <2>1. Close(s).sentBefore \in Seq(Input) /\ s.sent \in Seq(Input)
    BY <1>1 DEF Page
  <2> QED
    BY <2>1, SeqTypes
<1>3. Connect(s) \in Page /\ Same(Close(s), Connect(s))
  BY <1>1, <1>2, ConnectUpdate, SeqTypes DEF Connect
<1> QED
  BY <1>1, <1>3 DEF Same

\* closeAll keeps a dialog in the page.
LEMMA CloseAllSound ==
  ASSUME NEW s \in Page
  PROVE  /\ CloseAll(s) \in Page
         /\ CloseAll(s).msgQueue = s.msgQueue
         /\ CloseAll(s).documentIdle = s.documentIdle
         /\ s.dim # "none" => CloseAll(s).dim # "none"
BY DEF CloseAll, Page

\* _activate changes neither the queue nor the dialog.
LEMMA ActivateSound ==
  ASSUME NEW s \in Page
  PROVE  Activate(s) \in Page /\ Same(s, Activate(s))
<1>1. [s EXCEPT !.active = TRUE] \in Page /\ Same(s, [s EXCEPT !.active = TRUE])
  BY DEF Page, Same
<1>2. Connect(s) \in Page /\ Same(s, Connect(s))
  BY ConnectSound
<1>3. Same(s, s)
  BY DEF Same
<1> QED
  BY <1>1, <1>2, <1>3 DEF Activate

\* _dim always leaves a dialog in the page.
LEMMA DimSound ==
  ASSUME NEW s, Typed(s)
  PROVE  Sound(Dim(s))
<1>1. s \in Page /\ Bounded(s)
  BY DEF Typed
<1>2. CASE s.dim # "none"
  BY <1>1, <1>2, CloseAllSound DEF Dim, Sound, Typed, Bounded, IdleDialog
<1>3. CASE s.dim = "none"
  <2> DEFINE t == [s EXCEPT !.active = FALSE, !.dim = "shown"]
  <2>1. t \in Page /\ t.msgQueue = s.msgQueue /\ t.dim = "shown"
    BY <1>1 DEF Page
  <2>2. Dim(s) = t
    BY <1>3 DEF Dim
  <2> HIDE DEF t
  <2> QED
    BY <1>1, <2>1, <2>2 DEF Sound, Typed, Bounded, IdleDialog
<1> QED
  BY <1>2, <1>3

\* restartConnectionFn ends the idleness, dialog or no dialog.
LEMMA RestartConnectionSound ==
  ASSUME NEW s, Typed(s)
  PROVE  Sound(RestartConnection(s))
<1> DEFINE t == [s EXCEPT !.documentIdle = FALSE]
<1>1. t \in Page /\ t.msgQueue = s.msgQueue /\ t.documentIdle = FALSE
  BY DEF Typed, Page
<1>2. Activate(t) \in Page /\ Same(t, Activate(t))
  BY <1>1, ActivateSound
<1>3. RestartConnection(s) = Activate(t)
  BY DEF RestartConnection
<1> HIDE DEF t
<1> QED
  BY <1>1, <1>2, <1>3 DEF Sound, Typed, Bounded, IdleDialog, Same

-----------------------------------------------------------------------------
(* Sending.                                                                *)

\* The field that _doSend assigns.
LEMMA SentUpdate ==
  ASSUME NEW s \in Page, NEW e \in Seq(Input)
  PROVE  LET t == [s EXCEPT !.sent = e] IN t \in Page /\ Same(s, t)
BY DEF Page, Same

\* _doSend only adds to what was sent.
LEMMA DoSendSound ==
  ASSUME NEW s \in Page, NEW ms \in Seq(Input)
  PROVE  DoSend(s, ms) \in Page /\ Same(s, DoSend(s, ms))
<1>1. s.sent \o ms \in Seq(Input)
  <2>1. s.sent \in Seq(Input)
    BY DEF Page
  <2> QED
    BY <2>1, SeqTypes
<1> QED
  BY <1>1, SentUpdate DEF DoSend

\* A full queue loses a message that is in it.
LEMMA DropOnePlace ==
  ASSUME NEW q \in Seq(Input), Len(q) >= 1
  PROVE  \E i \in 1..Len(q) :
            DropOne(q) = SubSeq(q, 1, i - 1) \o SubSeq(q, i + 1, Len(q))
<1> DEFINE spare == {i \in 1..Len(q) : ~IsCriticalReconnectMessage(q[i])}
           i == IF spare = {} THEN 1
                ELSE CHOOSE j \in spare : \A k \in spare : j <= k
<1>1. i \in 1..Len(q)
  <2>1. CASE spare = {}
    BY <2>1
  <2>2. CASE spare # {}
    <3>1. spare \in SUBSET Nat
      OBVIOUS
    <3>2. \E j \in spare : \A k \in spare : j <= k
      BY <2>2, <3>1, Least
    <3>3. i \in spare
      BY <2>2, <3>2
    <3> QED
      BY <3>3
  <2> QED
    BY <2>1, <2>2
<1>2. DropOne(q) = SubSeq(q, 1, i - 1) \o SubSeq(q, i + 1, Len(q))
  BY DEF DropOne
<1> HIDE DEF i
<1> QED
  BY <1>1, <1>2

\* A full queue loses exactly one message, and the others keep their order.
LEMMA DropOneItems ==
  ASSUME NEW q \in Seq(Input), Len(q) >= 1
  PROVE  /\ DropOne(q) \in Seq(Input) /\ Len(DropOne(q)) = Len(q) - 1
         /\ \E i \in 1..Len(q) : \A j \in 1..(Len(q) - 1) :
               DropOne(q)[j] = q[IF j < i THEN j ELSE j + 1]
<1> PICK i \in 1..Len(q) :
            DropOne(q) = SubSeq(q, 1, i - 1) \o SubSeq(q, i + 1, Len(q))
  BY DropOnePlace
<1>1. i \in 1..Len(q)
  OBVIOUS
<1>2. DropOne(q) = SubSeq(q, 1, i - 1) \o SubSeq(q, i + 1, Len(q))
  OBVIOUS
<1>3. i \in Nat /\ Len(q) \in Nat /\ 1 <= i /\ i <= Len(q)
  BY <1>1
<1>4. \A n \in 1..Len(q) : q[n] \in Input
  BY ElementOfSeq
<1>5. /\ SubSeq(q, 1, i - 1) \in Seq(Input)
      /\ Len(SubSeq(q, 1, i - 1)) = i - 1
      /\ \A j \in 1..(i - 1) : SubSeq(q, 1, i - 1)[j] = q[j]
  <2>1. \A n \in 1..(i - 1) : q[n] \in Input
    BY <1>3, <1>4
  <2>2. i - 1 \in Int /\ 1 \in Int
    BY <1>3
  <2>3. Len(SubSeq(q, 1, i - 1)) = IF 1 <= i - 1 THEN (i - 1) - 1 + 1 ELSE 0
    BY <2>1, <2>2, SubSeqProperties
  <2>4. SubSeq(q, 1, i - 1) \in Seq(Input)
    BY <2>1, <2>2, SubSeqProperties
  <2>5. \A j \in 1..(i - 1) : SubSeq(q, 1, i - 1)[j] = q[j]
    BY <1>3
  <2> QED
    BY <1>3, <2>3, <2>4, <2>5
<1>6. /\ SubSeq(q, i + 1, Len(q)) \in Seq(Input)
      /\ Len(SubSeq(q, i + 1, Len(q))) = Len(q) - i
      /\ \A j \in 1..(Len(q) - i) : SubSeq(q, i + 1, Len(q))[j] = q[i + j]
  <2>1. \A n \in (i + 1)..Len(q) : q[n] \in Input
    BY <1>3, <1>4
  <2>2. /\ SubSeq(q, i + 1, Len(q)) \in Seq(Input)
        /\ Len(SubSeq(q, i + 1, Len(q))) = Len(q) - i
    BY <1>3, <2>1, SubSeqProperties
  <2>3. \A j \in 1..(Len(q) - i) : SubSeq(q, i + 1, Len(q))[j] = q[i + j]
    BY <1>3
  <2> QED
    BY <2>2, <2>3
<1>7. LET h == SubSeq(q, 1, i - 1)
          t == SubSeq(q, i + 1, Len(q))
      IN  /\ h \o t \in Seq(Input) /\ Len(h \o t) = Len(h) + Len(t)
          /\ \A j \in 1..(Len(h) + Len(t)) :
               (h \o t)[j] = IF j <= Len(h) THEN h[j] ELSE t[j - Len(h)]
  BY <1>5, <1>6, ConcatProperties, Zenon
<1>8. (i - 1) + (Len(q) - i) = Len(q) - 1
  BY <1>3
<1>9. DropOne(q) \in Seq(Input) /\ Len(DropOne(q)) = Len(q) - 1
  BY <1>2, <1>5, <1>6, <1>7, <1>8
<1>10. ASSUME NEW j \in 1..(Len(q) - 1)
       PROVE  DropOne(q)[j] = q[IF j < i THEN j ELSE j + 1]
  <2>1. DropOne(q)[j] = IF j <= i - 1 THEN SubSeq(q, 1, i - 1)[j]
                        ELSE SubSeq(q, i + 1, Len(q))[j - (i - 1)]
    BY <1>2, <1>5, <1>6, <1>7, <1>8
  <2>2. CASE j < i
    <3>1. j \in 1..(i - 1) /\ j <= i - 1
      BY <1>3, <2>2
    <3>2. DropOne(q)[j] = SubSeq(q, 1, i - 1)[j]
      BY <2>1, <3>1, Zenon
    <3> QED
      BY <1>5, <2>2, <3>1, <3>2
  <2>3. CASE ~(j < i)
    <3>1. ~(j <= i - 1) /\ j - (i - 1) \in 1..(Len(q) - i) /\ i + (j - (i - 1)) = j + 1
      BY <1>3, <2>3
    <3>2. DropOne(q)[j] = SubSeq(q, i + 1, Len(q))[j - (i - 1)]
      BY <2>1, <3>1
    <3>3. DropOne(q)[j] = q[i + (j - (i - 1))]
      BY <1>6, <3>1, <3>2
    <3> QED
      BY <2>3, <3>1, <3>3
  <2> QED
    BY <2>2, <2>3
<1> QED
  BY <1>1, <1>9, <1>10

\* The compacted messages do not count in the queue.
LEMMA PointerUpdate ==
  ASSUME NEW s \in Page, NEW e \in Seq(Input)
  PROVE  LET t == [s EXCEPT !.pointer = e] IN t \in Page /\ Same(s, t)
BY DEF Page, Same

\* A new queue needs its length bounded.
LEMMA QueueUpdate ==
  ASSUME NEW s \in Page, NEW e \in Seq(Input)
  PROVE  LET t == [s EXCEPT !.msgQueue = e]
         IN  /\ t \in Page /\ t.msgQueue = e
             /\ t.documentIdle = s.documentIdle /\ t.dim = s.dim
BY DEF Page

\* _enqueueMessageForReconnect keeps the queue within its limit.
LEMMA EnqueueSound ==
  ASSUME NEW s, Sound(s), NEW m \in Input
  PROVE  Sound(EnqueueMessageForReconnect(s, m))
<1> DEFINE kept == IF Len(s.msgQueue) >= MsgQueueLimit THEN DropOne(s.msgQueue)
                   ELSE s.msgQueue
           q == Append(kept, m)
<1>1. /\ s \in Page /\ s.msgQueue \in Seq(Input)
      /\ Len(s.msgQueue) \in Nat /\ Len(s.msgQueue) <= MsgQueueLimit
  BY DEF Sound, Typed, Bounded, Page
<1>2. kept \in Seq(Input) /\ Len(kept) <= MsgQueueLimit - 1
  <2>1. CASE Len(s.msgQueue) >= MsgQueueLimit
    <3>1. Len(s.msgQueue) >= 1
      BY <2>1, SocketAssumption, <1>1
    <3> QED
      BY <1>1, <2>1, <3>1, DropOneItems, SocketAssumption
  <2>2. CASE ~(Len(s.msgQueue) >= MsgQueueLimit)
    BY <1>1, <2>2, SocketAssumption
  <2> QED
    BY <2>1, <2>2
<1>3. q \in Seq(Input) /\ Len(q) <= MsgQueueLimit
  <2> HIDE DEF kept
  <2>1. q \in Seq(Input) /\ Len(q) = Len(kept) + 1
    BY <1>2
  <2>2. Len(kept) \in Nat
    BY <1>2
  <2> QED
    BY <1>2, <2>1, <2>2, SocketAssumption
<1>4. CASE m.class = "select"
  <2>1. <<m>> \in Seq(Input)
    OBVIOUS
  <2>2. EnqueueMessageForReconnect(s, m) = [s EXCEPT !.pointer = <<m>>]
    BY <1>4 DEF EnqueueMessageForReconnect
  <2> QED
    BY <1>1, <2>1, <2>2, PointerUpdate, SoundFrame
<1>5. CASE m.class # "select"
  <2>1. EnqueueMessageForReconnect(s, m) = [s EXCEPT !.msgQueue = q]
    BY <1>5 DEF EnqueueMessageForReconnect
  <2> HIDE DEF q
  <2>2. LET t == [s EXCEPT !.msgQueue = q]
        IN  /\ t \in Page /\ t.msgQueue = q
            /\ t.documentIdle = s.documentIdle /\ t.dim = s.dim
    BY <1>1, <1>3, QueueUpdate
  <2> QED
    BY <1>3, <2>1, <2>2 DEF Sound, Typed, Bounded, IdleDialog
<1> QED
  BY <1>4, <1>5

\* sendMessage.
LEMMA SendMessageSound ==
  ASSUME NEW s, Sound(s), NEW m \in Input, NEW recently \in BOOLEAN
  PROVE  Sound(SendMessage(s, m, recently))
<1>1. Sound(EnqueueMessageForReconnect(s, m))
  BY EnqueueSound
<1>2. Sound(DoSend(s, <<m>>))
  <2>1. s \in Page /\ <<m>> \in Seq(Input)
    BY DEF Sound, Typed
  <2> QED
    BY <2>1, DoSendSound, SoundFrame
<1>3. Sound(EnqueueMessageForReconnect(Connect(s), m))
  <2>1. s \in Page
    BY DEF Sound, Typed
  <2>2. Sound(Connect(s))
    BY <2>1, ConnectSound, SoundFrame
  <2> QED
    BY <2>2, EnqueueSound
<1>4. \/ SendMessage(s, m, recently) = s
      \/ SendMessage(s, m, recently) = EnqueueMessageForReconnect(s, m)
      \/ SendMessage(s, m, recently) = DoSend(s, <<m>>)
      \/ SendMessage(s, m, recently) = EnqueueMessageForReconnect(Connect(s), m)
  BY DEF SendMessage
<1> QED
  BY <1>1, <1>2, <1>3, <1>4

\* The queues that _resetReconnectTransientState empties.
LEMMA ResetUpdate ==
  ASSUME NEW s \in Page, NEW e \in Seq(Input)
  PROVE  LET t == [s EXCEPT !.msgQueue = e, !.pointer = e]
         IN  /\ t \in Page /\ t.msgQueue = e
             /\ t.documentIdle = s.documentIdle /\ t.dim = s.dim
BY DEF Page

\* _resetReconnectTransientState.
LEMMA ResetSound ==
  ASSUME NEW s \in Page
  PROVE  LET t == ResetReconnectTransientState(s)
         IN  /\ Typed(t)
             /\ t.documentIdle = s.documentIdle /\ t.dim = s.dim
<1>1. LET t == ResetReconnectTransientState(s)
      IN  /\ t \in Page /\ t.msgQueue = <<>>
          /\ t.documentIdle = s.documentIdle /\ t.dim = s.dim
  BY ResetUpdate, SeqTypes DEF ResetReconnectTransientState
<1> QED
  BY <1>1, SeqTypes DEF Typed, Bounded

-----------------------------------------------------------------------------
(* The events of the WebSocket.                                            *)

\* The fields that _onSocketOpen assigns.
LEMMA OpenUpdate ==
  ASSUME NEW s \in Page, NEW r \in BOOLEAN
  PROVE  LET t == [s EXCEPT !.readyState = "open", !.session = "new",
                            !.serverRecycling = FALSE, !.documentIdle = FALSE,
                            !.reconnecting = r]
         IN  t \in Page /\ t.documentIdle = FALSE
<1> DEFINE u == [s EXCEPT !.readyState = "open", !.session = "new"]
           v == [u EXCEPT !.serverRecycling = FALSE, !.documentIdle = FALSE]
           t == [v EXCEPT !.reconnecting = r]
<1>1. u \in Page
  BY DEF Page
<1> HIDE DEF u
<1>2. v \in Page /\ v.documentIdle = FALSE
  BY <1>1 DEF Page
<1> HIDE DEF v
<1>3. t \in Page /\ t.documentIdle = FALSE
  BY <1>2 DEF Page
<1> QED
  BY <1>3 DEF u, v

\* _onSocketOpen ends the idleness and empties the queue.
LEMMA OnSocketOpenSound ==
  ASSUME NEW s, Sound(s)
  PROVE  Sound(OnSocketOpen(s))
<1> DEFINE o == [s EXCEPT !.readyState = "open", !.session = "new",
                          !.serverRecycling = FALSE, !.documentIdle = FALSE,
                          !.reconnecting = @ \/ s.docLayer]
           ms == s.msgQueue \o s.pointer
           d == DoSend(o, ms)
           r == ResetReconnectTransientState(d)
<1>1. s \in Page
  BY DEF Sound, Typed
<1>2. o \in Page /\ o.documentIdle = FALSE
  <2>1. (s.reconnecting \/ s.docLayer) \in BOOLEAN
    OBVIOUS
  <2>2. o = [s EXCEPT !.readyState = "open", !.session = "new",
                      !.serverRecycling = FALSE, !.documentIdle = FALSE,
                      !.reconnecting = s.reconnecting \/ s.docLayer]
    BY <1>1 DEF Page
  <2> QED
    BY <1>1, <2>1, <2>2, OpenUpdate
<1>3. ms \in Seq(Input)
  <2>1. s.msgQueue \in Seq(Input) /\ s.pointer \in Seq(Input)
    BY <1>1 DEF Page
  <2> QED
    BY <2>1, SeqTypes
<1>4. OnSocketOpen(s) = Activate(r)
  BY DEF OnSocketOpen
<1> HIDE DEF o, ms
<1>5. d \in Page /\ Same(o, d)
  BY <1>2, <1>3, DoSendSound
<1> HIDE DEF d
<1>6. Typed(r) /\ r.documentIdle = FALSE
  BY <1>2, <1>5, ResetSound DEF Same
<1> HIDE DEF r
<1>7. Sound(r) /\ r \in Page
  BY <1>6 DEF Sound, Typed, IdleDialog
<1> QED
  BY <1>4, <1>7, ActivateSound, SoundFrame

\* setPermission('view') does not touch an idle document's flag.
LEMMA EnterViewModeSound ==
  ASSUME NEW s, Sound(s)
  PROVE  Sound(EnterViewMode(s))
<1> DEFINE c == CloseAll(s)
           t == [c EXCEPT !.editMode = FALSE]
<1>1. Sound(c)
  BY CloseAllSound DEF Sound, Typed, Bounded, IdleDialog
<1> HIDE DEF c
<1>2. t \in Page /\ Same(c, t)
  BY <1>1 DEF Sound, Typed, Page, Same
<1>3. Sound(t)
  BY <1>1, <1>2, SoundFrame
<1> QED
  BY <1>3 DEF EnterViewMode, c

\* The fields that every close event assigns.
LEMMA ClosedUpdate ==
  ASSUME NEW s \in Page, NEW l \in {"no", "error", "silent"}
  PROVE  LET c == [s EXCEPT !.readyState = "closed", !.up = FALSE]
             t == [c EXCEPT !.left = l]
         IN  c \in Page /\ Same(s, c) /\ t \in Page /\ Same(c, t)
<1> DEFINE c == [s EXCEPT !.readyState = "closed", !.up = FALSE]
           t == [c EXCEPT !.left = l]
<1>1. c \in Page /\ Same(s, c)
  BY DEF Page, Same
<1> HIDE DEF c
<1>2. t \in Page /\ Same(c, t)
  BY <1>1 DEF Page, Same
<1> QED
  BY <1>1, <1>2 DEF c

\* The fields that the loss of a loaded document assigns.
LEMMA LostUpdate ==
  ASSUME NEW s \in Page
  PROVE  LET t == [s EXCEPT !.active = FALSE, !.serverRecycling = FALSE,
                            !.docLoaded = FALSE, !.reconnectTimer = TRUE]
         IN  t \in Page /\ Same(s, t)
BY DEF Page, Same

\* _onSocketClose.
LEMMA OnSocketCloseSound ==
  ASSUME NEW s, Sound(s)
  PROVE  Sound(OnSocketClose(s))
<1> DEFINE c == [s EXCEPT !.readyState = "closed", !.up = FALSE]
           l == CASE s.reconnectCount = 0 -> "error"
                  [] s.reconnectCount > 0 /\ s.active -> "silent"
                  [] OTHER -> "no"
           t == [c EXCEPT !.left = l]
           d == [c EXCEPT !.active = FALSE, !.serverRecycling = FALSE,
                          !.docLoaded = FALSE, !.reconnectTimer = TRUE]
           r == ResetReconnectTransientState(d)
<1>1. s \in Page
  BY DEF Sound, Typed
<1>2. l \in {"no", "error", "silent"}
  <2>1. s.reconnectCount \in Nat
    BY <1>1 DEF Page
  <2>2. CASE s.reconnectCount = 0
    BY <2>1, <2>2
  <2>3. CASE s.reconnectCount > 0 /\ s.active
    BY <2>1, <2>3
  <2>4. CASE s.reconnectCount # 0 /\ ~(s.reconnectCount > 0 /\ s.active)
    BY <2>1, <2>4
  <2> QED
    BY <2>1, <2>2, <2>3, <2>4
<1> HIDE DEF l
<1>3. c \in Page /\ Same(s, c) /\ t \in Page /\ Same(c, t)
  BY <1>1, <1>2, ClosedUpdate
<1>4. \/ OnSocketClose(s) = t
      \/ OnSocketClose(s) = EnterViewMode(r)
  BY DEF OnSocketClose, l
<1> HIDE DEF c, t
<1>5. Sound(c) /\ Sound(t)
  <2>1. Sound(c)
    BY <1>3, SoundFrame
  <2> QED
    BY <1>3, <2>1, SoundFrame
<1>6. d \in Page /\ Same(c, d)
  BY <1>3, LostUpdate
<1> HIDE DEF d
<1>7. Sound(r)
  BY <1>5, <1>6, ResetSound DEF Sound, IdleDialog, Same
<1> HIDE DEF r
<1>8. Sound(EnterViewMode(r))
  BY <1>7, EnterViewModeSound
<1> QED
  BY <1>4, <1>8, <1>5

-----------------------------------------------------------------------------
(* The messages of coolwsd.                                                *)

\* closeAll on a page whose dialog is where it has to be.
LEMMA CloseAllKeeps ==
  ASSUME NEW s, Sound(s)
  PROVE  Sound(CloseAll(s))
BY CloseAllSound DEF Sound, Typed, Bounded, IdleDialog

\* "progress: ready".
LEMMA OnReadySound ==
  ASSUME NEW s, Sound(s)
  PROVE  Sound(OnReady(s))
<1>1. OnReady(s) \in Page /\ Same(s, OnReady(s))
  BY DEF OnReady, Sound, Typed, Page, Same
<1> QED
  BY <1>1, SoundFrame

\* "perm:".
LEMMA OnPermMsgSound ==
  ASSUME NEW s, Sound(s)
  PROVE  Sound(OnPermMsg(s))
<1>1. s \in Page
  BY DEF Sound, Typed
<1>2. \A e \in BOOLEAN : LET t == [s EXCEPT !.editMode = e]
                         IN  t \in Page /\ Same(s, t)
  BY <1>1 DEF Page, Same
<1>3. OnPermMsg(s) = [s EXCEPT !.editMode = s.editMode \/ s.docLayer]
  BY <1>1 DEF OnPermMsg, Page
<1>4. (s.editMode \/ s.docLayer) \in BOOLEAN
  OBVIOUS
<1>5. OnPermMsg(s) \in Page /\ Same(s, OnPermMsg(s))
  BY <1>2, <1>3, <1>4
<1> QED
  BY <1>5, SoundFrame

\* _onStatusMsg, of a first and of a resumed document.
LEMMA OnStatusMsgSound ==
  ASSUME NEW s, Sound(s)
  PROVE  Sound(OnStatusMsg(s))
<1> DEFINE f == [s EXCEPT !.docLayer = TRUE, !.editMode = TRUE]
           c == CloseAll(ResetReconnectTransientState(s))
           g == [c EXCEPT !.editMode = TRUE]
           restored == IF ~s.docLayer THEN f
                       ELSE IF s.reconnecting THEN g ELSE s
           d == [restored EXCEPT !.docLoaded = TRUE, !.docLoadedOnce = TRUE]
           a == Activate(d)
           t == [a EXCEPT !.reconnecting = FALSE]
<1>1. s \in Page
  BY DEF Sound, Typed
<1>2. Sound(f)
  <2>1. f \in Page /\ Same(s, f)
    BY <1>1 DEF Page, Same
  <2> QED
    BY <2>1, SoundFrame
<1>3. Sound(g)
  <2>1. Sound(ResetReconnectTransientState(s))
    BY <1>1, ResetSound DEF Sound, IdleDialog
  <2>2. Sound(c)
    BY <2>1, CloseAllKeeps
  <2> HIDE DEF c
  <2>3. g \in Page /\ Same(c, g)
    BY <2>2 DEF Sound, Typed, Page, Same
  <2> QED
    BY <2>2, <2>3, SoundFrame
<1>4. OnStatusMsg(s) = t
  BY DEF OnStatusMsg
<1> HIDE DEF f, g
<1>5. Sound(restored)
  BY <1>2, <1>3
<1> HIDE DEF restored
<1>6. Sound(d) /\ d \in Page
  <2>1. d \in Page /\ Same(restored, d)
    BY <1>5 DEF Sound, Typed, Page, Same
  <2> QED
    BY <1>5, <2>1, SoundFrame
<1> HIDE DEF d
<1>7. Sound(a) /\ a \in Page
  BY <1>6, ActivateSound, SoundFrame
<1> HIDE DEF a
<1>8. t \in Page /\ Same(a, t)
  BY <1>7 DEF Page, Same
<1> QED
  BY <1>4, <1>7, <1>8, SoundFrame

\* "close: idle": whatever dialog was there, one is there afterwards.
LEMMA OnIdleSound ==
  ASSUME NEW s, Sound(s)
  PROVE  Sound(OnIdle(s))
<1> DEFINE t == [s EXCEPT !.documentIdle = TRUE]
<1>1. t \in Page /\ t.msgQueue = s.msgQueue
  BY DEF Sound, Typed, Page
<1>2. OnIdle(s) = Dim(CloseAll(t))
  BY DEF OnIdle
<1> HIDE DEF t
<1>3. Typed(CloseAll(t))
  BY <1>1, CloseAllSound DEF Sound, Typed, Bounded
<1> QED
  BY <1>2, <1>3, DimSound

\* "close: shuttingdown".
LEMMA OnShuttingDownSound ==
  ASSUME NEW s, Sound(s)
  PROVE  Sound(OnShuttingDown(s))
<1> DEFINE t == [s EXCEPT !.active = FALSE, !.serverRecycling = TRUE]
<1>1. t \in Page /\ Same(s, t)
  BY DEF Sound, Typed, Page, Same
<1>2. OnShuttingDown(s) = CloseAll(t)
  BY DEF OnShuttingDown
<1> HIDE DEF t
<1> QED
  BY <1>1, <1>2, SoundFrame, CloseAllKeeps

\* "close: recycling".
LEMMA OnRecyclingSound ==
  ASSUME NEW s, Sound(s)
  PROVE  Sound(OnRecycling(s))
<1> DEFINE o == OnShuttingDown(s)
           t == [o EXCEPT !.timer = "loadDocument"]
<1>1. Sound(o)
  BY OnShuttingDownSound
<1>2. OnRecycling(s) = t
  BY DEF OnRecycling
<1> HIDE DEF o
<1>3. t \in Page /\ Same(o, t)
  BY <1>1 DEF Sound, Typed, Page, Same
<1> QED
  BY <1>1, <1>2, <1>3, SoundFrame

\* The messages upon which the page closes the connection itself.
LEMMA OnClosingSound ==
  ASSUME NEW s, Sound(s)
  PROVE  /\ Sound(OnReload(s))
         /\ Sound(OnDocUnloading(s))
         /\ Sound(OnInternalError(s))
<1> DEFINE c == Close(s)
           u == [c EXCEPT !.active = FALSE, !.timer = "activate"]
           n == c.reconnectCount + 1
           l == IF s.reconnectCount >= MaxReconnects THEN "none" ELSE "activate"
           v == [c EXCEPT !.active = FALSE, !.reconnectCount = n, !.timer = l]
           w == [c EXCEPT !.fatal = TRUE]
<1>1. Sound(c) /\ c \in Page
  BY CloseSound, SoundFrame DEF Sound, Typed
<1>2. /\ OnReload(s) = CloseAll(u)
      /\ OnDocUnloading(s) = v
      /\ OnInternalError(s) = w
  BY DEF OnReload, OnDocUnloading, OnInternalError
<1> HIDE DEF c
<1>3. u \in Page /\ Same(c, u)
  BY <1>1 DEF Page, Same
<1>4. v \in Page /\ Same(c, v)
  <2>1. n \in Nat /\ l \in {"none", "activate", "loadDocument"}
    BY <1>1 DEF Page
  <2> HIDE DEF n, l
  <2> QED
    BY <1>1, <2>1 DEF Page, Same
<1>5. w \in Page /\ Same(c, w)
  BY <1>1 DEF Page, Same
<1> HIDE DEF u, v, w
<1>6. Sound(u) /\ Sound(v) /\ Sound(w)
  BY <1>1, <1>3, <1>4, <1>5, SoundFrame
<1> QED
  BY <1>2, <1>6, CloseAllKeeps

\* Every message of coolwsd.
LEMMA OnMessageSound ==
  ASSUME NEW s, Sound(s), NEW m \in ServerMsg
  PROVE  Sound(OnMessage(s, m))
<1>1. \/ m = "ready" /\ OnMessage(s, m) = OnReady(s)
      \/ m = "perm" /\ OnMessage(s, m) = OnPermMsg(s)
      \/ m = "status" /\ OnMessage(s, m) = OnStatusMsg(s)
      \/ m = "idle" /\ OnMessage(s, m) = OnIdle(s)
      \/ m = "recycling" /\ OnMessage(s, m) = OnRecycling(s)
      \/ m = "shuttingdown" /\ OnMessage(s, m) = OnShuttingDown(s)
      \/ m = "documentconflict" /\ OnMessage(s, m) = OnReload(s)
      \/ m = "docunloading" /\ OnMessage(s, m) = OnDocUnloading(s)
      \/ m = "internal" /\ OnMessage(s, m) = OnInternalError(s)
  BY DEF OnMessage, ServerMsg
<1> QED
  BY <1>1, OnReadySound, OnPermMsgSound, OnStatusMsgSound, OnIdleSound,
     OnRecyclingSound, OnShuttingDownSound, OnClosingSound

-----------------------------------------------------------------------------
(* The steps of the page, of coolwsd and of the network.                   *)

IInv == Sound(socket) /\ spent \in [Interference -> Nat]

\* The budget stays a count of each kind.
LEMMA SpendType ==
  ASSUME spent \in [Interference -> Nat], NEW i \in Interference, Spend(i)
  PROVE  spent' \in [Interference -> Nat]
BY DEF Spend

\* That the user is back is history.
LEMMA BackSound ==
  ASSUME NEW s, Sound(s)
  PROVE  Sound(Back(s))
<1>1. Back(s) \in Page /\ Same(s, Back(s))
  BY DEF Back, Sound, Typed, Page, Same
<1> QED
  BY <1>1, SoundFrame

\* What the user does.
LEMMA UserSound ==
  ASSUME IInv,
         \/ \E class \in InputClass, recently \in BOOLEAN :
               UserInput(class, recently)
         \/ Focus \/ Hover \/ Inactivity \/ Blur
  PROVE  IInv'
<1>1. Sound(socket) /\ spent \in [Interference -> Nat] /\ Sound(Back(socket))
  BY BackSound DEF IInv
<1>2. ASSUME NEW class \in InputClass, NEW recently \in BOOLEAN,
             UserInput(class, recently)
      PROVE  IInv'
  <2> DEFINE m == [n |-> spent["inputs"] + 1, class |-> class]
  <2>1. m \in Input
    BY <1>1 DEF Input, Interference
  <2>2. spent' \in [Interference -> Nat]
    BY <1>1, <1>2, SpendType DEF UserInput, Interference
  <2>3. socket' = SendMessage(Back(socket), m, recently)
    BY <1>2 DEF UserInput
  <2> HIDE DEF m
  <2>4. Sound(socket')
    BY <1>1, <2>1, <2>3, SendMessageSound
  <2> QED
    BY <2>2, <2>4 DEF IInv, Sound, Typed, Bounded, IdleDialog
<1>3. CASE Focus
  <2>1. socket' = Activate(Back(socket)) /\ UNCHANGED spent
    BY <1>3 DEF Focus, Callback
  <2>2. Sound(socket')
    BY <1>1, <2>1, ActivateSound, SoundFrame DEF Sound, Typed
  <2> QED
    BY <1>1, <2>1, <2>2 DEF IInv, Sound, Typed, Bounded, IdleDialog
<1>4. CASE Hover
  <2>1. socket' = CloseAll(RestartConnection(Back(socket))) /\ UNCHANGED spent
    BY <1>4 DEF Hover, Callback
  <2>2. Sound(socket')
    BY <1>1, <2>1, RestartConnectionSound, CloseAllKeeps DEF Sound
  <2> QED
    BY <1>1, <2>1, <2>2 DEF IInv, Sound, Typed, Bounded, IdleDialog
<1>5. CASE Inactivity
  <2>1. Sound(socket')
    BY <1>1, <1>5, DimSound DEF Inactivity, Sound
  <2>2. spent' \in [Interference -> Nat]
    BY <1>1, <1>5, SpendType DEF Inactivity, Interference
  <2> QED
    BY <2>1, <2>2 DEF IInv, Sound, Typed, Bounded, IdleDialog
<1>6. CASE Blur
  <2>1. socket' \in Page /\ Same(socket, socket')
    BY <1>1, <1>6 DEF Blur, Sound, Typed, Page, Same
  <2>2. Sound(socket')
    BY <1>1, <2>1, SoundFrame
  <2>3. spent' \in [Interference -> Nat]
    BY <1>1, <1>6, SpendType DEF Blur, Interference
  <2> QED
    BY <2>2, <2>3 DEF IInv, Sound, Typed, Bounded, IdleDialog
<1> QED
  BY <1>2, <1>3, <1>4, <1>5, <1>6

\* The fields that _slurpMessage assigns.
LEMMA SlurpUpdate ==
  ASSUME NEW s \in Page, NEW e \in Seq(ServerMsg), NEW f \in Seq(ServerMsg)
  PROVE  LET t == [s EXCEPT !.incoming = e, !.slurpTimer = TRUE, !.slurpQueue = f]
         IN  t \in Page /\ Same(s, t)
BY DEF Page, Same

\* The queue of slurped messages.
LEMMA SlurpQueueUpdate ==
  ASSUME NEW s \in Page, NEW e \in Seq(ServerMsg)
  PROVE  LET t == [s EXCEPT !.slurpQueue = e] IN t \in Page /\ Same(s, t)
BY DEF Page, Same

\* The fields that begin and end a transaction.
LEMMA TransactionUpdate ==
  ASSUME NEW s \in Page, NEW x \in BOOLEAN, NEW y \in BOOLEAN
  PROVE  /\ LET t == [s EXCEPT !.slurpTimer = FALSE,
                               !.slurpDuringTransaction = TRUE]
            IN  t \in Page /\ Same(s, t)
         /\ LET t == [s EXCEPT !.slurpTimer = FALSE, !.emitting = TRUE,
                               !.inLayerTransaction = x]
            IN  t \in Page /\ Same(s, t)
         /\ LET t == [s EXCEPT !.inLayerTransaction = FALSE,
                               !.slurpDuringTransaction = FALSE, !.slurpTimer = y]
            IN  t \in Page /\ Same(s, t)
         /\ LET t == [s EXCEPT !.emitting = FALSE] IN t \in Page /\ Same(s, t)
<1>1. LET t == [s EXCEPT !.slurpTimer = FALSE, !.slurpDuringTransaction = TRUE]
      IN  t \in Page /\ Same(s, t)
  BY DEF Page, Same
<1>2. LET t == [s EXCEPT !.slurpTimer = FALSE, !.emitting = TRUE,
                         !.inLayerTransaction = x]
      IN  t \in Page /\ Same(s, t)
  BY DEF Page, Same
<1>3. LET t == [s EXCEPT !.inLayerTransaction = FALSE,
                         !.slurpDuringTransaction = FALSE, !.slurpTimer = y]
      IN  t \in Page /\ Same(s, t)
  BY DEF Page, Same
<1>4. LET t == [s EXCEPT !.emitting = FALSE] IN t \in Page /\ Same(s, t)
  BY DEF Page, Same
<1> QED
  BY <1>1, <1>2, <1>3, <1>4

\* The end of a transaction.
LEMMA CompleteCallbackSound ==
  ASSUME NEW s, Sound(s)
  PROVE  Sound(CompleteCallback(s))
<1>1. s \in Page
  BY DEF Sound, Typed
<1>2. (s.slurpTimer \/ s.slurpDuringTransaction) \in BOOLEAN
  OBVIOUS
<1>3. CompleteCallback(s) =
        [s EXCEPT !.inLayerTransaction = FALSE, !.slurpDuringTransaction = FALSE,
                  !.slurpTimer = s.slurpTimer \/ s.slurpDuringTransaction]
  BY <1>1 DEF CompleteCallback, Page
<1>4. CompleteCallback(s) \in Page /\ Same(s, CompleteCallback(s))
  BY <1>1, <1>2, <1>3, TransactionUpdate
<1> QED
  BY <1>4, SoundFrame

\* Slurping and emitting messages.
LEMMA SlurpSound ==
  ASSUME IInv,
         \/ SlurpMessage \/ SlurpTimer
         \/ EmitMessage \/ EmitEnd \/ TransactionEnds
  PROVE  IInv'
<1>1. Sound(socket) /\ spent \in [Interference -> Nat] /\ socket \in Page
  BY DEF IInv, Sound, Typed
<1>2. socket.incoming \in Seq(ServerMsg) /\ socket.slurpQueue \in Seq(ServerMsg)
  BY <1>1 DEF Page
<1>3. CASE SlurpMessage
  <2> DEFINE e == Tail(socket.incoming)
             f == Append(socket.slurpQueue, Head(socket.incoming))
  <2>1. e \in Seq(ServerMsg) /\ f \in Seq(ServerMsg)
    BY <1>2, <1>3 DEF SlurpMessage
  <2>2. /\ socket' = [socket EXCEPT !.incoming = e, !.slurpTimer = TRUE,
                                    !.slurpQueue = f]
        /\ UNCHANGED spent
    BY <1>3 DEF SlurpMessage, Callback
  <2> HIDE DEF e, f
  <2>3. socket' \in Page /\ Same(socket, socket')
    BY <1>1, <2>1, <2>2, SlurpUpdate
  <2>4. Sound(socket')
    BY <1>1, <2>3, SoundFrame
  <2> QED
    BY <1>1, <2>2, <2>4 DEF IInv, Sound, Typed, Bounded, IdleDialog
<1>4. CASE SlurpTimer
  <2>1. socket.docLayer \in BOOLEAN
    BY <1>1 DEF Page
  <2>2. /\ \/ socket' = [socket EXCEPT !.slurpTimer = FALSE,
                                       !.slurpDuringTransaction = TRUE]
           \/ socket' = [socket EXCEPT !.slurpTimer = FALSE, !.emitting = TRUE,
                                       !.inLayerTransaction = socket.docLayer]
        /\ UNCHANGED spent
    BY <1>4 DEF SlurpTimer, Callback
  <2>3. socket' \in Page /\ Same(socket, socket')
    BY <1>1, <2>1, <2>2, TransactionUpdate
  <2>4. Sound(socket')
    BY <1>1, <2>3, SoundFrame
  <2> QED
    BY <1>1, <2>2, <2>4 DEF IInv, Sound, Typed, Bounded, IdleDialog
<1>5. CASE EmitMessage
  <2> DEFINE q == Tail(socket.slurpQueue)
             t == [socket EXCEPT !.slurpQueue = q]
  <2>1. Head(socket.slurpQueue) \in ServerMsg /\ q \in Seq(ServerMsg)
    BY <1>2, <1>5 DEF EmitMessage
  <2>2. socket' = OnMessage(t, Head(socket.slurpQueue)) /\ UNCHANGED spent
    BY <1>5 DEF EmitMessage
  <2> HIDE DEF q
  <2>3. t \in Page /\ Same(socket, t)
    BY <1>1, <2>1, SlurpQueueUpdate
  <2> HIDE DEF t
  <2>4. Sound(t)
    BY <1>1, <2>3, SoundFrame
  <2>5. Sound(socket')
    BY <2>1, <2>2, <2>4, OnMessageSound
  <2> QED
    BY <1>1, <2>2, <2>5 DEF IInv, Sound, Typed, Bounded, IdleDialog
<1>6. CASE EmitEnd
  <2> DEFINE c == CompleteCallback(socket)
  <2>1. Sound(c) /\ c \in Page
    BY <1>1, CompleteCallbackSound DEF Sound, Typed
  <2>2. /\ \/ socket' = [c EXCEPT !.emitting = FALSE]
           \/ socket' = [socket EXCEPT !.emitting = FALSE]
        /\ UNCHANGED spent
    BY <1>6 DEF EmitEnd
  <2> HIDE DEF c
  <2>3. \/ socket' \in Page /\ Same(c, socket')
        \/ socket' \in Page /\ Same(socket, socket')
    BY <1>1, <2>1, <2>2, TransactionUpdate
  <2>4. Sound(socket')
    BY <1>1, <2>1, <2>3, SoundFrame
  <2> QED
    BY <1>1, <2>2, <2>4 DEF IInv, Sound, Typed, Bounded, IdleDialog
<1>7. CASE TransactionEnds
  <2>1. socket' = CompleteCallback(socket) /\ UNCHANGED spent
    BY <1>7 DEF TransactionEnds, Callback
  <2>2. Sound(socket')
    BY <1>1, <2>1, CompleteCallbackSound
  <2> QED
    BY <1>1, <2>1, <2>2 DEF IInv, Sound, Typed, Bounded, IdleDialog
<1> QED
  BY <1>3, <1>4, <1>5, <1>6, <1>7

\* Reconnecting, and the dialog that leaves the page.
LEMMA ReconnectSound ==
  ASSUME IInv,
         \/ ReconnectTimer \/ Open \/ CloseEvent \/ DimRemoved
         \/ Interval \/ ConnectFails
  PROVE  IInv'
<1>1. Sound(socket) /\ spent \in [Interference -> Nat] /\ socket \in Page
  BY DEF IInv, Sound, Typed
<1>2. CASE ReconnectTimer
  <2> DEFINE s == [socket EXCEPT !.reconnectTimer = FALSE]
             t == [s EXCEPT !.reconnecting = TRUE]
  <2>1. /\ socket' = s \/ socket' = Activate(t)
        /\ UNCHANGED spent
    BY <1>2 DEF ReconnectTimer, Callback
  <2>2. s \in Page /\ Same(socket, s)
    BY <1>1 DEF Page, Same
  <2> HIDE DEF s
  <2>3. t \in Page /\ Same(s, t)
    BY <2>2 DEF Page, Same
  <2> HIDE DEF t
  <2>4. Sound(s) /\ Sound(t) /\ Sound(Activate(t))
    <3>1. Sound(s)
      BY <1>1, <2>2, SoundFrame
    <3>2. Sound(t)
      BY <2>3, <3>1, SoundFrame
    <3> QED
      BY <2>3, <3>1, <3>2, ActivateSound, SoundFrame
  <2> QED
    BY <1>1, <2>1, <2>4 DEF IInv, Sound, Typed, Bounded, IdleDialog
<1>3. CASE Open
  <2>1. socket' = OnSocketOpen(socket) /\ UNCHANGED spent
    BY <1>3 DEF Open, Callback
  <2>2. Sound(socket')
    BY <1>1, <2>1, OnSocketOpenSound
  <2> QED
    BY <1>1, <2>1, <2>2 DEF IInv, Sound, Typed, Bounded, IdleDialog
<1>4. CASE CloseEvent
  <2>1. socket' = OnSocketClose(socket) /\ UNCHANGED spent
    BY <1>4 DEF CloseEvent, Callback
  <2>2. Sound(socket')
    BY <1>1, <2>1, OnSocketCloseSound
  <2> QED
    BY <1>1, <2>1, <2>2 DEF IInv, Sound, Typed, Bounded, IdleDialog
<1>5. CASE DimRemoved
  <2> DEFINE t == [socket EXCEPT !.dim = "none"]
  <2>1. socket' = RestartConnection(t) /\ UNCHANGED spent
    BY <1>5 DEF DimRemoved, Callback
  <2>2. t \in Page /\ t.msgQueue = socket.msgQueue
    BY <1>1 DEF Page
  <2> HIDE DEF t
  <2>3. Typed(t)
    BY <1>1, <2>2 DEF Sound, Typed, Bounded
  <2>4. Sound(socket')
    BY <2>1, <2>3, RestartConnectionSound
  <2> QED
    BY <1>1, <2>1, <2>4 DEF IInv, Sound, Typed, Bounded, IdleDialog
<1>6. CASE Interval
  <2> DEFINE t == [socket EXCEPT !.timer = "none"]
  <2>1. /\ socket' \in {Activate(socket), t, Connect(socket)}
        /\ UNCHANGED spent
    BY <1>6 DEF Interval, Callback
  <2>2. t \in Page /\ Same(socket, t)
    BY <1>1 DEF Page, Same
  <2> HIDE DEF t
  <2>3. Sound(t) /\ Sound(Activate(socket)) /\ Sound(Connect(socket))
    BY <1>1, <2>2, ActivateSound, ConnectSound, SoundFrame
  <2>4. Sound(socket')
    BY <2>1, <2>3
  <2> QED
    BY <1>1, <2>1, <2>4 DEF IInv, Sound, Typed, Bounded, IdleDialog
<1>7. CASE ConnectFails
  <2>1. socket' = OnSocketClose(socket)
    BY <1>7 DEF ConnectFails
  <2>2. Sound(socket')
    BY <1>1, <2>1, OnSocketCloseSound
  <2>3. spent' \in [Interference -> Nat]
    BY <1>1, <1>7, SpendType DEF ConnectFails, Interference
  <2> QED
    BY <2>2, <2>3 DEF IInv, Sound, Typed, Bounded, IdleDialog
<1> QED
  BY <1>2, <1>3, <1>4, <1>5, <1>6, <1>7

\* The fields that coolwsd and the network assign.
LEMMA ServerUpdate ==
  ASSUME NEW s \in Page, NEW e \in Seq(ServerMsg), NEW x \in BOOLEAN,
         NEW c \in {"none", "new", "ready", "loaded", "leaving"}
  PROVE  /\ LET t == [s EXCEPT !.incoming = e, !.up = FALSE, !.resting = x]
            IN  t \in Page /\ Same(s, t)
         /\ LET t == [s EXCEPT !.incoming = e, !.session = c]
            IN  t \in Page /\ Same(s, t)
         /\ LET t == [s EXCEPT !.up = FALSE, !.incoming = e]
            IN  t \in Page /\ Same(s, t)
         /\ LET t == [s EXCEPT !.up = FALSE] IN t \in Page /\ Same(s, t)
<1> DEFINE u == [s EXCEPT !.up = FALSE, !.incoming = e]
<1>1. u \in Page /\ Same(s, u)
  BY DEF Page, Same
<1>2. LET t == [s EXCEPT !.incoming = e, !.session = c]
      IN  t \in Page /\ Same(s, t)
  BY DEF Page, Same
<1>3. [s EXCEPT !.incoming = e, !.up = FALSE, !.resting = x] = [u EXCEPT !.resting = x]
  BY DEF Page
<1> HIDE DEF u
<1>4. [u EXCEPT !.resting = x] \in Page /\ Same(u, [u EXCEPT !.resting = x])
  BY <1>1 DEF Page, Same
<1>5. Same(s, [u EXCEPT !.resting = x])
  BY <1>1, <1>4 DEF Same
<1>6. LET t == [s EXCEPT !.incoming = e, !.up = FALSE, !.resting = x]
      IN  t \in Page /\ Same(s, t)
  BY <1>3, <1>4, <1>5, Zenon
<1>7. LET t == [s EXCEPT !.up = FALSE, !.incoming = e]
      IN  t \in Page /\ Same(s, t)
  BY <1>1, Zenon DEF u
<1>8. LET t == [s EXCEPT !.up = FALSE] IN t \in Page /\ Same(s, t)
  BY DEF Page, Same
<1> QED
  BY <1>2, <1>6, <1>7, <1>8

\* coolwsd sends a last message and ends the connection.
LEMMA SendAndCloseSound ==
  ASSUME Sound(socket), NEW m \in ServerMsg, SendAndClose(m)
  PROVE  Sound(socket')
<1> DEFINE e == Append(socket.incoming, m)
           x == (m = "idle")
<1>1. socket \in Page /\ socket.incoming \in Seq(ServerMsg)
  BY DEF Sound, Typed, Page
<1>2. e \in Seq(ServerMsg) /\ x \in BOOLEAN
  BY <1>1
<1>3. socket' = [socket EXCEPT !.incoming = e, !.up = FALSE, !.resting = x]
  BY <1>1 DEF SendAndClose, Page
<1> HIDE DEF e, x
<1>4. socket' \in Page /\ Same(socket, socket')
  BY <1>1, <1>2, <1>3, ServerUpdate
<1> QED
  BY <1>4, SoundFrame

\* What coolwsd and the network do.
LEMMA ServerSound ==
  ASSUME IInv,
         \/ ServerReady \/ Load \/ Exit
         \/ Refuse \/ CloseSession \/ ShuttingDown \/ Drop
  PROVE  IInv'
<1>1. Sound(socket) /\ spent \in [Interference -> Nat] /\ socket \in Page
  BY DEF IInv, Sound, Typed
<1>2. socket.incoming \in Seq(ServerMsg)
  BY <1>1 DEF Page
<1>3. CASE Refuse \/ CloseSession
  <2>1. /\ \E m \in ServerMsg : SendAndClose(m)
        /\ \E i \in Interference : Spend(i)
    BY <1>3 DEF Refuse, CloseSession, ServerMsg, Interference
  <2>2. Sound(socket')
    BY <1>1, <2>1, SendAndCloseSound
  <2>3. spent' \in [Interference -> Nat]
    BY <1>1, <2>1, SpendType
  <2> QED
    BY <2>2, <2>3 DEF IInv, Sound, Typed, Bounded, IdleDialog
<1>4. CASE ServerReady \/ Load \/ ShuttingDown
  <2>1. PICK e \in Seq(ServerMsg),
             c \in {"none", "new", "ready", "loaded", "leaving"} :
          socket' = [socket EXCEPT !.incoming = e, !.session = c]
    <3> DEFINE a == Append(socket.incoming, "ready")
               b == Append(socket.incoming, "shuttingdown")
               l == socket.incoming \o <<"perm", "status">>
    <3>1. a \in Seq(ServerMsg)
      BY <1>2 DEF ServerMsg
    <3>2. b \in Seq(ServerMsg)
      BY <1>2 DEF ServerMsg
    <3>3. l \in Seq(ServerMsg)
      <4>1. <<"perm", "status">> \in Seq(ServerMsg)
        BY DEF ServerMsg
      <4> QED
        BY <1>2, <4>1
    <3>4. \/ socket' = [socket EXCEPT !.incoming = a, !.session = "ready"]
          \/ socket' = [socket EXCEPT !.incoming = l, !.session = "loaded"]
          \/ socket' = [socket EXCEPT !.incoming = b, !.session = "leaving"]
      BY <1>4, Zenon DEF ServerReady, Load, ShuttingDown
    <3> HIDE DEF a, b, l
    <3> QED
      BY <3>1, <3>2, <3>3, <3>4, Zenon
  <2>2. socket' \in Page /\ Same(socket, socket')
    BY <1>1, <2>1, ServerUpdate
  <2>3. Sound(socket')
    BY <1>1, <2>2, SoundFrame
  <2>4. spent' \in [Interference -> Nat]
    BY <1>1, <1>4, SpendType DEF ServerReady, Load, ShuttingDown, Interference
  <2> QED
    BY <2>3, <2>4 DEF IInv, Sound, Typed, Bounded, IdleDialog
<1>5. CASE Exit \/ Drop
  <2>1. ASSUME Exit PROVE socket' \in Page /\ Same(socket, socket')
    <3>1. socket' = [socket EXCEPT !.up = FALSE]
      BY <2>1 DEF Exit
    <3> QED
      BY <1>1, <1>2, <3>1, ServerUpdate
  <2>2. ASSUME Drop PROVE socket' \in Page /\ Same(socket, socket')
    <3>1. PICK e \in {<<>>, socket.incoming} :
            socket' = [socket EXCEPT !.up = FALSE, !.incoming = e]
      BY <2>2, Zenon DEF Drop
    <3>2. e \in Seq(ServerMsg)
      BY <1>2, <3>1, SeqTypes
    <3>3. socket' = [socket EXCEPT !.up = FALSE, !.incoming = e]
      BY <3>1
    <3> QED
      BY <1>1, <3>2, <3>3, ServerUpdate
  <2>3. socket' \in Page /\ Same(socket, socket')
    BY <1>5, <2>1, <2>2
  <2>4. Sound(socket')
    BY <1>1, <2>3, SoundFrame
  <2>5. spent' \in [Interference -> Nat]
    BY <1>1, <1>5, SpendType DEF Exit, Drop, Interference
  <2> QED
    BY <2>4, <2>5 DEF IInv, Sound, Typed, Bounded, IdleDialog
<1> QED
  BY <1>3, <1>4, <1>5

-----------------------------------------------------------------------------
\* The first page is sound.
LEMMA InitSound == Init => IInv
<1> SUFFICES ASSUME Init PROVE IInv
  OBVIOUS
<1>1. FirstPage \in Page
  BY SeqTypes DEF FirstPage, Page
<1>2. FirstPage.msgQueue = <<>> /\ FirstPage.documentIdle = FALSE
  BY DEF FirstPage
<1>3. Sound(socket)
  BY <1>1, <1>2, SeqTypes DEF Init, Sound, Typed, Bounded, IdleDialog
<1> QED
  BY <1>3 DEF Init, IInv

\* Every step keeps the page sound.
LEMMA NextSound == IInv /\ [Next]_vars => IInv'
<1> SUFFICES ASSUME IInv, [Next]_vars PROVE IInv'
  OBVIOUS
<1>1. CASE Next
  BY <1>1, UserSound, SlurpSound, ReconnectSound, ServerSound
     DEF Next, MainThread, Coolwsd
<1>2. CASE UNCHANGED vars
  BY <1>2 DEF vars, IInv, Sound, Typed, Bounded, IdleDialog
<1> QED
  BY <1>1, <1>2

\* The handlers of the page keep its types, and what waits for the connection
\* never exceeds the limit, whatever the limit and however often the
\* connection is lost: EnqueueMessageForReconnect drops before it appends.
THEOREM SocketTypeOK == Spec => []TypeOK
<1>1. IInv => TypeOK
  BY DEF IInv, TypeOK, Sound, Typed, Bounded
<1> QED
  BY <1>1, InitSound, NextSound, PTL DEF Spec

\* A document closed for being idle always has the dialog that resumes it, so
\* that _documentIdle, which blocks _activate, is never left without a way to
\* reset it.
THEOREM IdleDialogStays == Spec => []IdleHasDialog
<1>1. IInv => IdleHasDialog
  BY DEF IInv, IdleHasDialog, Sound, IdleDialog
<1> QED
  BY <1>1, InitSound, NextSound, PTL DEF Spec

-----------------------------------------------------------------------------
(* What is sent, and what a reconnection leaves.                           *)

Sent(s) == s.sentBefore \o s.sent

NoRepeat(q) == \A i, j \in DOMAIN q : q[i].n = q[j].n => i = j
Apart(q, r) == \A i \in DOMAIN q, j \in DOMAIN r : q[i].n # r[j].n
Rising(q) == \A i, j \in DOMAIN q : i < j => q[i].n < q[j].n
AtMost(q, n) == \A i \in DOMAIN q : q[i].n <= n

\* The inputs that are not compacted are in the order they were made.
InOrder(q) ==
    \A i, j \in DOMAIN q :
       i < j => "select" \in {q[i].class, q[j].class} \/ q[i].n < q[j].n

\* Each of the first n inputs was sent, or waits, at most once; those that
\* wait do so in order, the compacted one apart; and nothing is sent before
\* the connection is open.
InputsOK(s, n) ==
    /\ NoRepeat(Sent(s)) /\ Rising(s.msgQueue)
    /\ Apart(Sent(s), s.msgQueue) /\ Apart(Sent(s), s.pointer)
    /\ Apart(s.msgQueue, s.pointer)
    /\ AtMost(Sent(s), n) /\ AtMost(s.msgQueue, n) /\ AtMost(s.pointer, n)
    /\ Len(s.pointer) <= 1
    /\ \A i \in DOMAIN s.pointer : s.pointer[i].class = "select"
    /\ InOrder(s.sent)
    /\ s.readyState = "connecting" => s.sent = <<>>

\* The message m of coolwsd is on its way to its handler.
Coming(s, m) ==
    \/ \E i \in DOMAIN s.slurpQueue : s.slurpQueue[i] = m
    \/ \E i \in DOMAIN s.incoming : s.incoming[i] = m

\* On an open connection whose document is loaded, what is not in order yet
\* will be put in order by a message that is still to be handled.
LoadOK(s) ==
    s.readyState = "open" =>
      /\ ~s.reconnectTimer
      /\ s.docLayer => s.reconnecting \/ s.editMode
      /\ s.up /\ s.session \in {"ready", "loaded"} =>
           Coming(s, "ready") \/ (s.reconnectCount = 0 /\ s.timer # "activate")
      /\ s.up /\ s.session = "loaded" =>
           Coming(s, "status") \/ (s.docLoaded /\ s.editMode /\ ~s.reconnecting)

\* A handler that sends nothing may drop what waits, and begin a connection.
SendsNothing(s, t) ==
    /\ Sent(t) = Sent(s)
    /\ t.sent = s.sent \/ t.sent = <<>>
    /\ t.msgQueue = s.msgQueue \/ t.msgQueue = <<>>
    /\ t.pointer = s.pointer \/ t.pointer = <<>>
    /\ t.readyState = "connecting" =>
          t.sent = <<>> \/ (s.readyState = "connecting" /\ t.sent = s.sent)

\* It leaves the connection as it is, or ends it.
Calm(s, t) ==
    t.readyState = "open" =>
      /\ s.readyState = "open" /\ t.session = s.session
      /\ t.up => s.up
      /\ t.incoming = s.incoming /\ t.slurpQueue = s.slurpQueue
      /\ t.reconnectTimer = s.reconnectTimer
      /\ t.reconnectCount = s.reconnectCount
      /\ t.timer = s.timer \/ t.timer # "activate"
      /\ t.docLayer = s.docLayer /\ t.docLoaded = s.docLoaded
      /\ t.editMode = s.editMode /\ t.reconnecting = s.reconnecting

Keeps(s, t) == SendsNothing(s, t) /\ Calm(s, t)

\* Two such handlers in a row are one.
LEMMA KeepsTwice ==
  ASSUME NEW s, NEW t, NEW u, Keeps(s, t), Keeps(t, u)
  PROVE  Keeps(s, u)
<1>1. SendsNothing(s, u)
  BY DEF Keeps, SendsNothing
<1>2. Calm(s, u)
  BY DEF Keeps, Calm
<1> QED
  BY <1>1, <1>2 DEF Keeps

\* The fields that the two invariants are about.
SameFields(s, t) ==
    /\ t.sentBefore = s.sentBefore /\ t.sent = s.sent
    /\ t.msgQueue = s.msgQueue /\ t.pointer = s.pointer
    /\ t.readyState = s.readyState /\ t.up = s.up /\ t.session = s.session
    /\ t.incoming = s.incoming /\ t.slurpQueue = s.slurpQueue
    /\ t.reconnectTimer = s.reconnectTimer
    /\ t.reconnectCount = s.reconnectCount /\ t.timer = s.timer
    /\ t.docLayer = s.docLayer /\ t.docLoaded = s.docLoaded
    /\ t.editMode = s.editMode /\ t.reconnecting = s.reconnecting

\* A handler that assigns none of them.
LEMMA SameKeeps ==
  ASSUME NEW s, NEW t, SameFields(s, t)
  PROVE  Keeps(s, t)
BY DEF SameFields, Keeps, SendsNothing, Calm, Sent

\* What was not sent stays unsent, and what was not repeated too.
LEMMA KeepsInputs ==
  ASSUME NEW s, NEW t, SendsNothing(s, t), NEW n \in Nat, NEW k \in Nat, n <= k,
         s \in Page, InputsOK(s, n)
  PROVE  InputsOK(t, k)
<1>1. \A q \in Seq(Input) : AtMost(q, n) => AtMost(q, k)
  <2> SUFFICES ASSUME NEW q \in Seq(Input), AtMost(q, n) PROVE AtMost(q, k)
    OBVIOUS
  <2>1. \A i \in DOMAIN q : q[i] \in Input
    BY ItemType
  <2>2. \A i \in DOMAIN q : q[i].n \in Nat
    BY <2>1 DEF Input
  <2> QED
    BY <2>2 DEF AtMost
<1>2. s.msgQueue \in Seq(Input) /\ s.pointer \in Seq(Input) /\ Sent(s) \in Seq(Input)
  <2>1. /\ s.msgQueue \in Seq(Input) /\ s.pointer \in Seq(Input)
        /\ s.sentBefore \in Seq(Input) /\ s.sent \in Seq(Input)
    BY DEF Page
  <2> QED
    BY <2>1, SeqTypes DEF Sent
<1>3. AtMost(Sent(s), k) /\ AtMost(s.msgQueue, k) /\ AtMost(s.pointer, k)
  BY <1>1, <1>2 DEF InputsOK
<1>4. /\ DOMAIN <<>> = {} /\ Len(<<>>) = 0
  OBVIOUS
<1>5. InOrder(t.sent)
  BY <1>4 DEF InputsOK, SendsNothing, InOrder
<1>6. Rising(t.msgQueue) /\ AtMost(t.msgQueue, k) /\ Apart(Sent(t), t.msgQueue)
  BY <1>3, <1>4 DEF InputsOK, SendsNothing, Rising, AtMost, Apart
<1>7. /\ Len(t.pointer) <= 1 /\ AtMost(t.pointer, k) /\ Apart(Sent(t), t.pointer)
      /\ \A i \in DOMAIN t.pointer : t.pointer[i].class = "select"
  BY <1>3, <1>4 DEF InputsOK, SendsNothing, AtMost, Apart
<1>8. Apart(t.msgQueue, t.pointer)
  BY <1>4 DEF InputsOK, SendsNothing, Apart
<1>9. t.readyState = "connecting" => t.sent = <<>>
  BY DEF InputsOK, SendsNothing
<1>10. NoRepeat(Sent(t)) /\ AtMost(Sent(t), k)
  BY <1>3 DEF InputsOK, SendsNothing
<1> QED
  BY <1>5, <1>6, <1>7, <1>8, <1>9, <1>10 DEF InputsOK

\* A connection that is left as it is needs nothing more.
LEMMA CalmLoad ==
  ASSUME NEW s, NEW t, Calm(s, t), LoadOK(s)
  PROVE  LoadOK(t)
BY DEF Calm, LoadOK, Coming

-----------------------------------------------------------------------------
(* The handlers that send nothing.                                         *)

\* close() ends the connection.
LEMMA CloseKeeps ==
  ASSUME NEW s \in Page
  PROVE  Keeps(s, Close(s)) /\ Close(s).sentBefore = s.sentBefore
<1>1. /\ Close(s).readyState = "closed"
      /\ Close(s).sent = s.sent /\ Close(s).sentBefore = s.sentBefore
      /\ Close(s).msgQueue = s.msgQueue /\ Close(s).pointer = s.pointer
  BY DEF Close, Page
<1> QED
  BY <1>1 DEF Keeps, SendsNothing, Calm, Sent

\* connect() begins one, on which nothing was sent.
LEMMA ConnectKeeps ==
  ASSUME NEW s \in Page
  PROVE  Keeps(s, Connect(s))
<1> DEFINE c == Close(s)
           f == c.sentBefore \o s.sent
           t == [c EXCEPT !.readyState = "connecting", !.up = TRUE,
                          !.session = "none", !.left = "no", !.sent = <<>>,
                          !.sentBefore = f]
<1>1. /\ c \in Page /\ Keeps(s, c) /\ c.sentBefore = s.sentBefore
      /\ Connect(s) = t
  BY CloseSound, CloseKeeps DEF Connect
<1>2. f = Sent(s) /\ Sent(s) \in Seq(Input)
  <2>1. s.sentBefore \in Seq(Input) /\ s.sent \in Seq(Input)
    BY DEF Page
  <2> QED
    BY <1>1, <2>1, SeqTypes DEF Sent
<1> HIDE DEF c, f
<1>3. /\ t.readyState = "connecting" /\ t.sent = <<>> /\ t.sentBefore = f
      /\ t.msgQueue = c.msgQueue /\ t.pointer = c.pointer
  BY <1>1 DEF Page
<1> HIDE DEF t
<1>4. f \o <<>> = f
  BY <1>2
<1>5. Sent(t) = Sent(s)
  BY <1>2, <1>3, <1>4 DEF Sent
<1> QED
  BY <1>1, <1>3, <1>5 DEF Keeps, SendsNothing, Calm

\* Dialogs have nothing to do with it.
LEMMA CloseAllFields ==
  ASSUME NEW s \in Page
  PROVE  SameFields(s, CloseAll(s)) /\ Keeps(s, CloseAll(s))
<1>1. SameFields(s, CloseAll(s))
  BY DEF CloseAll, SameFields, Page
<1> QED
  BY <1>1, SameKeeps

\* _activate connects, if at all.
LEMMA ActivateKeeps ==
  ASSUME NEW s \in Page
  PROVE  Keeps(s, Activate(s))
<1> DEFINE a == [s EXCEPT !.active = TRUE]
<1>1. SameFields(s, a) /\ SameFields(s, s)
  BY DEF SameFields, Page
<1>2. Activate(s) \in {s, a, Connect(s)}
  BY DEF Activate
<1> HIDE DEF a
<1> QED
  BY <1>1, <1>2, SameKeeps, ConnectKeeps

\* _dim shows or closes a dialog.
LEMMA DimKeeps ==
  ASSUME NEW s \in Page
  PROVE  Keeps(s, Dim(s))
<1> DEFINE a == [s EXCEPT !.active = FALSE, !.dim = "shown"]
<1>1. SameFields(s, a)
  BY DEF SameFields, Page
<1>2. Dim(s) \in {CloseAll(s), a}
  BY DEF Dim
<1> HIDE DEF a
<1> QED
  BY <1>1, <1>2, SameKeeps, CloseAllFields

\* restartConnectionFn.
LEMMA RestartConnectionKeeps ==
  ASSUME NEW s \in Page
  PROVE  Keeps(s, RestartConnection(s))
<1> DEFINE a == [s EXCEPT !.documentIdle = FALSE]
<1>1. SameFields(s, a) /\ a \in Page
  BY DEF SameFields, Page
<1>2. RestartConnection(s) = Activate(a)
  BY DEF RestartConnection
<1> HIDE DEF a
<1> QED
  BY <1>1, <1>2, SameKeeps, ActivateKeeps, KeepsTwice

\* _resetReconnectTransientState drops what waits.
LEMMA ResetKeeps ==
  ASSUME NEW s \in Page
  PROVE  LET t == ResetReconnectTransientState(s)
         IN  /\ Keeps(s, t) /\ t.msgQueue = <<>> /\ t.pointer = <<>>
             /\ t.readyState = s.readyState /\ t.sent = s.sent
             /\ t.sentBefore = s.sentBefore
<1> DEFINE t == ResetReconnectTransientState(s)
<1>1. /\ t.msgQueue = <<>> /\ t.pointer = <<>>
      /\ t.sentBefore = s.sentBefore /\ t.sent = s.sent
      /\ t.readyState = s.readyState /\ t.up = s.up /\ t.session = s.session
      /\ t.incoming = s.incoming /\ t.slurpQueue = s.slurpQueue
      /\ t.reconnectTimer = s.reconnectTimer
      /\ t.reconnectCount = s.reconnectCount /\ t.timer = s.timer
      /\ t.docLayer = s.docLayer /\ t.docLoaded = s.docLoaded
      /\ t.editMode = s.editMode /\ t.reconnecting = s.reconnecting
  BY DEF ResetReconnectTransientState, Page
<1> HIDE DEF t
<1>2. Keeps(s, t)
  BY <1>1 DEF Keeps, SendsNothing, Calm, Sent
<1> QED
  BY <1>1, <1>2 DEF t

\* _onSocketClose leaves no connection.
LEMMA OnSocketCloseKeeps ==
  ASSUME NEW s \in Page
  PROVE  Keeps(s, OnSocketClose(s))
<1> DEFINE c == [s EXCEPT !.readyState = "closed", !.up = FALSE]
           l == CASE s.reconnectCount = 0 -> "error"
                  [] s.reconnectCount > 0 /\ s.active -> "silent"
                  [] OTHER -> "no"
           t == [c EXCEPT !.left = l]
           d == [c EXCEPT !.active = FALSE, !.serverRecycling = FALSE,
                          !.docLoaded = FALSE, !.reconnectTimer = TRUE]
           r == ResetReconnectTransientState(d)
           x == CloseAll(r)
           e == [x EXCEPT !.editMode = FALSE]
<1>1. c \in Page /\ c.readyState = "closed" /\ SendsNothing(s, c)
  BY DEF Page, SendsNothing, Sent
<1>2. OnSocketClose(s) \in {t, r, e}
  BY DEF OnSocketClose, EnterViewMode
<1> HIDE DEF c, l
<1>3. t.readyState = "closed" /\ SendsNothing(c, t)
  BY <1>1 DEF Page, SendsNothing, Sent
<1>4. d \in Page /\ d.readyState = "closed" /\ SendsNothing(c, d)
  <2>1. d \in Page
    BY <1>1, LostUpdate
  <2>2. /\ d.readyState = c.readyState /\ d.sent = c.sent
        /\ d.sentBefore = c.sentBefore
        /\ d.msgQueue = c.msgQueue /\ d.pointer = c.pointer
    BY <1>1 DEF Page
  <2> HIDE DEF d
  <2> QED
    BY <1>1, <2>1, <2>2 DEF SendsNothing, Sent
<1> HIDE DEF t, d
<1>5. r \in Page /\ r.readyState = "closed" /\ SendsNothing(d, r)
  BY <1>4, ResetKeeps, ResetSound DEF Keeps, Typed
<1> HIDE DEF r
<1>6. x \in Page /\ x.readyState = "closed" /\ SendsNothing(r, x)
  BY <1>5, CloseAllFields, CloseAllSound DEF SameFields, Keeps
<1> HIDE DEF x
<1>7. e.readyState = "closed" /\ SendsNothing(x, e)
  BY <1>6 DEF Page, SendsNothing, Sent
<1> HIDE DEF e
<1>8. \A u \in {t, r, e} : u.readyState = "closed" /\ SendsNothing(s, u)
  BY <1>1, <1>3, <1>4, <1>5, <1>6, <1>7 DEF SendsNothing
<1> QED
  BY <1>2, <1>8 DEF Keeps, Calm

\* The page is not active, and will try again.
LEMMA DeactivatedType ==
  ASSUME NEW c \in Page
  PROVE  [c EXCEPT !.active = FALSE, !.timer = "activate"] \in Page
<1> DEFINE d == [c EXCEPT !.active = FALSE]
<1>1. d \in Page
  BY DEF Page
<1>2. [c EXCEPT !.active = FALSE, !.timer = "activate"] = [d EXCEPT !.timer = "activate"]
  BY DEF Page
<1> HIDE DEF d
<1>3. [d EXCEPT !.timer = "activate"] \in Page
  BY <1>1 DEF Page
<1> QED
  BY <1>2, <1>3, Zenon

\* The messages upon which a document is left alone, or closed.
LEMMA OnCloseMsgKeeps ==
  ASSUME NEW s \in Page,
         NEW t \in {OnIdle(s), OnShuttingDown(s), OnRecycling(s), OnReload(s),
                    OnDocUnloading(s), OnInternalError(s)}
  PROVE  Keeps(s, t)
<1>1. Keeps(s, OnIdle(s))
  <2> DEFINE i == [s EXCEPT !.documentIdle = TRUE]
  <2>1. i \in Page /\ SameFields(s, i) /\ OnIdle(s) = Dim(CloseAll(i))
    BY DEF SameFields, Page, OnIdle
  <2> HIDE DEF i
  <2>2. CloseAll(i) \in Page /\ Keeps(i, CloseAll(i))
    BY <2>1, CloseAllFields, CloseAllSound
  <2> QED
    BY <2>1, <2>2, SameKeeps, DimKeeps, KeepsTwice
<1>2. OnShuttingDown(s) \in Page /\ Keeps(s, OnShuttingDown(s))
  <2> DEFINE i == [s EXCEPT !.active = FALSE, !.serverRecycling = TRUE]
  <2>1. i \in Page /\ SameFields(s, i) /\ OnShuttingDown(s) = CloseAll(i)
    BY DEF SameFields, Page, OnShuttingDown
  <2> HIDE DEF i
  <2> QED
    BY <2>1, SameKeeps, CloseAllFields, CloseAllSound, KeepsTwice
<1>3. Keeps(s, OnRecycling(s))
  <2> DEFINE o == OnShuttingDown(s)
             i == [o EXCEPT !.timer = "loadDocument"]
  <2>1. OnRecycling(s) = i
    BY DEF OnRecycling
  <2> HIDE DEF o
  <2>2. Keeps(o, i)
    BY <1>2 DEF o, Page, Keeps, SendsNothing, Calm, Sent
  <2> QED
    BY <1>2, <2>1, <2>2, KeepsTwice DEF o
<1>4. Keeps(s, OnReload(s)) /\ Keeps(s, OnDocUnloading(s)) /\ Keeps(s, OnInternalError(s))
  <2> DEFINE c == Close(s)
             u == [c EXCEPT !.active = FALSE, !.timer = "activate"]
             n == c.reconnectCount + 1
             l == IF s.reconnectCount >= MaxReconnects THEN "none" ELSE "activate"
             v == [c EXCEPT !.active = FALSE, !.reconnectCount = n, !.timer = l]
             w == [c EXCEPT !.fatal = TRUE]
  <2>1. c \in Page /\ c.readyState = "closed" /\ Keeps(s, c)
    BY CloseSound, CloseKeeps DEF Close, Page
  <2>2. OnReload(s) = CloseAll(u) /\ OnDocUnloading(s) = v /\ OnInternalError(s) = w
    BY DEF OnReload, OnDocUnloading, OnInternalError
  <2> HIDE DEF c, n, l
  <2>3. u \in Page /\ Keeps(c, u)
    <3>1. u \in Page
      BY <2>1, DeactivatedType
    <3>2. /\ u.readyState = c.readyState /\ u.sent = c.sent
          /\ u.sentBefore = c.sentBefore
          /\ u.msgQueue = c.msgQueue /\ u.pointer = c.pointer
      BY <2>1 DEF Page
    <3> HIDE DEF u
    <3> QED
      BY <2>1, <3>1, <3>2 DEF Keeps, SendsNothing, Calm, Sent
  <2>4. Keeps(c, v) /\ Keeps(c, w)
    BY <2>1 DEF Page, Keeps, SendsNothing, Calm, Sent
  <2> HIDE DEF u, v, w
  <2> QED
    BY <2>1, <2>2, <2>3, <2>4, CloseAllFields, KeepsTwice
<1> QED
  BY <1>1, <1>2, <1>3, <1>4

\* The invariant while the message m is being handled.
LoadBut(s, m) ==
    s.readyState = "open" =>
      /\ ~s.reconnectTimer
      /\ s.docLayer => s.reconnecting \/ s.editMode
      /\ s.up /\ s.session \in {"ready", "loaded"} =>
           \/ m = "ready" \/ Coming(s, "ready")
           \/ s.reconnectCount = 0 /\ s.timer # "activate"
      /\ s.up /\ s.session = "loaded" =>
           \/ m = "status" \/ Coming(s, "status")
           \/ s.docLoaded /\ s.editMode /\ ~s.reconnecting

\* "ready" and "perm:" put in order what they are about.
LEMMA ReadyKeeps ==
  ASSUME NEW s \in Page
  PROVE  /\ SendsNothing(s, OnReady(s)) /\ SendsNothing(s, OnPermMsg(s))
         /\ LoadBut(s, "ready") => LoadOK(OnReady(s))
         /\ LoadBut(s, "perm") => LoadOK(OnPermMsg(s))
<1> DEFINE t == OnReady(s)
           e == s.editMode \/ s.docLayer
           u == [s EXCEPT !.editMode = e]
<1>1. /\ t.reconnectCount = 0 /\ t.timer = "none"
      /\ t.sentBefore = s.sentBefore /\ t.sent = s.sent
      /\ t.msgQueue = s.msgQueue /\ t.pointer = s.pointer
      /\ t.readyState = s.readyState /\ t.up = s.up /\ t.session = s.session
      /\ t.incoming = s.incoming /\ t.slurpQueue = s.slurpQueue
      /\ t.reconnectTimer = s.reconnectTimer
      /\ t.docLayer = s.docLayer /\ t.docLoaded = s.docLoaded
      /\ t.editMode = s.editMode /\ t.reconnecting = s.reconnecting
  BY DEF OnReady, Page
<1>2. OnPermMsg(s) = u
  BY DEF OnPermMsg, Page
<1> HIDE DEF t, e
<1>3. /\ u.editMode = e
      /\ u.sentBefore = s.sentBefore /\ u.sent = s.sent
      /\ u.msgQueue = s.msgQueue /\ u.pointer = s.pointer
      /\ u.readyState = s.readyState /\ u.up = s.up /\ u.session = s.session
      /\ u.incoming = s.incoming /\ u.slurpQueue = s.slurpQueue
      /\ u.reconnectTimer = s.reconnectTimer
      /\ u.reconnectCount = s.reconnectCount /\ u.timer = s.timer
      /\ u.docLayer = s.docLayer /\ u.docLoaded = s.docLoaded
      /\ u.reconnecting = s.reconnecting
  BY DEF Page
<1> HIDE DEF u
<1>4. SendsNothing(s, t) /\ SendsNothing(s, u)
  BY <1>1, <1>3 DEF SendsNothing, Sent
<1>5. LoadBut(s, "ready") => LoadOK(t)
  BY <1>1 DEF LoadBut, LoadOK, Coming
<1>6. u.editMode <=> s.editMode \/ s.docLayer
  BY <1>3 DEF e
<1>7. LoadBut(s, "perm") => LoadOK(u)
  BY <1>3, <1>6 DEF LoadBut, LoadOK, Coming
<1> QED
  BY <1>2, <1>4, <1>5, <1>7 DEF t

\* "status:" puts the rest in order.
LEMMA OnStatusMsgKeeps ==
  ASSUME NEW s, Sound(s)
  PROVE  /\ SendsNothing(s, OnStatusMsg(s))
         /\ LoadBut(s, "status") => LoadOK(OnStatusMsg(s))
<1> DEFINE f == [s EXCEPT !.docLayer = TRUE, !.editMode = TRUE]
           r == ResetReconnectTransientState(s)
           c == CloseAll(r)
           g == [c EXCEPT !.editMode = TRUE]
           restored == IF ~s.docLayer THEN f
                       ELSE IF s.reconnecting THEN g ELSE s
           d == [restored EXCEPT !.docLoaded = TRUE, !.docLoadedOnce = TRUE]
           a == Activate(d)
           t == [a EXCEPT !.reconnecting = FALSE]
<1>1. s \in Page /\ OnStatusMsg(s) = t
  BY DEF Sound, Typed, OnStatusMsg
<1>2. /\ f \in Page /\ SendsNothing(s, f) /\ f.docLayer /\ f.editMode
      /\ f.readyState = s.readyState /\ f.reconnectTimer = s.reconnectTimer
      /\ f.up = s.up /\ f.session = s.session
      /\ f.incoming = s.incoming /\ f.slurpQueue = s.slurpQueue
      /\ f.reconnectCount = s.reconnectCount /\ f.timer = s.timer
  BY <1>1 DEF Page, SendsNothing, Sent
<1>3. c \in Page /\ Keeps(s, c) /\ c.readyState = s.readyState
  <2>1. r \in Page /\ Keeps(s, r) /\ r.readyState = s.readyState
    BY <1>1, ResetKeeps, ResetSound DEF Typed
  <2> HIDE DEF r
  <2> QED
    BY <2>1, CloseAllFields, CloseAllSound, KeepsTwice DEF SameFields
<1> HIDE DEF f, c
<1>4. /\ g \in Page /\ SendsNothing(s, g) /\ g.editMode /\ g.docLayer = c.docLayer
      /\ g.readyState = c.readyState /\ g.reconnectTimer = c.reconnectTimer
      /\ g.up = c.up /\ g.session = c.session
      /\ g.incoming = c.incoming /\ g.slurpQueue = c.slurpQueue
      /\ g.reconnectCount = c.reconnectCount /\ g.timer = c.timer
  <2>1. /\ g \in Page /\ SendsNothing(c, g) /\ g.editMode /\ g.docLayer = c.docLayer
        /\ g.readyState = c.readyState /\ g.reconnectTimer = c.reconnectTimer
        /\ g.up = c.up /\ g.session = c.session
        /\ g.incoming = c.incoming /\ g.slurpQueue = c.slurpQueue
        /\ g.reconnectCount = c.reconnectCount /\ g.timer = c.timer
    BY <1>3 DEF Page, SendsNothing, Sent
  <2> QED
    BY <1>3, <2>1 DEF Keeps, SendsNothing
<1> HIDE DEF g
<1>5. restored \in Page /\ SendsNothing(s, restored)
  BY <1>1, <1>2, <1>4 DEF SendsNothing
<1>6. ASSUME LoadBut(s, "status"), restored.readyState = "open"
      PROVE  /\ restored.docLayer /\ restored.editMode
             /\ ~restored.reconnectTimer
             /\ restored.up /\ restored.session \in {"ready", "loaded"} =>
                  \/ Coming(restored, "ready")
                  \/ restored.reconnectCount = 0 /\ restored.timer # "activate"
  <2>1. CASE ~s.docLayer
    BY <1>2, <1>6, <2>1 DEF LoadBut, Coming
  <2>2. CASE s.docLayer /\ s.reconnecting
    BY <1>3, <1>4, <1>6, <2>2 DEF LoadBut, Coming, Keeps, Calm
  <2>3. CASE s.docLayer /\ ~s.reconnecting
    BY <1>6, <2>3 DEF LoadBut
  <2> QED
    BY <2>1, <2>2, <2>3
<1> HIDE DEF restored
<1>7. /\ d \in Page /\ SendsNothing(restored, d) /\ d.docLoaded
      /\ d.docLayer = restored.docLayer /\ d.editMode = restored.editMode
      /\ d.readyState = restored.readyState /\ d.reconnectTimer = restored.reconnectTimer
      /\ d.up = restored.up /\ d.session = restored.session
      /\ d.incoming = restored.incoming /\ d.slurpQueue = restored.slurpQueue
      /\ d.reconnectCount = restored.reconnectCount /\ d.timer = restored.timer
  BY <1>5 DEF Page, SendsNothing, Sent
<1> HIDE DEF d
<1>8. a \in Page /\ Keeps(d, a)
  BY <1>7, ActivateSound, ActivateKeeps
<1> HIDE DEF a
<1>9. /\ SendsNothing(a, t) /\ ~t.reconnecting /\ t.docLoaded = a.docLoaded
      /\ t.docLayer = a.docLayer /\ t.editMode = a.editMode
      /\ t.readyState = a.readyState /\ t.reconnectTimer = a.reconnectTimer
      /\ t.up = a.up /\ t.session = a.session
      /\ t.incoming = a.incoming /\ t.slurpQueue = a.slurpQueue
      /\ t.reconnectCount = a.reconnectCount /\ t.timer = a.timer
  BY <1>8 DEF Page, SendsNothing, Sent
<1> HIDE DEF t
<1>10. SendsNothing(s, t)
  BY <1>5, <1>7, <1>8, <1>9 DEF Keeps, SendsNothing
<1>11. ASSUME LoadBut(s, "status")
       PROVE  LoadOK(t)
  <2> SUFFICES ASSUME t.readyState = "open" PROVE LoadOK(t)
    BY DEF LoadOK
  <2>1. a.readyState = "open"
    BY <1>9
  <2>2. /\ d.readyState = "open" /\ a.session = d.session
        /\ a.up => d.up
        /\ a.incoming = d.incoming /\ a.slurpQueue = d.slurpQueue
        /\ a.reconnectTimer = d.reconnectTimer
        /\ a.reconnectCount = d.reconnectCount
        /\ a.timer = d.timer \/ a.timer # "activate"
        /\ a.docLayer = d.docLayer /\ a.docLoaded = d.docLoaded
        /\ a.editMode = d.editMode
    BY <1>8, <2>1 DEF Keeps, Calm
  <2>3. /\ restored.docLayer /\ restored.editMode /\ ~restored.reconnectTimer
        /\ restored.up /\ restored.session \in {"ready", "loaded"} =>
             \/ Coming(restored, "ready")
             \/ restored.reconnectCount = 0 /\ restored.timer # "activate"
    BY <1>6, <1>7, <1>11, <2>2
  <2>4. t.docLayer /\ t.editMode /\ ~t.reconnectTimer /\ t.docLoaded /\ ~t.reconnecting
    BY <1>7, <1>9, <2>2, <2>3
  <2>5. t.incoming = restored.incoming /\ t.slurpQueue = restored.slurpQueue
    BY <1>7, <1>9, <2>2
  <2>6. Coming(restored, "ready") => Coming(t, "ready")
    BY <2>5 DEF Coming
  <2>7. /\ t.up => restored.up
        /\ t.session = restored.session
        /\ t.reconnectCount = restored.reconnectCount
        /\ t.timer = restored.timer \/ t.timer # "activate"
    BY <1>7, <1>9, <2>2
  <2> QED
    BY <2>3, <2>4, <2>6, <2>7 DEF LoadOK
<1> QED
  BY <1>1, <1>10, <1>11

-----------------------------------------------------------------------------
(* The inputs that are sent, and that wait.                                *)

\* Inputs have numbers.
LEMMA NumberType ==
  ASSUME NEW q \in Seq(Input)
  PROVE  \A i \in DOMAIN q : q[i] \in Input /\ q[i].n \in Nat
<1>1. \A i \in DOMAIN q : q[i] \in Input
  BY ItemType
<1> QED
  BY <1>1 DEF Input

\* What is sent after the rest is not sent twice if it is not part of it.
LEMMA ConcatNoRepeat ==
  ASSUME NEW p \in Seq(Input), NEW q \in Seq(Input),
         NoRepeat(p), NoRepeat(q), Apart(p, q)
  PROVE  NoRepeat(p \o q)
<1> SUFFICES ASSUME NEW i \in DOMAIN (p \o q), NEW j \in DOMAIN (p \o q),
                    (p \o q)[i].n = (p \o q)[j].n
             PROVE  i = j
  BY DEF NoRepeat
<1>1. /\ Len(p) \in Nat /\ DOMAIN p = 1..Len(p)
      /\ Len(q) \in Nat /\ DOMAIN q = 1..Len(q)
      /\ DOMAIN (p \o q) = 1..(Len(p) + Len(q))
  BY ConcatItems
<1>2. \A x \in DOMAIN (p \o q) :
        \/ x \in DOMAIN p /\ (p \o q)[x] = p[x]
        \/ x > Len(p) /\ x - Len(p) \in DOMAIN q /\ (p \o q)[x] = q[x - Len(p)]
  BY ConcatItems
<1>3. CASE i \in DOMAIN p /\ j \in DOMAIN p
  BY <1>1, <1>2, <1>3 DEF NoRepeat
<1>4. CASE i \in DOMAIN p /\ j \notin DOMAIN p
  BY <1>1, <1>2, <1>4 DEF Apart
<1>5. CASE i \notin DOMAIN p /\ j \in DOMAIN p
  BY <1>1, <1>2, <1>5 DEF Apart
<1>6. CASE i \notin DOMAIN p /\ j \notin DOMAIN p
  <2>1. i - Len(p) = j - Len(p)
    BY <1>2, <1>6 DEF NoRepeat
  <2> QED
    BY <1>1, <2>1
<1> QED
  BY <1>3, <1>4, <1>5, <1>6

\* What holds of the numbers in two queues holds of their concatenation.
LEMMA ConcatNumbers ==
  ASSUME NEW p \in Seq(Input), NEW q \in Seq(Input), NEW n
  PROVE  /\ AtMost(p, n) /\ AtMost(q, n) => AtMost(p \o q, n)
         /\ \A r \in Seq(Input) : Apart(p, r) /\ Apart(q, r) => Apart(p \o q, r)
         /\ \A r \in Seq(Input) : Apart(r, p) /\ Apart(r, q) => Apart(r, p \o q)
<1>1. \A x \in DOMAIN (p \o q) :
        \/ x \in DOMAIN p /\ (p \o q)[x] = p[x]
        \/ x > Len(p) /\ x - Len(p) \in DOMAIN q /\ (p \o q)[x] = q[x - Len(p)]
  BY ConcatItems
<1>2. AtMost(p, n) /\ AtMost(q, n) => AtMost(p \o q, n)
  BY <1>1 DEF AtMost
<1>3. \A r \in Seq(Input) : Apart(p, r) /\ Apart(q, r) => Apart(p \o q, r)
  BY <1>1 DEF Apart
<1>4. \A r \in Seq(Input) : Apart(r, p) /\ Apart(r, q) => Apart(r, p \o q)
  BY <1>1 DEF Apart
<1> QED
  BY <1>2, <1>3, <1>4

\* What waits in order waits once.
LEMMA RisingNoRepeat ==
  ASSUME NEW q \in Seq(Input), Rising(q)
  PROVE  NoRepeat(q)
<1>1. \A i \in DOMAIN q : i \in Nat /\ q[i].n \in Nat
  BY NumberType
<1> QED
  BY <1>1 DEF Rising, NoRepeat

\* The compacted input may come after those that waited.
LEMMA FlushInOrder ==
  ASSUME NEW q \in Seq(Input), NEW p \in Seq(Input), Rising(q),
         \A i \in DOMAIN p : p[i].class = "select"
  PROVE  InOrder(q \o p)
<1> SUFFICES ASSUME NEW i \in DOMAIN (q \o p), NEW j \in DOMAIN (q \o p), i < j,
                    "select" \notin {(q \o p)[i].class, (q \o p)[j].class}
             PROVE  (q \o p)[i].n < (q \o p)[j].n
  BY DEF InOrder
<1>1. \A x \in DOMAIN (q \o p) :
        \/ x \in DOMAIN q /\ (q \o p)[x] = q[x]
        \/ x > Len(q) /\ x - Len(q) \in DOMAIN p /\ (q \o p)[x] = p[x - Len(q)]
  BY ConcatItems
<1>2. i \in DOMAIN q /\ j \in DOMAIN q
  BY <1>1
<1> QED
  BY <1>1, <1>2 DEF Rising

\* A new input comes after all the others.
LEMMA NewInOrder ==
  ASSUME NEW q \in Seq(Input), NEW m \in Input, NEW n \in Nat, m.n = n + 1,
         AtMost(q, n)
  PROVE  /\ InOrder(q) => InOrder(q \o <<m>>)
         /\ Rising(q) => Rising(Append(q, m))
         /\ Apart(q, <<m>>) /\ Apart(<<m>>, q)
         /\ AtMost(Append(q, m), n + 1)
<1>1. /\ \A i \in DOMAIN q : q[i] \in Input /\ q[i].n \in Nat /\ q[i].n < m.n
      /\ Len(q) \in Nat /\ DOMAIN q = 1..Len(q)
  BY NumberType DEF AtMost
<1>2. /\ DOMAIN <<m>> = {1} /\ <<m>>[1] = m
      /\ q \o <<m>> = Append(q, m)
  OBVIOUS
<1>3. /\ DOMAIN Append(q, m) = 1..(Len(q) + 1)
      /\ \A i \in DOMAIN q : Append(q, m)[i] = q[i]
      /\ Append(q, m)[Len(q) + 1] = m
  BY AppendItems
<1>4. ASSUME NEW i \in DOMAIN Append(q, m), NEW j \in DOMAIN Append(q, m), i < j
      PROVE  /\ i \in DOMAIN q /\ Append(q, m)[i] = q[i]
             /\ j \in DOMAIN q \/ Append(q, m)[j] = m
             /\ j \in DOMAIN q => Append(q, m)[j] = q[j]
  BY <1>1, <1>3, <1>4
<1>5. InOrder(q) => InOrder(q \o <<m>>)
  BY <1>1, <1>2, <1>4 DEF InOrder
<1>6. Rising(q) => Rising(Append(q, m))
  BY <1>1, <1>4 DEF Rising
<1>7. Apart(q, <<m>>) /\ Apart(<<m>>, q)
  <2>1. \A i \in DOMAIN q : q[i].n # m.n
    BY <1>1
  <2> HIDE <1>1
  <2> QED
    BY <1>2, <2>1 DEF Apart
<1>8. AtMost(Append(q, m), n + 1)
  <2> SUFFICES ASSUME NEW i \in DOMAIN Append(q, m)
               PROVE  Append(q, m)[i].n <= n + 1
    BY DEF AtMost
  <2>1. i \in DOMAIN q \/ Append(q, m)[i] = m
    BY <1>1, <1>3
  <2> QED
    BY <1>1, <1>3, <2>1
<1> QED
  BY <1>5, <1>6, <1>7, <1>8

\* _doSend adds to what was sent.
LEMMA DoSendInputs ==
  ASSUME NEW s \in Page, NEW ms \in Seq(Input), NEW n,
         NoRepeat(Sent(s)), AtMost(Sent(s), n),
         NoRepeat(ms), AtMost(ms, n), Apart(Sent(s), ms)
  PROVE  LET t == DoSend(s, ms)
         IN  /\ Sent(t) = Sent(s) \o ms /\ NoRepeat(Sent(t)) /\ AtMost(Sent(t), n)
             /\ t.sent = s.sent \o ms /\ t.sentBefore = s.sentBefore
             /\ t.msgQueue = s.msgQueue /\ t.pointer = s.pointer
             /\ t.readyState = s.readyState
<1> DEFINE e == s.sent \o ms
           t == [s EXCEPT !.sent = e]
<1>1. s.sentBefore \in Seq(Input) /\ s.sent \in Seq(Input)
  BY DEF Page
<1>2. e \in Seq(Input) /\ Sent(s) \in Seq(Input)
  BY <1>1, SeqTypes DEF Sent
<1>3. s.sentBefore \o e = Sent(s) \o ms
  <2>1. \A a, b, c \in Seq(Input) : (a \o b) \o c = a \o (b \o c)
    OBVIOUS
  <2> QED
    BY <1>1, <2>1, Zenon DEF Sent
<1>4. DoSend(s, ms) = t
  BY DEF DoSend
<1> HIDE DEF e
<1>5. /\ t.sent = e /\ t.sentBefore = s.sentBefore
      /\ t.msgQueue = s.msgQueue /\ t.pointer = s.pointer
      /\ t.readyState = s.readyState
  BY DEF Page
<1> HIDE DEF t
<1>6. Sent(t) = Sent(s) \o ms
  BY <1>3, <1>5 DEF Sent
<1>7. NoRepeat(Sent(t)) /\ AtMost(Sent(t), n)
  BY <1>2, <1>6, ConcatNoRepeat, ConcatNumbers
<1> QED
  BY <1>4, <1>5, <1>6, <1>7 DEF e

\* What is left when a full queue loses a message is as ordered, and as far
\* from the rest, as it was.
LEMMA DropOneNumbers ==
  ASSUME NEW q \in Seq(Input), Len(q) >= 1, NEW n
  PROVE  LET d == DropOne(q)
         IN  /\ d \in Seq(Input)
             /\ Rising(q) => Rising(d)
             /\ AtMost(q, n) => AtMost(d, n)
             /\ \A r \in Seq(Input) : Apart(q, r) => Apart(d, r)
             /\ \A r \in Seq(Input) : Apart(r, q) => Apart(r, d)
<1> DEFINE d == DropOne(q)
<1>1. d \in Seq(Input) /\ Len(d) = Len(q) - 1
  BY DropOneItems
<1>2. PICK i \in 1..Len(q) : \A j \in 1..(Len(q) - 1) :
                               d[j] = q[IF j < i THEN j ELSE j + 1]
  BY DropOneItems
<1> DEFINE at(j) == IF j < i THEN j ELSE j + 1
<1> HIDE DEF d
<1>3. /\ DOMAIN d = 1..(Len(q) - 1) /\ DOMAIN q = 1..Len(q) /\ Len(q) \in Nat
  <2>1. DOMAIN d = 1..Len(d) /\ DOMAIN q = 1..Len(q) /\ Len(q) \in Nat
    BY <1>1
  <2> QED
    BY <1>1, <2>1
<1>4. \A j \in DOMAIN d : at(j) \in DOMAIN q /\ d[j] = q[at(j)]
  BY <1>2, <1>3
<1>5. \A j, k \in DOMAIN d : j < k => at(j) < at(k)
  BY <1>2, <1>3
<1> HIDE DEF at
<1>6. Rising(q) => Rising(d)
  BY <1>4, <1>5 DEF Rising
<1>7. AtMost(q, n) => AtMost(d, n)
  BY <1>4 DEF AtMost
<1>8. \A r \in Seq(Input) : Apart(q, r) => Apart(d, r)
  BY <1>4 DEF Apart
<1>9. \A r \in Seq(Input) : Apart(r, q) => Apart(r, d)
  BY <1>4 DEF Apart
<1> QED
  BY <1>1, <1>6, <1>7, <1>8, <1>9 DEF d

\* A number that is not used yet is larger than those that are.
LEMMA AtMostLater ==
  ASSUME NEW q \in Seq(Input), NEW n \in Nat, AtMost(q, n)
  PROVE  AtMost(q, n + 1)
<1>1. \A i \in DOMAIN q : q[i].n \in Nat
  BY NumberType
<1> QED
  BY <1>1 DEF AtMost

\* The parts of the invariant that a new input is added to.
LEMMA InputsTypes ==
  ASSUME NEW s \in Page
  PROVE  /\ s.msgQueue \in Seq(Input) /\ s.pointer \in Seq(Input)
         /\ s.sent \in Seq(Input) /\ s.sentBefore \in Seq(Input)
         /\ Sent(s) \in Seq(Input)
<1>1. /\ s.msgQueue \in Seq(Input) /\ s.pointer \in Seq(Input)
      /\ s.sent \in Seq(Input) /\ s.sentBefore \in Seq(Input)
  BY DEF Page
<1> QED
  BY <1>1, SeqTypes DEF Sent

\* An input that is sent at once.
LEMMA SendNew ==
  ASSUME NEW s \in Page, NEW n \in Nat, InputsOK(s, n), s.readyState = "open",
         NEW m \in Input, m.n = n + 1
  PROVE  InputsOK(DoSend(s, <<m>>), n + 1)
<1> DEFINE t == DoSend(s, <<m>>)
           k == n + 1
<1>1. /\ s.msgQueue \in Seq(Input) /\ s.pointer \in Seq(Input)
      /\ s.sent \in Seq(Input) /\ Sent(s) \in Seq(Input) /\ <<m>> \in Seq(Input)
  BY InputsTypes
<1>2. /\ AtMost(Sent(s), n) /\ AtMost(s.msgQueue, n) /\ AtMost(s.pointer, n)
      /\ AtMost(s.sent, n)
  <2>1. AtMost(Sent(s), n) /\ AtMost(s.msgQueue, n) /\ AtMost(s.pointer, n)
    BY DEF InputsOK
  <2>2. s.sentBefore \in Seq(Input)
    BY InputsTypes
  <2>3. \A a, b \in Seq(Input) : AtMost(a \o b, n) => AtMost(b, n)
    <3> SUFFICES ASSUME NEW a \in Seq(Input), NEW b \in Seq(Input),
                        AtMost(a \o b, n), NEW i \in DOMAIN b
                 PROVE  b[i].n <= n
      BY DEF AtMost
    <3>1. Len(a) + i \in DOMAIN (a \o b) /\ (a \o b)[Len(a) + i] = b[i]
      BY ConcatItems
    <3> QED
      BY <3>1 DEF AtMost
  <2>4. AtMost(s.sent, n)
    BY <1>1, <2>1, <2>2, <2>3, Zenon DEF Sent
  <2> QED
    BY <2>1, <2>4
<1>3. /\ AtMost(Sent(s), k) /\ AtMost(s.msgQueue, k) /\ AtMost(s.pointer, k)
  BY <1>1, <1>2, AtMostLater
<1>4. /\ Apart(Sent(s), <<m>>) /\ Apart(<<m>>, s.msgQueue) /\ Apart(<<m>>, s.pointer)
      /\ InOrder(s.sent \o <<m>>)
  BY <1>1, <1>2, NewInOrder DEF InputsOK
<1>5. NoRepeat(<<m>>) /\ AtMost(<<m>>, k)
  <2>1. DOMAIN <<m>> = {1} /\ <<m>>[1] = m
    OBVIOUS
  <2> QED
    BY <2>1 DEF NoRepeat, AtMost
<1> HIDE DEF k
<1>6. /\ Sent(t) = Sent(s) \o <<m>> /\ NoRepeat(Sent(t)) /\ AtMost(Sent(t), k)
      /\ t.sent = s.sent \o <<m>>
      /\ t.msgQueue = s.msgQueue /\ t.pointer = s.pointer
      /\ t.readyState = s.readyState
  BY <1>1, <1>3, <1>4, <1>5, DoSendInputs DEF InputsOK
<1> HIDE DEF t
<1>7. Apart(Sent(t), t.msgQueue) /\ Apart(Sent(t), t.pointer)
  BY <1>1, <1>4, <1>6, ConcatNumbers DEF InputsOK
<1>8. InputsOK(t, k)
  BY <1>3, <1>4, <1>6, <1>7 DEF InputsOK
<1> QED
  BY <1>8 DEF t, k

\* An input that waits for the connection.
LEMMA EnqueueNew ==
  ASSUME NEW s \in Page, NEW n \in Nat, InputsOK(s, n),
         NEW m \in Input, m.n = n + 1
  PROVE  InputsOK(EnqueueMessageForReconnect(s, m), n + 1)
<1> DEFINE q == s.msgQueue
           kept == IF Len(q) >= MsgQueueLimit THEN DropOne(q) ELSE q
           r == Append(kept, m)
           k == n + 1
<1>1. /\ q \in Seq(Input) /\ s.pointer \in Seq(Input)
      /\ Sent(s) \in Seq(Input) /\ <<m>> \in Seq(Input)
  BY InputsTypes
<1>2. AtMost(Sent(s), n) /\ AtMost(q, n) /\ AtMost(s.pointer, n)
  BY DEF InputsOK
<1>3. AtMost(Sent(s), k) /\ AtMost(q, k) /\ AtMost(s.pointer, k)
  BY <1>1, <1>2, AtMostLater
<1>4. /\ Apart(Sent(s), <<m>>) /\ Apart(<<m>>, s.pointer)
      /\ Apart(q, <<m>>)
  BY <1>1, <1>2, NewInOrder
<1>5. /\ DOMAIN <<m>> = {1} /\ <<m>>[1] = m /\ Len(<<m>>) = 1
  OBVIOUS
<1>6. AtMost(<<m>>, k)
  BY <1>5 DEF AtMost
<1>7. CASE m.class = "select"
  <2> DEFINE t == [s EXCEPT !.pointer = <<m>>]
  <2>1. EnqueueMessageForReconnect(s, m) = t
    BY <1>7 DEF EnqueueMessageForReconnect
  <2>2. /\ t.pointer = <<m>> /\ t.msgQueue = q /\ t.sent = s.sent
        /\ t.sentBefore = s.sentBefore /\ t.readyState = s.readyState
    BY DEF Page
  <2> HIDE DEF t, k, q
  <2>3. Sent(t) = Sent(s)
    BY <2>2 DEF Sent
  <2>4. Len(t.pointer) <= 1 /\ \A i \in DOMAIN t.pointer : t.pointer[i].class = "select"
    BY <1>5, <1>7, <2>2
  <2>5. InputsOK(t, k)
    BY <1>3, <1>4, <1>6, <2>2, <2>3, <2>4 DEF InputsOK, q
  <2> QED
    BY <2>1, <2>5 DEF k
<1>8. CASE m.class # "select"
  <2> DEFINE t == [s EXCEPT !.msgQueue = r]
  <2>1. EnqueueMessageForReconnect(s, m) = t
    BY <1>8 DEF EnqueueMessageForReconnect
  <2>2. /\ kept \in Seq(Input) /\ Rising(kept) /\ AtMost(kept, n)
        /\ Apart(Sent(s), kept) /\ Apart(kept, s.pointer)
    <3>1. /\ Rising(q) /\ Apart(Sent(s), q) /\ Apart(q, s.pointer)
      BY DEF InputsOK
    <3>2. CASE Len(q) >= MsgQueueLimit
      <4>1. Len(q) >= 1
        BY <1>1, <3>2, SocketAssumption
      <4> QED
        BY <1>1, <1>2, <3>1, <3>2, <4>1, DropOneNumbers
    <3>3. CASE ~(Len(q) >= MsgQueueLimit)
      BY <1>1, <1>2, <3>1, <3>3
    <3> QED
      BY <3>2, <3>3
  <2> HIDE DEF kept, q
  <2>3. Rising(r) /\ AtMost(r, k) /\ r = kept \o <<m>>
    <3>1. r = kept \o <<m>>
      BY <2>2
    <3>2. Rising(Append(kept, m)) /\ AtMost(Append(kept, m), n + 1)
      BY <2>2, NewInOrder
    <3> QED
      BY <3>1, <3>2
  <2>4. Apart(Sent(s), r) /\ Apart(r, s.pointer)
    BY <1>1, <1>4, <2>2, <2>3, ConcatNumbers
  <2> HIDE DEF r
  <2>5. /\ t.msgQueue = r /\ t.pointer = s.pointer /\ t.sent = s.sent
        /\ t.sentBefore = s.sentBefore /\ t.readyState = s.readyState
    BY DEF Page
  <2> HIDE DEF t, k
  <2>6. Sent(t) = Sent(s)
    BY <2>5 DEF Sent
  <2>7. InputsOK(t, k)
    BY <1>3, <2>3, <2>4, <2>5, <2>6 DEF InputsOK
  <2> QED
    BY <2>1, <2>7 DEF k
<1> QED
  BY <1>7, <1>8

\* The fields that say how the connection is.
Lane(s, t) ==
    /\ t.readyState = s.readyState /\ t.up = s.up /\ t.session = s.session
    /\ t.incoming = s.incoming /\ t.slurpQueue = s.slurpQueue
    /\ t.reconnectTimer = s.reconnectTimer
    /\ t.reconnectCount = s.reconnectCount /\ t.timer = s.timer
    /\ t.docLayer = s.docLayer /\ t.docLoaded = s.docLoaded
    /\ t.editMode = s.editMode /\ t.reconnecting = s.reconnecting

\* A handler that assigns none of them leaves the connection as it is.
LEMMA LaneCalm ==
  ASSUME NEW s, NEW t, Lane(s, t)
  PROVE  Calm(s, t)
BY DEF Lane, Calm

\* Sending and queueing leave the connection as it is.
LEMMA SendCalm ==
  ASSUME NEW s \in Page, NEW m
  PROVE  Calm(s, DoSend(s, m)) /\ Calm(s, EnqueueMessageForReconnect(s, m))
<1> DEFINE q == IF Len(s.msgQueue) >= MsgQueueLimit THEN DropOne(s.msgQueue)
                ELSE s.msgQueue
           r == Append(q, m)
           e == s.sent \o m
           a == [s EXCEPT !.sent = e]
           b == [s EXCEPT !.pointer = <<m>>]
           c == [s EXCEPT !.msgQueue = r]
<1>1. /\ DoSend(s, m) = a
      /\ EnqueueMessageForReconnect(s, m) \in {b, c}
  BY DEF DoSend, EnqueueMessageForReconnect
<1> HIDE DEF q, r, e
<1>2. Lane(s, a)
  BY DEF Lane, Page
<1>3. Lane(s, b)
  BY DEF Lane, Page
<1>4. Lane(s, c)
  BY DEF Lane, Page
<1> HIDE DEF a, b, c
<1> QED
  BY <1>1, <1>2, <1>3, <1>4, LaneCalm

\* sendMessage, of a new input.
LEMMA SendMessageNew ==
  ASSUME NEW s \in Page, NEW n \in Nat, InputsOK(s, n), LoadOK(s),
         NEW m \in Input, m.n = n + 1, NEW recently \in BOOLEAN
  PROVE  LET t == SendMessage(s, m, recently)
         IN  InputsOK(t, n + 1) /\ LoadOK(t)
<1> DEFINE t == SendMessage(s, m, recently)
           e == EnqueueMessageForReconnect(s, m)
           c == Connect(s)
           f == EnqueueMessageForReconnect(c, m)
<1>1. \/ t = s \/ t = e
      \/ t = DoSend(s, <<m>>) /\ s.readyState = "open"
      \/ t = f
  BY DEF SendMessage, Connected
<1> HIDE DEF t
<1>2. InputsOK(s, n + 1)
  <2>1. SendsNothing(s, s)
    BY DEF SendsNothing
  <2> QED
    BY <2>1, KeepsInputs
<1>3. InputsOK(e, n + 1) /\ LoadOK(e)
  BY EnqueueNew, SendCalm, CalmLoad
<1>4. CASE t = DoSend(s, <<m>>) /\ s.readyState = "open"
  <2>1. InputsOK(t, n + 1)
    BY <1>4, SendNew
  <2>2. LoadOK(t)
    BY <1>4, SendCalm, CalmLoad
  <2> QED
    BY <2>1, <2>2 DEF t
<1>5. InputsOK(f, n + 1) /\ LoadOK(f)
  <2>1. c \in Page /\ Keeps(s, c)
    BY ConnectSound, ConnectKeeps
  <2>2. InputsOK(c, n) /\ LoadOK(c)
    BY <2>1, KeepsInputs, CalmLoad DEF Keeps
  <2> HIDE DEF c
  <2> QED
    BY <2>1, <2>2, EnqueueNew, SendCalm, CalmLoad
<1> QED
  BY <1>1, <1>2, <1>3, <1>4, <1>5 DEF t

\* _onSocketOpen: what has waited is sent, on a connection on which nothing
\* was, and the document is to be loaded.
LEMMA OnSocketOpenOK ==
  ASSUME NEW s \in Page, NEW n \in Nat, InputsOK(s, n),
         s.readyState = "connecting", ~s.reconnectTimer
  PROVE  LET t == OnSocketOpen(s)
         IN  InputsOK(t, n) /\ LoadOK(t)
<1> DEFINE b == s.reconnecting \/ s.docLayer
           o == [s EXCEPT !.readyState = "open", !.session = "new",
                          !.serverRecycling = FALSE, !.documentIdle = FALSE,
                          !.reconnecting = b]
           ms == s.msgQueue \o s.pointer
           d == DoSend(o, ms)
           r == ResetReconnectTransientState(d)
           t == Activate(r)
<1>1. OnSocketOpen(s) = t
  <2>1. o = [s EXCEPT !.readyState = "open", !.session = "new",
                      !.serverRecycling = FALSE, !.documentIdle = FALSE,
                      !.reconnecting = @ \/ s.docLayer]
    BY DEF Page
  <2> QED
    BY <2>1 DEF OnSocketOpen
<1>2. b \in BOOLEAN /\ (s.docLayer => b = TRUE)
  OBVIOUS
<1> HIDE DEF b
<1>3. o \in Page
  BY <1>2, OpenUpdate
<1>4. /\ o.readyState = "open" /\ o.session = "new" /\ o.reconnecting = b
      /\ o.sent = s.sent /\ o.sentBefore = s.sentBefore
      /\ o.docLayer = s.docLayer /\ o.reconnectTimer = s.reconnectTimer
  BY DEF Page
<1> HIDE DEF o
<1>5. /\ s.msgQueue \in Seq(Input) /\ s.pointer \in Seq(Input)
      /\ s.sent = <<>> /\ s.sentBefore \in Seq(Input) /\ Sent(s) \in Seq(Input)
  BY InputsTypes DEF InputsOK
<1>6. Sent(o) = Sent(s)
  BY <1>4 DEF Sent
<1>7. /\ ms \in Seq(Input) /\ NoRepeat(ms) /\ AtMost(ms, n)
      /\ Apart(Sent(o), ms) /\ InOrder(ms)
  <2>1. NoRepeat(s.msgQueue)
    BY <1>5, RisingNoRepeat DEF InputsOK
  <2>2. NoRepeat(s.pointer)
    <3>1. Len(s.pointer) <= 1
      BY DEF InputsOK
    <3>2. \A i, j \in DOMAIN s.pointer : i = j
      BY <1>5, <3>1
    <3> QED
      BY <3>2 DEF NoRepeat
  <2> QED
    BY <1>5, <1>6, <2>1, <2>2, SeqTypes, ConcatNoRepeat, ConcatNumbers, FlushInOrder
       DEF InputsOK
<1>8. NoRepeat(Sent(o)) /\ AtMost(Sent(o), n)
  BY <1>6 DEF InputsOK
<1> HIDE DEF ms
<1>9. d \in Page
  BY <1>3, <1>7, DoSendSound
<1>10. /\ NoRepeat(Sent(d)) /\ AtMost(Sent(d), n)
       /\ d.sent = o.sent \o ms /\ d.readyState = o.readyState
  BY <1>3, <1>7, <1>8, DoSendInputs
<1>11. InOrder(d.sent)
  <2>1. <<>> \o ms = ms
    BY <1>7
  <2> QED
    BY <1>4, <1>5, <1>7, <1>10, <2>1
<1>12. Lane(o, d)
  <2> DEFINE e == o.sent \o ms
             x == [o EXCEPT !.sent = e]
  <2>1. d = x
    BY DEF DoSend
  <2> HIDE DEF e, d
  <2>2. Lane(o, x)
    BY <1>3 DEF Lane, Page
  <2> QED
    BY <2>1, <2>2
<1> HIDE DEF d
<1>13. r \in Page
  BY <1>9, ResetSound DEF Typed
<1>14. /\ r.msgQueue = <<>> /\ r.pointer = <<>> /\ r.sent = d.sent
       /\ r.sentBefore = d.sentBefore /\ r.readyState = d.readyState
       /\ Keeps(d, r)
  BY <1>9, ResetKeeps
<1> HIDE DEF r
<1>15. InputsOK(r, n)
  <2>1. Sent(r) = Sent(d)
    BY <1>14 DEF Sent
  <2>2. DOMAIN <<>> = {} /\ Len(<<>>) = 0
    OBVIOUS
  <2>3. /\ Rising(r.msgQueue) /\ Apart(Sent(r), r.msgQueue) /\ Apart(Sent(r), r.pointer)
        /\ Apart(r.msgQueue, r.pointer) /\ AtMost(r.msgQueue, n) /\ AtMost(r.pointer, n)
        /\ Len(r.pointer) <= 1
        /\ \A i \in DOMAIN r.pointer : r.pointer[i].class = "select"
    BY <1>14, <2>2 DEF Rising, Apart, AtMost
  <2>4. r.readyState = "open" /\ InOrder(r.sent)
    BY <1>4, <1>10, <1>11, <1>14
  <2> QED
    BY <1>10, <2>1, <2>3, <2>4 DEF InputsOK
<1>16. LoadOK(r)
  <2>1. LoadOK(d)
    <3>1. /\ d.session = "new" /\ d.reconnecting = b /\ d.docLayer = s.docLayer
          /\ d.reconnectTimer = s.reconnectTimer
      BY <1>4, <1>12 DEF Lane
    <3> QED
      BY <1>2, <3>1 DEF LoadOK
  <2> QED
    BY <1>14, <2>1, CalmLoad DEF Keeps
<1>17. Keeps(r, t)
  BY <1>13, ActivateKeeps
<1> HIDE DEF t
<1>18. InputsOK(t, n) /\ LoadOK(t)
  BY <1>13, <1>15, <1>16, <1>17, KeepsInputs, CalmLoad DEF Keeps
<1> QED
  BY <1>1, <1>18

-----------------------------------------------------------------------------
(* The steps: what is sent, and what a reconnection leaves.                *)

Orderly == InputsOK(socket, spent["inputs"]) /\ LoadOK(socket)

\* A step that makes no new input.
NoInput == spent \in [Interference -> Nat] /\ spent' \in [Interference -> Nat]
           /\ spent'["inputs"] = spent["inputs"]

\* The budget of other interference is another one.
LEMMA SpendOther ==
  ASSUME spent \in [Interference -> Nat],
         UNCHANGED spent \/ \E i \in Interference \ {"inputs"} : Spend(i)
  PROVE  NoInput
<1>1. CASE UNCHANGED spent
  BY <1>1 DEF NoInput
<1>2. ASSUME NEW i \in Interference, i # "inputs", Spend(i)
      PROVE  NoInput
  BY <1>2 DEF NoInput, Spend, Interference
<1> QED
  BY <1>1, <1>2

\* A step that sends nothing, and after which the connection is in order.
LEMMA StepOrderly ==
  ASSUME IInv, Orderly, NoInput, SendsNothing(socket, socket'), LoadOK(socket')
  PROVE  Orderly'
<1>1. socket \in Page /\ spent["inputs"] \in Nat
  BY DEF IInv, Sound, Typed, Interference
<1>2. InputsOK(socket', spent["inputs"])
  BY <1>1, KeepsInputs DEF Orderly
<1> QED
  BY <1>2 DEF Orderly, NoInput, InputsOK, LoadOK, Coming, Sent

\* A step that leaves the connection as it is, or ends it.
LEMMA KeepsOrderly ==
  ASSUME IInv, Orderly, NoInput, Keeps(socket, socket')
  PROVE  Orderly'
BY CalmLoad, StepOrderly DEF Keeps, Orderly

\* That the user is back is history.
LEMMA BackKeeps ==
  ASSUME NEW s \in Page
  PROVE  Back(s) \in Page /\ SameFields(s, Back(s)) /\ Keeps(s, Back(s))
<1>1. Back(s) \in Page
  BY DEF Back, Page
<1>2. SameFields(s, Back(s))
  BY DEF Back, SameFields, Page
<1> QED
  BY <1>1, <1>2, SameKeeps

\* What the user does: an input is new, the rest sends nothing.
LEMMA UserOrderly ==
  ASSUME IInv, Orderly,
         \/ \E class \in InputClass, recently \in BOOLEAN :
               UserInput(class, recently)
         \/ Focus \/ Hover \/ Inactivity \/ Blur
  PROVE  Orderly'
<1> DEFINE b == Back(socket)
<1>1. /\ socket \in Page /\ spent \in [Interference -> Nat]
      /\ spent["inputs"] \in Nat
  BY DEF IInv, Sound, Typed, Interference
<1>2. b \in Page /\ Keeps(socket, b)
  BY <1>1, BackKeeps
<1>3. ASSUME NEW class \in InputClass, NEW recently \in BOOLEAN,
             UserInput(class, recently)
      PROVE  Orderly'
  <2> DEFINE n == spent["inputs"]
             m == [n |-> n + 1, class |-> class]
  <2>1. /\ spent'["inputs"] = n + 1
        /\ socket' = SendMessage(b, m, recently)
    BY <1>1, <1>3 DEF UserInput, Spend, Interference
  <2> HIDE DEF b, n
  <2>2. m \in Input /\ m.n = n + 1 /\ n \in Nat
    BY <1>1 DEF Input, n
  <2>3. InputsOK(b, n) /\ LoadOK(b)
    BY <1>1, <1>2, <2>2, KeepsInputs, CalmLoad DEF Keeps, Orderly, n
  <2> HIDE DEF m
  <2>4. InputsOK(socket', n + 1) /\ LoadOK(socket')
    BY <1>2, <2>1, <2>2, <2>3, SendMessageNew
  <2> QED
    BY <2>1, <2>4 DEF Orderly, InputsOK, LoadOK, Coming, Sent
<1> HIDE DEF b
<1>4. CASE Focus
  <2>1. socket' = Activate(b) /\ UNCHANGED spent
    BY <1>4 DEF Focus, Callback, b
  <2>2. Keeps(socket, socket')
    BY <1>2, <2>1, ActivateKeeps, KeepsTwice
  <2> QED
    BY <1>1, <2>1, <2>2, SpendOther, KeepsOrderly
<1>5. CASE Hover
  <2> DEFINE r == RestartConnection(b)
  <2>1. socket' = CloseAll(r) /\ UNCHANGED spent
    BY <1>5 DEF Hover, Callback, b
  <2>2. Typed(b) /\ r \in Page /\ Keeps(b, r)
    <3>1. Typed(b)
      BY BackSound DEF IInv, Sound, b
    <3> QED
      BY <1>2, <3>1, RestartConnectionKeeps, RestartConnectionSound DEF Sound, Typed
  <2> HIDE DEF r
  <2>3. Keeps(r, socket')
    BY <2>1, <2>2, CloseAllFields
  <2>4. Keeps(socket, socket')
    BY <1>2, <2>2, <2>3, KeepsTwice
  <2> QED
    BY <1>1, <2>1, <2>4, SpendOther, KeepsOrderly
<1>6. CASE Inactivity
  <2>1. Keeps(socket, socket')
    BY <1>1, <1>6, DimKeeps DEF Inactivity
  <2>2. NoInput
    BY <1>1, <1>6, SpendOther DEF Inactivity, Interference
  <2> QED
    BY <2>1, <2>2, KeepsOrderly
<1>7. CASE Blur
  <2> DEFINE t == [socket EXCEPT !.active = FALSE]
  <2>1. socket' = t
    BY <1>7 DEF Blur
  <2>2. SameFields(socket, t)
    BY <1>1 DEF SameFields, Page
  <2> HIDE DEF t
  <2>3. Keeps(socket, socket')
    BY <2>1, <2>2, SameKeeps
  <2>4. NoInput
    BY <1>1, <1>7, SpendOther DEF Blur, Interference
  <2> QED
    BY <2>3, <2>4, KeepsOrderly
<1> QED
  BY <1>3, <1>4, <1>5, <1>6, <1>7

\* A message that is received, or handled, is not forgotten.
LEMMA ComingMoves ==
  ASSUME NEW q \in Seq(ServerMsg), NEW r \in Seq(ServerMsg), q # <<>>, NEW m
  PROVE  /\ (\E i \in DOMAIN q : q[i] = m) =>
              \/ Head(q) = m \/ \E j \in DOMAIN Tail(q) : Tail(q)[j] = m
         /\ (\E i \in DOMAIN r : r[i] = m) \/ Head(q) = m =>
              \E j \in DOMAIN Append(r, Head(q)) : Append(r, Head(q))[j] = m
<1> DEFINE h == Head(q)
<1>1. /\ Len(q) \in Nat \ {0} /\ DOMAIN q = 1..Len(q)
      /\ DOMAIN Tail(q) = 1..(Len(q) - 1)
      /\ \A i \in DOMAIN Tail(q) : i + 1 \in DOMAIN q /\ Tail(q)[i] = q[i + 1]
      /\ h = q[1] /\ h \in ServerMsg
  BY TailItems
<1>2. ASSUME NEW i \in DOMAIN q, q[i] = m
      PROVE  h = m \/ \E j \in DOMAIN Tail(q) : Tail(q)[j] = m
  <2>1. CASE i = 1
    BY <1>1, <1>2, <2>1
  <2>2. CASE i # 1
    <3>1. i - 1 \in DOMAIN Tail(q) /\ (i - 1) + 1 = i
      BY <1>1, <2>2
    <3> QED
      BY <1>1, <1>2, <3>1
  <2> QED
    BY <2>1, <2>2
<1> HIDE DEF h
<1>3. /\ DOMAIN Append(r, h) = 1..(Len(r) + 1) /\ DOMAIN r = 1..Len(r) /\ Len(r) \in Nat
      /\ \A i \in DOMAIN r : Append(r, h)[i] = r[i]
      /\ Append(r, h)[Len(r) + 1] = h
  BY <1>1, AppendItems
<1>4. (\E i \in DOMAIN r : r[i] = m) \/ h = m =>
        \E j \in DOMAIN Append(r, h) : Append(r, h)[j] = m
  BY <1>3
<1> QED
  BY <1>2, <1>4 DEF h

\* A message is handled: what it puts in order needs it no longer.
LEMMA OnMessageOrderly ==
  ASSUME NEW s, Sound(s), NEW m \in ServerMsg, LoadBut(s, m)
  PROVE  SendsNothing(s, OnMessage(s, m)) /\ LoadOK(OnMessage(s, m))
<1> DEFINE t == OnMessage(s, m)
<1>1. s \in Page
  BY DEF Sound, Typed
<1>2. CASE m = "ready"
  <2>1. t = OnReady(s)
    BY <1>2 DEF OnMessage
  <2> HIDE DEF t
  <2> QED
    BY <1>1, <1>2, <2>1, ReadyKeeps DEF t
<1>3. CASE m = "perm"
  <2>1. t = OnPermMsg(s)
    BY <1>3 DEF OnMessage
  <2> HIDE DEF t
  <2> QED
    BY <1>1, <1>3, <2>1, ReadyKeeps DEF t
<1>4. CASE m = "status"
  <2>1. t = OnStatusMsg(s)
    BY <1>4 DEF OnMessage
  <2> HIDE DEF t
  <2> QED
    BY <1>4, <2>1, OnStatusMsgKeeps DEF t
<1>5. CASE m \notin {"ready", "perm", "status"}
  <2>1. t \in {OnIdle(s), OnShuttingDown(s), OnRecycling(s), OnReload(s),
               OnDocUnloading(s), OnInternalError(s)}
    BY <1>5 DEF OnMessage, ServerMsg
  <2> HIDE DEF t
  <2>2. Keeps(s, t)
    BY <1>1, <2>1, OnCloseMsgKeeps
  <2>3. LoadOK(s)
    BY <1>5 DEF LoadBut, LoadOK
  <2> QED
    BY <2>2, <2>3, CalmLoad DEF Keeps, t
<1> QED
  BY <1>2, <1>3, <1>4, <1>5

\* The steps of _slurpMessage and _emitSlurpedEvents.
LEMMA SlurpOrderly ==
  ASSUME IInv, Orderly,
         \/ SlurpMessage \/ SlurpTimer
         \/ EmitMessage \/ EmitEnd \/ TransactionEnds
  PROVE  Orderly'
<1>1. /\ Sound(socket) /\ socket \in Page /\ spent \in [Interference -> Nat]
      /\ LoadOK(socket)
  BY DEF IInv, Sound, Typed, Orderly
<1>2. socket.incoming \in Seq(ServerMsg) /\ socket.slurpQueue \in Seq(ServerMsg)
  BY <1>1 DEF Page
<1>3. NoInput
  <2>1. UNCHANGED spent
    BY DEF SlurpMessage, SlurpTimer, EmitMessage, EmitEnd, TransactionEnds, Callback
  <2> QED
    BY <1>1, <2>1, SpendOther
<1>4. CASE SlurpMessage
  <2> DEFINE e == Tail(socket.incoming)
             f == Append(socket.slurpQueue, Head(socket.incoming))
             t == [socket EXCEPT !.incoming = e, !.slurpTimer = TRUE,
                                 !.slurpQueue = f]
  <2>1. socket' = t /\ socket.incoming # <<>>
    BY <1>4 DEF SlurpMessage, Callback
  <2>2. \A m : /\ (\E i \in DOMAIN socket.incoming : socket.incoming[i] = m) =>
                    \/ \E i \in DOMAIN e : e[i] = m
                    \/ \E i \in DOMAIN f : f[i] = m
               /\ (\E i \in DOMAIN socket.slurpQueue : socket.slurpQueue[i] = m) =>
                    \E i \in DOMAIN f : f[i] = m
    <3>1. TAKE m
    <3>2. (\E i \in DOMAIN socket.incoming : socket.incoming[i] = m) =>
            \/ Head(socket.incoming) = m \/ \E j \in DOMAIN e : e[j] = m
      BY <1>2, <2>1, ComingMoves, Zenon
    <3>3. \/ \E i \in DOMAIN socket.slurpQueue : socket.slurpQueue[i] = m
          \/ Head(socket.incoming) = m
          => \E j \in DOMAIN f : f[j] = m
      BY <1>2, <2>1, ComingMoves, Zenon
    <3> HIDE DEF e, f
    <3> QED
      BY <3>2, <3>3, Zenon
  <2> HIDE DEF e, f
  <2>3. /\ t.incoming = e /\ t.slurpQueue = f
        /\ t.sentBefore = socket.sentBefore /\ t.sent = socket.sent
        /\ t.msgQueue = socket.msgQueue /\ t.pointer = socket.pointer
        /\ t.readyState = socket.readyState /\ t.up = socket.up
        /\ t.session = socket.session
        /\ t.reconnectTimer = socket.reconnectTimer
        /\ t.reconnectCount = socket.reconnectCount /\ t.timer = socket.timer
        /\ t.docLayer = socket.docLayer /\ t.docLoaded = socket.docLoaded
        /\ t.editMode = socket.editMode /\ t.reconnecting = socket.reconnecting
    BY <1>1 DEF Page
  <2> HIDE DEF t
  <2>4. SendsNothing(socket, t)
    BY <2>3 DEF SendsNothing, Sent
  <2>5. \A m : Coming(socket, m) => Coming(t, m)
    BY <2>2, <2>3 DEF Coming
  <2>6. LoadOK(t)
    BY <1>1, <2>3, <2>5 DEF LoadOK
  <2> QED
    BY <1>3, <2>1, <2>4, <2>6, StepOrderly
<1>5. CASE EmitMessage
  <2> DEFINE h == Head(socket.slurpQueue)
             q == Tail(socket.slurpQueue)
             t == [socket EXCEPT !.slurpQueue = q]
  <2>1. socket' = OnMessage(t, h) /\ socket.slurpQueue # <<>>
    BY <1>5 DEF EmitMessage
  <2>2. h \in ServerMsg /\ q \in Seq(ServerMsg)
    BY <1>2, <2>1
  <2>3. \A m : (\E i \in DOMAIN socket.slurpQueue : socket.slurpQueue[i] = m) =>
                  h = m \/ \E i \in DOMAIN q : q[i] = m
    BY <1>2, <2>1, ComingMoves
  <2> HIDE DEF q, h
  <2>4. t \in Page /\ Same(socket, t)
    BY <1>1, <2>2, SlurpQueueUpdate
  <2>5. /\ t.slurpQueue = q /\ t.incoming = socket.incoming
        /\ t.sentBefore = socket.sentBefore /\ t.sent = socket.sent
        /\ t.msgQueue = socket.msgQueue /\ t.pointer = socket.pointer
        /\ t.readyState = socket.readyState /\ t.up = socket.up
        /\ t.session = socket.session
        /\ t.reconnectTimer = socket.reconnectTimer
        /\ t.reconnectCount = socket.reconnectCount /\ t.timer = socket.timer
        /\ t.docLayer = socket.docLayer /\ t.docLoaded = socket.docLoaded
        /\ t.editMode = socket.editMode /\ t.reconnecting = socket.reconnecting
    BY <1>1 DEF Page
  <2> HIDE DEF t
  <2>6. Sound(t)
    BY <1>1, <2>4, SoundFrame
  <2>7. \A m : Coming(socket, m) => h = m \/ Coming(t, m)
    BY <2>3, <2>5 DEF Coming
  <2>8. LoadBut(t, h)
    BY <1>1, <2>5, <2>7 DEF LoadOK, LoadBut
  <2>9. SendsNothing(t, socket') /\ LoadOK(socket')
    BY <2>1, <2>2, <2>6, <2>8, OnMessageOrderly
  <2>10. SendsNothing(socket, t)
    BY <2>5 DEF SendsNothing, Sent
  <2>11. SendsNothing(socket, socket')
    BY <2>9, <2>10 DEF SendsNothing
  <2> QED
    BY <1>3, <2>9, <2>11, StepOrderly
<1>6. SameFields(socket, CompleteCallback(socket)) /\ CompleteCallback(socket) \in Page
  <2>1. CompleteCallback(socket) \in Page
    BY <1>1, CompleteCallbackSound DEF Sound, Typed
  <2> DEFINE x == socket.slurpTimer \/ socket.slurpDuringTransaction
             t == [socket EXCEPT !.inLayerTransaction = FALSE,
                                 !.slurpDuringTransaction = FALSE, !.slurpTimer = x]
  <2>2. CompleteCallback(socket) = t
    BY <1>1 DEF CompleteCallback, Page
  <2> HIDE DEF x
  <2>3. SameFields(socket, t)
    BY <1>1 DEF SameFields, Page
  <2> QED
    BY <2>1, <2>2, <2>3
<1>7. CASE SlurpTimer
  <2> DEFINE t == [socket EXCEPT !.slurpTimer = FALSE,
                                 !.slurpDuringTransaction = TRUE]
             u == [socket EXCEPT !.slurpTimer = FALSE, !.emitting = TRUE,
                                 !.inLayerTransaction = socket.docLayer]
  <2>1. socket' = t \/ socket' = u
    BY <1>7 DEF SlurpTimer, Callback
  <2>2. SameFields(socket, t)
    BY <1>1 DEF SameFields, Page
  <2>3. SameFields(socket, u)
    BY <1>1 DEF SameFields, Page
  <2> HIDE DEF t, u
  <2>4. Keeps(socket, socket')
    BY <2>1, <2>2, <2>3, SameKeeps
  <2> QED
    BY <1>3, <2>4, KeepsOrderly
<1>8. CASE EmitEnd
  <2> DEFINE c == CompleteCallback(socket)
             t == [c EXCEPT !.emitting = FALSE]
             u == [socket EXCEPT !.emitting = FALSE]
  <2>1. socket' = t \/ socket' = u
    BY <1>8 DEF EmitEnd
  <2> HIDE DEF c
  <2>2. SameFields(c, t)
    BY <1>6 DEF SameFields, Page, c
  <2>3. SameFields(socket, u)
    BY <1>1 DEF SameFields, Page
  <2> HIDE DEF t, u
  <2>4. Keeps(socket, c)
    BY <1>6, SameKeeps DEF c
  <2>5. Keeps(socket, socket')
    BY <2>1, <2>2, <2>3, <2>4, SameKeeps, KeepsTwice
  <2> QED
    BY <1>3, <2>5, KeepsOrderly
<1>9. CASE TransactionEnds
  <2>1. socket' = CompleteCallback(socket)
    BY <1>9 DEF TransactionEnds, Callback
  <2>2. Keeps(socket, socket')
    BY <1>6, <2>1, SameKeeps
  <2> QED
    BY <1>3, <2>2, KeepsOrderly
<1> QED
  BY <1>4, <1>5, <1>7, <1>8, <1>9

\* Reconnecting, and the dialog that leaves the page.
LEMMA ReconnectOrderly ==
  ASSUME IInv, Orderly,
         \/ ReconnectTimer \/ Open \/ CloseEvent \/ DimRemoved
         \/ Interval \/ ConnectFails
  PROVE  Orderly'
<1>1. /\ Sound(socket) /\ socket \in Page /\ spent \in [Interference -> Nat]
      /\ spent["inputs"] \in Nat
      /\ LoadOK(socket) /\ InputsOK(socket, spent["inputs"])
  BY DEF IInv, Sound, Typed, Orderly, Interference
<1>2. NoInput
  <2>1. UNCHANGED spent \/ Spend("losses")
    BY DEF ReconnectTimer, Open, CloseEvent, DimRemoved, Interval, ConnectFails,
           Callback
  <2> QED
    BY <1>1, <2>1, SpendOther DEF Interference
<1>3. CASE ReconnectTimer
  <2> DEFINE s == [socket EXCEPT !.reconnectTimer = FALSE]
             t == [s EXCEPT !.reconnecting = TRUE]
  <2>1. /\ socket' = s \/ socket' = Activate(t)
        /\ socket.reconnectTimer
    BY <1>3 DEF ReconnectTimer, Callback
  <2>2. socket.readyState # "open"
    BY <1>1, <2>1 DEF LoadOK
  <2>3. /\ s \in Page /\ s.readyState = socket.readyState /\ s.sent = socket.sent
        /\ s.sentBefore = socket.sentBefore
        /\ s.msgQueue = socket.msgQueue /\ s.pointer = socket.pointer
    BY <1>1 DEF Page
  <2> HIDE DEF s
  <2>4. /\ t \in Page /\ t.readyState = s.readyState /\ t.sent = s.sent
        /\ t.sentBefore = s.sentBefore
        /\ t.msgQueue = s.msgQueue /\ t.pointer = s.pointer
    BY <2>3 DEF Page
  <2> HIDE DEF t
  <2>5. Keeps(socket, s)
    BY <2>2, <2>3 DEF Keeps, SendsNothing, Calm, Sent
  <2>6. Keeps(s, t)
    BY <2>2, <2>3, <2>4 DEF Keeps, SendsNothing, Calm, Sent
  <2>7. Keeps(t, Activate(t))
    BY <2>4, ActivateKeeps
  <2>8. Keeps(socket, socket')
    BY <2>1, <2>5, <2>6, <2>7, KeepsTwice
  <2> QED
    BY <1>2, <2>8, KeepsOrderly
<1>4. CASE Open
  <2>1. /\ socket' = OnSocketOpen(socket) /\ UNCHANGED spent
        /\ socket.readyState = "connecting" /\ ~socket.reconnectTimer
    BY <1>4 DEF Open, Handshake, Callback
  <2>2. InputsOK(socket', spent["inputs"]) /\ LoadOK(socket')
    BY <1>1, <2>1, OnSocketOpenOK
  <2> QED
    BY <2>1, <2>2 DEF Orderly, InputsOK, LoadOK, Coming, Sent
<1>5. CASE CloseEvent \/ ConnectFails
  <2>1. socket' = OnSocketClose(socket)
    BY <1>5 DEF CloseEvent, ConnectFails, Callback
  <2>2. Keeps(socket, socket')
    BY <1>1, <2>1, OnSocketCloseKeeps
  <2> QED
    BY <1>2, <2>2, KeepsOrderly
<1>6. CASE DimRemoved
  <2> DEFINE t == [socket EXCEPT !.dim = "none"]
  <2>1. socket' = RestartConnection(t)
    BY <1>6 DEF DimRemoved, Callback
  <2>2. t \in Page
    BY <1>1 DEF Page
  <2>3. SameFields(socket, t)
    BY <1>1 DEF Page, SameFields
  <2> HIDE DEF t
  <2>4. Keeps(socket, t) /\ Keeps(t, socket')
    BY <2>1, <2>2, <2>3, SameKeeps, RestartConnectionKeeps
  <2>5. Keeps(socket, socket')
    BY <2>4, KeepsTwice
  <2> QED
    BY <1>2, <2>5, KeepsOrderly
<1>7. CASE Interval
  <2> DEFINE t == [socket EXCEPT !.timer = "none"]
  <2>1. socket' \in {Activate(socket), t, Connect(socket)}
    BY <1>7 DEF Interval, Callback
  <2>2. /\ t.timer = "none" /\ t.sentBefore = socket.sentBefore /\ t.sent = socket.sent
        /\ t.msgQueue = socket.msgQueue /\ t.pointer = socket.pointer
        /\ t.readyState = socket.readyState /\ t.up = socket.up
        /\ t.session = socket.session
        /\ t.incoming = socket.incoming /\ t.slurpQueue = socket.slurpQueue
        /\ t.reconnectTimer = socket.reconnectTimer
        /\ t.reconnectCount = socket.reconnectCount
        /\ t.docLayer = socket.docLayer /\ t.docLoaded = socket.docLoaded
        /\ t.editMode = socket.editMode /\ t.reconnecting = socket.reconnecting
    BY <1>1 DEF Page
  <2> HIDE DEF t
  <2>3. Keeps(socket, t)
    BY <2>2 DEF Keeps, SendsNothing, Calm, Sent
  <2>4. Keeps(socket, socket')
    BY <1>1, <2>1, <2>3, ActivateKeeps, ConnectKeeps
  <2> QED
    BY <1>2, <2>4, KeepsOrderly
<1> QED
  BY <1>3, <1>4, <1>5, <1>6, <1>7

\* coolwsd and the network change only the session and what is received.
ServerOnly(s, t) ==
    /\ t.sentBefore = s.sentBefore /\ t.sent = s.sent
    /\ t.msgQueue = s.msgQueue /\ t.pointer = s.pointer
    /\ t.readyState = s.readyState /\ t.slurpQueue = s.slurpQueue
    /\ t.reconnectTimer = s.reconnectTimer
    /\ t.reconnectCount = s.reconnectCount /\ t.timer = s.timer
    /\ t.docLayer = s.docLayer /\ t.docLoaded = s.docLoaded
    /\ t.editMode = s.editMode /\ t.reconnecting = s.reconnecting

\* The fields that coolwsd and the network assign are none of them.
LEMMA ServerKeeps ==
  ASSUME NEW s \in Page, NEW e, NEW x, NEW c
  PROVE  /\ ServerOnly(s, [s EXCEPT !.incoming = e, !.up = FALSE, !.resting = x])
         /\ ServerOnly(s, [s EXCEPT !.incoming = e, !.session = c])
         /\ ServerOnly(s, [s EXCEPT !.up = FALSE, !.incoming = e])
         /\ ServerOnly(s, [s EXCEPT !.up = FALSE])
<1>1. ServerOnly(s, [s EXCEPT !.incoming = e, !.up = FALSE, !.resting = x])
  BY DEF Page, ServerOnly
<1>2. ServerOnly(s, [s EXCEPT !.incoming = e, !.session = c])
  BY DEF Page, ServerOnly
<1>3. ServerOnly(s, [s EXCEPT !.up = FALSE, !.incoming = e])
  BY DEF Page, ServerOnly
<1>4. ServerOnly(s, [s EXCEPT !.up = FALSE])
  BY DEF Page, ServerOnly
<1> QED
  BY <1>1, <1>2, <1>3, <1>4

\* What coolwsd and the network do: a session that is to be loaded has the
\* messages on their way that put the page in order.
LEMMA ServerOrderly ==
  ASSUME IInv, Orderly,
         \/ ServerReady \/ Load \/ Exit
         \/ Refuse \/ CloseSession \/ ShuttingDown \/ Drop
  PROVE  Orderly'
<1> DEFINE Kept == ServerOnly(socket, socket')
<1>1. /\ socket \in Page /\ spent \in [Interference -> Nat] /\ LoadOK(socket)
  BY DEF IInv, Sound, Typed, Orderly
<1>2. socket.incoming \in Seq(ServerMsg)
  BY <1>1 DEF Page
<1>3. NoInput
  <2>1. UNCHANGED spent \/ \E i \in Interference \ {"inputs"} : Spend(i)
    BY DEF ServerReady, Load, Exit, Refuse, CloseSession, ShuttingDown, Drop,
           Interference
  <2> QED
    BY <1>1, <2>1, SpendOther
<1>4. ASSUME Kept, ~socket'.up \/ socket'.session = "leaving"
      PROVE  Orderly'
  <2>1. LoadOK(socket')
    BY <1>1, <1>4 DEF LoadOK, ServerOnly
  <2>2. SendsNothing(socket, socket')
    BY <1>4 DEF SendsNothing, ServerOnly, Sent
  <2> QED
    BY <1>3, <2>1, <2>2, StepOrderly
<1>5. CASE Refuse \/ CloseSession
  <2>1. PICK m \in ServerMsg : SendAndClose(m)
    BY <1>5 DEF Refuse, CloseSession, ServerMsg
  <2> DEFINE e == Append(socket.incoming, m)
             x == (m = "idle")
             t == [socket EXCEPT !.incoming = e, !.up = FALSE, !.resting = x]
  <2>2. socket' = t
    BY <1>1, <2>1 DEF SendAndClose, Page
  <2> HIDE DEF e, x
  <2>3. Kept
    BY <1>1, <2>2, ServerKeeps, Zenon
  <2>4. ~socket'.up
    BY <1>1, <2>2 DEF Page
  <2> QED
    BY <1>4, <2>3, <2>4
<1>6. CASE ShuttingDown
  <2> DEFINE e == Append(socket.incoming, "shuttingdown")
             t == [socket EXCEPT !.incoming = e, !.session = "leaving"]
  <2>1. socket' = t
    BY <1>6 DEF ShuttingDown
  <2> HIDE DEF e
  <2>2. Kept
    BY <1>1, <2>1, ServerKeeps, Zenon
  <2>3. socket'.session = "leaving"
    BY <1>1, <2>1 DEF Page
  <2> QED
    BY <1>4, <2>2, <2>3
<1>7. CASE Exit
  <2>1. socket' = [socket EXCEPT !.up = FALSE]
    BY <1>7 DEF Exit
  <2>2. Kept
    BY <1>1, <2>1, ServerKeeps, Zenon
  <2>3. ~socket'.up
    BY <1>1, <2>1 DEF Page
  <2> QED
    BY <1>4, <2>2, <2>3
<1>8. CASE Drop
  <2>1. PICK e \in {<<>>, socket.incoming} :
          socket' = [socket EXCEPT !.up = FALSE, !.incoming = e]
    BY <1>8, Zenon DEF Drop
  <2>2. Kept
    BY <1>1, <2>1, ServerKeeps, Zenon
  <2>3. ~socket'.up
    BY <1>1, <2>1 DEF Page
  <2> QED
    BY <1>4, <2>2, <2>3
<1>9. CASE ServerReady
  <2> DEFINE e == Append(socket.incoming, "ready")
             t == [socket EXCEPT !.incoming = e, !.session = "ready"]
  <2>1. socket' = t
    BY <1>9 DEF ServerReady
  <2>2. \E i \in DOMAIN e : e[i] = "ready"
    BY <1>2, AppendItems DEF ServerMsg
  <2> HIDE DEF e
  <2>3. Kept
    BY <1>1, <2>1, ServerKeeps, Zenon
  <2>4. socket'.session = "ready" /\ socket'.incoming = e
    BY <1>1, <2>1 DEF Page
  <2>5. Coming(socket', "ready")
    BY <2>2, <2>4 DEF Coming
  <2>6. LoadOK(socket')
    BY <1>1, <2>3, <2>4, <2>5 DEF LoadOK, ServerOnly
  <2>7. SendsNothing(socket, socket')
    BY <2>3 DEF SendsNothing, ServerOnly, Sent
  <2> QED
    BY <1>3, <2>6, <2>7, StepOrderly
<1>10. CASE Load
  <2> DEFINE l == <<"perm", "status">>
             g == socket.incoming
             e == g \o l
             t == [socket EXCEPT !.incoming = e, !.session = "loaded"]
  <2>1. socket' = t /\ socket.session = "ready" /\ socket.up
    BY <1>10 DEF Load, Serving
  <2>2. /\ l \in Seq(ServerMsg) /\ DOMAIN l = 1..2 /\ l[2] = "status"
        /\ g \in Seq(ServerMsg)
    BY <1>2 DEF ServerMsg
  <2> HIDE DEF l, g
  <2>3. /\ DOMAIN e = 1..(Len(g) + Len(l))
        /\ DOMAIN l = 1..Len(l) /\ Len(l) \in Nat
        /\ DOMAIN g = 1..Len(g) /\ Len(g) \in Nat
        /\ \A i \in DOMAIN g : e[i] = g[i]
        /\ \A i \in DOMAIN l : e[Len(g) + i] = l[i]
    <3>1. l \in Seq(ServerMsg) /\ g \in Seq(ServerMsg)
      BY <2>2
    <3> QED
      BY <3>1, ConcatItems, SMTT(60)
  <2> HIDE DEF e
  <2>4. \E i \in DOMAIN e : e[i] = "status"
    <3>1. 2 \in DOMAIN l
      BY <2>2
    <3>2. Len(g) + 2 \in DOMAIN e
      BY <2>3, <3>1
    <3> QED
      BY <2>2, <2>3, <3>1, <3>2
  <2>5. (\E i \in DOMAIN socket.incoming : socket.incoming[i] = "ready")
          => \E i \in DOMAIN e : e[i] = "ready"
    BY <2>3 DEF g
  <2>6. Kept
    BY <1>1, <2>1, ServerKeeps, Zenon
  <2>7. socket'.session = "loaded" /\ socket'.incoming = e /\ socket'.up = socket.up
    BY <1>1, <2>1 DEF Page
  <2>8. /\ Coming(socket', "status")
        /\ Coming(socket, "ready") => Coming(socket', "ready")
    BY <2>4, <2>5, <2>6, <2>7 DEF Coming, ServerOnly
  <2>9. LoadOK(socket')
    BY <1>1, <2>1, <2>6, <2>7, <2>8 DEF LoadOK, ServerOnly
  <2>10. SendsNothing(socket, socket')
    BY <2>6 DEF SendsNothing, ServerOnly, Sent
  <2> QED
    BY <1>3, <2>9, <2>10, StepOrderly
<1> QED
  BY <1>5, <1>6, <1>7, <1>8, <1>9, <1>10

\* Every step.
LEMMA NextOrderly == IInv /\ Orderly /\ [Next]_vars => Orderly'
<1> SUFFICES ASSUME IInv, Orderly, [Next]_vars PROVE Orderly'
  OBVIOUS
<1>1. CASE Next
  BY <1>1, UserOrderly, SlurpOrderly, ReconnectOrderly, ServerOrderly
     DEF Next, MainThread, Coolwsd
<1>2. CASE UNCHANGED vars
  BY <1>2 DEF vars, Orderly, InputsOK, LoadOK, Coming, Sent
<1> QED
  BY <1>1, <1>2

\* Nothing is sent when the page is opened.
LEMMA InitOrderly == Init => Orderly
<1> SUFFICES ASSUME Init PROVE Orderly
  OBVIOUS
<1>1. /\ socket.sent = <<>> /\ socket.sentBefore = <<>> /\ socket.msgQueue = <<>>
      /\ socket.pointer = <<>> /\ socket.readyState = "connecting"
  BY DEF Init, FirstPage
<1>2. /\ DOMAIN <<>> = {} /\ Len(<<>>) = 0 /\ <<>> \o <<>> = <<>>
  OBVIOUS
<1>3. Sent(socket) = <<>>
  BY <1>1, <1>2 DEF Sent
<1>4. InputsOK(socket, spent["inputs"])
  BY <1>1, <1>2, <1>3 DEF InputsOK, NoRepeat, Rising, Apart, AtMost, InOrder
<1>5. LoadOK(socket)
  BY <1>1 DEF LoadOK
<1> QED
  BY <1>4, <1>5 DEF Orderly

\* As many numbers as inputs, when none is repeated.
LEMMA NumbersCounted ==
  ASSUME NEW q \in Seq(Input), NoRepeat(q)
  PROVE  Cardinality(Numbers(q)) = Len(q)
<1> DEFINE N == Numbers(q)
           f == [i \in 1..Len(q) |-> q[i].n]
<1>1. Len(q) \in Nat /\ DOMAIN q = 1..Len(q)
  OBVIOUS
<1>2. f \in Bijection(1..Len(q), N)
  <2>1. f \in [1..Len(q) -> N] /\ \A x \in N : \E i \in 1..Len(q) : f[i] = x
    BY DEF Numbers
  <2>2. \A i, j \in 1..Len(q) : f[i] = f[j] => i = j
    BY <1>1 DEF NoRepeat
  <2> QED
    BY <2>1, <2>2 DEF Bijection, Injection, Surjection, IsInjective
<1>3. ExistsBijection(1..Len(q), N)
  BY <1>2 DEF ExistsBijection
<1> QED
  BY <1>1, <1>3, FS_CountingElements

\* No input is sent twice, and those that are not compacted are sent in the
\* order they were made, for every limit of the queue and every loss of the
\* connection: what waits is behind all that was sent, and what is flushed is
\* taken out of the queue.
THEOREM InputsInOrder == Spec => []InputOrder
<1>1. IInv /\ Orderly => InputOrder
  <2> SUFFICES ASSUME IInv, Orderly PROVE InputOrder
    OBVIOUS
  <2>1. /\ socket.sent \in Seq(Input) /\ socket.sentBefore \in Seq(Input)
        /\ Sent(socket) \in Seq(Input)
    BY InputsTypes DEF IInv, Sound, Typed
  <2>2. Cardinality(Numbers(Sent(socket))) = Len(Sent(socket))
    BY <2>1, NumbersCounted DEF Orderly, InputsOK
  <2>3. Len(Sent(socket)) = Len(socket.sentBefore) + Len(socket.sent)
    BY <2>1 DEF Sent
  <2>4. /\ InOrder(socket.sent) /\ DOMAIN socket.sent = 1..Len(socket.sent)
    BY <2>1 DEF Orderly, InputsOK
  <2> QED
    BY <2>2, <2>3, <2>4 DEF InputOrder, InOrder, Sent
<1> QED
  BY <1>1, InitSound, NextSound, InitOrderly, NextOrderly, PTL DEF Spec

\* A page that has loaded the document is in order, whatever went wrong before:
\* the messages that put it in order come with every session, and no handler
\* that runs while the connection is open undoes what they did.
THEOREM ReconnectsCompletely == Spec => []ReconnectComplete
<1>1. Orderly => ReconnectComplete
  <2> SUFFICES ASSUME Orderly, Loaded(socket) PROVE ReconnectComplete
    BY DEF ReconnectComplete
  <2>1. DOMAIN <<>> = {}
    OBVIOUS
  <2>2. \A m : ~Coming(socket, m)
    BY <2>1 DEF Loaded, Quiet, Coming
  <2> QED
    BY <2>2 DEF Orderly, LoadOK, Loaded, Connected, ReconnectComplete
<1> QED
  BY <1>1, InitSound, NextSound, InitOrderly, NextOrderly, PTL DEF Spec
=============================================================================

------------------------ MODULE BrokerHistoryProofs ------------------------
(***************************************************************************)
(* Proofs of the properties of BrokerHistory: no silent loss, the sound    *)
(* timestamp of the last upload, renames of the latest version only, and   *)
(* clients that keep their document; and that the whole implements         *)
(* DocumentStore.  For any number of sessions and any budget.              *)
(*                                                                         *)
(* The inductive invariant HInv follows an edit on its way: the Kit knows  *)
(* the view it is for (ViewsKnown), no edit is lost between the broker and *)
(* the Kit (EditsCounted), without overlapping saves the file on disk      *)
(* holds all the edits once a save has succeeded and no newer input is     *)
(* noted (SavesOK), and the Storage holds the file on disk when its        *)
(* timestamp is that of the last upload (UploadsOK).  What the methods of  *)
(* the broker do to these members is in BrokerFrames.                      *)
(***************************************************************************)
EXTENDS DocumentBrokerProofs, BrokerFrames, QueueLemmas

EditMessage == {m \in KitMessage : m.type = "edit"}
Edits(q) == Count(q, EditMessage)

\* The Kit knows the views of the sessions that edit, and the disconnection
\* of a session is sent after its last edit.
ViewsKnown ==
    /\ \A s \in Session : s > joined => broker.sess[s] = "absent"
    /\ \A i \in DOMAIN broker.toKit : broker.toKit[i].sessions \subseteq 1..joined
    /\ \A i \in DOMAIN broker.toKit : broker.toKit[i].type = "disconnect" =>
          \A s \in broker.toKit[i].sessions : ~Here(broker, s)
    /\ \A s \in Session : broker.sess[s] = "LIVE" => s \in kit.views
    /\ \A i \in DOMAIN fromKit : fromKit[i].type = "loaded" =>
          /\ fromKit[i].sessions \subseteq 1..joined
          /\ \A s \in fromKit[i].sessions :
                broker.sess[s] = "LOADING" => s \in kit.views
    /\ \A i \in DOMAIN broker.toKit : broker.toKit[i].type = "edit" =>
          /\ broker.toKit[i].sessions \subseteq kit.views
          /\ \A j \in DOMAIN broker.toKit :
                broker.toKit[j].type = "disconnect" /\ j < i =>
                  broker.toKit[j].sessions \cap broker.toKit[i].sessions = {}

\* Until the Kit is lost, every edit is in Core or on its way to it.
EditsCounted ==
    /\ kit.content + Edits(broker.toKit) <= edits
    /\ broker.kitDisconnected = "No" => kit.content + Edits(broker.toKit) = edits
    /\ ~kit.modified => kit.doc.content = kit.content
    /\ broker.kitDisconnected # "No" => fromKit = <<>> /\ ~kit.up

\* A file that Core has not saved holds no edit.
FileOK(f) == f.mtime >= -1 /\ (f.mtime <= 0 => f.content = 0)

FilesOK ==
    /\ FileOK(kit.doc) /\ FileOK(upload) /\ FileOK(broker.uploading)
    /\ kit.doc.mtime >= 0
    /\ broker.http.kind = "put" => broker.http.file.mtime >= 0

\* At most one save is on its way, as a request or as a result.
OneSave ==
    /\ \A i, j \in DOMAIN broker.toKit :
          IsSave(broker.toKit[i]) /\ IsSave(broker.toKit[j]) => i = j
    /\ \A i, j \in DOMAIN fromKit :
          fromKit[i].type = "saveresult" /\ fromKit[j].type = "saveresult" => i = j
    /\ \A i \in DOMAIN broker.toKit, j \in DOMAIN fromKit :
          ~(IsSave(broker.toKit[i]) /\ fromKit[j].type = "saveresult")

\* With no input noted since the last save was requested, that save, if it
\* succeeds, saves every edit.
SavesAll ==
    /\ \A i, j \in DOMAIN broker.toKit :
          IsSave(broker.toKit[i]) /\ i < j => broker.toKit[j].type # "edit"
    /\ \A i \in DOMAIN fromKit :
          fromKit[i].type = "saveresult" /\ fromKit[i].value # "failed" =>
            Exists(upload) /\ upload.content = edits
    /\ ~broker.saving /\ broker.saveFailures = 0 =>
          broker.uploading.content = edits

SavesOK ==
    "overlappingSaves" \notin seen =>
       /\ OneSave
       /\ SaveInFlight => broker.saving \/ broker.saveFailures > 0
       /\ ~broker.modifyActivity => SavesAll

\* The request describes the upload in flight, and the time of the last
\* upload is at most that of the file on disk.
UploadsOK ==
    /\ broker.http.kind = "put" /\ broker.http.applied =>
          storage = broker.http.file.content
    /\ "requestReplaced" \notin seen =>
          /\ IsAsyncUploading(broker) => broker.request.kind = broker.http.kind
          /\ broker.http.kind = "put" => broker.request.mtime = broker.http.file.mtime
          /\ IF Exists(broker.uploading)
             THEN /\ broker.uploadedTime <= broker.uploading.mtime
                  /\ broker.uploadedTime = broker.uploading.mtime =>
                        storage = broker.uploading.content
             ELSE broker.uploadedTime = 0
    /\ "fileReplaced" \notin seen =>
          (broker.http.kind = "put" => broker.http.file = broker.uploading)

\* Once the data-loss check has passed, the Storage has every edit.
EndOK ==
    /\ broker.phase # "polling" => broker.stop
    /\ GivenUp(broker) => "discarded" \in seen
    /\ broker.phase # "polling" /\ ~broker.dataLoss /\ seen \subseteq Harmless =>
          storage = edits

\* A document is unloaded under its clients only for a reason.
OpenOK ==
    /\ \A i \in Input : left[i] <= Budget[i]
    /\ broker.unloadRequested \/ broker.destroying =>
          Open(broker) = {} \/ "notTheLast" \in seen
    /\ broker.stop =>
          \/ Open(broker) = {}
          \/ broker.closeRequested
          \/ left["idles"] < Budget["idles"]
          \/ left["timeouts"] < Budget["timeouts"]
          \/ seen \cap {"discarded", "notTheLast"} # {}

HInv ==
    /\ ViewsKnown /\ EditsCounted /\ FilesOK /\ SavesOK
    /\ UploadsOK /\ LatestBeforeRename
    /\ EndOK /\ OpenOK

-----------------------------------------------------------------------------
(* The parts of a step. *)

\* The history of a step grows by what is observed of it.
LEMMA SeenGrows ==
  ASSUME seen' = seen \cup Observed
  PROVE  /\ seen \subseteq seen'
         /\ SavingAtExit => "savingAtExit" \in seen'
         /\ RequestReplaced => "requestReplaced" \in seen'
         /\ FileReplaced => "fileReplaced" \in seen'
         /\ OverlappingSaves => "overlappingSaves" \in seen'
         /\ Discarded => "discarded" \in seen'
         /\ NotTheLast => "notTheLast" \in seen'
BY DEF Observed, Anomaly

\* The messages to and from the Kit are about sessions.
LEMMA MessageSessions ==
  ASSUME IInv
  PROVE  /\ broker.toKit \in Seq(KitMessage) /\ fromKit \in Seq(BrokerMessage)
         /\ \A i \in DOMAIN broker.toKit : broker.toKit[i] \in KitMessage
         /\ \A i \in DOMAIN fromKit : fromKit[i] \in BrokerMessage
         /\ \A i \in DOMAIN broker.toKit : broker.toKit[i].sessions \subseteq Session
         /\ \A i \in DOMAIN fromKit : fromKit[i].sessions \subseteq Session
<1>1. broker.toKit \in Seq(KitMessage) /\ fromKit \in Seq(BrokerMessage)
  BY DEF IInv, TypeOK, Broker
<1>2. \A i \in DOMAIN broker.toKit : broker.toKit[i] \in KitMessage
  BY <1>1, ItemType
<1>3. \A i \in DOMAIN fromKit : fromKit[i] \in BrokerMessage
  BY <1>1, ItemType
<1> QED
  BY <1>1, <1>2, <1>3 DEF KitMessage, BrokerMessage

\* At most one message is sent, a save or the disconnection of sessions that
\* have left.
QueueStep(b, c) ==
    \/ c.toKit = b.toKit
    \/ \E m \in KitMessage :
          /\ c.toKit = Append(b.toKit, m)
          /\ m.sessions \subseteq Present(b)
          /\ \/ m.type = "disconnect" /\ \A s \in m.sessions : ~Here(c, s)
             \/ IsSave(m)

\* The broker has read at most the first message of the Kit.
Received ==
    \/ fromKit' = fromKit
    \/ fromKit # <<>> /\ fromKit' = Tail(fromKit)

\* The methods send like this.
LEMMA FrameQueueStep ==
  ASSUME NEW b, NEW c, QueueFrame(b, c)
  PROVE  QueueStep(b, c)
BY DEF QueueFrame, SameQueue, Sends, QueueStep

\* What waits after the first message was read, was there before.
LEMMA ReceivedItems ==
  ASSUME fromKit \in Seq(BrokerMessage), Received
  PROVE  /\ fromKit' \in Seq(BrokerMessage)
         /\ \A i \in DOMAIN fromKit' : \E j \in DOMAIN fromKit : fromKit'[i] = fromKit[j]
         /\ fromKit = <<>> => fromKit' = <<>>
<1>1. CASE fromKit' = fromKit
  BY <1>1
<1>2. CASE fromKit # <<>> /\ fromKit' = Tail(fromKit)
  BY <1>2, TailItems
<1> QED
  BY <1>1, <1>2 DEF Received

\* A handler in which sessions only leave keeps the views known.
LEMMA ViewsStep ==
  ASSUME IInv, ViewsKnown, SessionFrame(broker, broker'), QueueStep(broker, broker'),
         Received, kit'.views = kit.views, UNCHANGED joined
  PROVE  ViewsKnown'
<1> DEFINE q == broker.toKit
           r == broker'.toKit
<1>1. q \in Seq(KitMessage) /\ fromKit \in Seq(BrokerMessage) /\ joined \in Session
  BY DEF IInv, TypeOK, Broker
<1>2. \A s \in Session : Here(broker', s) => broker'.sess[s] = broker.sess[s]
  BY DEF SessionFrame
<1>3. \A s \in Session : ~Here(broker, s) => ~Here(broker', s)
  BY <1>2 DEF Here
<1>4. \A s \in Session : s > joined' => broker'.sess[s] = "absent"
  BY DEF ViewsKnown, SessionFrame
<1>5. \A s \in Session : broker'.sess[s] = "LIVE" => s \in kit'.views
  BY <1>2 DEF ViewsKnown, Here
<1>6. \A i \in DOMAIN fromKit' : fromKit'[i].type = "loaded" =>
         /\ fromKit'[i].sessions \subseteq 1..joined'
         /\ \A s \in fromKit'[i].sessions :
               broker'.sess[s] = "LOADING" => s \in kit'.views
  <2> SUFFICES ASSUME NEW i \in DOMAIN fromKit', fromKit'[i].type = "loaded"
               PROVE  /\ fromKit'[i].sessions \subseteq 1..joined'
                      /\ \A s \in fromKit'[i].sessions :
                            broker'.sess[s] = "LOADING" => s \in kit'.views
    OBVIOUS
  <2>1. PICK j \in DOMAIN fromKit : fromKit'[i] = fromKit[j]
    BY <1>1, ReceivedItems
  <2>2. fromKit[j].sessions \subseteq Session
    BY MessageSessions
  <2> QED
    BY <1>2, <2>1, <2>2 DEF ViewsKnown, Here
<1>7. CASE r = q
  <2>1. \A i \in DOMAIN q : q[i].sessions \subseteq Session
    BY MessageSessions
  <2>2. \A i \in DOMAIN r : r[i].type = "disconnect" =>
           \A s \in r[i].sessions : ~Here(broker', s)
    BY <1>3, <1>7, <2>1 DEF ViewsKnown
  <2> QED
    BY <1>4, <1>5, <1>6, <1>7, <2>2 DEF ViewsKnown
<1>8. ASSUME NEW m \in KitMessage, r = Append(q, m), m.sessions \subseteq Present(broker),
             \/ m.type = "disconnect" /\ \A s \in m.sessions : ~Here(broker', s)
             \/ IsSave(m)
      PROVE  ViewsKnown'
  <2> DEFINE n == Len(q) + 1
  <2>1. /\ n \in Nat /\ DOMAIN q = 1..(n - 1) /\ DOMAIN r = 1..n
        /\ \A i \in DOMAIN q : r[i] = q[i]
        /\ r[n] = m
    BY <1>1, <1>8, AppendItems
  <2>2. \A i \in DOMAIN r : i \in DOMAIN q \/ i = n
    BY <2>1
  <2>3. m.sessions \subseteq 1..joined
    BY <1>1, <1>8 DEF Present, ViewsKnown, Session
  <2>4. \A i \in DOMAIN r : r[i].sessions \subseteq 1..joined'
    BY <2>1, <2>2, <2>3 DEF ViewsKnown
  <2>5. \A i \in DOMAIN q : q[i].sessions \subseteq Session
    BY MessageSessions
  <2>6. \A i \in DOMAIN r : r[i].type = "disconnect" =>
           \A s \in r[i].sessions : ~Here(broker', s)
    BY <1>3, <1>8, <2>1, <2>2, <2>5 DEF ViewsKnown, IsSave
  <2>7. m.type # "edit"
    BY <1>8 DEF IsSave
  <2>8. \A i \in DOMAIN q, j \in DOMAIN r : j < i => j \in DOMAIN q
    BY <2>1
  <2>9. \A i \in DOMAIN r : r[i].type = "edit" =>
           /\ r[i].sessions \subseteq kit'.views
           /\ \A j \in DOMAIN r : r[j].type = "disconnect" /\ j < i =>
                 r[j].sessions \cap r[i].sessions = {}
    BY <2>1, <2>2, <2>7, <2>8 DEF ViewsKnown
  <2> QED
    BY <1>4, <1>5, <1>6, <2>4, <2>6, <2>9 DEF ViewsKnown
<1> QED
  BY <1>7, <1>8 DEF QueueStep

\* How many edits are on their way to the Kit.
LEMMA EditsQueue ==
  ASSUME NEW q \in Seq(KitMessage)
  PROVE  /\ Edits(q) \in Nat
         /\ \A m \in KitMessage :
               Edits(Append(q, m)) = IF m.type = "edit" THEN Edits(q) + 1 ELSE Edits(q)
         /\ q # <<>> =>
               Edits(q) = IF Head(q).type = "edit" THEN Edits(Tail(q)) + 1
                          ELSE Edits(Tail(q))
<1>1. \A m \in KitMessage : m \in EditMessage <=> m.type = "edit"
  BY DEF EditMessage
<1>2. Edits(q) \in Nat
  BY CountType DEF Edits
<1>3. \A m \in KitMessage :
         Edits(Append(q, m)) = IF m.type = "edit" THEN Edits(q) + 1 ELSE Edits(q)
  BY <1>1, CountAppend DEF Edits
<1>4. ASSUME q # <<>>
      PROVE  Edits(q) = IF Head(q).type = "edit" THEN Edits(Tail(q)) + 1
                        ELSE Edits(Tail(q))
  <2>1. Head(q) \in KitMessage
    BY <1>4, TailItems
  <2> QED
    BY <1>1, <1>4, <2>1, CountTail DEF Edits
<1> QED
  BY <1>2, <1>3, <1>4

\* A message that is no edit changes no count.
LEMMA QueueStepEdits ==
  ASSUME NEW b \in Broker, NEW c, QueueStep(b, c)
  PROVE  Edits(c.toKit) = Edits(b.toKit)
<1>1. b.toKit \in Seq(KitMessage)
  BY DEF Broker
<1>2. ASSUME NEW m \in KitMessage, c.toKit = Append(b.toKit, m), m.type # "edit"
      PROVE  Edits(c.toKit) = Edits(b.toKit)
  BY <1>1, <1>2, CountAppend DEF Edits, EditMessage
<1> QED
  BY <1>2 DEF QueueStep, IsSave

\* The Kit does nothing, but may be killed.
KitAlike ==
    /\ kit'.views = kit.views /\ kit'.content = kit.content
    /\ kit'.modified = kit.modified /\ kit'.doc = kit.doc
    /\ kit'.up => kit.up

\* So a handler that passes on no edit loses none.
LEMMA EditsStep ==
  ASSUME IInv, EditsCounted, QueueStep(broker, broker'), Received,
         broker'.kitDisconnected = broker.kitDisconnected, KitAlike, UNCHANGED edits
  PROVE  EditsCounted'
<1>1. broker \in Broker /\ fromKit \in Seq(BrokerMessage)
  BY DEF IInv, TypeOK
<1>2. Edits(broker'.toKit) = Edits(broker.toKit)
  BY <1>1, QueueStepEdits
<1>3. fromKit = <<>> => fromKit' = <<>>
  BY <1>1, ReceivedItems
<1> QED
  BY <1>2, <1>3 DEF EditsCounted, KitAlike

\* What is promised at the end stays, when neither the Storage nor the number
\* of edits changes.
LEMMA EndsStep ==
  ASSUME EndOK, seen' = seen \cup Observed, UNCHANGED <<storage, edits>>,
         broker'.phase = broker.phase, broker'.dataLoss = broker.dataLoss,
         broker.stop => broker'.stop
  PROVE  EndOK'
<1>1. GivenUp(broker') => "discarded" \in seen'
  BY SeenGrows DEF EndOK, Discarded
<1>2. GivenUp(broker)' = GivenUp(broker')
  BY DEF GivenUp
<1> QED
  BY <1>1, <1>2, SeenGrows DEF EndOK

\* What a handler does to the flags of the unload.
OpenFlags(b, c) ==
    /\ c.destroying => b.destroying \/ b.unloadRequested \/ Open(c) = {}
    /\ b.closeRequested => c.closeRequested
    /\ b.stop => c.stop

\* A handler that sets the flags for a reason leaves the clients their
\* document; the inputs that may take it from them are counted.
LEMMA OpenStep ==
  ASSUME IInv, IInv', OpenOK, EndOK', seen' = seen \cup Observed,
         Open(broker') \subseteq Open(broker),
         OpenFlags(broker, broker'),
         StopsWell(broker, broker')
            \/ left'["idles"] < Budget["idles"] \/ left'["timeouts"] < Budget["timeouts"],
         \A i \in Input : left'[i] <= left[i]
  PROVE  OpenOK'
<1>1. /\ left \in [Input -> Nat] /\ left' \in [Input -> Nat]
      /\ Budget \in [Input -> Nat] /\ {"idles", "timeouts"} \subseteq Input
  BY SystemConstants DEF IInv, TypeOK, Input
<1>2. \A i \in Input : left'[i] <= Budget[i]
  BY <1>1 DEF OpenOK
<1>3. left["idles"] < Budget["idles"] => left'["idles"] < Budget["idles"]
  BY <1>1
<1>4. left["timeouts"] < Budget["timeouts"] => left'["timeouts"] < Budget["timeouts"]
  BY <1>1
<1>5. broker'.unloadRequested \/ broker'.destroying =>
        Open(broker') = {} \/ "notTheLast" \in seen'
  BY SeenGrows DEF OpenOK, OpenFlags, NotTheLast
<1>6. broker.destroying \/ broker.unloadRequested =>
        Open(broker') = {} \/ "notTheLast" \in seen'
  BY SeenGrows DEF OpenOK
<1>7. broker'.stop /\ broker'.changedInStorage => "discarded" \in seen'
  BY DEF EndOK, GivenUp
<1>8. broker'.stop =>
        \/ Open(broker') = {}
        \/ broker'.closeRequested
        \/ left'["idles"] < Budget["idles"]
        \/ left'["timeouts"] < Budget["timeouts"]
        \/ seen' \cap {"discarded", "notTheLast"} # {}
  <2>1. CASE broker.stop
    BY <1>3, <1>4, <2>1, SeenGrows DEF OpenOK, OpenFlags
  <2>2. CASE ~broker.stop
    BY <1>6, <1>7, <2>2 DEF StopsWell
  <2> QED
    BY <2>1, <2>2
<1>9. Open(broker)' = Open(broker')
  BY DEF Open, Present, InWaitDisconnected
<1> QED
  BY <1>2, <1>5, <1>8, <1>9 DEF OpenOK

\* Each message that waits after one was read, was one place behind before.
LEMMA ReceivedPlaces ==
  ASSUME fromKit \in Seq(BrokerMessage), Received
  PROVE  \E d \in {0, 1} : \A i \in DOMAIN fromKit' :
            i \in Nat /\ i + d \in DOMAIN fromKit /\ fromKit'[i] = fromKit[i + d]
<1>1. CASE fromKit' = fromKit
  <2>1. \A i \in DOMAIN fromKit' : i \in Nat /\ i + 0 = i
    BY <1>1
  <2> QED
    BY <1>1, <2>1
<1>2. CASE fromKit # <<>> /\ fromKit' = Tail(fromKit)
  <2>1. \A i \in DOMAIN fromKit' :
           i \in Nat /\ i + 1 \in DOMAIN fromKit /\ fromKit'[i] = fromKit[i + 1]
    BY <1>2, TailItems
  <2> QED
    BY <2>1
<1> QED
  BY <1>1, <1>2 DEF Received

\* A result of a save that is read without being noted changes nothing.
LEMMA SavesStep ==
  ASSUME IInv, SavesOK, seen' = seen \cup Observed, QueueFrame(broker, broker'),
         Received, UNCHANGED <<upload, edits>>,
         broker'.saveFailures = broker.saveFailures,
         broker'.uploading = broker.uploading
  PROVE  SavesOK'
<1> DEFINE q == broker.toKit
           r == broker'.toKit
<1> SUFFICES ASSUME "overlappingSaves" \notin seen'
             PROVE  /\ OneSave'
                    /\ SaveInFlight' => broker'.saving \/ broker'.saveFailures > 0
                    /\ ~broker'.modifyActivity => SavesAll'
  BY DEF SavesOK
<1>1. /\ "overlappingSaves" \notin seen /\ ~OverlappingSaves
      /\ OneSave /\ (SaveInFlight => broker.saving \/ broker.saveFailures > 0)
      /\ ~broker.modifyActivity => SavesAll
  BY SeenGrows DEF SavesOK
<1>2. q \in Seq(KitMessage) /\ fromKit \in Seq(BrokerMessage)
  BY MessageSessions
<1>3. PICK d \in {0, 1} : \A i \in DOMAIN fromKit' :
         i \in Nat /\ i + d \in DOMAIN fromKit /\ fromKit'[i] = fromKit[i + d]
  BY <1>2, ReceivedPlaces
<1>4. \A i, j \in DOMAIN fromKit' :
         fromKit'[i].type = "saveresult" /\ fromKit'[j].type = "saveresult" => i = j
  <2> SUFFICES ASSUME NEW i \in DOMAIN fromKit', NEW j \in DOMAIN fromKit',
                      fromKit'[i].type = "saveresult", fromKit'[j].type = "saveresult"
               PROVE  i = j
    OBVIOUS
  <2>1. i + d = j + d
    BY <1>1, <1>3 DEF OneSave
  <2> QED
    BY <1>3, <2>1
<1>5. ~broker.modifyActivity =>
        \A i \in DOMAIN fromKit' :
          fromKit'[i].type = "saveresult" /\ fromKit'[i].value # "failed" =>
            Exists(upload') /\ upload'.content = edits'
  BY <1>1, <1>3 DEF SavesAll
<1>6. (\E i \in DOMAIN fromKit' : fromKit'[i].type = "saveresult") => SaveInFlight
  BY <1>3 DEF SaveInFlight
<1>7. CASE SameQueue(broker, broker')
  <2>1. r = q /\ broker'.saving = broker.saving
        /\ broker'.modifyActivity = broker.modifyActivity
    BY <1>7 DEF SameQueue
  <2>2. OneSave'
    BY <1>1, <1>3, <1>4, <2>1 DEF OneSave
  <2>3. SaveInFlight' => SaveInFlight
    BY <1>6, <2>1 DEF SaveInFlight, IsSave
  <2>4. ~broker'.modifyActivity => SavesAll'
    BY <1>1, <1>5, <2>1 DEF SavesAll
  <2> QED
    BY <1>1, <2>1, <2>2, <2>3, <2>4
<1>8. ASSUME NEW m \in KitMessage, Sends(broker, broker', m)
      PROVE  /\ OneSave'
             /\ SaveInFlight' => broker'.saving \/ broker'.saveFailures > 0
             /\ ~broker'.modifyActivity => SavesAll'
  <2> DEFINE n == Len(q) + 1
  <2>1. /\ n \in Nat /\ DOMAIN q = 1..(n - 1) /\ DOMAIN r = 1..n
        /\ \A i \in DOMAIN q : r[i] = q[i]
        /\ r[n] = m /\ Len(r) = n /\ Len(r) > Len(q)
    BY <1>2, <1>8, AppendItems DEF Sends
  <2>2. \A i \in DOMAIN r : i \in DOMAIN q \/ i = n
    BY <2>1
  <2>3. CASE IsSave(m)
    <3>1. broker'.saving /\ ~broker'.modifyActivity
      BY <1>8, <2>3 DEF Sends, IsSave
    <3>2. ~SaveInFlight
      BY <1>1, <2>1, <2>3 DEF OverlappingSaves, SendsSave, IsSave
    <3>3. /\ \A i \in DOMAIN q : ~IsSave(q[i])
          /\ \A i \in DOMAIN fromKit' : fromKit'[i].type # "saveresult"
      BY <1>6, <3>2 DEF SaveInFlight, IsSave
    <3>4. \A i \in DOMAIN r : IsSave(r[i]) => i = n
      BY <2>1, <2>2, <3>3
    <3>5. OneSave'
      BY <3>3, <3>4 DEF OneSave
    <3>6. \A i, j \in DOMAIN r : IsSave(r[i]) => ~(i < j)
      BY <2>1, <3>4
    <3>7. SavesAll'
      BY <3>1, <3>3, <3>6 DEF SavesAll
    <3> QED
      BY <3>1, <3>5, <3>7
  <2>4. CASE m.type = "disconnect"
    <3>1. ~IsSave(m) /\ m.type # "edit"
      BY <2>4 DEF IsSave
    <3>2. broker'.saving = broker.saving /\ broker'.modifyActivity = broker.modifyActivity
      BY <1>8, <3>1 DEF Sends
    <3>3. \A i \in DOMAIN r : IsSave(r[i]) => i \in DOMAIN q /\ IsSave(q[i])
      BY <2>1, <2>2, <3>1
    <3>4. OneSave'
      BY <1>1, <1>3, <1>4, <3>3 DEF OneSave
    <3>5. SaveInFlight' => SaveInFlight
      BY <1>6, <3>3 DEF SaveInFlight, IsSave
    <3>6. ~broker'.modifyActivity =>
             \A i, j \in DOMAIN r : IsSave(r[i]) /\ i < j => r[j].type # "edit"
      BY <1>1, <2>1, <2>2, <3>1, <3>2, <3>3 DEF SavesAll
    <3>7. ~broker'.modifyActivity => SavesAll'
      BY <1>1, <1>5, <3>2, <3>6 DEF SavesAll
    <3> QED
      BY <1>1, <3>2, <3>4, <3>5, <3>7
  <2> QED
    BY <1>8, <2>3, <2>4 DEF Sends
<1> QED
  BY <1>7, <1>8 DEF QueueFrame

\* An upload is started with the file on disk, and no file moves.
LEMMA UploadsStep ==
  ASSUME IInv, FilesOK, UploadsOK, LatestBeforeRename, seen' = seen \cup Observed,
         UploadFrame(broker, broker'), RenamesCurrent(broker, broker'),
         kit'.doc = kit.doc, UNCHANGED <<upload, storage>>
  PROVE  FilesOK' /\ UploadsOK' /\ LatestBeforeRename'
<1> DEFINE b == broker
           c == broker'
<1>1. /\ c.uploading = b.uploading /\ c.uploadedTime = b.uploadedTime
      /\ c.http = b.http \/ Starts(b, c)
  BY DEF UploadFrame
<1>2. b.uploading.mtime \in Int
  BY DEF IInv, TypeOK, Broker, File, MTime
<1>3. FilesOK'
  <2>1. CASE c.http = b.http
    BY <1>1, <2>1 DEF FilesOK, FileOK
  <2>2. CASE Starts(b, c)
    <3>1. c.http.kind = "put" => Exists(b.uploading) /\ c.http.file = b.uploading
      BY <2>2 DEF Starts
    <3>2. Exists(b.uploading) => b.uploading.mtime >= 0
      BY <1>2 DEF Exists, FilesOK, FileOK
    <3> QED
      BY <1>1, <3>1, <3>2 DEF FilesOK, FileOK
  <2> QED
    BY <1>1, <2>1, <2>2
<1>4. c.http.kind = "put" /\ c.http.applied => storage' = c.http.file.content
  BY <1>1 DEF Starts, UploadsOK
<1>5. ASSUME "requestReplaced" \notin seen'
      PROVE  /\ IsAsyncUploading(c) => c.request.kind = c.http.kind
             /\ c.http.kind = "put" => c.request.mtime = c.http.file.mtime
  <2>1. "requestReplaced" \notin seen /\ ~RequestReplaced
    BY <1>5, SeenGrows
  <2>2. CASE c.http = b.http /\ IsAsyncUploading(b)
    <3>1. c.request = b.request
      BY <2>1, <2>2 DEF RequestReplaced
    <3> QED
      BY <2>1, <2>2, <3>1 DEF UploadsOK, IsAsyncUploading
  <2>3. CASE c.http = b.http /\ ~IsAsyncUploading(b)
    BY <2>3 DEF IsAsyncUploading
  <2>4. CASE Starts(b, c)
    BY <2>4 DEF Starts
  <2> QED
    BY <1>1, <2>2, <2>3, <2>4
<1>6. ASSUME "requestReplaced" \notin seen'
      PROVE  IF Exists(c.uploading)
             THEN /\ c.uploadedTime <= c.uploading.mtime
                  /\ c.uploadedTime = c.uploading.mtime => storage' = c.uploading.content
             ELSE c.uploadedTime = 0
  BY <1>1, <1>6, SeenGrows DEF UploadsOK
<1>7. ASSUME "fileReplaced" \notin seen', c.http.kind = "put"
      PROVE  c.http.file = c.uploading
  BY <1>1, <1>7, SeenGrows DEF UploadsOK, Starts
<1>8. UploadsOK'
  BY <1>4, <1>5, <1>6, <1>7 DEF UploadsOK, IsAsyncUploading
<1>9. LatestBeforeRename'
  <2> SUFFICES ASSUME c.http.kind = "rename",
                      seen' \cap {"requestReplaced", "fileReplaced"} = {}
               PROVE  storage' = c.http.file.content
    BY DEF LatestBeforeRename
  <2>1. CASE c.http = b.http
    BY <2>1, SeenGrows DEF LatestBeforeRename
  <2>2. CASE Starts(b, c)
    <3>1. ~IsStorageOutdated(b)
      BY <2>2 DEF Starts, RenamesCurrent
    <3>2. Exists(b.uploading) /\ c.http.file = b.uploading
      BY <2>2 DEF Starts
    <3>3. storage = b.uploading.content
      BY <3>1, <3>2, SeenGrows DEF UploadsOK, IsStorageOutdated
    <3> QED
      BY <3>2, <3>3
  <2> QED
    BY <1>1, <2>1, <2>2
<1> QED
  BY <1>3, <1>8, <1>9

\* A handler that is one method of the broker keeps the invariant.
LEMMA MethodStep ==
  ASSUME IInv, IInv', HInv, seen' = seen \cup Observed,
         SessionFrame(broker, broker'), QueueFrame(broker, broker'),
         UploadFrame(broker, broker'), RenamesCurrent(broker, broker'),
         Received, KitAlike, UNCHANGED <<upload, storage, edits, joined>>,
         \/ StepFlags(broker, broker')
         \/ /\ FlagFrame(broker, broker')
            /\ left'["idles"] < Budget["idles"] \/ left'["timeouts"] < Budget["timeouts"],
         \A i \in Input : left'[i] <= left[i]
  PROVE  HInv'
<1>1. QueueStep(broker, broker')
  BY FrameQueueStep
<1>2. /\ broker'.phase = broker.phase /\ broker'.dataLoss = broker.dataLoss
      /\ broker'.kitDisconnected = broker.kitDisconnected
      /\ broker'.saveFailures = broker.saveFailures
      /\ broker.stop => broker'.stop
      /\ OpenFlags(broker, broker')
      /\ StopsWell(broker, broker')
            \/ left'["idles"] < Budget["idles"] \/ left'["timeouts"] < Budget["timeouts"]
  BY DEF StepFlags, FlagFrame, OpenFlags
<1>3. ViewsKnown'
  BY <1>1, ViewsStep DEF HInv, KitAlike
<1>4. EditsCounted'
  BY <1>1, <1>2, EditsStep DEF HInv
<1>5. SavesOK'
  BY <1>2, SavesStep DEF HInv, UploadFrame
<1>6. FilesOK' /\ UploadsOK' /\ LatestBeforeRename'
  BY UploadsStep DEF HInv, KitAlike
<1>7. EndOK'
  BY <1>2, EndsStep DEF HInv
<1>8. OpenOK'
  BY <1>2, <1>7, OpenStep DEF HInv, SessionFrame
<1> QED
  BY <1>3, <1>4, <1>5, <1>6, <1>7, <1>8 DEF HInv

-----------------------------------------------------------------------------
(* The events of the clients. *)

\* A step of the history from a state of the invariant.
HStep == IInv /\ IInv' /\ HInv /\ seen' = seen \cup Observed

\* An input that is spent is counted.
LEMMA SpendLess ==
  ASSUME IInv, OpenOK, NEW input \in Input, Spend(input)
  PROVE  /\ \A i \in Input : left'[i] <= left[i]
         /\ left'[input] < Budget[input]
<1>1. left \in [Input -> Nat] /\ Budget \in [Input -> Nat]
  BY SystemConstants DEF IInv, TypeOK
<1>2. left' = [left EXCEPT ![input] = @ - 1]
  BY DEF Spend
<1>3. left'[input] = left[input] - 1 /\ left[input] <= Budget[input]
  BY <1>1, <1>2 DEF OpenOK
<1>4. \A i \in Input : left[i] \in Nat /\ left'[i] = IF i = input THEN left[i] - 1 ELSE left[i]
  BY <1>1, <1>2
<1>5. left[input] \in Nat /\ Budget[input] \in Nat
  BY <1>1
<1> QED
  BY <1>3, <1>4, <1>5

\* Otherwise the inputs left stay the same.
LEMMA SpendNothing ==
  ASSUME IInv, UNCHANGED left
  PROVE  \A i \in Input : left'[i] <= left[i]
<1>1. \A i \in Input : left[i] \in Nat
  BY DEF IInv, TypeOK
<1> QED
  BY <1>1

\* What a method of the broker promises, put together.
MethodFrames(b, c) ==
    /\ SessionFrame(b, c) /\ QueueFrame(b, c)
    /\ UploadFrame(b, c) /\ RenamesCurrent(b, c)
    /\ StepFlags(b, c)

\* The methods that follow promise it.
LEMMA FollowsMethod ==
  ASSUME NEW b, NEW c, Follows(b, c), StopsWell(b, c), RenamesCurrent(b, c)
  PROVE  MethodFrames(b, c)
BY FollowsFlags DEF MethodFrames

\* So do those that only upload.
LEMMA UploadsMethod ==
  ASSUME NEW b, NEW c, Uploads(b, c), RenamesCurrent(b, c)
  PROVE  MethodFrames(b, c)
BY UploadsFollows, FollowsMethod

\* So do those that change nothing that matters here.
LEMMA AlikeMethod ==
  ASSUME NEW b, NEW c, Alike(b, c)
  PROVE  MethodFrames(b, c)
BY AlikeUploads, UploadsMethod

\* A handler of the broker that is one method.
LEMMA HandlerStep ==
  ASSUME HStep, MethodFrames(broker, broker'),
         UNCHANGED <<kit, upload, fromKit, storage, edits, joined>>,
         (\E input \in Input : Spend(input)) \/ UNCHANGED left
  PROVE  HInv'
<1>1. \A i \in Input : left'[i] <= left[i]
  BY SpendLess, SpendNothing DEF HStep, HInv
<1>2. Received /\ KitAlike
  BY DEF Received, KitAlike
<1> QED
  BY <1>1, <1>2, MethodStep DEF HStep, MethodFrames

\* A client's message that is one method.
LEMMA ClientMethods ==
  ASSUME HStep,
         \/ \E s \in Session, force \in BOOLEAN : Save(s, force) \/ RenameFile(s, force)
         \/ \E s \in Session, force \in BOOLEAN, canUpload \in BOOLEAN :
               SaveToStorage(s, force, canUpload)
         \/ \E s \in Session : SaveAs(s) \/ Disconnect(s) \/ ReloadRequest(s)
         \/ CloseRequest
  PROVE  HInv'
<1>1. Sound(broker) /\ broker \in Broker
  BY Invariant DEF HStep, Sound
<1>2. {"saves", "forced", "saveAs", "leaves", "closes", "renames"} \subseteq Input
  BY DEF Input
<1>3. ASSUME NEW s \in Session, NEW force \in BOOLEAN, Save(s, force)
      PROVE  HInv'
  <2>1. s \in Present(broker)
    BY <1>3 DEF Save, IsLive, Present
  <2>2. broker' = ManualSave(broker, s, force) /\ Spend("saves")
        /\ UNCHANGED <<kit, upload, fromKit, storage, edits, joined>>
    BY <1>3 DEF Save, Handled
  <2>3. Follows(broker, broker') /\ SameUpload(broker, broker') /\ StopsWell(broker, broker')
    BY <1>1, <2>1, <2>2, ManualSaveFollows
  <2>4. MethodFrames(broker, broker')
    BY <2>3, FollowsMethod, RenamesNothing DEF SameUpload
  <2> QED
    BY <1>2, <2>2, <2>4, HandlerStep
<1>4. ASSUME NEW s \in Session, NEW force \in BOOLEAN, NEW canUpload \in BOOLEAN,
             SaveToStorage(s, force, canUpload)
      PROVE  HInv'
  <2>1. broker' = UploadToStorage(broker, s, force, canUpload) /\ Spend("forced")
        /\ UNCHANGED <<kit, upload, fromKit, storage, edits, joined>>
    BY <1>4 DEF SaveToStorage, Handled
  <2>2. MethodFrames(broker, broker')
    BY <1>1, <2>1, UploadToStorageUploads, UploadsMethod
  <2> QED
    BY <1>2, <2>1, <2>2, HandlerStep
<1>5. ASSUME NEW s \in Session, SaveAs(s)
      PROVE  HInv'
  <2>1. broker' = UploadToStorageInternal(broker, s, "saveas") /\ Spend("saveAs")
        /\ UNCHANGED <<kit, upload, fromKit, storage, edits, joined>>
    BY <1>5 DEF SaveAs, Handled
  <2>2. Uploads(broker, broker') /\ RenamesCurrent(broker, broker')
    BY <1>1, <2>1, UploadToStorageInternalUploads
  <2> QED
    BY <1>2, <2>1, <2>2, UploadsMethod, HandlerStep
<1>6. ASSUME NEW s \in Session, NEW sameName \in BOOLEAN, RenameFile(s, sameName)
      PROVE  HInv'
  <2> DEFINE a == [broker EXCEPT !.renameSession = s]
             c == StartRenameFileCommand(a)
  <2>1. /\ \/ broker' = broker \/ broker' = a \/ broker' = c
        /\ Spend("renames")
        /\ UNCHANGED <<kit, upload, fromKit, storage, edits, joined>>
    BY <1>6 DEF RenameFile, Handled
  <2>2. a \in Broker /\ Alike(broker, a)
    BY <1>1, SessionTypes DEF Alike, SameButUpload, SameQueue, Broker
  <2> HIDE DEF a
  <2>3. Follows(a, c) /\ c.http = a.http /\ StopsWell(a, c)
    BY <2>2, StartRenameFileCommandFollows
  <2>4. RenamesCurrent(a, c)
    BY <2>3, RenamesNothing
  <2> HIDE DEF c
  <2>5. MethodFrames(broker, c)
    BY <2>2, <2>3, <2>4, AlikeThen, AlikeTwice, FollowsMethod
  <2>6. MethodFrames(broker, broker')
    BY <2>1, <2>2, <2>5, AlikeMethod, FollowsSame
  <2> QED
    BY <1>2, <2>1, <2>6, HandlerStep
<1>7. ASSUME NEW s \in Session, Disconnect(s)
      PROVE  HInv'
  <2>1. s \in Present(broker) /\ broker' = RemoveSession(broker, s) /\ Spend("leaves")
        /\ UNCHANGED <<kit, upload, fromKit, storage, edits, joined>>
    BY <1>7 DEF Disconnect, Handled
  <2>2. MethodFrames(broker, broker')
    BY <1>1, <2>1, RemoveSessionFrames, RenamesNothing DEF MethodFrames
  <2> QED
    BY <1>2, <2>1, <2>2, HandlerStep
<1>8. ASSUME CloseRequest
      PROVE  HInv'
  <2>1. broker' = CloseDocument(broker) /\ Spend("closes")
        /\ UNCHANGED <<kit, upload, fromKit, storage, edits, joined>>
    BY <1>8 DEF CloseRequest, Handled
  <2>2. MethodFrames(broker, broker')
    BY <1>1, <2>1, CloseDocumentFollows, FollowsMethod, RenamesNothing DEF SameUpload
  <2> QED
    BY <1>2, <2>1, <2>2, HandlerStep
<1>9. ASSUME NEW s \in Session, ReloadRequest(s)
      PROVE  HInv'
  <2>1. /\ broker.changedInStorage /\ broker' = Stop(broker)
        /\ UNCHANGED <<kit, upload, fromKit, storage, edits, joined, left>>
    BY <1>9 DEF ReloadRequest, Handled
  <2>2. Follows(broker, broker') /\ broker'.http = broker.http
    BY <1>1, <2>1, StopFollows DEF SameUpload
  <2>3. StopsWell(broker, broker')
    BY <2>1, <2>2 DEF Follows, FlagFrame, StopsWell
  <2>4. MethodFrames(broker, broker')
    BY <2>2, <2>3, FollowsMethod, RenamesNothing
  <2> QED
    BY <2>1, <2>4, HandlerStep
<1> QED
  BY <1>3, <1>4, <1>5, <1>6, <1>7, <1>8, <1>9

\* A message is sent that is no save, and no edit unless an input is noted.
LEMMA SavesAppend ==
  ASSUME IInv, SavesOK, seen \subseteq seen',
         \/ broker'.toKit = broker.toKit
         \/ \E m \in KitMessage :
               /\ broker'.toKit = Append(broker.toKit, m)
               /\ ~IsSave(m)
               /\ broker'.modifyActivity \/ m.type # "edit",
         \/ broker'.modifyActivity
         \/ broker'.modifyActivity = broker.modifyActivity /\ UNCHANGED edits,
         broker'.saving = broker.saving,
         broker'.saveFailures = broker.saveFailures,
         broker'.uploading = broker.uploading,
         UNCHANGED <<upload, fromKit>>
  PROVE  SavesOK'
<1> DEFINE q == broker.toKit
           r == broker'.toKit
<1> SUFFICES ASSUME "overlappingSaves" \notin seen'
             PROVE  /\ OneSave'
                    /\ SaveInFlight' => broker'.saving \/ broker'.saveFailures > 0
                    /\ ~broker'.modifyActivity => SavesAll'
  BY DEF SavesOK
<1>1. /\ OneSave /\ (SaveInFlight => broker.saving \/ broker.saveFailures > 0)
      /\ ~broker.modifyActivity => SavesAll
  BY DEF SavesOK
<1>2. q \in Seq(KitMessage)
  BY MessageSessions
<1>3. \A i \in DOMAIN r : IsSave(r[i]) => i \in DOMAIN q /\ IsSave(q[i])
  BY <1>2, AppendItems
<1>4. ~broker'.modifyActivity =>
         \A i, j \in DOMAIN r : IsSave(r[i]) /\ i < j => r[j].type # "edit"
  <2>1. CASE r = q
    BY <1>1, <2>1 DEF SavesAll
  <2>2. ASSUME NEW m \in KitMessage, r = Append(q, m), ~IsSave(m),
               broker'.modifyActivity \/ m.type # "edit"
        PROVE  ~broker'.modifyActivity =>
                 \A i, j \in DOMAIN r : IsSave(r[i]) /\ i < j => r[j].type # "edit"
    <3>1. \A j \in DOMAIN r : (j \in DOMAIN q /\ r[j] = q[j]) \/ r[j] = m
      BY <1>2, <2>2, AppendItems
    <3> QED
      BY <1>1, <1>3, <2>2, <3>1 DEF SavesAll
  <2> QED
    BY <2>1, <2>2
<1>5. OneSave'
  BY <1>1, <1>3 DEF OneSave
<1>6. SaveInFlight' => SaveInFlight
  BY <1>3 DEF SaveInFlight, IsSave
<1>7. ~broker'.modifyActivity => SavesAll'
  BY <1>1, <1>4 DEF SavesAll
<1> QED
  BY <1>1, <1>5, <1>6, <1>7

\* A client joins, and is not yet known to the Kit; or fails to join.
LEMMA JoinHistory ==
  ASSUME HStep, NEW added \in BOOLEAN, Join(added)
  PROVE  HInv'
<1> DEFINE q == broker.toKit
           r == broker'.toKit
           s == joined + 1
           m == [type |-> "load", sessions |-> {s}]
<1>1. /\ broker \in Broker /\ q \in Seq(KitMessage) /\ joined \in Session
      /\ s \in Session
  BY MessageSessions DEF HStep, IInv, TypeOK, Join
<1>2. /\ joined' = s /\ Spend("joins") /\ "joins" \in Input
      /\ ~broker.destroying /\ ~broker.stop
      /\ UNCHANGED <<kit, upload, fromKit, storage, edits>>
  BY DEF Join, Input, IsMarkedToDestroy
<1>3. broker' = IF added
                THEN [KeepForNewSession(broker) EXCEPT
                        !.sess[s] = "LOADING",
                        !.editable = @ \cup ({s} \cap Editors),
                        !.toKit = Append(@, m)]
                ELSE [KeepForNewSession(broker) EXCEPT
                        !.destroying = @ \/ Present(KeepForNewSession(broker)) = {}]
  BY DEF Join, Handled
<1>4. Present(KeepForNewSession(broker)) = Present(broker)
  BY <1>1 DEF KeepForNewSession, Present, Broker
<1>5. m \in KitMessage /\ m.sessions = {s} /\ m.type = "load" /\ ~IsSave(m)
  BY <1>1 DEF KitMessage, IsSave
<1> HIDE DEF m
<1>6. /\ broker'.saving = broker.saving /\ broker'.modifyActivity = broker.modifyActivity
      /\ broker'.saveFailures = broker.saveFailures
      /\ UploadFrame(broker, broker') /\ broker'.http = broker.http
      /\ broker'.phase = broker.phase /\ broker'.dataLoss = broker.dataLoss
      /\ broker'.kitDisconnected = broker.kitDisconnected
      /\ ~broker'.stop /\ ~broker'.unloadRequested
  BY <1>1, <1>2, <1>3 DEF KeepForNewSession, UploadFrame, Broker
<1>7. \/ /\ added /\ r = Append(q, m)
         /\ broker'.sess = [broker.sess EXCEPT ![s] = "LOADING"]
         /\ ~broker'.destroying
      \/ /\ ~added /\ r = q /\ broker'.sess = broker.sess
         /\ broker'.destroying => Present(broker) = {}
  BY <1>1, <1>2, <1>3, <1>4 DEF KeepForNewSession, Broker
<1>8. SavesOK'
  BY <1>2, <1>5, <1>6, <1>7, SavesAppend, SeenGrows DEF HStep, HInv, UploadFrame
<1>9. FilesOK' /\ UploadsOK' /\ LatestBeforeRename'
  BY <1>2, <1>6, UploadsStep, RenamesNothing DEF HStep, HInv
<1>10. EndOK'
  BY <1>2, <1>6, EndsStep DEF HStep, HInv
<1>11. EditsCounted'
  <2>1. Edits(Append(q, m)) = Edits(q)
    BY <1>1, <1>5, EditsQueue
  <2> QED
    BY <1>2, <1>6, <1>7, <2>1 DEF HStep, HInv, EditsCounted
<1>12. OpenOK'
  <2>1. \A i \in Input : left'[i] <= Budget[i]
    <3>1. \A i \in Input : left'[i] <= left[i]
      BY <1>2, SpendLess DEF HStep, HInv
    <3>2. /\ left \in [Input -> Nat] /\ left' \in [Input -> Nat]
          /\ Budget \in [Input -> Nat]
      BY SystemConstants DEF HStep, IInv, TypeOK
    <3> QED
      BY <3>1, <3>2 DEF HStep, HInv, OpenOK
  <2>2. broker'.destroying => Open(broker') = {}
    BY <1>7 DEF Open, Present
  <2>3. Open(broker)' = Open(broker')
    BY DEF Open, Present, InWaitDisconnected
  <2> QED
    BY <1>6, <2>1, <2>2, <2>3 DEF OpenOK
<1>13. ViewsKnown'
  <2>1. \A o \in Session : broker'.sess[o] = broker.sess[o] \/ (o = s /\ broker'.sess[o] = "LOADING")
    BY <1>1, <1>7 DEF Broker
  <2>2. /\ \A o \in 1..joined : o # s /\ o \in 1..s
        /\ s \in 1..s
    BY <1>1 DEF Session
  <2>3. \A o \in Session : o > s => o > joined /\ o # s
    BY <1>1 DEF Session
  <2>4. \A i \in DOMAIN r : \/ i \in DOMAIN q /\ r[i] = q[i]
                            \/ r[i] = m
    BY <1>1, <1>5, <1>7, AppendItems
  <2>5. \A o \in Session : o > joined' => broker'.sess[o] = "absent"
    BY <1>2, <2>1, <2>3 DEF HStep, HInv, ViewsKnown
  <2>6. \A i \in DOMAIN r : r[i].sessions \subseteq 1..joined'
    BY <1>2, <1>5, <2>2, <2>4 DEF HStep, HInv, ViewsKnown
  <2>7. \A i \in DOMAIN r : r[i].type = "disconnect" =>
           \A o \in r[i].sessions : ~Here(broker', o)
    <3> SUFFICES ASSUME NEW i \in DOMAIN r, r[i].type = "disconnect",
                        NEW o \in r[i].sessions
                 PROVE  ~Here(broker', o)
      OBVIOUS
    <3>1. i \in DOMAIN q /\ r[i] = q[i]
      BY <1>5, <2>4
    <3>2. o \in 1..joined /\ ~Here(broker, o) /\ o \in Session
      BY <3>1, MessageSessions DEF HStep, HInv, ViewsKnown
    <3> QED
      BY <2>1, <2>2, <3>2 DEF Here
  <2>8. \A o \in Session : broker'.sess[o] = "LIVE" => o \in kit'.views
    BY <1>2, <2>1 DEF HStep, HInv, ViewsKnown
  <2>9. \A i \in DOMAIN fromKit' : fromKit'[i].type = "loaded" =>
          /\ fromKit'[i].sessions \subseteq 1..joined'
          /\ \A o \in fromKit'[i].sessions :
                broker'.sess[o] = "LOADING" => o \in kit'.views
    <3> SUFFICES ASSUME NEW i \in DOMAIN fromKit, fromKit[i].type = "loaded",
                        NEW o \in fromKit[i].sessions
                 PROVE  /\ o \in 1..joined'
                        /\ broker'.sess[o] = "LOADING" => o \in kit'.views
      BY <1>2
    <3>1. o \in 1..joined /\ o \in Session
      BY MessageSessions DEF HStep, HInv, ViewsKnown
    <3> QED
      BY <1>2, <2>1, <2>2, <3>1 DEF HStep, HInv, ViewsKnown
  <2>10. \A i, j \in DOMAIN r :
           i \in DOMAIN q /\ j < i => j \in DOMAIN q /\ r[j] = q[j]
    <3>1. /\ DOMAIN q = 1..Len(q) /\ Len(q) \in Nat
          /\ r = q \/ (DOMAIN r = 1..(Len(q) + 1) /\ \A i \in DOMAIN q : r[i] = q[i])
      BY <1>1, <1>5, <1>7, AppendItems
    <3> QED
      BY <3>1
  <2>11. \A i \in DOMAIN r : r[i].type = "edit" =>
          /\ r[i].sessions \subseteq kit'.views
          /\ \A j \in DOMAIN r : r[j].type = "disconnect" /\ j < i =>
                r[j].sessions \cap r[i].sessions = {}
    BY <1>2, <1>5, <2>4, <2>10 DEF HStep, HInv, ViewsKnown
  <2> QED
    BY <2>5, <2>6, <2>7, <2>8, <2>9, <2>11 DEF ViewsKnown
<1> QED
  BY <1>8, <1>9, <1>10, <1>11, <1>12, <1>13 DEF HInv

\* A client edits: the Kit knows its view, and the input is noted.
LEMMA EditHistory ==
  ASSUME HStep, NEW s \in Session, NEW command \in BOOLEAN, Edit(s, command)
  PROVE  HInv'
<1> DEFINE q == broker.toKit
           r == broker'.toKit
           m == [type |-> "edit", sessions |-> {s}]
<1>1. /\ broker \in Broker /\ q \in Seq(KitMessage) /\ edits \in Nat
      /\ kit \in Kit
  BY MessageSessions DEF HStep, IInv, TypeOK
<1>2. /\ Spend("edits") /\ "edits" \in Input
      /\ ~broker.stop /\ broker.sess[s] = "LIVE"
      /\ UNCHANGED <<kit, upload, fromKit, storage, joined>>
  BY DEF Edit, Input, IsLive
<1>3. \/ /\ broker' = [broker EXCEPT !.lastEditing = s, !.modifyActivity = TRUE,
                                     !.toKit = Append(@, m)]
         /\ edits' = edits + 1
      \/ /\ broker' = [broker EXCEPT !.lastEditing = s, !.modifyActivity = TRUE]
         /\ edits' = edits
  BY <1>1 DEF Edit, Handled, Broker
<1>4. m \in KitMessage /\ m.sessions = {s} /\ m.type = "edit" /\ ~IsSave(m)
  BY DEF KitMessage, IsSave
<1> HIDE DEF m
<1>5. /\ broker'.saving = broker.saving /\ broker'.modifyActivity = TRUE
      /\ broker'.saveFailures = broker.saveFailures
      /\ UploadFrame(broker, broker') /\ broker'.http = broker.http
      /\ broker'.phase = broker.phase /\ broker'.dataLoss = broker.dataLoss
      /\ broker'.kitDisconnected = broker.kitDisconnected
      /\ broker'.stop = broker.stop /\ broker'.unloadRequested = broker.unloadRequested
      /\ broker'.destroying = broker.destroying
      /\ broker'.closeRequested = broker.closeRequested
      /\ broker'.changedInStorage = broker.changedInStorage
      /\ broker'.sess = broker.sess /\ broker'.closeFrame = broker.closeFrame
  <2> DEFINE x == [broker EXCEPT !.lastEditing = s, !.modifyActivity = TRUE,
                                 !.toKit = Append(@, m)]
             y == [broker EXCEPT !.lastEditing = s, !.modifyActivity = TRUE]
  <2>1. CASE broker' = x
    BY <1>1, <2>1 DEF UploadFrame, Broker
  <2>2. CASE broker' = y
    BY <1>1, <2>2 DEF UploadFrame, Broker
  <2> QED
    BY <1>3, <2>1, <2>2
<1>6. (r = Append(q, m) /\ edits' = edits + 1) \/ (r = q /\ edits' = edits)
  BY <1>1, <1>3 DEF Broker
<1>7. SavesOK'
  BY <1>2, <1>4, <1>5, <1>6, SavesAppend, SeenGrows DEF HStep, HInv, UploadFrame
<1>8. FilesOK' /\ UploadsOK' /\ LatestBeforeRename'
  BY <1>2, <1>5, UploadsStep, RenamesNothing DEF HStep, HInv
<1>9. EndOK'
  BY <1>2, <1>5 DEF HStep, HInv, EndOK, GivenUp
<1>10. EditsCounted'
  <2>1. Edits(Append(q, m)) = Edits(q) + 1 /\ Edits(q) \in Nat
    BY <1>1, <1>4, EditsQueue
  <2>2. kit.content \in Nat
    BY <1>1 DEF Kit
  <2>3. EditsCounted
    BY DEF HStep, HInv
  <2>4. \/ Edits(r) = Edits(q) + 1 /\ edits' = edits + 1
        \/ Edits(r) = Edits(q) /\ edits' = edits
    BY <1>6, <2>1
  <2> DEFINE n == Edits(q)
             n1 == Edits(r)
  <2>5. n \in Nat /\ ((n1 = n + 1 /\ edits' = edits + 1) \/ (n1 = n /\ edits' = edits))
    BY <2>1, <2>4
  <2>6. /\ kit.content + n <= edits
        /\ broker.kitDisconnected = "No" => kit.content + n = edits
    BY <2>3 DEF EditsCounted
  <2> HIDE DEF n, n1
  <2>7. /\ kit.content + n1 <= edits'
        /\ broker.kitDisconnected = "No" => kit.content + n1 = edits'
    BY <1>1, <2>2, <2>5, <2>6
  <2> QED
    BY <1>2, <1>5, <2>3, <2>7 DEF EditsCounted, n1
<1>11. OpenOK'
  <2>1. Open(broker') \subseteq Open(broker)
    BY <1>5, SameSessions
  <2>2. OpenFlags(broker, broker') /\ StopsWell(broker, broker')
    BY <1>2, <1>5 DEF OpenFlags, StopsWell
  <2>3. \A i \in Input : left'[i] <= left[i]
    BY <1>2, SpendLess DEF HStep, HInv
  <2> QED
    BY <1>9, <2>1, <2>2, <2>3, OpenStep DEF HStep, HInv
<1>12. ViewsKnown'
  <2>1. s \in kit.views /\ s \in 1..joined
    BY <1>1, <1>2 DEF HStep, IInv, TypeOK, HInv, ViewsKnown, Session
  <2>2. \A i \in DOMAIN r : \/ i \in DOMAIN q /\ r[i] = q[i]
                            \/ r[i] = m
    BY <1>1, <1>4, <1>6, AppendItems
  <2>3. \A i \in DOMAIN q, j \in DOMAIN r : j < i => j \in DOMAIN q /\ r[j] = q[j]
    <3>1. /\ DOMAIN q = 1..Len(q) /\ Len(q) \in Nat
          /\ r = q \/ (DOMAIN r = 1..(Len(q) + 1) /\ \A i \in DOMAIN q : r[i] = q[i])
      BY <1>1, <1>4, <1>6, AppendItems
    <3> QED
      BY <3>1
  <2>4. \A i \in DOMAIN r : r[i].type = "disconnect" =>
           /\ \A o \in r[i].sessions : ~Here(broker', o)
           /\ s \notin r[i].sessions
    BY <1>2, <1>4, <1>5, <2>2 DEF HStep, HInv, ViewsKnown, Here
  <2>5. \A i \in DOMAIN r : r[i].sessions \subseteq 1..joined'
    BY <1>2, <1>4, <2>1, <2>2 DEF HStep, HInv, ViewsKnown
  <2>6. \A i \in DOMAIN r : r[i].type = "edit" =>
          /\ r[i].sessions \subseteq kit'.views
          /\ \A j \in DOMAIN r : r[j].type = "disconnect" /\ j < i =>
                r[j].sessions \cap r[i].sessions = {}
    BY <1>2, <1>4, <2>1, <2>2, <2>3, <2>4 DEF HStep, HInv, ViewsKnown
  <2>7. /\ \A o \in Session : o > joined' => broker'.sess[o] = "absent"
        /\ \A o \in Session : broker'.sess[o] = "LIVE" => o \in kit'.views
        /\ \A i \in DOMAIN fromKit' : fromKit'[i].type = "loaded" =>
             /\ fromKit'[i].sessions \subseteq 1..joined'
             /\ \A o \in fromKit'[i].sessions :
                   broker'.sess[o] = "LOADING" => o \in kit'.views
    BY <1>2, <1>5 DEF HStep, HInv, ViewsKnown
  <2> QED
    BY <2>4, <2>5, <2>6, <2>7 DEF ViewsKnown
<1> QED
  BY <1>7, <1>8, <1>9, <1>10, <1>11, <1>12 DEF HInv

-----------------------------------------------------------------------------
(* The events of the Kit. *)

\* A message of the Kit for which the broker runs one method.
LEMMA KitEventMethod ==
  ASSUME HStep, NEW type, KitEvent(type),
         MethodFrames(broker, broker'), UNCHANGED upload
  PROVE  HInv'
<1>1. /\ Received /\ KitAlike
      /\ UNCHANGED <<storage, edits, joined, left>>
  BY DEF KitEvent, Received, KitAlike
<1>2. \A i \in Input : left'[i] <= left[i]
  BY <1>1, SpendNothing DEF HStep
<1> QED
  BY <1>1, <1>2, MethodStep DEF HStep, MethodFrames

\* The modified status is noted.
LEMMA SetModifiedHistory ==
  ASSUME HStep, SetModified
  PROVE  HInv'
<1> DEFINE v == IF Head(fromKit).sessions \cap Present(broker) # {}
                THEN Head(fromKit).value = "true" ELSE broker.isModified
<1>1. broker' = [broker EXCEPT !.isModified = v] /\ KitEvent("ModifiedStatus")
      /\ UNCHANGED upload
  BY DEF SetModified, Handled
<1>2. broker \in Broker
  BY DEF HStep, IInv, TypeOK
<1> HIDE DEF v
<1>3. Alike(broker, broker')
  BY <1>1, <1>2 DEF Alike, SameButUpload, SameQueue, Broker
<1> QED
  BY <1>1, <1>3, AlikeMethod, KitEventMethod

\* The Kit has closed the views of sessions, which are then gone.
LEMMA DisconnectedHistory ==
  ASSUME HStep, Disconnected
  PROVE  HInv'
<1> DEFINE D == Head(fromKit).sessions
           S == [s \in Session |-> IF s \in D THEN "absent" ELSE broker.sess[s]]
           f == broker.closeFrame \ D
           e == broker.expired \ D
<1>1. /\ broker' = [broker EXCEPT !.sess = S, !.closeFrame = f, !.expired = e]
      /\ KitEvent("disconnected") /\ UNCHANGED upload
  BY DEF Disconnected, Handled
<1>2. broker \in Broker
  BY DEF HStep, IInv, TypeOK
<1> HIDE DEF S, f, e
<1>3. /\ broker'.sess = S /\ broker'.closeFrame = f
      /\ SameQueue(broker, broker') /\ UploadFrame(broker, broker')
      /\ broker'.http = broker.http /\ FlagFrame(broker, broker')
      /\ broker'.stop = broker.stop
  BY <1>1, <1>2 DEF SameQueue, UploadFrame, FlagFrame, Broker
<1>4. SessionFrame(broker, broker')
  <2>1. \A s \in Session : broker'.sess[s] = IF s \in D THEN "absent" ELSE broker.sess[s]
    BY <1>3 DEF S
  <2> QED
    BY <1>3, <2>1 DEF f, SessionFrame, Open, Here, Present, InWaitDisconnected
<1>5. MethodFrames(broker, broker')
  BY <1>3, <1>4, FollowsMethod, RenamesNothing DEF Follows, QueueFrame, StopsWell
<1> QED
  BY <1>1, <1>5, KitEventMethod

\* A view is loaded, and its session, when it still waits for that, may edit.
LEMMA LoadedHistory ==
  ASSUME HStep, Loaded
  PROVE  HInv'
<1> DEFINE M     == Head(fromKit).sessions
           ready == {s \in M : broker.sess[s] = "LOADING"}
           S     == [s \in Session |-> IF s \in ready THEN "LIVE" ELSE broker.sess[s]]
           l     == broker.loaded \/ (ready # {} /\ Head(fromKit).value = "true")
<1>1. /\ broker' = [broker EXCEPT !.sess = S, !.loaded = l]
      /\ fromKit # <<>> /\ Head(fromKit).type = "loaded" /\ Received
      /\ fromKit' = Tail(fromKit)
      /\ UNCHANGED <<kit, upload, storage, edits, joined, left>>
  BY DEF Loaded, Handled, KitEvent, Received
<1>2. broker \in Broker /\ fromKit \in Seq(BrokerMessage)
  BY DEF HStep, IInv, TypeOK
<1> HIDE DEF S, l
<1>3. /\ broker'.sess = S /\ broker'.closeFrame = broker.closeFrame
      /\ SameQueue(broker, broker') /\ UploadFrame(broker, broker')
      /\ broker'.http = broker.http /\ FlagFrame(broker, broker')
      /\ broker'.stop = broker.stop
      /\ broker'.destroying = broker.destroying
  BY <1>1, <1>2 DEF SameQueue, UploadFrame, FlagFrame, Broker
<1>4. \A s \in Session : broker'.sess[s] = IF s \in ready THEN "LIVE" ELSE broker.sess[s]
  BY <1>3 DEF S
<1>5. 1 \in DOMAIN fromKit /\ fromKit[1] = Head(fromKit)
  BY <1>1, <1>2, TailItems
<1>6. \A s \in ready : s \in kit.views
  BY <1>1, <1>5 DEF HStep, HInv, ViewsKnown
<1>7. \A s \in Session : /\ broker'.sess[s] = "absent" <=> broker.sess[s] = "absent"
                         /\ Here(broker', s) <=> Here(broker, s)
                         /\ InWaitDisconnected(broker', s) <=> InWaitDisconnected(broker, s)
                         /\ broker'.sess[s] = "LOADING" => broker.sess[s] = "LOADING"
                         /\ broker'.sess[s] = "LIVE" => s \in kit.views
  BY <1>4, <1>6 DEF Here, InWaitDisconnected, HStep, HInv, ViewsKnown
<1>8. Open(broker') = Open(broker)
  BY <1>3, <1>7 DEF Open, Present
<1>9. QueueStep(broker, broker') /\ QueueFrame(broker, broker')
  BY <1>3 DEF QueueStep, SameQueue, QueueFrame
<1>10. EditsCounted'
  BY <1>1, <1>3, <1>9, EditsStep DEF HStep, HInv, FlagFrame, KitAlike
<1>11. SavesOK'
  BY <1>1, <1>3, <1>9, SavesStep DEF HStep, HInv, FlagFrame, UploadFrame
<1>12. FilesOK' /\ UploadsOK' /\ LatestBeforeRename'
  BY <1>1, <1>3, UploadsStep, RenamesNothing DEF HStep, HInv
<1>13. EndOK'
  BY <1>1, <1>3, EndsStep DEF HStep, HInv, FlagFrame
<1>14. OpenOK'
  <2>1. OpenFlags(broker, broker') /\ StopsWell(broker, broker')
    BY <1>3 DEF OpenFlags, StopsWell, FlagFrame
  <2> QED
    BY <1>1, <1>8, <1>13, <2>1, SpendNothing, OpenStep DEF HStep, HInv
<1>15. ViewsKnown'
  <2>1. broker'.toKit = broker.toKit
    BY <1>3 DEF SameQueue
  <2>2. \A i \in DOMAIN broker.toKit : broker.toKit[i].sessions \subseteq Session
    BY MessageSessions DEF HStep
  <2>3. /\ \A s \in Session : s > joined' => broker'.sess[s] = "absent"
        /\ \A s \in Session : broker'.sess[s] = "LIVE" => s \in kit'.views
    BY <1>1, <1>7 DEF HStep, HInv, ViewsKnown
  <2>4. \A i \in DOMAIN fromKit' : fromKit'[i].type = "loaded" =>
          /\ fromKit'[i].sessions \subseteq 1..joined'
          /\ \A s \in fromKit'[i].sessions :
                broker'.sess[s] = "LOADING" => s \in kit'.views
    <3> SUFFICES ASSUME NEW i \in DOMAIN fromKit', fromKit'[i].type = "loaded"
                 PROVE  /\ fromKit'[i].sessions \subseteq 1..joined'
                        /\ \A s \in fromKit'[i].sessions :
                              broker'.sess[s] = "LOADING" => s \in kit'.views
      OBVIOUS
    <3>1. PICK j \in DOMAIN fromKit : fromKit'[i] = fromKit[j]
      BY <1>1, <1>2, ReceivedItems
    <3>2. fromKit[j].sessions \subseteq Session
      BY MessageSessions DEF HStep
    <3> QED
      BY <1>1, <1>7, <3>1, <3>2 DEF HStep, HInv, ViewsKnown
  <2>5. \A i \in DOMAIN broker'.toKit : broker'.toKit[i].type = "disconnect" =>
           \A s \in broker'.toKit[i].sessions : ~Here(broker', s)
    BY <1>7, <2>1, <2>2 DEF HStep, HInv, ViewsKnown
  <2> QED
    BY <1>1, <2>1, <2>3, <2>4, <2>5 DEF HStep, HInv, ViewsKnown
<1> QED
  BY <1>10, <1>11, <1>12, <1>13, <1>14, <1>15 DEF HInv

\* The Kit is lost, with what it has not read.
LEMMA KitGoneHistory ==
  ASSUME HStep, KitGone
  PROVE  HInv'
<1> DEFINE k == IF IsUnloading(broker) THEN "Normal" ELSE "Unexpected"
           known == broker.closeRequested \/ broker.stop
           halt == IF known THEN broker.stop ELSE broker.stop \/ broker.changedInStorage
<1>1. /\ broker' = [DisconnectedFromKit(broker) EXCEPT !.toKit = <<>>]
      /\ ~kit.up /\ fromKit = <<>>
      /\ UNCHANGED <<kit, upload, fromKit, storage, edits, joined, left>>
  BY DEF KitGone, Handled
<1>2. broker \in Broker /\ broker.toKit \in Seq(KitMessage) /\ edits \in Nat /\ kit \in Kit
  BY DEF HStep, IInv, TypeOK, Broker
<1>3. k # "No"
  OBVIOUS
<1>4. \/ known /\ broker' = [broker EXCEPT !.kitDisconnected = k, !.toKit = <<>>]
      \/ /\ ~known
         /\ broker' = [broker EXCEPT !.kitDisconnected = k, !.closeRequested = TRUE,
                                     !.stop = broker.stop \/ broker.changedInStorage,
                                     !.toKit = <<>>]
  BY <1>1, <1>2 DEF DisconnectedFromKit, CloseDocument, Broker
<1> HIDE DEF k
<1>5. /\ broker'.toKit = <<>> /\ broker'.kitDisconnected = k
      /\ broker'.saving = broker.saving /\ broker'.modifyActivity = broker.modifyActivity
      /\ broker'.saveFailures = broker.saveFailures
      /\ broker'.uploading = broker.uploading /\ broker'.uploadedTime = broker.uploadedTime
      /\ broker'.http = broker.http
      /\ broker'.phase = broker.phase /\ broker'.dataLoss = broker.dataLoss
      /\ broker'.unloadRequested = broker.unloadRequested
      /\ broker'.destroying = broker.destroying
      /\ broker'.sess = broker.sess /\ broker'.closeFrame = broker.closeFrame
  <2> DEFINE a == broker.stop \/ broker.changedInStorage
  <2>1. CASE known
    BY <1>2, <1>4, <2>1 DEF Broker
  <2>2. CASE ~known
    <3>1. broker' = [broker EXCEPT !.kitDisconnected = k, !.closeRequested = TRUE,
                                   !.stop = a, !.toKit = <<>>]
      BY <1>4, <2>2
    <3> HIDE DEF a, known
    <3> QED
      BY <1>2, <3>1 DEF Broker
  <2> QED
    BY <2>1, <2>2
<1>6. OpenFlags(broker, broker') /\ StopsWell(broker, broker')
  <2>1. CASE known
    <3>1. broker'.stop = broker.stop /\ broker'.closeRequested = broker.closeRequested
      BY <1>2, <1>4, <2>1 DEF Broker
    <3> QED
      BY <1>5, <3>1 DEF OpenFlags, StopsWell
  <2>2. CASE ~known
    <3>1. broker'.closeRequested = TRUE
      BY <1>2, <1>4, <2>2 DEF Broker
    <3> QED
      BY <1>5, <2>2, <3>1 DEF OpenFlags, StopsWell
  <2> QED
    BY <2>1, <2>2
<1>7. EndOK'
  BY <1>1, <1>5, <1>6, EndsStep DEF HStep, HInv, OpenFlags
<1>8. OpenOK'
  BY <1>1, <1>5, <1>6, <1>7, SameSessions, SpendNothing, OpenStep DEF HStep, HInv
<1>9. FilesOK' /\ UploadsOK' /\ LatestBeforeRename'
  BY <1>1, <1>5, UploadsStep, RenamesNothing DEF HStep, HInv, UploadFrame
<1>10. EditsCounted'
  <2>1. Edits(<<>>) = 0 /\ Edits(broker.toKit) \in Nat
    BY <1>2, CountEmpty, EditsQueue DEF Edits
  <2>2. EditsCounted /\ kit.content \in Nat
    BY <1>2 DEF HStep, HInv, Kit
  <2> DEFINE n == Edits(broker.toKit)
  <2>3. n \in Nat /\ kit.content + n <= edits
    BY <2>1, <2>2 DEF EditsCounted
  <2> HIDE DEF n
  <2>4. kit.content + 0 <= edits
    BY <1>2, <2>2, <2>3
  <2> QED
    BY <1>1, <1>3, <1>5, <2>1, <2>2, <2>4 DEF EditsCounted
<1>11. SavesOK'
  BY <1>1, <1>5, SeenGrows DEF HStep, HInv, SavesOK, OneSave, SavesAll, SaveInFlight
<1>12. ViewsKnown'
  BY <1>1, <1>5 DEF HStep, HInv, ViewsKnown
<1> QED
  BY <1>7, <1>8, <1>9, <1>10, <1>11, <1>12 DEF HInv

\* The members once the result of a save is noted, and the file it wrote is
\* renamed to .uploading.
SaveNoted(b, f, result) ==
    SetLastSaveResult(RenameToUploading(b, f), result # "failed", result = "saved")

\* Nothing else differs.
NotedOnly(b, f, result, c) ==
    /\ c.sess = b.sess /\ c.closeFrame = b.closeFrame
    /\ c.toKit = b.toKit /\ c.modifyActivity = b.modifyActivity
    /\ c.saving = FALSE
    /\ c.saveFailures = 0 => result # "failed"
    /\ c.uploading = IF Exists(f) THEN f ELSE b.uploading
    /\ c.uploadedTime = b.uploadedTime
    /\ c.http = b.http /\ c.request = b.request
    /\ c.phase = b.phase /\ c.dataLoss = b.dataLoss
    /\ c.kitDisconnected = b.kitDisconnected
    /\ c.unloadRequested = b.unloadRequested /\ c.destroying = b.destroying
    /\ c.closeRequested = b.closeRequested
    /\ c.changedInStorage = b.changedInStorage /\ c.stop = b.stop

\* What is noted is all that differs.
LEMMA SaveNotedFields ==
  ASSUME NEW b \in Broker, NEW f \in File, NEW result
  PROVE  NotedOnly(b, f, result, SaveNoted(b, f, result))
<1> DEFINE g == IF Exists(f) THEN f ELSE b.uploading
           n == IF result # "failed" THEN 0 ELSE BumpFailures(b.saveFailures)
           v == b.versioned \/ result = "saved"
           c == SaveNoted(b, f, result)
<1>1. c = [b EXCEPT !.uploading = g, !.saving = FALSE, !.saveFailures = n,
                    !.versioned = v]
  BY DEF SaveNoted, SetLastSaveResult, RenameToUploading, Broker
<1>2. b.saveFailures \in Nat
  BY BrokerConstants DEF Broker
<1>3. n = 0 => result # "failed"
  BY <1>2, BrokerConstants DEF BumpFailures
<1> HIDE DEF g, n, v
<1>4. c.saveFailures = n /\ c.uploading = g
  BY <1>1 DEF Broker
<1>5. /\ c.sess = b.sess /\ c.closeFrame = b.closeFrame
      /\ c.toKit = b.toKit /\ c.modifyActivity = b.modifyActivity
      /\ c.saving = FALSE
      /\ c.uploadedTime = b.uploadedTime
      /\ c.http = b.http /\ c.request = b.request
      /\ c.phase = b.phase /\ c.dataLoss = b.dataLoss
      /\ c.kitDisconnected = b.kitDisconnected
      /\ c.unloadRequested = b.unloadRequested /\ c.destroying = b.destroying
      /\ c.closeRequested = b.closeRequested
      /\ c.changedInStorage = b.changedInStorage /\ c.stop = b.stop
  BY <1>1 DEF Broker
<1> QED
  BY <1>3, <1>4, <1>5 DEF NotedOnly, g, c

\* The broker has noted the result of a save: the file on disk is the one
\* that the save wrote.
LEMMA SaveNotedStep ==
  ASSUME HStep, KitEvent("saveresult"),
         Follows(SaveNoted(broker, upload, Head(fromKit).value), broker'),
         StopsWell(SaveNoted(broker, upload, Head(fromKit).value), broker'),
         RenamesCurrent(SaveNoted(broker, upload, Head(fromKit).value), broker'),
         upload' = NoFile
  PROVE  HInv'
<1> DEFINE result == Head(fromKit).value
           b == broker
           c == SaveNoted(broker, upload, result)
           d == broker'
<1>1. /\ b \in Broker /\ upload \in File /\ fromKit \in Seq(BrokerMessage)
      /\ b.toKit \in Seq(KitMessage) /\ storage \in Nat
      /\ b.uploading \in File /\ b.uploadedTime \in Int
  BY DEF HStep, IInv, TypeOK, Broker, MTime
<1>2. NotedOnly(b, upload, result, c)
  BY <1>1, SaveNotedFields
<1>3. Follows(c, d) /\ StopsWell(c, d) /\ RenamesCurrent(c, d)
  OBVIOUS
<1> HIDE DEF c
<1>20. /\ c.sess = b.sess /\ c.closeFrame = b.closeFrame
       /\ c.toKit = b.toKit /\ c.modifyActivity = b.modifyActivity
       /\ c.saving = FALSE
       /\ c.saveFailures = 0 => result # "failed"
       /\ c.uploading = IF Exists(upload) THEN upload ELSE b.uploading
       /\ c.uploadedTime = b.uploadedTime
       /\ c.http = b.http /\ c.request = b.request
       /\ c.phase = b.phase /\ c.dataLoss = b.dataLoss
       /\ c.kitDisconnected = b.kitDisconnected
       /\ c.unloadRequested = b.unloadRequested /\ c.destroying = b.destroying
       /\ c.closeRequested = b.closeRequested
       /\ c.changedInStorage = b.changedInStorage /\ c.stop = b.stop
  BY <1>2 DEF NotedOnly
<1>4. /\ Received /\ fromKit # <<>> /\ fromKit' = Tail(fromKit)
      /\ 1 \in DOMAIN fromKit /\ fromKit[1] = Head(fromKit)
      /\ fromKit[1].type = "saveresult"
      /\ UNCHANGED <<kit, storage, edits, joined, left>>
  BY <1>1, TailItems DEF KitEvent, Received
<1>5. Present(c) = Present(b) /\ Open(c) = Open(b)
  BY <1>20, SameSessions
<1>6. SessionFrame(b, d) /\ QueueStep(b, d)
  <2>1. SessionFrame(b, d)
    BY <1>20, <1>3, <1>5 DEF Follows, SessionFrame, Here
  <2>2. QueueStep(c, d)
    BY <1>3, FrameQueueStep DEF Follows
  <2> QED
    BY <1>20, <1>5, <2>1, <2>2 DEF QueueStep
<1>7. ViewsKnown'
  BY <1>4, <1>6, ViewsStep DEF HStep, HInv
<1>8. /\ d.phase = b.phase /\ d.dataLoss = b.dataLoss
      /\ d.kitDisconnected = b.kitDisconnected
      /\ OpenFlags(b, d) /\ StopsWell(b, d)
      /\ d.saveFailures = c.saveFailures
      /\ d.uploading = c.uploading /\ d.uploadedTime = b.uploadedTime
      /\ d.http = b.http \/ Starts(c, d)
  BY <1>20, <1>3 DEF Follows, FlagFrame, OpenFlags, StopsWell, UploadFrame
<1>9. EditsCounted'
  BY <1>4, <1>6, <1>8, EditsStep DEF HStep, HInv, KitAlike
<1>10. EndOK'
  BY <1>4, <1>8, EndsStep DEF HStep, HInv, OpenFlags
<1>11. OpenOK'
  BY <1>4, <1>6, <1>8, <1>10, SpendNothing, OpenStep DEF HStep, HInv, SessionFrame
<1>12. SavesOK'
  <2> SUFFICES ASSUME "overlappingSaves" \notin seen'
               PROVE  /\ OneSave'
                      /\ SaveInFlight' => d.saving \/ d.saveFailures > 0
                      /\ ~d.modifyActivity => SavesAll'
    BY DEF SavesOK
  <2>1. /\ ~OverlappingSaves /\ OneSave
        /\ ~b.modifyActivity => SavesAll
    BY SeenGrows DEF HStep, HInv, SavesOK
  <2>2. ~SendsSave
    BY <1>4, <2>1 DEF OverlappingSaves, SaveInFlight
  <2>3. /\ \A i \in DOMAIN b.toKit : ~IsSave(b.toKit[i])
        /\ \A i \in DOMAIN fromKit : fromKit[i].type = "saveresult" => i = 1
    BY <1>4, <2>1 DEF OneSave
  <2>4. \A i \in DOMAIN fromKit' : fromKit'[i].type # "saveresult"
    <3>1. \A i \in DOMAIN fromKit' :
             i + 1 \in DOMAIN fromKit /\ fromKit'[i] = fromKit[i + 1] /\ i + 1 # 1
      BY <1>1, <1>4, TailItems
    <3> QED
      BY <2>3, <3>1
  <2>5. /\ \A i \in DOMAIN d.toKit : ~IsSave(d.toKit[i])
        /\ d.modifyActivity = b.modifyActivity
    <3>1. CASE SameQueue(c, d)
      BY <1>20, <2>3, <3>1 DEF SameQueue
    <3>2. ASSUME NEW m \in KitMessage, Sends(c, d, m)
          PROVE  /\ \A i \in DOMAIN d.toKit : ~IsSave(d.toKit[i])
                 /\ d.modifyActivity = b.modifyActivity
      <4>1. d.toKit = Append(b.toKit, m)
        BY <1>20, <3>2 DEF Sends
      <4>2. /\ Len(d.toKit) = Len(b.toKit) + 1 /\ Len(b.toKit) \in Nat
            /\ d.toKit[Len(d.toKit)] = m
        BY <1>1, <4>1, AppendItems
      <4>3. ~IsSave(m)
        BY <2>2, <4>2 DEF SendsSave, IsSave
      <4> QED
        BY <1>1, <1>20, <2>3, <3>2, <4>1, <4>3, AppendItems DEF Sends
    <3> QED
      BY <1>3, <3>1, <3>2 DEF Follows, QueueFrame
  <2>6. ~SaveInFlight' /\ OneSave'
    BY <2>4, <2>5 DEF SaveInFlight, OneSave, IsSave
  <2>7. ASSUME ~d.modifyActivity, d.saveFailures = 0
        PROVE  d.uploading.content = edits
    <3>1. result # "failed" /\ SavesAll
      BY <1>20, <1>8, <2>1, <2>5, <2>7
    <3>2. Exists(upload) /\ upload.content = edits
      BY <1>4, <3>1 DEF SavesAll
    <3> QED
      BY <1>20, <1>8, <3>2
  <2>8. ~d.modifyActivity => SavesAll'
    BY <1>4, <2>4, <2>5, <2>7 DEF SavesAll
  <2> QED
    BY <2>6, <2>8
<1>13. FilesOK'
  <2>1. FileOK(NoFile)
    BY DEF FileOK, NoFile
  <2>2. FileOK(c.uploading) /\ c.uploading \in File
    BY <1>1, <1>20 DEF HStep, HInv, FilesOK
  <2>3. d.http.kind = "put" => d.http.file.mtime >= 0
    <3>1. CASE d.http = b.http
      BY <3>1 DEF HStep, HInv, FilesOK
    <3>2. CASE Starts(c, d)
      BY <2>2, <3>2 DEF Starts, Exists, FileOK, File, MTime
    <3> QED
      BY <1>8, <3>1, <3>2
  <2> QED
    BY <1>4, <1>8, <2>1, <2>2, <2>3 DEF HStep, HInv, FilesOK, FileOK
<1>14. ASSUME "requestReplaced" \notin seen'
       PROVE  IF Exists(d.uploading)
              THEN /\ d.uploadedTime <= d.uploading.mtime
                   /\ d.uploadedTime = d.uploading.mtime => storage = d.uploading.content
              ELSE d.uploadedTime = 0
  <2>1. "requestReplaced" \notin seen
    BY <1>14, SeenGrows DEF HStep
  <2>2. IF Exists(b.uploading)
        THEN /\ b.uploadedTime <= b.uploading.mtime
             /\ b.uploadedTime = b.uploading.mtime => storage = b.uploading.content
        ELSE b.uploadedTime = 0
    BY <2>1 DEF HStep, HInv, UploadsOK
  <2>3. CASE ~Exists(upload)
    BY <1>20, <1>8, <2>2, <2>3
  <2>4. CASE Exists(upload)
    <3>1. OlderOrSame(b.uploading, upload) /\ storage <= b.uploading.content
      BY <2>4 DEF HStep, IInv, VersionOrder
    <3>2. d.uploading = upload /\ d.uploadedTime = b.uploadedTime
      BY <1>20, <1>8, <2>4
    <3>3. FileOK(upload) /\ FileOK(b.uploading)
      BY DEF HStep, HInv, FilesOK
    <3>4. /\ upload.mtime \in Int /\ upload.content \in Nat
          /\ b.uploading.mtime \in Int /\ b.uploading.content \in Nat
      BY <1>1 DEF File, MTime
    <3>5. CASE b.uploading = upload
      BY <2>2, <2>4, <3>2, <3>5
    <3>6. CASE b.uploading # upload /\ Exists(b.uploading)
      BY <1>1, <2>2, <2>4, <3>1, <3>2, <3>4, <3>6 DEF OlderOrSame
    <3>7. CASE ~Exists(b.uploading)
      BY <1>1, <2>2, <2>4, <3>1, <3>2, <3>3, <3>4, <3>7 DEF Exists, FileOK
    <3> QED
      BY <3>5, <3>6, <3>7
  <2> QED
    BY <2>3, <2>4
<1>15. UploadsOK'
  <2>1. d.http.kind = "put" /\ d.http.applied => storage' = d.http.file.content
    BY <1>4, <1>8 DEF Starts, HStep, HInv, UploadsOK
  <2>2. ASSUME "requestReplaced" \notin seen'
        PROVE  /\ IsAsyncUploading(d) => d.request.kind = d.http.kind
               /\ d.http.kind = "put" => d.request.mtime = d.http.file.mtime
    <3>1. "requestReplaced" \notin seen /\ ~RequestReplaced
      BY <2>2, SeenGrows DEF HStep
    <3>2. CASE d.http = b.http /\ IsAsyncUploading(b)
      <4>1. d.request = b.request
        BY <3>1, <3>2 DEF RequestReplaced
      <4> QED
        BY <3>1, <3>2, <4>1 DEF HStep, HInv, UploadsOK, IsAsyncUploading
    <3>3. CASE d.http = b.http /\ ~IsAsyncUploading(b)
      BY <3>3 DEF IsAsyncUploading
    <3>4. CASE Starts(c, d)
      BY <3>4 DEF Starts
    <3> QED
      BY <1>8, <3>2, <3>3, <3>4
  <2>3. ASSUME "fileReplaced" \notin seen', d.http.kind = "put"
        PROVE  d.http.file = d.uploading
    <3>1. "fileReplaced" \notin seen /\ ~FileReplaced
      BY <2>3, SeenGrows DEF HStep
    <3>2. CASE d.http = b.http
      BY <2>3, <3>1, <3>2 DEF HStep, HInv, UploadsOK, FileReplaced
    <3>3. CASE Starts(c, d)
      BY <1>8, <2>3, <3>3 DEF Starts
    <3> QED
      BY <1>8, <3>2, <3>3
  <2> QED
    BY <1>4, <1>14, <2>1, <2>2, <2>3 DEF UploadsOK, IsAsyncUploading
<1>16. LatestBeforeRename'
  <2> SUFFICES ASSUME d.http.kind = "rename",
                      seen' \cap {"requestReplaced", "fileReplaced"} = {}
               PROVE  storage' = d.http.file.content
    BY DEF LatestBeforeRename
  <2>1. CASE d.http = b.http
    BY <1>4, <2>1, SeenGrows DEF HStep, HInv, LatestBeforeRename
  <2>2. CASE Starts(c, d)
    <3>1. ~IsStorageOutdated(c)
      BY <1>3, <2>2 DEF Starts, RenamesCurrent
    <3>2. Exists(d.uploading) /\ d.http.file = d.uploading
      BY <1>8, <2>2 DEF Starts
    <3>3. storage = d.uploading.content
      BY <1>20, <1>8, <1>14, <3>1, <3>2 DEF IsStorageOutdated
    <3> QED
      BY <1>4, <3>2, <3>3
  <2> QED
    BY <1>8, <2>1, <2>2
<1> QED
  BY <1>7, <1>9, <1>10, <1>11, <1>12, <1>13, <1>15, <1>16 DEF HInv

\* The result of a save comes.
LEMMA SaveResponseHistory ==
  ASSUME HStep, NEW canUpload \in BOOLEAN, SaveResponse(canUpload)
  PROVE  HInv'
<1> DEFINE result == Head(fromKit).value
<1>1. Sound(broker) /\ upload \in File /\ broker \in Broker
  BY Invariant DEF HStep, Sound
<1>2. KitEvent("saveresult")
  BY DEF SaveResponse
<1>3. Head(fromKit).sessions \in SUBSET Session
  BY <1>2, KitEventType DEF HStep, BrokerMessage
<1>4. PICK s \in Head(fromKit).sessions :
        IF s \in Present(broker)
        THEN /\ Handled(HandleSaveResponse(broker, s, result, upload, canUpload))
             /\ upload' = NoFile
        ELSE Handled(broker) /\ UNCHANGED upload
  BY DEF SaveResponse
<1>5. CASE s \in Present(broker)
  <2> DEFINE r == RenameToUploading(broker, upload)
             c == SaveNoted(broker, upload, result)
             d == CheckAndUploadToStorage(c, s, result # "failed", canUpload)
  <2>1. Sound(r)
    BY <1>1, RenameToUploadingSound
  <2> HIDE DEF r
  <2>2. Sound(c)
    BY <2>1, SetLastSaveResultKept DEF SaveNoted, r, Kept
  <2>3. broker' = d /\ upload' = NoFile
    BY <1>4, <1>5 DEF Handled, HandleSaveResponse, SaveNoted
  <2> HIDE DEF c
  <2>4. Follows(c, d) /\ StopsWell(c, d) /\ RenamesCurrent(c, d)
    BY <1>3, <2>2, CheckAndUploadToStorageFollows
  <2> QED
    BY <1>2, <2>3, <2>4, SaveNotedStep DEF c
<1>6. CASE s \notin Present(broker)
  <2>1. broker' = broker /\ UNCHANGED upload
    BY <1>4, <1>6 DEF Handled
  <2>2. MethodFrames(broker, broker')
    BY <2>1, FollowsSame, FollowsMethod, RenamesNothing
  <2> QED
    BY <1>2, <2>1, <2>2, KitEventMethod
<1> QED
  BY <1>5, <1>6

-----------------------------------------------------------------------------
(* The Kit. *)

\* The uploads stay as they are while the Kit works.
LEMMA UploadsSame ==
  ASSUME HStep, broker'.http = broker.http, broker'.request = broker.request,
         broker'.uploading = broker.uploading,
         broker'.uploadedTime = broker.uploadedTime, UNCHANGED storage
  PROVE  UploadsOK' /\ LatestBeforeRename'
BY SeenGrows DEF HStep, HInv, UploadsOK, LatestBeforeRename, IsAsyncUploading

\* When the Kit reads a message, the broker's members stay.
LEMMA KitInputFields ==
  ASSUME HStep, NEW type, KitInput(type),
         (\E input \in Input : Spend(input)) \/ UNCHANGED left
  PROVE  /\ broker \in Broker /\ broker.toKit \in Seq(KitMessage)
         /\ broker.toKit # <<>> /\ broker'.toKit = Tail(broker.toKit)
         /\ Head(broker.toKit).type = type
         /\ broker'.sess = broker.sess /\ broker'.closeFrame = broker.closeFrame
         /\ broker'.saving = broker.saving
         /\ broker'.modifyActivity = broker.modifyActivity
         /\ broker'.saveFailures = broker.saveFailures
         /\ broker'.uploading = broker.uploading
         /\ broker'.http = broker.http
         /\ broker'.kitDisconnected = broker.kitDisconnected
         /\ broker.kitDisconnected = "No"
         /\ UNCHANGED <<storage, edits, joined>>
         /\ UploadsOK' /\ LatestBeforeRename' /\ EndOK' /\ OpenOK'
<1> DEFINE q == Tail(broker.toKit)
<1>1. /\ broker' = [broker EXCEPT !.toKit = q]
      /\ broker.toKit # <<>> /\ Head(broker.toKit).type = type /\ kit.up
      /\ UNCHANGED <<storage, edits, joined>>
  BY DEF KitInput
<1>2. broker \in Broker /\ broker.toKit \in Seq(KitMessage)
  BY DEF HStep, IInv, TypeOK, Broker
<1> HIDE DEF q
<1>3. /\ broker'.toKit = q
      /\ broker'.sess = broker.sess /\ broker'.closeFrame = broker.closeFrame
      /\ broker'.saving = broker.saving
      /\ broker'.modifyActivity = broker.modifyActivity
      /\ broker'.saveFailures = broker.saveFailures
      /\ broker'.uploading = broker.uploading
      /\ broker'.uploadedTime = broker.uploadedTime
      /\ broker'.http = broker.http /\ broker'.request = broker.request
      /\ broker'.kitDisconnected = broker.kitDisconnected
      /\ broker'.phase = broker.phase /\ broker'.dataLoss = broker.dataLoss
      /\ broker'.unloadRequested = broker.unloadRequested
      /\ broker'.destroying = broker.destroying
      /\ broker'.closeRequested = broker.closeRequested
      /\ broker'.stop = broker.stop
  BY <1>1, <1>2 DEF Broker
<1>4. broker.kitDisconnected = "No"
  BY <1>1 DEF HStep, HInv, EditsCounted
<1>5. UploadsOK' /\ LatestBeforeRename'
  BY <1>1, <1>3, UploadsSame
<1>6. EndOK'
  BY <1>1, <1>3, EndsStep DEF HStep, HInv
<1>7. OpenOK'
  <2>1. \A i \in Input : left'[i] <= left[i]
    BY SpendLess, SpendNothing DEF HStep, HInv
  <2>2. OpenFlags(broker, broker') /\ StopsWell(broker, broker')
    BY <1>3 DEF OpenFlags, StopsWell
  <2> QED
    BY <1>3, <1>6, <2>1, <2>2, SameSessions, OpenStep DEF HStep, HInv
<1> QED
  BY <1>1, <1>2, <1>3, <1>4, <1>5, <1>6, <1>7 DEF q

\* The Kit reads a message, and knows the views it knew, unless that is their
\* disconnection; it reports as loaded only a view that it knows.
LEMMA KitViews ==
  ASSUME HStep, broker.toKit # <<>>, broker'.toKit = Tail(broker.toKit),
         broker'.sess = broker.sess, UNCHANGED joined,
         \A s \in kit.views :
            \/ s \in kit'.views
            \/ Head(broker.toKit).type = "disconnect" /\ s \in Head(broker.toKit).sessions,
         \A i \in DOMAIN fromKit' : fromKit'[i].type = "loaded" =>
            \/ i \in DOMAIN fromKit /\ fromKit'[i] = fromKit[i]
            \/ fromKit'[i].sessions \subseteq 1..joined /\ fromKit'[i].sessions \subseteq kit'.views
  PROVE  ViewsKnown'
<1> DEFINE q == broker.toKit
           r == broker'.toKit
           h == Head(q)
<1>1. /\ q \in Seq(KitMessage)
      /\ \A i \in DOMAIN fromKit : fromKit[i].sessions \subseteq Session
      /\ \A i \in DOMAIN q : q[i].sessions \subseteq Session
  BY MessageSessions DEF HStep
<1>2. /\ 1 \in DOMAIN q /\ q[1] = h
      /\ \A i \in DOMAIN r : i \in Nat /\ i >= 1 /\ i + 1 \in DOMAIN q /\ r[i] = q[i + 1]
  BY <1>1, TailItems
<1>3. \A s \in Session : Here(broker', s) <=> Here(broker, s)
  BY DEF Here
<1>4. \A s \in Session : Here(broker, s) /\ s \in kit.views => s \in kit'.views
  BY <1>2 DEF HStep, HInv, ViewsKnown
<1>5. \A s \in Session : s > joined' => broker'.sess[s] = "absent"
  BY DEF HStep, HInv, ViewsKnown
<1>6. \A i \in DOMAIN r : r[i].sessions \subseteq 1..joined'
  BY <1>2 DEF HStep, HInv, ViewsKnown
<1>7. \A i \in DOMAIN r : r[i].type = "disconnect" =>
         \A s \in r[i].sessions : ~Here(broker', s)
  BY <1>1, <1>2, <1>3 DEF HStep, HInv, ViewsKnown
<1>8. \A s \in Session : broker'.sess[s] = "LIVE" => s \in kit'.views
  BY <1>4 DEF HStep, HInv, ViewsKnown, Here
<1>9. \A i \in DOMAIN fromKit' : fromKit'[i].type = "loaded" =>
        /\ fromKit'[i].sessions \subseteq 1..joined'
        /\ \A s \in fromKit'[i].sessions :
              broker'.sess[s] = "LOADING" => s \in kit'.views
  <2> SUFFICES ASSUME NEW i \in DOMAIN fromKit', fromKit'[i].type = "loaded"
               PROVE  /\ fromKit'[i].sessions \subseteq 1..joined'
                      /\ \A s \in fromKit'[i].sessions :
                            broker'.sess[s] = "LOADING" => s \in kit'.views
    OBVIOUS
  <2>1. CASE i \in DOMAIN fromKit /\ fromKit'[i] = fromKit[i]
    BY <1>1, <1>4, <2>1 DEF HStep, HInv, ViewsKnown, Here
  <2>2. CASE fromKit'[i].sessions \subseteq 1..joined /\ fromKit'[i].sessions \subseteq kit'.views
    BY <2>2
  <2> QED
    BY <2>1, <2>2
<1>10. \A i \in DOMAIN r : r[i].type = "edit" =>
        /\ r[i].sessions \subseteq kit'.views
        /\ \A j \in DOMAIN r : r[j].type = "disconnect" /\ j < i =>
              r[j].sessions \cap r[i].sessions = {}
  <2> SUFFICES ASSUME NEW i \in DOMAIN r, r[i].type = "edit"
               PROVE  /\ r[i].sessions \subseteq kit'.views
                      /\ \A j \in DOMAIN r : r[j].type = "disconnect" /\ j < i =>
                            r[j].sessions \cap r[i].sessions = {}
    OBVIOUS
  <2>1. i + 1 \in DOMAIN q /\ r[i] = q[i + 1] /\ 1 < i + 1
    BY <1>2
  <2>2. /\ r[i].sessions \subseteq kit.views
        /\ \A j \in DOMAIN q : q[j].type = "disconnect" /\ j < i + 1 =>
              q[j].sessions \cap r[i].sessions = {}
    BY <2>1 DEF HStep, HInv, ViewsKnown
  <2>3. h.type = "disconnect" => h.sessions \cap r[i].sessions = {}
    BY <1>2, <2>1, <2>2
  <2>4. \A j \in DOMAIN r : j < i => j + 1 < i + 1
    BY <1>2
  <2> QED
    BY <1>2, <2>2, <2>3, <2>4
<1> QED
  BY <1>5, <1>6, <1>7, <1>8, <1>9, <1>10 DEF ViewsKnown

\* The Kit reads a message and answers with no result of a save.
LEMMA SavesTail ==
  ASSUME HStep, broker.toKit # <<>>, broker'.toKit = Tail(broker.toKit),
         broker'.modifyActivity = broker.modifyActivity,
         broker'.saving = broker.saving,
         broker'.saveFailures = broker.saveFailures,
         broker'.uploading = broker.uploading,
         UNCHANGED <<upload, edits>>,
         \A i \in DOMAIN fromKit' : fromKit'[i].type = "saveresult" =>
            i \in DOMAIN fromKit /\ fromKit'[i] = fromKit[i]
  PROVE  SavesOK'
<1> DEFINE q == broker.toKit
           r == broker'.toKit
<1> SUFFICES ASSUME "overlappingSaves" \notin seen'
             PROVE  /\ OneSave'
                    /\ SaveInFlight' => broker'.saving \/ broker'.saveFailures > 0
                    /\ ~broker'.modifyActivity => SavesAll'
  BY DEF SavesOK
<1>1. /\ OneSave /\ (SaveInFlight => broker.saving \/ broker.saveFailures > 0)
      /\ ~broker.modifyActivity => SavesAll
  BY SeenGrows DEF HStep, HInv, SavesOK
<1>2. q \in Seq(KitMessage)
  BY MessageSessions DEF HStep
<1>3. \A i \in DOMAIN r : i \in Nat /\ i + 1 \in DOMAIN q /\ r[i] = q[i + 1]
  BY <1>2, TailItems
<1>4. \A i, j \in DOMAIN r : IsSave(r[i]) /\ IsSave(r[j]) => i = j
  <2> SUFFICES ASSUME NEW i \in DOMAIN r, NEW j \in DOMAIN r, IsSave(r[i]), IsSave(r[j])
               PROVE  i = j
    OBVIOUS
  <2>1. i + 1 = j + 1
    BY <1>1, <1>3 DEF OneSave
  <2> QED
    BY <1>3, <2>1
<1>5. OneSave'
  BY <1>1, <1>3, <1>4 DEF OneSave
<1>6. SaveInFlight' => SaveInFlight
  BY <1>3 DEF SaveInFlight
<1>7. ASSUME ~broker'.modifyActivity
      PROVE  SavesAll'
  <2>1. \A i, j \in DOMAIN r : i < j => i + 1 < j + 1
    BY <1>3
  <2>2. \A i, j \in DOMAIN r : IsSave(r[i]) /\ i < j => r[j].type # "edit"
    BY <1>1, <1>3, <1>7, <2>1 DEF SavesAll
  <2> QED
    BY <1>1, <1>7, <2>2 DEF SavesAll
<1> QED
  BY <1>1, <1>5, <1>6, <1>7

\* What the Kit sends comes after what waits already.
LEMMA SendsItems ==
  ASSUME IInv, NEW messages \in Seq(BrokerMessage), KitSends(messages)
  PROVE  \A i \in DOMAIN fromKit' :
            \/ i \in DOMAIN fromKit /\ fromKit'[i] = fromKit[i]
            \/ \E j \in DOMAIN messages : fromKit'[i] = messages[j]
<1>1. fromKit \in Seq(BrokerMessage)
  BY DEF IInv, TypeOK
<1>2. fromKit' = fromKit \o messages
  BY DEF KitSends
<1>3. \A i \in DOMAIN (fromKit \o messages) :
         \/ i \in DOMAIN fromKit /\ (fromKit \o messages)[i] = fromKit[i]
         \/ \E j \in DOMAIN messages : (fromKit \o messages)[i] = messages[j]
  BY <1>1, ConcatItems
<1> QED
  BY <1>2, <1>3

\* A report of the modified status is nothing else.
LEMMA StatusItems ==
  ASSUME kit \in Kit, NEW modified \in BOOLEAN,
         NEW msgs, msgs = <<>> \/ msgs = StatusMessages(modified)
  PROVE  /\ msgs \in Seq(BrokerMessage)
         /\ \A i \in DOMAIN msgs : msgs[i].type = "ModifiedStatus"
<1> DEFINE m == [type |-> "ModifiedStatus", sessions |-> kit.views,
                 value |-> IF modified THEN "true" ELSE "false"]
<1>1. m.type = "ModifiedStatus"
  OBVIOUS
<1> HIDE DEF m
<1>2. \A i \in DOMAIN <<m>> : <<m>>[i] = m
  OBVIOUS
<1>3. msgs = <<>> \/ msgs = <<m>>
  BY DEF StatusMessages, m
<1>4. \A i \in DOMAIN msgs : msgs[i].type = "ModifiedStatus"
  BY <1>1, <1>2, <1>3
<1>5. <<>> \in Seq(BrokerMessage) /\ StatusMessages(modified) \in Seq(BrokerMessage)
  BY StatusType
<1> QED
  BY <1>4, <1>5

\* The Kit loads a view.
LEMMA KitLoadHistory ==
  ASSUME HStep, KitLoad
  PROVE  HInv'
<1> DEFINE S == Head(broker.toKit).sessions
           m == [type |-> "loaded", sessions |-> S,
                 value |-> IF kit.views = {} THEN "true" ELSE "false"]
           w == kit.views \cup S
<1>1. /\ KitInput("load") /\ UNCHANGED <<upload, left>> /\ KitSends(<<m>>)
      /\ kit' = [kit EXCEPT !.views = w]
  BY DEF KitLoad
<1>2. /\ broker.toKit # <<>> /\ broker'.toKit = Tail(broker.toKit)
      /\ broker.toKit \in Seq(KitMessage)
      /\ Head(broker.toKit).type = "load"
      /\ broker'.sess = broker.sess
      /\ broker'.saving = broker.saving
      /\ broker'.modifyActivity = broker.modifyActivity
      /\ broker'.saveFailures = broker.saveFailures
      /\ broker'.uploading = broker.uploading /\ broker'.http = broker.http
      /\ broker'.kitDisconnected = broker.kitDisconnected
      /\ broker.kitDisconnected = "No"
      /\ UNCHANGED <<storage, edits, joined>>
      /\ UploadsOK' /\ LatestBeforeRename' /\ EndOK' /\ OpenOK'
  BY <1>1, KitInputFields
<1>3. kit \in Kit
  BY DEF HStep, IInv, TypeOK
<1>4. 1 \in DOMAIN broker.toKit /\ broker.toKit[1] = Head(broker.toKit)
  BY <1>2, TailItems
<1>5. S \subseteq 1..joined /\ S \subseteq Session
  BY <1>4, MessageSessions DEF HStep, HInv, ViewsKnown
<1> HIDE DEF w, S
<1>6. m \in BrokerMessage /\ m.type = "loaded" /\ m.sessions = S
  BY <1>5 DEF BrokerMessage
<1> HIDE DEF m
<1>7. <<m>> \in Seq(BrokerMessage) /\ \A i \in DOMAIN <<m>> : <<m>>[i] = m
  BY <1>6, SingleType
<1>8. \A i \in DOMAIN fromKit' :
         (i \in DOMAIN fromKit /\ fromKit'[i] = fromKit[i]) \/ fromKit'[i] = m
  BY <1>1, <1>7, SendsItems DEF HStep
<1>9. /\ kit'.views = w /\ kit'.content = kit.content
      /\ kit'.modified = kit.modified /\ kit'.doc = kit.doc
  BY <1>1, <1>3 DEF Kit
<1>10. ViewsKnown'
  <2>1. \A s \in kit.views : s \in kit'.views
    BY <1>9 DEF w
  <2>2. S \subseteq kit'.views
    BY <1>9 DEF w
  <2>3. \A i \in DOMAIN fromKit' : fromKit'[i].type = "loaded" =>
          \/ i \in DOMAIN fromKit /\ fromKit'[i] = fromKit[i]
          \/ fromKit'[i].sessions \subseteq 1..joined /\ fromKit'[i].sessions \subseteq kit'.views
    BY <1>5, <1>6, <1>8, <2>2
  <2> QED
    BY <1>2, <2>1, <2>3, KitViews
<1>11. SavesOK'
  <2>1. \A i \in DOMAIN fromKit' : fromKit'[i].type = "saveresult" =>
          i \in DOMAIN fromKit /\ fromKit'[i] = fromKit[i]
    BY <1>6, <1>8
  <2> QED
    BY <1>1, <1>2, <2>1, SavesTail
<1>12. EditsCounted'
  <2>1. Edits(broker'.toKit) = Edits(broker.toKit)
    BY <1>2, EditsQueue
  <2> QED
    BY <1>2, <1>9, <2>1 DEF HStep, HInv, EditsCounted
<1>13. FilesOK'
  BY <1>1, <1>2, <1>9 DEF HStep, HInv, FilesOK, FileOK
<1> QED
  BY <1>2, <1>10, <1>11, <1>12, <1>13 DEF HInv

\* The Kit closes views, and exits with the last one; no edit for them waits.
LEMMA KitDisconnectHistory ==
  ASSUME HStep, KitDisconnect
  PROVE  HInv'
<1> DEFINE S == Head(broker.toKit).sessions
           m == [type |-> "disconnected", sessions |-> S, value |-> ""]
           w == kit.views \ S
           up == ~(kit.views # {} /\ w = {})
<1>1. /\ KitInput("disconnect") /\ UNCHANGED <<upload, left>> /\ KitSends(<<m>>)
      /\ kit' = [kit EXCEPT !.views = w, !.up = up]
  BY DEF KitDisconnect
<1>2. /\ broker.toKit # <<>> /\ broker'.toKit = Tail(broker.toKit)
      /\ broker.toKit \in Seq(KitMessage)
      /\ Head(broker.toKit).type = "disconnect"
      /\ broker'.sess = broker.sess
      /\ broker'.saving = broker.saving
      /\ broker'.modifyActivity = broker.modifyActivity
      /\ broker'.saveFailures = broker.saveFailures
      /\ broker'.uploading = broker.uploading /\ broker'.http = broker.http
      /\ broker'.kitDisconnected = broker.kitDisconnected
      /\ broker.kitDisconnected = "No"
      /\ UNCHANGED <<storage, edits, joined>>
      /\ UploadsOK' /\ LatestBeforeRename' /\ EndOK' /\ OpenOK'
  BY <1>1, KitInputFields
<1>3. kit \in Kit
  BY DEF HStep, IInv, TypeOK
<1>4. 1 \in DOMAIN broker.toKit /\ broker.toKit[1] = Head(broker.toKit)
  BY <1>2, TailItems
<1>5. S \subseteq Session
  BY <1>4, MessageSessions DEF HStep
<1>6. m \in BrokerMessage /\ m.type = "disconnected"
  BY <1>5 DEF BrokerMessage
<1> HIDE DEF m
<1>7. <<m>> \in Seq(BrokerMessage) /\ \A i \in DOMAIN <<m>> : <<m>>[i] = m
  BY <1>6, SingleType
<1>8. \A i \in DOMAIN fromKit' :
         (i \in DOMAIN fromKit /\ fromKit'[i] = fromKit[i]) \/ fromKit'[i] = m
  BY <1>1, <1>7, SendsItems DEF HStep
<1> HIDE DEF w, up
<1>9. /\ kit'.views = w /\ kit'.content = kit.content
      /\ kit'.modified = kit.modified /\ kit'.doc = kit.doc
  BY <1>1, <1>3 DEF Kit
<1>10. ViewsKnown'
  <2>1. \A s \in kit.views : s \in kit'.views \/ s \in S
    BY <1>9 DEF w
  <2>2. \A i \in DOMAIN fromKit' : fromKit'[i].type = "loaded" =>
          i \in DOMAIN fromKit /\ fromKit'[i] = fromKit[i]
    BY <1>6, <1>8
  <2> QED
    BY <1>2, <2>1, <2>2, KitViews
<1>11. SavesOK'
  <2>1. \A i \in DOMAIN fromKit' : fromKit'[i].type = "saveresult" =>
          i \in DOMAIN fromKit /\ fromKit'[i] = fromKit[i]
    BY <1>6, <1>8
  <2> QED
    BY <1>1, <1>2, <2>1, SavesTail
<1>12. EditsCounted'
  <2>1. Edits(broker'.toKit) = Edits(broker.toKit)
    BY <1>2, EditsQueue
  <2> QED
    BY <1>2, <1>9, <2>1 DEF HStep, HInv, EditsCounted
<1>13. FilesOK'
  BY <1>1, <1>2, <1>9 DEF HStep, HInv, FilesOK, FileOK
<1> QED
  BY <1>2, <1>10, <1>11, <1>12, <1>13 DEF HInv

\* The Kit edits: it knows the view.
LEMMA KitEditHistory ==
  ASSUME HStep, KitEdit
  PROVE  HInv'
<1> DEFINE S == Head(broker.toKit).sessions
           known == S \subseteq kit.views
           msgs == IF known /\ ~kit.modified THEN StatusMessages(TRUE) ELSE <<>>
           n == kit.content + 1
<1>1. /\ KitInput("edit") /\ UNCHANGED <<upload, left>> /\ KitSends(msgs)
      /\ kit' = IF known THEN [kit EXCEPT !.content = n, !.modified = TRUE] ELSE kit
  BY DEF KitEdit
<1>2. /\ broker.toKit # <<>> /\ broker'.toKit = Tail(broker.toKit)
      /\ broker.toKit \in Seq(KitMessage)
      /\ Head(broker.toKit).type = "edit"
      /\ broker'.sess = broker.sess
      /\ broker'.saving = broker.saving
      /\ broker'.modifyActivity = broker.modifyActivity
      /\ broker'.saveFailures = broker.saveFailures
      /\ broker'.uploading = broker.uploading /\ broker'.http = broker.http
      /\ broker'.kitDisconnected = broker.kitDisconnected
      /\ broker.kitDisconnected = "No"
      /\ UNCHANGED <<storage, edits, joined>>
      /\ UploadsOK' /\ LatestBeforeRename' /\ EndOK' /\ OpenOK'
  BY <1>1, KitInputFields
<1>3. kit \in Kit /\ edits \in Nat /\ kit.content \in Nat
  BY DEF HStep, IInv, TypeOK, Kit
<1>4. 1 \in DOMAIN broker.toKit /\ broker.toKit[1] = Head(broker.toKit)
      /\ Tail(broker.toKit) \in Seq(KitMessage)
  BY <1>2, TailItems
<1>5. known
  BY <1>2, <1>4 DEF HStep, HInv, ViewsKnown
<1> HIDE DEF n
<1>6. /\ kit'.views = kit.views /\ kit'.content = n
      /\ kit'.modified = TRUE /\ kit'.doc = kit.doc
  BY <1>1, <1>3, <1>5 DEF Kit
<1>7. /\ msgs \in Seq(BrokerMessage)
      /\ \A i \in DOMAIN msgs : msgs[i].type = "ModifiedStatus"
  <2>1. msgs = <<>> \/ msgs = StatusMessages(TRUE)
    OBVIOUS
  <2> HIDE DEF msgs
  <2> QED
    BY <1>3, <2>1, StatusItems
<1> HIDE DEF msgs
<1>8. \A i \in DOMAIN fromKit' :
         (i \in DOMAIN fromKit /\ fromKit'[i] = fromKit[i])
         \/ fromKit'[i].type = "ModifiedStatus"
  BY <1>1, <1>7, SendsItems DEF HStep
<1>9. ViewsKnown'
  <2>1. \A i \in DOMAIN fromKit' : fromKit'[i].type = "loaded" =>
          i \in DOMAIN fromKit /\ fromKit'[i] = fromKit[i]
    BY <1>8
  <2> QED
    BY <1>2, <1>6, <2>1, KitViews
<1>10. SavesOK'
  <2>1. \A i \in DOMAIN fromKit' : fromKit'[i].type = "saveresult" =>
          i \in DOMAIN fromKit /\ fromKit'[i] = fromKit[i]
    BY <1>8
  <2> QED
    BY <1>1, <1>2, <2>1, SavesTail
<1>11. EditsCounted'
  <2> DEFINE e == Edits(broker.toKit)
             t == Edits(broker'.toKit)
  <2>1. e = t + 1 /\ t \in Nat
    BY <1>2, <1>4, EditsQueue
  <2>2. EditsCounted /\ kit.content + e = edits
    BY <1>2 DEF HStep, HInv, EditsCounted
  <2> HIDE DEF e, t
  <2>3. n + t = edits /\ n + t <= edits
    BY <1>3, <2>1, <2>2 DEF n
  <2> QED
    BY <1>2, <1>6, <2>3 DEF EditsCounted, t
<1>12. FilesOK'
  BY <1>1, <1>2, <1>6 DEF HStep, HInv, FilesOK, FileOK
<1> QED
  BY <1>2, <1>9, <1>10, <1>11, <1>12 DEF HInv

\* The result m of a save is the only one among the messages.
OneResult(msgs, m) ==
    /\ msgs \in Seq(BrokerMessage)
    /\ \A i \in DOMAIN msgs : msgs[i].type # "loaded"
    /\ \E k \in Nat : \A i \in DOMAIN msgs :
          msgs[i].type = "saveresult" => i = k /\ msgs[i] = m

\* It is sent once, before or after the modified status.
LEMMA AnswerItems ==
  ASSUME NEW status \in Seq(BrokerMessage),
         \A i \in DOMAIN status : status[i].type = "ModifiedStatus",
         NEW m \in BrokerMessage, m.type = "saveresult",
         NEW msgs, msgs = status \o <<m>> \/ msgs = <<m>> \o status
  PROVE  OneResult(msgs, m)
<1>1. /\ <<m>> \in Seq(BrokerMessage)
      /\ DOMAIN <<m>> = 1..1 /\ <<m>>[1] = m /\ Len(<<m>>) = 1
      /\ \A i \in DOMAIN <<m>> : i = 1
  OBVIOUS
<1>2. CASE msgs = status \o <<m>>
  <2>1. /\ msgs \in Seq(BrokerMessage) /\ Len(status) \in Nat
        /\ \A i \in DOMAIN msgs :
             \/ i \in DOMAIN status /\ msgs[i] = status[i]
             \/ i - Len(status) = 1 /\ msgs[i] = m
    BY <1>1, <1>2, ConcatItems
  <2>2. \A i \in DOMAIN msgs : msgs[i].type # "loaded"
    BY <2>1
  <2>3. \A i \in DOMAIN msgs : i \in Int
    BY <2>1
  <2>4. \A i \in DOMAIN msgs :
           msgs[i].type = "saveresult" => i = Len(status) + 1 /\ msgs[i] = m
    BY <2>1, <2>3
  <2>5. Len(status) + 1 \in Nat
    BY <2>1
  <2> QED
    BY <2>1, <2>2, <2>4, <2>5 DEF OneResult
<1>3. CASE msgs = <<m>> \o status
  <2>1. /\ msgs \in Seq(BrokerMessage)
        /\ \A i \in DOMAIN msgs :
             \/ i = 1 /\ msgs[i] = m
             \/ \E j \in DOMAIN status : msgs[i] = status[j]
    BY <1>1, <1>3, ConcatItems
  <2>2. \A i \in DOMAIN msgs : msgs[i].type # "loaded"
    BY <2>1
  <2>3. \A i \in DOMAIN msgs :
           msgs[i].type = "saveresult" => i = 1 /\ msgs[i] = m
    BY <2>1
  <2>4. 1 \in Nat
    OBVIOUS
  <2> QED
    BY <2>1, <2>2, <2>3, <2>4 DEF OneResult
<1> QED
  BY <1>2, <1>3

\* Without an edit in the queue none is on its way.
LEMMA EditsNone ==
  ASSUME NEW q \in Seq(KitMessage), \A i \in DOMAIN q : q[i].type # "edit"
  PROVE  Edits(q) = 0
<1>1. Places(q, EditMessage) = {}
  BY DEF Places, EditMessage
<1> QED
  BY <1>1, FS_EmptySet DEF Edits, Count

\* The Kit saves: with no input noted since, this is every edit.
LEMMA KitSaveHistory ==
  ASSUME HStep, NEW forced \in BOOLEAN, NEW fails \in BOOLEAN,
         NEW statusFirst \in BOOLEAN, KitSave(forced, fails, statusFirst)
  PROVE  HInv'
<1> DEFINE q      == broker.toKit
           r      == broker'.toKit
           S      == Head(q).sessions
           known  == S \subseteq kit.views
           result == SaveResult(forced, fails)
           doc    == SavedDoc(result)
           m      == [type |-> "saveresult", sessions |-> S, value |-> result]
           status == IF result = "saved" /\ kit.modified THEN StatusMessages(FALSE)
                     ELSE <<>>
           msgs   == IF statusFirst THEN status \o <<m>> ELSE <<m>> \o status
           mod    == kit.modified /\ result # "saved"
           type   == IF forced THEN "forcedsave" ELSE "save"
<1>1. /\ KitInput(type)
      /\ IF fails THEN known /\ Spend("saveFaults") ELSE UNCHANGED left
      /\ IF known
         THEN /\ kit' = [kit EXCEPT !.doc = doc, !.modified = mod]
              /\ upload' = doc
              /\ KitSends(msgs)
         ELSE UNCHANGED <<kit, upload, fromKit>>
  BY DEF KitSave
<1>2. (\E input \in Input : Spend(input)) \/ UNCHANGED left
  BY <1>1 DEF Input
<1> HIDE DEF type
<1>3. /\ q # <<>> /\ r = Tail(q)
      /\ q \in Seq(KitMessage)
      /\ Head(q).type = type
      /\ broker'.sess = broker.sess
      /\ broker'.saving = broker.saving
      /\ broker'.modifyActivity = broker.modifyActivity
      /\ broker'.saveFailures = broker.saveFailures
      /\ broker'.uploading = broker.uploading /\ broker'.http = broker.http
      /\ broker'.kitDisconnected = broker.kitDisconnected
      /\ broker.kitDisconnected = "No"
      /\ UNCHANGED <<storage, edits, joined>>
      /\ UploadsOK' /\ LatestBeforeRename' /\ EndOK' /\ OpenOK'
  BY <1>1, <1>2, KitInputFields
<1>4. IsSave(Head(q)) /\ Head(q).type # "edit"
  BY <1>3 DEF type, IsSave
<1>5. kit \in Kit /\ edits \in Nat /\ kit.content \in Nat
      /\ kit.doc.mtime \in Int
  BY DEF HStep, IInv, TypeOK, Kit, File, MTime
<1>6. /\ 1 \in DOMAIN q /\ q[1] = Head(q)
      /\ \A i \in DOMAIN r : i \in Nat /\ i >= 1 /\ i + 1 \in DOMAIN q /\ r[i] = q[i + 1]
      /\ r \in Seq(KitMessage)
  BY <1>3, TailItems
<1>7. Edits(r) = Edits(q)
  BY <1>3, <1>4, EditsQueue
<1>8. CASE ~known
  <2>1. UNCHANGED <<kit, upload, fromKit>>
    BY <1>1, <1>8
  <2>2. ViewsKnown'
    BY <1>3, <2>1, KitViews
  <2>3. SavesOK'
    BY <1>3, <2>1, SavesTail
  <2>4. EditsCounted'
    BY <1>3, <1>7, <2>1 DEF HStep, HInv, EditsCounted
  <2>5. FilesOK'
    BY <1>3, <2>1 DEF HStep, HInv, FilesOK, FileOK
  <2> QED
    BY <1>3, <2>2, <2>3, <2>4, <2>5 DEF HInv
<1>9. CASE known
  <2>1. S \subseteq Session
    BY <1>6, MessageSessions DEF HStep
  <2>2. result \in {"failed", "unmodified", "saved"}
    BY DEF SaveResult
  <2>3. result = "unmodified" => ~kit.modified
    BY DEF SaveResult
  <2>4. /\ result = "saved" => doc.mtime = kit.doc.mtime + 1 /\ doc.content = kit.content
        /\ result # "saved" => doc = kit.doc
    BY DEF SavedDoc
  <2>5. mod = (kit.modified /\ result # "saved")
    OBVIOUS
  <2>6. status = <<>> \/ status = StatusMessages(FALSE)
    OBVIOUS
  <2>7. msgs = status \o <<m>> \/ msgs = <<m>> \o status
    OBVIOUS
  <2>8. /\ kit' = [kit EXCEPT !.doc = doc, !.modified = mod]
        /\ upload' = doc /\ KitSends(msgs)
    BY <1>1, <1>9
  <2> HIDE DEF result, doc, mod, status, S
  <2>9. m \in BrokerMessage /\ m.type = "saveresult" /\ m.value = result
    BY <2>1, <2>2 DEF BrokerMessage
  <2> HIDE DEF m, msgs
  <2>10. /\ status \in Seq(BrokerMessage)
         /\ \A i \in DOMAIN status : status[i].type = "ModifiedStatus"
    BY <1>5, <2>6, StatusItems
  <2>11. /\ msgs \in Seq(BrokerMessage)
         /\ \A i \in DOMAIN msgs : msgs[i].type # "loaded"
         /\ \E k \in Nat : \A i \in DOMAIN msgs :
               msgs[i].type = "saveresult" => i = k /\ msgs[i] = m
    <3>1. OneResult(msgs, m)
      BY <2>7, <2>9, <2>10, AnswerItems
    <3> QED
      BY <3>1, Zenon DEF OneResult
  <2>12. /\ kit'.views = kit.views /\ kit'.content = kit.content
         /\ kit'.modified = mod /\ kit'.doc = doc
    BY <1>5, <2>8 DEF Kit
  <2>13. ViewsKnown'
    <3>1. \A i \in DOMAIN fromKit' : fromKit'[i].type = "loaded" =>
             i \in DOMAIN fromKit /\ fromKit'[i] = fromKit[i]
      BY <2>8, <2>11, SendsItems DEF HStep
    <3> QED
      BY <1>3, <2>12, <3>1, KitViews
  <2>14. EditsCounted'
    <3>1. ~mod => doc.content = kit.content
      BY <2>4, <2>5 DEF HStep, HInv, EditsCounted
    <3> QED
      BY <1>3, <1>7, <2>12, <3>1 DEF HStep, HInv, EditsCounted
  <2>15. FileOK(doc) /\ doc.mtime >= 0
    BY <1>5, <2>4 DEF HStep, HInv, FilesOK, FileOK
  <2>16. FilesOK'
    BY <1>3, <2>8, <2>12, <2>15 DEF HStep, HInv, FilesOK, FileOK
  <2>17. SavesOK'
    <3> SUFFICES ASSUME "overlappingSaves" \notin seen'
                 PROVE  /\ OneSave'
                        /\ SaveInFlight' => broker'.saving \/ broker'.saveFailures > 0
                        /\ ~broker'.modifyActivity => SavesAll'
      BY DEF SavesOK
    <3>1. /\ OneSave /\ (SaveInFlight => broker.saving \/ broker.saveFailures > 0)
          /\ ~broker.modifyActivity => SavesAll
      BY SeenGrows DEF HStep, HInv, SavesOK
    <3>2. broker.saving \/ broker.saveFailures > 0
      BY <1>4, <1>6, <3>1 DEF SaveInFlight, IsSave
    <3>3. \A i \in DOMAIN fromKit : fromKit[i].type # "saveresult"
      BY <1>4, <1>6, <3>1 DEF OneSave
    <3>4. \A i \in DOMAIN r : ~IsSave(r[i])
      <4>1. \A i \in DOMAIN q : IsSave(q[i]) => i = 1
        BY <1>4, <1>6, <3>1 DEF OneSave
      <4>2. \A i \in DOMAIN r : i + 1 # 1
        BY <1>6
      <4> QED
        BY <1>6, <4>1, <4>2
    <3>5. PICK k \in Nat : \A i \in DOMAIN msgs :
             msgs[i].type = "saveresult" => i = k /\ msgs[i] = m
      BY <2>11
    <3>6. \A i \in DOMAIN fromKit' :
             fromKit'[i].type = "saveresult" =>
               i \in Int /\ i = Len(fromKit) + k /\ fromKit'[i] = m
      <4>1. fromKit \in Seq(BrokerMessage) /\ fromKit' = fromKit \o msgs
        BY <2>8 DEF KitSends, HStep, IInv, TypeOK
      <4>2. /\ Len(fromKit) \in Nat
            /\ DOMAIN (fromKit \o msgs) = 1..(Len(fromKit) + Len(msgs))
            /\ Len(msgs) \in Nat
            /\ \A i \in DOMAIN (fromKit \o msgs) :
                 \/ i \in DOMAIN fromKit /\ (fromKit \o msgs)[i] = fromKit[i]
                 \/ /\ i - Len(fromKit) \in DOMAIN msgs
                    /\ (fromKit \o msgs)[i] = msgs[i - Len(fromKit)]
        BY <2>11, <4>1, ConcatItems
      <4> SUFFICES ASSUME NEW i \in DOMAIN fromKit', fromKit'[i].type = "saveresult"
                   PROVE  i \in Int /\ i = Len(fromKit) + k /\ fromKit'[i] = m
        OBVIOUS
      <4>3. /\ i \in Int
            /\ i - Len(fromKit) \in DOMAIN msgs
            /\ fromKit'[i] = msgs[i - Len(fromKit)]
        BY <3>3, <4>1, <4>2
      <4>4. i - Len(fromKit) = k /\ fromKit'[i] = m
        BY <3>5, <4>3
      <4> QED
        BY <4>2, <4>3, <4>4
    <3>7. OneSave'
      BY <3>4, <3>6 DEF OneSave
    <3>8. ASSUME ~broker'.modifyActivity, result # "failed"
          PROVE  Exists(doc) /\ doc.content = edits
      <4>1. SavesAll
        BY <1>3, <3>1, <3>8
      <4>2. \A i \in DOMAIN r : r[i].type # "edit"
        <5>1. \A i \in DOMAIN r : 1 < i + 1
          BY <1>6
        <5> QED
          BY <1>4, <1>6, <4>1, <5>1 DEF SavesAll
      <4>3. Edits(q) = 0
        BY <1>6, <1>7, <4>2, EditsNone
      <4>4. kit.content + 0 = edits
        BY <1>3, <4>3 DEF HStep, HInv, EditsCounted
      <4>5. doc.content = kit.content
        BY <2>2, <2>3, <2>4, <3>8 DEF HStep, HInv, EditsCounted
      <4>6. Exists(doc)
        BY <2>15 DEF Exists
      <4> QED
        BY <1>5, <4>4, <4>5, <4>6
    <3>9. ASSUME ~broker'.modifyActivity
          PROVE  SavesAll'
      <4>1. \A i \in DOMAIN fromKit' :
               fromKit'[i].type = "saveresult" /\ fromKit'[i].value # "failed" =>
                 Exists(upload') /\ upload'.content = edits'
        BY <1>3, <2>8, <2>9, <3>6, <3>8, <3>9
      <4>2. ~(~broker'.saving /\ broker'.saveFailures = 0)
        BY <1>3, <3>2
      <4> QED
        BY <3>4, <4>1, <4>2 DEF SavesAll
    <3> QED
      BY <1>3, <3>2, <3>7, <3>9
  <2> QED
    BY <1>3, <2>13, <2>14, <2>16, <2>17 DEF HInv
<1> QED
  BY <1>8, <1>9

\* The Kit is killed or exits, and the broker runs at most one method.
LEMMA KitDownHistory ==
  ASSUME HStep, kit' = [kit EXCEPT !.up = FALSE],
         Follows(broker, broker'), broker'.http = broker.http,
         UNCHANGED <<upload, fromKit, storage, edits, joined>>,
         \/ UNCHANGED left /\ StopsWell(broker, broker')
         \/ Spend("crashes") /\ StopsWell(broker, broker')
         \/ Spend("timeouts")
  PROVE  HInv'
<1>1. KitAlike /\ Received
  BY DEF HStep, IInv, TypeOK, Kit, KitAlike, Received
<1>2. "crashes" \in Input /\ "timeouts" \in Input
  BY DEF Input
<1>3. \A i \in Input : left'[i] <= left[i]
  BY <1>2, SpendLess, SpendNothing DEF HStep, HInv
<1>4. Spend("timeouts") => left'["timeouts"] < Budget["timeouts"]
  BY <1>2, SpendLess DEF HStep, HInv
<1>5. \/ StepFlags(broker, broker')
      \/ FlagFrame(broker, broker') /\ left'["timeouts"] < Budget["timeouts"]
  BY <1>4, FollowsFlags DEF Follows
<1> QED
  BY <1>1, <1>3, <1>5, RenamesNothing, MethodStep DEF HStep, Follows

\* What the Kit does.
LEMMA KitNextHistory ==
  ASSUME HStep, KitNext
  PROVE  HInv'
<1>1. ASSUME KitCrash \/ KitExit
      PROVE  HInv'
  <2>1. /\ kit' = [kit EXCEPT !.up = FALSE]
        /\ UNCHANGED <<broker, upload, fromKit, storage, edits, joined>>
        /\ Spend("crashes") \/ UNCHANGED left
    BY <1>1 DEF KitCrash, KitExit
  <2>2. Follows(broker, broker') /\ StopsWell(broker, broker')
    BY <2>1, FollowsSame
  <2> QED
    BY <2>1, <2>2, KitDownHistory
<1> QED
  BY <1>1, KitLoadHistory, KitEditHistory, KitDisconnectHistory, KitSaveHistory
  DEF KitNext

-----------------------------------------------------------------------------
(* The host. *)

\* Neither the file on disk nor the Storage holds more than the edits.
LEMMA StorageAtMost ==
  ASSUME IInv, EditsCounted
  PROVE  /\ storage \in Nat /\ edits \in Nat /\ broker.uploading.content \in Nat
         /\ storage <= broker.uploading.content /\ broker.uploading.content <= edits
<1> DEFINE n == Edits(broker.toKit)
<1>1. /\ storage \in Nat /\ edits \in Nat
      /\ kit.content \in Nat /\ kit.doc.content \in Nat
      /\ broker.uploading.content \in Nat /\ n \in Nat
  BY EditsQueue DEF IInv, TypeOK, Broker, Kit, File
<1>2. /\ storage <= broker.uploading.content
      /\ OlderOrSame(broker.uploading, kit.doc)
      /\ kit.doc.content <= kit.content
  BY DEF IInv, VersionOrder
<1>3. kit.content + n <= edits
  BY DEF EditsCounted
<1> HIDE DEF n
<1>4. broker.uploading.content <= kit.doc.content
  BY <1>1, <1>2 DEF OlderOrSame
<1> QED
  BY <1>1, <1>2, <1>3, <1>4

\* The host stores the body of the PUT.
LEMMA HostStoresHistory ==
  ASSUME HStep, HostStores
  PROVE  HInv'
<1> DEFINE h == [broker.http EXCEPT !.applied = TRUE]
<1>1. /\ broker \in Broker /\ broker.http \in HttpSession /\ broker.http.kind = "put"
      /\ broker' = [broker EXCEPT !.http = h]
      /\ storage' = broker.http.file.content
      /\ UNCHANGED <<kit, upload, fromKit, edits, joined, left>>
  BY DEF HostStores, HStep, IInv, TypeOK, Broker
<1>2. h.kind = "put" /\ h.file = broker.http.file
  BY <1>1 DEF HttpSession
<1> HIDE DEF h
<1>3. /\ broker'.http = h /\ broker'.request = broker.request
      /\ broker'.sess = broker.sess /\ broker'.closeFrame = broker.closeFrame
      /\ SameQueue(broker, broker') /\ FlagFrame(broker, broker')
      /\ broker'.destroying = broker.destroying
      /\ broker'.stop = broker.stop
      /\ broker'.changedInStorage = broker.changedInStorage
      /\ broker'.uploading = broker.uploading
      /\ broker'.uploadedTime = broker.uploadedTime
  BY <1>1 DEF SameQueue, FlagFrame, Broker
<1>4. storage <= storage' /\ storage \in Nat /\ storage' \in Nat
  BY HostStoresStep DEF HStep, IInv, TypeOK
<1>5. Received /\ KitAlike /\ SessionFrame(broker, broker')
  BY <1>1, <1>3, SameSessions DEF Received, KitAlike
<1>6. QueueFrame(broker, broker') /\ QueueStep(broker, broker')
  BY <1>3, FrameQueueStep DEF QueueFrame
<1>7. ViewsKnown'
  BY <1>1, <1>5, <1>6, ViewsStep DEF HStep, HInv, KitAlike
<1>8. EditsCounted'
  BY <1>1, <1>3, <1>5, <1>6, EditsStep DEF HStep, HInv, FlagFrame
<1>9. SavesOK'
  BY <1>1, <1>3, <1>5, <1>6, SavesStep DEF HStep, HInv, FlagFrame
<1>10. FilesOK'
  BY <1>1, <1>2, <1>3 DEF HStep, HInv, FilesOK, FileOK
<1>11. UploadsOK'
  <2>1. storage' = h.file.content
    BY <1>1, <1>2
  <2>2. ASSUME "requestReplaced" \notin seen'
        PROVE  /\ broker'.request.kind = "put"
               /\ broker'.request.mtime = h.file.mtime
               /\ IF Exists(broker'.uploading)
                  THEN /\ broker'.uploadedTime <= broker'.uploading.mtime
                       /\ broker'.uploadedTime = broker'.uploading.mtime =>
                             storage' = broker'.uploading.content
                  ELSE broker'.uploadedTime = 0
    <3>1. "requestReplaced" \notin seen
      BY <2>2, SeenGrows DEF HStep
    <3>2. storage' <= broker.uploading.content /\ broker.uploading.content \in Nat
      BY <1>1, <1>3 DEF HStep, IInv, VersionOrder, Broker, File
    <3>3. storage = broker.uploading.content => storage' = broker.uploading.content
      BY <1>4, <3>2
    <3> QED
      BY <1>1, <1>2, <1>3, <3>1, <3>3 DEF HStep, HInv, UploadsOK, IsAsyncUploading
  <2>3. "fileReplaced" \notin seen' => h.file = broker'.uploading
    BY <1>1, <1>2, <1>3, SeenGrows DEF HStep, HInv, UploadsOK
  <2> QED
    BY <1>2, <1>3, <2>1, <2>2, <2>3 DEF UploadsOK, IsAsyncUploading
<1>12. LatestBeforeRename'
  BY <1>2, <1>3 DEF LatestBeforeRename
<1>13. EndOK'
  <2>1. /\ edits \in Nat /\ edits' = edits /\ broker.uploading.content \in Nat
        /\ storage' <= broker.uploading.content /\ broker.uploading.content <= edits
    BY <1>1, <1>3, StorageAtMost DEF HStep, HInv, IInv, VersionOrder
  <2>2. storage = edits => storage' = edits'
    BY <1>4, <2>1
  <2> QED
    BY <1>3, <2>2, SeenGrows DEF HStep, HInv, EndOK, GivenUp, FlagFrame
<1>14. OpenOK'
  <2>1. OpenFlags(broker, broker') /\ StopsWell(broker, broker')
    BY <1>3 DEF OpenFlags, StopsWell, FlagFrame
  <2> QED
    BY <1>1, <1>3, <1>13, <2>1, SameSessions, SpendNothing, OpenStep DEF HStep, HInv
<1> QED
  BY <1>7, <1>8, <1>9, <1>10, <1>11, <1>12, <1>13, <1>14 DEF HInv

\* The host answers an upload: if the PUT has succeeded, the Storage has the
\* version that the request names.
LEMMA UploadAnswerHistory ==
  ASSUME HStep, NEW result \in UploadFaults \cup {"OK"}, UploadAnswer(result)
  PROVE  HInv'
<1> DEFINE stored == result = "OK" /\ broker.request.kind = "put"
           time == IF stored THEN broker.request.mtime ELSE broker.uploadedTime
           chg == broker.changedInStorage /\ ~stored
           b == broker
           a == Answered(broker, result)
           d == broker'
<1>1. /\ Sound(b) /\ b \in Broker /\ b.uploading \in File /\ b.http.file \in File
      /\ result \in UploadResults \cup {"OK"}
  BY Invariant, SystemConstants DEF HStep, Sound, Broker, HttpSession
<1>2. /\ IsAsyncUploading(b)
      /\ result = "OK" /\ b.http.kind = "put" => b.http.applied
      /\ d = HandleUploadToStorageResponse(b, result)
      /\ UNCHANGED <<kit, upload, fromKit, storage, edits, joined>>
      /\ (\E input \in Input : Spend(input)) \/ UNCHANGED left
  BY DEF UploadAnswer, Handled, Input
<1>3. /\ Follows(a, d) /\ StopsWell(a, d)
      /\ d.http = NoHttpSession \/ (result = "OK" /\ b.request.kind = "put")
  BY <1>1, <1>2, HandleUploadToStorageResponseFollows
<1>4. a = [b EXCEPT !.http = NoHttpSession, !.uploadedTime = time,
                    !.changedInStorage = chg]
  BY <1>1 DEF Answered, Broker
<1> HIDE DEF a, time, chg
<1>5. /\ a.http = NoHttpSession /\ a.uploadedTime = time
      /\ a.sess = b.sess /\ a.closeFrame = b.closeFrame
      /\ a.toKit = b.toKit /\ a.saving = b.saving
      /\ a.modifyActivity = b.modifyActivity
      /\ a.saveFailures = b.saveFailures /\ a.uploading = b.uploading
      /\ a.phase = b.phase /\ a.dataLoss = b.dataLoss
      /\ a.kitDisconnected = b.kitDisconnected
      /\ a.unloadRequested = b.unloadRequested /\ a.destroying = b.destroying
      /\ a.closeRequested = b.closeRequested /\ a.stop = b.stop
  BY <1>1, <1>4 DEF Broker
<1>6. Present(a) = Present(b) /\ Open(a) = Open(b)
  BY <1>5, SameSessions
<1>7. SessionFrame(b, d)
  BY <1>3, <1>5, <1>6 DEF Follows, SessionFrame, Here
<1>8. QueueFrame(b, d)
  <2>1. SameQueue(a, d) => SameQueue(b, d)
    BY <1>5 DEF SameQueue
  <2>2. \A m \in KitMessage : Sends(a, d, m) => Sends(b, d, m)
    BY <1>5, <1>6 DEF Sends
  <2> QED
    BY <1>3, <2>1, <2>2 DEF Follows, QueueFrame
<1>9. /\ d.phase = b.phase /\ d.dataLoss = b.dataLoss
      /\ d.kitDisconnected = b.kitDisconnected
      /\ OpenFlags(b, d) /\ StopsWell(b, d)
      /\ d.saveFailures = b.saveFailures
      /\ d.uploading = b.uploading /\ d.uploadedTime = time
      /\ d.http = NoHttpSession \/ Starts(a, d)
  BY <1>3, <1>5 DEF Follows, FlagFrame, OpenFlags, StopsWell, UploadFrame
<1>10. Received /\ KitAlike /\ QueueStep(b, d)
  BY <1>2, <1>8, FrameQueueStep DEF Received, KitAlike
<1>11. ViewsKnown'
  BY <1>2, <1>7, <1>10, ViewsStep DEF HStep, HInv, KitAlike
<1>12. EditsCounted'
  BY <1>2, <1>9, <1>10, EditsStep DEF HStep, HInv
<1>13. SavesOK'
  BY <1>2, <1>8, <1>9, <1>10, SavesStep DEF HStep, HInv
<1>14. EndOK'
  BY <1>2, <1>9, EndsStep DEF HStep, HInv, OpenFlags
<1>15. OpenOK'
  <2>1. \A i \in Input : left'[i] <= left[i]
    BY <1>2, SpendLess, SpendNothing DEF HStep, HInv
  <2> QED
    BY <1>7, <1>9, <1>14, <2>1, OpenStep DEF HStep, HInv, SessionFrame
<1>16. NoHttpSession.kind = "none" /\ ~NoHttpSession.applied
  BY DEF NoHttpSession
<1>17. FilesOK'
  <2>1. d.http.kind = "put" => d.http.file.mtime >= 0
    <3> SUFFICES ASSUME Starts(a, d), d.http.kind = "put"
                 PROVE  d.http.file.mtime >= 0
      BY <1>9, <1>16
    <3> QED
      BY <1>1, <1>5 DEF Starts, Exists, File, MTime, HStep, HInv, FilesOK, FileOK
  <2> QED
    BY <1>2, <1>9, <2>1 DEF HStep, HInv, FilesOK, FileOK
<1>18. ASSUME stored, "requestReplaced" \notin seen
       PROVE  /\ b.http.kind = "put" /\ storage = b.http.file.content
              /\ time = b.http.file.mtime
  BY <1>2, <1>18 DEF HStep, HInv, UploadsOK, time
<1>19. ASSUME "requestReplaced" \notin seen'
       PROVE  IF Exists(d.uploading)
              THEN /\ d.uploadedTime <= d.uploading.mtime
                   /\ d.uploadedTime = d.uploading.mtime => storage' = d.uploading.content
              ELSE d.uploadedTime = 0
  <2>1. "requestReplaced" \notin seen
    BY <1>19, SeenGrows DEF HStep
  <2>2. CASE ~stored
    BY <1>2, <1>9, <2>1, <2>2 DEF HStep, HInv, UploadsOK, time
  <2>3. CASE stored
    <3>1. /\ b.http.kind = "put" /\ storage = b.http.file.content
          /\ time = b.http.file.mtime
      BY <1>18, <2>1, <2>3
    <3>2. OlderOrSame(b.http.file, b.uploading) /\ b.http.file.mtime >= 0
      BY <3>1 DEF HStep, IInv, VersionOrder, HInv, FilesOK
    <3> QED
      BY <1>1, <1>2, <1>9, <3>1, <3>2 DEF OlderOrSame, Exists, File, MTime
  <2> QED
    BY <2>2, <2>3
<1>20. UploadsOK'
  <2>1. d.http.kind = "put" /\ d.http.applied => storage' = d.http.file.content
    BY <1>9, <1>16 DEF Starts
  <2>2. /\ IsAsyncUploading(d) => d.request.kind = d.http.kind
        /\ d.http.kind = "put" => d.request.mtime = d.http.file.mtime
        /\ d.http.kind = "put" => d.http.file = d.uploading
    BY <1>5, <1>9, <1>16 DEF Starts, IsAsyncUploading
  <2> QED
    BY <1>19, <2>1, <2>2 DEF UploadsOK, IsAsyncUploading
<1>21. LatestBeforeRename'
  <2> SUFFICES ASSUME d.http.kind = "rename",
                      seen' \cap {"requestReplaced", "fileReplaced"} = {}
               PROVE  storage' = d.http.file.content
    BY DEF LatestBeforeRename
  <2>1. stored /\ Starts(a, d)
    BY <1>3, <1>9, <1>16
  <2>2. "requestReplaced" \notin seen /\ "fileReplaced" \notin seen
    BY SeenGrows DEF HStep
  <2>3. b.http.kind = "put" /\ storage = b.http.file.content
    BY <1>18, <2>1, <2>2
  <2>4. b.http.file = b.uploading
    BY <2>2, <2>3 DEF HStep, HInv, UploadsOK
  <2>5. d.http.file = b.uploading
    BY <1>5, <2>1 DEF Starts
  <2> QED
    BY <1>2, <2>3, <2>4, <2>5
<1> QED
  BY <1>11, <1>12, <1>13, <1>14, <1>15, <1>17, <1>20, <1>21 DEF HInv

\* The host answers checkFileInfo.
LEMMA CheckFileInfoAnswerHistory ==
  ASSUME HStep, NEW state \in {"Pass", "Unauthorized", "Fail"},
         NEW sameSize \in BOOLEAN, CheckFileInfoAnswer(state, sameSize)
  PROVE  HInv'
<1> DEFINE done == [broker EXCEPT !.activity = "None", !.checkFileInfo = "done"]
           e    == done.expired \cup ({broker.cfiSession} \cap Present(broker))
           x    == [done EXCEPT !.expired = e]
           conf == HandleDocumentConflict(done)
<1>1. /\ broker' \in {done, conf, x}
      /\ UNCHANGED <<kit, upload, fromKit, storage, edits, joined>>
      /\ (\E input \in Input : Spend(input)) \/ UNCHANGED left
  BY DEF CheckFileInfoAnswer, Handled, Input
<1>2. broker \in Broker
  BY DEF HStep, IInv, TypeOK
<1>3. done \in Broker /\ Alike(broker, done)
  BY <1>2 DEF Broker, Activity, Alike, SameButUpload, SameQueue
<1> HIDE DEF done, e
<1>4. Alike(done, x)
  BY <1>3 DEF Broker, Alike, SameButUpload, SameQueue
<1> HIDE DEF x
<1>5. Follows(done, conf) /\ SameUpload(done, conf) /\ StopsWell(done, conf)
  BY <1>3, HandleDocumentConflictFollows
<1> HIDE DEF conf
<1>6. Follows(broker, conf) /\ conf.http = broker.http /\ StopsWell(broker, conf)
  BY <1>3, <1>5, AlikeThen
<1>7. MethodFrames(broker, broker')
  BY <1>1, <1>3, <1>4, <1>6, AlikeTwice, AlikeMethod, FollowsMethod, RenamesNothing
<1> QED
  BY <1>1, <1>7, HandlerStep

-----------------------------------------------------------------------------
(* The housekeeping. *)

\* The housekeeping in Activity::None runs one method, after a reset.
LEMMA PollNoneHistory ==
  ASSUME HStep, NEW modifiedStale \in BOOLEAN, NEW canSave \in BOOLEAN,
         NEW canUpload \in BOOLEAN,
         \/ PollNone(modifiedStale, canSave, canUpload)
         \/ PollIdleTimeout(modifiedStale, canSave, canUpload)
         \/ PollRename
         \/ PollAutoSave
  PROVE  HInv'
<1> DEFINE r == Reset(broker)
           idle == PollIdle(r, modifiedStale, canSave, canUpload)
           stop == AutoSaveAndStop(r, modifiedStale, canSave, canUpload)
           renamed == StartRenameFileCommand(r)
           saved == AutoSave(r, FALSE)
<1>1. Sound(broker) /\ broker \in Broker
  BY Invariant DEF HStep, Sound
<1>2. Alike(broker, r) /\ Sound(r) /\ r \in Broker
  BY <1>1, ResetAlike, ResetKept DEF Kept, Sound
<1>3. UNCHANGED <<kit, upload, fromKit, storage, edits, joined>>
  BY DEF PollNone, PollIdleTimeout, PollRename, PollAutoSave, Polling
<1>4. \/ broker' \in {idle, renamed, saved} /\ UNCHANGED left
      \/ broker' = stop /\ Spend("idles")
  BY DEF PollNone, PollIdleTimeout, PollRename, PollAutoSave
<1> HIDE DEF r
<1>5. /\ Follows(r, idle) /\ StopsWell(r, idle) /\ RenamesCurrent(r, idle)
      /\ Follows(r, renamed) /\ StopsWell(r, renamed) /\ renamed.http = r.http
      /\ Follows(r, saved) /\ StopsWell(r, saved) /\ SameUpload(r, saved)
      /\ Follows(r, stop) /\ RenamesCurrent(r, stop)
  BY <1>2, PollIdleFollows, StartRenameFileCommandFollows, AutoSaveFollows,
     AutoSaveAndStopFollows
<1> HIDE DEF idle, renamed, saved, stop
<1>6. RenamesCurrent(r, renamed) /\ RenamesCurrent(r, saved)
  BY <1>5, RenamesNothing DEF SameUpload
<1>7. \A c \in {idle, renamed, saved} : MethodFrames(broker, c)
  BY <1>2, <1>5, <1>6, AlikeThen, AlikeTwice, FollowsMethod
<1>8. Follows(broker, stop) /\ RenamesCurrent(broker, stop)
  BY <1>2, <1>5, AlikeThen, AlikeTwice
<1>9. CASE broker' \in {idle, renamed, saved} /\ UNCHANGED left
  BY <1>3, <1>7, <1>9, HandlerStep
<1>10. CASE broker' = stop /\ Spend("idles")
  <2>1. /\ \A i \in Input : left'[i] <= left[i]
        /\ left'["idles"] < Budget["idles"]
    BY <1>10, SpendLess DEF HStep, HInv, Input
  <2>2. Received /\ KitAlike
    BY <1>3 DEF Received, KitAlike
  <2> QED
    BY <1>3, <1>8, <1>10, <2>1, <2>2, MethodStep DEF HStep, Follows
<1> QED
  BY <1>4, <1>9, <1>10

\* A save that never comes is a failed one.
LEMMA PollSaveHistory ==
  ASSUME HStep, PollSave
  PROVE  HInv'
<1> DEFINE b == broker
           c == broker'
<1>1. b \in Broker
  BY DEF HStep, IInv, TypeOK
<1>2. /\ c = SaveNeverCame(b)
      /\ UNCHANGED <<kit, upload, fromKit, storage, edits, joined>>
      /\ Spend("timeouts") \/ UNCHANGED left
  BY DEF PollSave, Polling
<1>3. BumpFailures(b.saveFailures) \in Nat /\ BumpFailures(b.saveFailures) > 0
  BY <1>1, BrokerConstants DEF Broker, BumpFailures
<1>4. /\ c.sess = b.sess /\ c.closeFrame = b.closeFrame /\ c.toKit = b.toKit
      /\ c.saving = FALSE /\ c.saveFailures = BumpFailures(b.saveFailures)
      /\ c.modifyActivity = b.modifyActivity
      /\ c.uploading = b.uploading /\ c.uploadedTime = b.uploadedTime
      /\ c.http = b.http /\ c.request = b.request
      /\ c.phase = b.phase /\ c.dataLoss = b.dataLoss
      /\ c.kitDisconnected = b.kitDisconnected
      /\ c.unloadRequested = b.unloadRequested /\ c.destroying = b.destroying
      /\ c.closeRequested = b.closeRequested /\ c.stop = b.stop
  BY <1>1, <1>2 DEF SaveNeverCame, EndActivity, SetLastSaveResult, Broker
<1>5. \A i \in Input : left'[i] <= left[i]
  BY <1>2, SpendLess, SpendNothing DEF HStep, HInv, Input
<1>6. SessionFrame(b, c) /\ Open(c) = Open(b) /\ QueueStep(b, c)
  BY <1>4, SameSessions DEF QueueStep
<1>7. Received /\ KitAlike
  BY <1>2 DEF Received, KitAlike
<1>8. ViewsKnown'
  BY <1>2, <1>6, <1>7, ViewsStep DEF HStep, HInv
<1>9. EditsCounted'
  BY <1>2, <1>4, <1>6, <1>7, EditsStep DEF HStep, HInv
<1>10. UploadFrame(b, c) /\ RenamesCurrent(b, c)
  BY <1>4, RenamesNothing DEF UploadFrame
<1>11. FilesOK' /\ UploadsOK' /\ LatestBeforeRename'
  BY <1>2, <1>10, UploadsStep DEF HStep, HInv
<1>12. EndOK'
  BY <1>2, <1>4, EndsStep DEF HStep, HInv
<1>13. OpenFlags(b, c) /\ StopsWell(b, c)
  BY <1>4 DEF OpenFlags, StopsWell
<1>14. OpenOK'
  BY <1>5, <1>6, <1>12, <1>13, OpenStep DEF HStep, HInv
<1>15. SavesOK'
  <2> SUFFICES ASSUME "overlappingSaves" \notin seen'
               PROVE  /\ OneSave'
                      /\ SaveInFlight' => c.saving \/ c.saveFailures > 0
                      /\ ~c.modifyActivity => SavesAll'
    BY DEF SavesOK
  <2>1. OneSave /\ (~b.modifyActivity => SavesAll)
    BY SeenGrows DEF HStep, HInv, SavesOK
  <2>2. OneSave'
    BY <1>2, <1>4, <2>1 DEF OneSave
  <2>3. c.saveFailures # 0 /\ c.saveFailures > 0
    BY <1>3, <1>4
  <2>4. ~c.modifyActivity => SavesAll'
    BY <1>2, <1>4, <2>1, <2>3 DEF SavesAll
  <2> QED
    BY <2>2, <2>3, <2>4
<1> QED
  BY <1>8, <1>9, <1>11, <1>12, <1>14, <1>15 DEF HInv

\* What the housekeeping does.
LEMMA PollNextHistory ==
  ASSUME HStep, PollNext
  PROVE  HInv'
<1>1. Sound(broker) /\ broker \in Broker
  BY Invariant DEF HStep, Sound
<1>2. ASSUME PollSyncFileTimestamp
      PROVE  HInv'
  <2> DEFINE s == FirstAuthorizedSession(broker)
             c == [broker EXCEPT !.checkFileInfo = "running", !.cfiSession = s]
  <2>1. /\ broker' \in {EndActivity(broker), c}
        /\ UNCHANGED <<kit, upload, fromKit, storage, edits, joined, left>>
    BY <1>2 DEF PollSyncFileTimestamp, Polling
  <2>2. s \in SessionOrNone
    BY FirstAuthorizedSessionType
  <2> HIDE DEF s
  <2>3. Alike(broker, c)
    BY <1>1, <2>2 DEF Broker, Alike, SameButUpload, SameQueue
  <2> HIDE DEF c
  <2>4. MethodFrames(broker, broker')
    BY <1>1, <2>1, <2>3, EndActivityAlike, AlikeMethod
  <2> QED
    BY <2>1, <2>4, HandlerStep
<1>3. ASSUME PollOther
      PROVE  HInv'
  <2>1. UNCHANGED <<broker, kit, upload, fromKit, storage, edits, joined, left>>
    BY <1>3 DEF PollOther, Polling
  <2>2. MethodFrames(broker, broker')
    BY <2>1, AlikeMethod DEF Alike, SameButUpload, SameQueue
  <2> QED
    BY <2>1, <2>2, HandlerStep
<1>4. ASSUME PollLoadTimeout
      PROVE  HInv'
  <2>1. /\ broker' = Stop(broker) /\ kit' = [kit EXCEPT !.up = FALSE]
        /\ UNCHANGED <<upload, fromKit, storage, edits, joined>> /\ Spend("timeouts")
    BY <1>4 DEF PollLoadTimeout
  <2>2. Follows(broker, broker') /\ broker'.http = broker.http
    BY <1>1, <2>1, StopFollows DEF SameUpload
  <2> QED
    BY <2>1, <2>2, KitDownHistory
<1>5. ASSUME NEW s \in Session, PollStaleDisconnect(s)
      PROVE  HInv'
  <2>1. /\ broker' = FinalRemoveSession(broker, s)
        /\ UNCHANGED <<kit, upload, fromKit, storage, edits, joined>>
        /\ Spend("timeouts") \/ UNCHANGED left
    BY <1>5 DEF PollStaleDisconnect, Polling
  <2>2. MethodFrames(broker, broker')
    BY <1>1, <2>1, FinalRemoveSessionFollows, RenamesNothing, FollowsMethod DEF SameUpload
  <2>3. (\E input \in Input : Spend(input)) \/ UNCHANGED left
    BY <2>1 DEF Input
  <2> QED
    BY <2>1, <2>2, <2>3, HandlerStep
<1> QED
  BY <1>2, <1>3, <1>4, <1>5, PollNoneHistory, PollSaveHistory DEF PollNext

-----------------------------------------------------------------------------
(* The end of the poll thread. *)

\* The data-loss check is complete.
LEMMA CheckComplete ==
  ASSUME HStep, broker.stop, ~broker.saving, ~DetectsDataLoss(broker),
         seen \subseteq Harmless
  PROVE  storage = edits
<1> DEFINE n == broker.uploading.content
<1>1. /\ "discarded" \notin seen /\ "requestReplaced" \notin seen
      /\ "overlappingSaves" \notin seen
  BY DEF Harmless
<1>2. ~broker.changedInStorage
  BY <1>1 DEF HStep, HInv, EndOK, GivenUp
<1>3. /\ ~broker.modifyActivity /\ broker.saveFailures = 0
      /\ ~IsStorageOutdated(broker)
  BY <1>2 DEF DetectsDataLoss, LastSaveSuccessful
<1>4. n = edits
  BY <1>1, <1>3 DEF HStep, HInv, SavesOK, SavesAll
<1>5. /\ storage \in Nat /\ edits \in Nat /\ n \in Nat /\ storage <= n
  BY StorageAtMost DEF HStep, HInv
<1>6. CASE Exists(broker.uploading)
  BY <1>1, <1>3, <1>4, <1>6 DEF HStep, HInv, UploadsOK, IsStorageOutdated
<1>7. CASE ~Exists(broker.uploading)
  <2>1. broker.uploading.mtime <= 0
    BY <1>7 DEF Exists
  <2>2. n = 0
    BY <2>1 DEF HStep, HInv, FilesOK, FileOK
  <2> HIDE DEF n
  <2> QED
    BY <1>4, <1>5, <2>2
<1> QED
  BY <1>6, <1>7

\* The loop ends, and what is not in the Storage is noticed.
LEMMA StopPollingHistory ==
  ASSUME HStep, StopPolling
  PROVE  HInv'
<1> DEFINE b == broker
           c == broker'
           q == b.toKit
           r == c.toKit
           m == [type |-> "exit", sessions |-> {}]
           loss == DetectsDataLoss(b)
           sent == IF Present(b) = {} THEN Append(q, m) ELSE q
<1>1. /\ b \in Broker /\ q \in Seq(KitMessage) /\ m \in KitMessage
      /\ fromKit \in Seq(BrokerMessage)
  BY MessageSessions DEF HStep, IInv, TypeOK, KitMessage
<1>2. /\ b.phase = "polling" /\ b.stop
      /\ c = [b EXCEPT !.phase = "flushing", !.dataLoss = loss, !.toKit = sent]
      /\ UNCHANGED <<kit, upload, fromKit, storage, edits, joined, left>>
  BY DEF StopPolling
<1> HIDE DEF loss, sent
<1>3. /\ c.phase = "flushing" /\ c.dataLoss = loss /\ r = sent
      /\ c.sess = b.sess /\ c.closeFrame = b.closeFrame
      /\ c.saving = b.saving /\ c.saveFailures = b.saveFailures
      /\ c.modifyActivity = b.modifyActivity
      /\ c.uploading = b.uploading /\ c.uploadedTime = b.uploadedTime
      /\ c.http = b.http /\ c.request = b.request
      /\ c.kitDisconnected = b.kitDisconnected
      /\ c.unloadRequested = b.unloadRequested /\ c.destroying = b.destroying
      /\ c.closeRequested = b.closeRequested /\ c.changedInStorage = b.changedInStorage
      /\ c.stop = b.stop
  BY <1>1, <1>2 DEF Broker
<1>4. r = q \/ r = Append(q, m)
  BY <1>3 DEF sent
<1>5. SessionFrame(b, c) /\ Open(c) = Open(b)
  BY <1>3, SameSessions
<1>6. \A i \in Input : left'[i] <= left[i]
  BY <1>2, SpendNothing DEF HStep
<1>7. Received /\ KitAlike
  BY <1>2 DEF Received, KitAlike
<1>8. m.type = "exit" /\ m.sessions = {} /\ ~IsSave(m)
  BY DEF IsSave
<1> HIDE DEF m
<1>9. \A i \in DOMAIN r : r[i] = m \/ (i \in DOMAIN q /\ r[i] = q[i])
  <2>1. CASE r = q
    BY <2>1
  <2>2. CASE r = Append(q, m)
    BY <1>1, <2>2, AppendItems
  <2> QED
    BY <1>4, <2>1, <2>2
<1>10. ViewsKnown'
  <2>1. \A i \in DOMAIN r : r[i].sessions \subseteq 1..joined'
    BY <1>2, <1>8, <1>9 DEF HStep, HInv, ViewsKnown
  <2>2. \A i \in DOMAIN r : r[i].type = "disconnect" =>
           \A s \in r[i].sessions : ~Here(c, s)
    BY <1>3, <1>8, <1>9 DEF HStep, HInv, ViewsKnown, Here
  <2>3. \A i \in DOMAIN r : r[i].type = "edit" =>
           /\ r[i].sessions \subseteq kit'.views
           /\ \A j \in DOMAIN r : r[j].type = "disconnect" /\ j < i =>
                 r[j].sessions \cap r[i].sessions = {}
    BY <1>2, <1>8, <1>9 DEF HStep, HInv, ViewsKnown
  <2> QED
    BY <1>2, <1>3, <2>1, <2>2, <2>3 DEF HStep, HInv, ViewsKnown
<1>11. EditsCounted'
  <2>1. Edits(r) = Edits(q)
    BY <1>1, <1>4, <1>8, EditsQueue
  <2> QED
    BY <1>2, <1>3, <2>1 DEF HStep, HInv, EditsCounted
<1>12. SavesOK'
  BY <1>1, <1>2, <1>3, <1>4, <1>8, SeenGrows, SavesAppend DEF HStep, HInv
<1>13. FilesOK' /\ UploadsOK' /\ LatestBeforeRename'
  <2>1. UploadFrame(b, c) /\ RenamesCurrent(b, c)
    BY <1>3, RenamesNothing DEF UploadFrame
  <2> QED
    BY <1>2, <2>1, UploadsStep DEF HStep, HInv
<1>14. EndOK'
  <2>1. seen \subseteq seen' /\ (b.saving => "savingAtExit" \in seen')
    BY <1>2, <1>3, SeenGrows DEF HStep, SavingAtExit
  <2>2. c.stop
    BY <1>2, <1>3
  <2>3. GivenUp(c) => "discarded" \in seen'
    BY <1>3, <2>1 DEF HStep, HInv, EndOK, GivenUp
  <2>4. ~c.dataLoss /\ seen' \subseteq Harmless => storage' = edits'
    <3> SUFFICES ASSUME ~c.dataLoss, seen' \subseteq Harmless
                 PROVE  storage' = edits'
      OBVIOUS
    <3>1. ~b.saving /\ seen \subseteq Harmless
      BY <2>1 DEF Harmless
    <3>2. ~DetectsDataLoss(b)
      BY <1>3 DEF loss
    <3> QED
      BY <1>2, <3>1, <3>2, CheckComplete
  <2>5. GivenUp(broker)' = GivenUp(c)
    BY DEF GivenUp
  <2> QED
    BY <2>2, <2>3, <2>4, <2>5 DEF EndOK
<1>15. OpenOK'
  <2>1. OpenFlags(b, c) /\ StopsWell(b, c)
    BY <1>3 DEF OpenFlags, StopsWell
  <2> QED
    BY <1>5, <1>6, <1>14, <2>1, OpenStep DEF HStep, HInv
<1> QED
  BY <1>10, <1>11, <1>12, <1>13, <1>14, <1>15 DEF HInv

\* Nothing is observed of a step that changes no member.
LEMMA NothingObserved ==
  ASSUME IInv, UNCHANGED broker
  PROVE  Observed = {}
<1>1. Len(broker.toKit) \in Nat
  BY DEF IInv, TypeOK, Broker
<1> QED
  BY <1>1 DEF Observed, SavingAtExit, RequestReplaced, FileReplaced, OverlappingSaves,
              SendsSave, Discarded, NotTheLast

\* The poll thread is done, or nothing happens.
LEMMA EndHistory ==
  ASSUME HStep, Terminate \/ UNCHANGED vars
  PROVE  HInv'
<1> DEFINE b == broker
           c == broker'
<1>1. b \in Broker
  BY DEF HStep, IInv, TypeOK
<1>2. /\ c = b \/ (b.phase # "polling" /\ c = [b EXCEPT !.phase = "done"])
      /\ UNCHANGED <<kit, upload, fromKit, storage, edits, joined, left>>
  BY DEF Terminate, vars
<1>3. /\ c.phase = b.phase \/ b.phase # "polling"
      /\ c.toKit = b.toKit /\ c.sess = b.sess /\ c.closeFrame = b.closeFrame
      /\ c.saving = b.saving /\ c.saveFailures = b.saveFailures
      /\ c.modifyActivity = b.modifyActivity /\ c.dataLoss = b.dataLoss
      /\ c.uploading = b.uploading /\ c.uploadedTime = b.uploadedTime
      /\ c.http = b.http /\ c.request = b.request
      /\ c.kitDisconnected = b.kitDisconnected
      /\ c.unloadRequested = b.unloadRequested /\ c.destroying = b.destroying
      /\ c.closeRequested = b.closeRequested /\ c.changedInStorage = b.changedInStorage
      /\ c.stop = b.stop
  BY <1>1, <1>2 DEF Broker
<1>4. SessionFrame(b, c) /\ Open(c) = Open(b) /\ QueueStep(b, c) /\ QueueFrame(b, c)
  BY <1>3, SameSessions DEF QueueStep, QueueFrame, SameQueue
<1>5. Received /\ KitAlike
  BY <1>2 DEF Received, KitAlike
<1>6. ViewsKnown' /\ EditsCounted'
  BY <1>2, <1>3, <1>4, <1>5, ViewsStep, EditsStep DEF HStep, HInv
<1>7. SavesOK'
  BY <1>2, <1>3, <1>4, <1>5, SavesStep DEF HStep, HInv
<1>8. UploadFrame(b, c) /\ RenamesCurrent(b, c)
  BY <1>3, RenamesNothing DEF UploadFrame
<1>9. FilesOK' /\ UploadsOK' /\ LatestBeforeRename'
  BY <1>2, <1>8, UploadsStep DEF HStep, HInv
<1>10. EndOK'
  <2>1. GivenUp(broker)' = GivenUp(b)
    BY <1>3 DEF GivenUp
  <2> QED
    BY <1>2, <1>3, <2>1, SeenGrows DEF HStep, HInv, EndOK
<1>11. OpenFlags(b, c) /\ StopsWell(b, c)
  BY <1>3 DEF OpenFlags, StopsWell
<1>12. \A i \in Input : left'[i] <= left[i]
  BY <1>2, SpendNothing DEF HStep
<1>13. OpenOK'
  BY <1>4, <1>10, <1>11, <1>12, OpenStep DEF HStep, HInv
<1> QED
  BY <1>6, <1>7, <1>9, <1>10, <1>13 DEF HInv

-----------------------------------------------------------------------------
(* The theorems. *)

\* The document that was just opened satisfies the invariant.
LEMMA InitHInv ==
  ASSUME HInit
  PROVE  HInv
<1> DEFINE m == [type |-> "load", sessions |-> {1}]
<1>1. IInv /\ Init /\ seen = {}
  BY InitIInv DEF HInit
<1>2. /\ kit.content = 0 /\ kit.doc.content = 0 /\ kit.doc.mtime = 0 /\ kit.up
      /\ fromKit = <<>> /\ upload = NoFile /\ storage = 0 /\ edits = 0
      /\ joined = 1 /\ left = Budget
  BY <1>1 DEF Init
<1>3. /\ broker.toKit = <<m>> /\ broker.http = NoHttpSession
      /\ broker.uploading = NoFile /\ broker.uploadedTime = 0
      /\ broker.kitDisconnected = "No" /\ broker.phase = "polling"
      /\ broker.stop = FALSE /\ broker.saving = FALSE
      /\ broker.unloadRequested = FALSE /\ broker.destroying = FALSE
      /\ broker.sess = [s \in Session |-> IF s = 1 THEN "LOADING" ELSE "absent"]
  BY <1>1 DEF Init, InitBroker
<1>4. /\ NoFile.mtime = -1 /\ NoFile.content = 0
      /\ NoHttpSession.kind = "none"
  BY DEF NoFile, NoHttpSession
<1>5. m \in KitMessage /\ m.type = "load" /\ m.sessions = {1} /\ ~IsSave(m)
  BY BrokerConstants DEF KitMessage, Session, IsSave
<1> HIDE DEF m
<1>6. DOMAIN broker.toKit = {1} /\ broker.toKit[1] = m
  BY <1>3
<1>7. ViewsKnown
  <2>1. \A s \in Session : s \in Nat /\ broker.sess[s] = IF s = 1 THEN "LOADING" ELSE "absent"
    BY <1>3 DEF Session
  <2> QED
    BY <1>2, <1>5, <1>6, <2>1 DEF ViewsKnown
<1>8. EditsCounted
  <2>1. <<>> \in Seq(KitMessage) /\ <<m>> = Append(<<>>, m)
    OBVIOUS
  <2>2. Edits(<<>>) = 0
    BY CountEmpty DEF Edits
  <2>3. Edits(Append(<<>>, m)) = Edits(<<>>)
    BY <1>5, <2>1, EditsQueue
  <2>4. Edits(broker.toKit) = 0
    BY <1>3, <2>1, <2>2, <2>3
  <2> QED
    BY <1>2, <1>3, <2>4 DEF EditsCounted
<1>9. FilesOK
  BY <1>2, <1>3, <1>4 DEF FilesOK, FileOK
<1>10. ~SaveInFlight /\ OneSave /\ SavesAll
  BY <1>2, <1>3, <1>4, <1>5, <1>6 DEF SaveInFlight, OneSave, SavesAll, IsSave
<1>11. SavesOK
  BY <1>10 DEF SavesOK
<1>12. UploadsOK /\ LatestBeforeRename
  BY <1>2, <1>3, <1>4 DEF UploadsOK, LatestBeforeRename, IsAsyncUploading, Exists
<1>13. EndOK
  BY <1>3 DEF EndOK, GivenUp
<1>14. OpenOK
  <2>1. \A i \in Input : left[i] \in Nat
    BY <1>1 DEF IInv, TypeOK
  <2> QED
    BY <1>2, <1>3, <2>1 DEF OpenOK
<1> QED
  BY <1>7, <1>8, <1>9, <1>11, <1>12, <1>13, <1>14 DEF HInv

\* Every step of the specification is one of the history.
LEMMA NextHStep ==
  ASSUME IInv, HInv, [HNext]_historyVars
  PROVE  HStep /\ [Next]_vars
<1>1. CASE HNext
  BY <1>1, NextIInv DEF HNext, HStep
<1>2. CASE UNCHANGED historyVars
  <2>1. UNCHANGED vars /\ UNCHANGED seen /\ UNCHANGED broker
    BY <1>2 DEF historyVars, vars
  <2>2. Observed = {}
    BY <2>1, NothingObserved
  <2> QED
    BY <2>1, <2>2, NextIInv DEF HStep
<1> QED
  BY <1>1, <1>2

\* Every step keeps the invariant.
LEMMA NextHInv ==
  ASSUME IInv, HInv, [HNext]_historyVars
  PROVE  IInv' /\ HInv'
<1>1. HStep /\ [Next]_vars
  BY NextHStep
<1> SUFFICES HInv'
  BY <1>1 DEF HStep
<1>2. CASE ClientNext
  BY <1>1, <1>2, ClientMethods, JoinHistory, EditHistory DEF ClientNext
<1>3. CASE KitNext
  BY <1>1, <1>3, KitNextHistory
<1>4. CASE KitEventNext
  BY <1>1, <1>4, LoadedHistory, SetModifiedHistory, DisconnectedHistory,
     KitGoneHistory, SaveResponseHistory DEF KitEventNext
<1>5. CASE HostNext
  BY <1>1, <1>5, HostStoresHistory, UploadAnswerHistory, CheckFileInfoAnswerHistory
  DEF HostNext
<1>6. CASE PollNext
  BY <1>1, <1>6, PollNextHistory
<1>7. CASE StopPolling
  BY <1>1, <1>7, StopPollingHistory
<1>8. CASE Terminate \/ Finished \/ UNCHANGED vars
  BY <1>1, <1>8, EndHistory DEF Finished
<1> QED
  BY <1>1, <1>2, <1>3, <1>4, <1>5, <1>6, <1>7, <1>8 DEF Next

\* The invariant holds throughout.
LEMMA AlwaysHInv == HSpec => [](IInv /\ HInv)
<1>1. HInit => IInv /\ HInv
  BY InitHInv, InitIInv DEF HInit
<1>2. (IInv /\ HInv) /\ [HNext]_historyVars => (IInv /\ HInv)'
  BY NextHInv
<1> QED
  BY <1>1, <1>2, PTL DEF HSpec

\* A document that is unloaded without an alarm of pollThread's data-loss
\* check has every edit of its clients in the Storage, unless one of the four
\* courses of events that the check does not notice has happened.
THEOREM NothingLostSilently == HSpec => []NoSilentLoss
<1>1. IInv /\ HInv => NoSilentLoss
  BY DEF HInv, EndOK, NoSilentLoss
<1> QED
  BY <1>1, AlwaysHInv, PTL

\* When needToUploadToStorage skips an upload for the timestamp of the file,
\* the Storage has that file.
THEOREM TimestampSound == HSpec => []UploadedTimeSound
<1>1. IInv /\ HInv => UploadedTimeSound
  BY DEF HInv, UploadsOK, UploadedTimeSound, IsStorageOutdated
<1> QED
  BY <1>1, AlwaysHInv, PTL

\* A rename request is in flight only when the Storage has the version on disk
\* that was current when it was sent.
THEOREM RenamesLatest == HSpec => []LatestBeforeRename
<1>1. IInv /\ HInv => LatestBeforeRename
  BY DEF HInv
<1> QED
  BY <1>1, AlwaysHInv, PTL

\* Another client's leaving never unloads the document of a client that has
\* not left, but for the miscount of removeSession.
THEOREM ClientsStay == HSpec => []OpenSessionsStay
<1>1. IInv /\ HInv => OpenSessionsStay
  BY DEF HInv, OpenOK, OpenSessionsStay
<1> QED
  BY <1>1, AlwaysHInv, PTL

\* Only an edit adds to the edits, and only the host changes the Storage;
\* nothing happens once the poll thread is done.
LEMMA ContentSteps ==
  ASSUME [Next]_vars
  PROVE  /\ \/ UNCHANGED <<edits, storage>>
            \/ \E s \in Session, command \in BOOLEAN : Edit(s, command)
            \/ HostStores
         /\ broker.phase = "done" => UNCHANGED vars
<1>1. CASE ClientNext
  BY <1>1 DEF ClientNext, Join, Edit, Save, SaveToStorage, SaveAs, RenameFile,
              Disconnect, CloseRequest, ReloadRequest, Handling
<1>2. CASE KitNext
  BY <1>2 DEF KitNext, KitLoad, KitEdit, KitSave, KitDisconnect, KitCrash, KitExit,
              KitInput
<1>3. CASE KitEventNext
  BY <1>3 DEF KitEventNext, Loaded, SetModified, SaveResponse, Disconnected,
              KitGone, KitEvent, Handling
<1>4. CASE HostNext
  BY <1>4 DEF HostNext, HostStores, UploadAnswer, CheckFileInfoAnswer, Handling
<1>5. CASE PollNext
  BY <1>5 DEF PollNext, PollNone, PollRename, PollIdleTimeout, PollAutoSave, PollSave,
              PollSyncFileTimestamp, PollOther, PollLoadTimeout,
              PollStaleDisconnect, Polling
<1>6. CASE StopPolling \/ Terminate \/ Finished \/ UNCHANGED vars
  BY <1>6 DEF StopPolling, Terminate, Finished, vars
<1> QED
  BY <1>1, <1>2, <1>3, <1>4, <1>5, <1>6 DEF Next

\* A step of the system is a step of DocumentStore, or does nothing to it.
LEMMA StoreStep ==
  ASSUME IInv, HInv, [HNext]_historyVars
  PROVE  [Store!StoreNext]_(Store!storeVars)
<1> DEFINE loss == broker.dataLoss \/ ~(seen \subseteq Harmless)
<1>1. HStep /\ [Next]_vars /\ EndOK'
  BY NextHStep, NextHInv DEF HInv
<1>2. storage \in Nat /\ edits \in Nat /\ broker \in Broker
  BY <1>1 DEF IInv, TypeOK
<1>3. CASE broker.phase = "done"
  <2>1. UNCHANGED vars
    BY <1>1, <1>3, ContentSteps
  <2>2. UNCHANGED <<broker, storage, edits>>
    BY <2>1 DEF vars
  <2>3. seen' = seen
    BY <1>1, <2>2, NothingObserved DEF HStep
  <2> QED
    BY <2>2, <2>3 DEF Store!storeVars
<1>4. ASSUME NEW s \in Session, NEW command \in BOOLEAN, Edit(s, command)
      PROVE  [Store!StoreNext]_(Store!storeVars)
  <2>1. /\ broker.phase # "done" /\ broker'.phase = broker.phase
        /\ edits' = edits \/ edits' = edits + 1
        /\ storage' = storage
    BY <1>2, <1>4 DEF Edit, Handling, Handled, Broker
  <2> QED
    BY <2>1 DEF Store!storeVars, Store!StoreNext, Store!Accept
<1>5. ASSUME HostStores
      PROVE  [Store!StoreNext]_(Store!storeVars)
  <2>1. /\ broker.phase # "done" /\ broker'.phase = broker.phase
        /\ edits' = edits
    BY <1>2, <1>5 DEF HostStores, Broker
  <2>2. storage <= storage'
    BY <1>1, NextIInv
  <2>3. storage' \in Nat /\ storage' <= edits
    <3>1. storage' = broker.http.file.content /\ broker.http.kind = "put"
      BY <1>5 DEF HostStores
    <3>2. broker.http.file.content \in Nat
      BY <1>2 DEF Broker, HttpSession, File
    <3>3. broker.http.file.content <= broker.uploading.content
      BY <3>1, StorageAtMost DEF IInv, VersionOrder, OlderOrSame, HInv
    <3> QED
      BY <1>2, <3>1, <3>2, <3>3, StorageAtMost DEF HInv
  <2>4. storage' \in storage..edits
    BY <1>2, <2>1, <2>2, <2>3
  <2> QED
    BY <2>1, <2>4 DEF Store!StoreNext, Store!Store
<1>6. ASSUME UNCHANGED <<edits, storage>>, broker.phase # "done"
      PROVE  [Store!StoreNext]_(Store!storeVars)
  <2>1. CASE broker'.phase # "done"
    BY <1>6, <2>1 DEF Store!storeVars
  <2>2. CASE broker'.phase = "done" /\ loss'
    BY <1>6, <2>2 DEF Store!StoreNext, Store!Alarm
  <2>3. CASE broker'.phase = "done" /\ ~loss'
    <3>1. storage = edits
      BY <1>1, <1>6, <2>3 DEF EndOK
    <3> QED
      BY <1>6, <2>3, <3>1 DEF Store!StoreNext, Store!Close
  <2> QED
    BY <2>1, <2>2, <2>3
<1> QED
  BY <1>1, <1>3, <1>4, <1>5, <1>6, ContentSteps

\* The broker, the Kit and the host keep the promise of DocumentStore: an edit
\* is accepted once, the Storage only goes forward and holds only accepted
\* edits, and a document that is closed without an alarm has them all.
THEOREM KeepsDocumentStore == HSpec => ImplementsDocumentStore
<1>1. HInit => Store!StoreInit
  BY DEF HInit, Init, InitBroker, Store!StoreInit
<1>2. IInv /\ HInv /\ [HNext]_historyVars => [Store!StoreNext]_(Store!storeVars)
  BY StoreStep
<1> QED
  BY <1>1, <1>2, AlwaysHInv, PTL DEF HSpec, ImplementsDocumentStore, Store!StoreSpec
=============================================================================

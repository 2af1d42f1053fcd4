------------------------ MODULE DocumentBrokerProofs ------------------------
(***************************************************************************)
(* Proofs that the specification of DocumentBroker keeps its types, that   *)
(* checkFileInfo is answered in its own activity, and that the versions of *)
(* the file stay in order on their way to the Storage, for any number of   *)
(* sessions and any budget of inputs and failures.                         *)
(*                                                                         *)
(* The inductive invariant is the conjunction of the three.  Nearly every  *)
(* step runs a method of the broker that keeps the files as they are       *)
(* (lemma QuietStep); the four steps that move a file, KitEdit, KitSave,   *)
(* SaveResponse and HostStores, are proved on their own.                   *)
(***************************************************************************)
EXTENDS BrokerLemmas

IInv == TypeOK /\ SyncWaitsForCheckFileInfo /\ VersionOrder

\* VersionOrder of the members b, the file u, the Kit k and the content st.
InOrder(b, u, k, st) ==
    /\ b.http.kind = "put" =>
          /\ st <= b.http.file.content
          /\ OlderOrSame(b.http.file, b.uploading)
    /\ st <= b.uploading.content
    /\ OlderOrSame(b.uploading, k.doc)
    /\ Exists(u) => OlderOrSame(b.uploading, u) /\ OlderOrSame(u, k.doc)
    /\ k.doc.content <= k.content

\* What a step does to the variables that only count or queue.
RestTyped ==
    /\ kit \in Kit
    /\ fromKit \in Seq(BrokerMessage)
    /\ edits \in Nat
    /\ joined \in Session
    /\ polled \in BOOLEAN
    /\ left \in [Input -> Nat]

-----------------------------------------------------------------------------
(* The parts of a step. *)

\* A method that keeps its frame keeps the versions in order.
LEMMA FrameInOrder ==
  ASSUME NEW b, NEW c, FileFrame(b, c), NEW u, NEW k, NEW st, InOrder(b, u, k, st)
  PROVE  InOrder(c, u, k, st)
BY DEF FileFrame, InOrder, OlderOrSame

\* The types and the order of checkFileInfo after a step, from its parts.
LEMMA SoundStep ==
  ASSUME Sound(broker'), RestTyped', upload' \in File, storage' \in Nat
  PROVE  TypeOK' /\ SyncWaitsForCheckFileInfo'
BY DEF Sound, RestTyped, TypeOK, SyncWaitsForCheckFileInfo, SyncOrderly, IsAsyncUploading

\* A step that runs such a method, and moves no file, keeps the invariant.
LEMMA QuietStep ==
  ASSUME IInv, Kept(broker, broker'), RestTyped', UNCHANGED <<upload, storage>>,
         kit'.doc = kit.doc, kit'.content = kit.content
  PROVE  IInv'
<1>1. Sound(broker') /\ FileFrame(broker, broker')
  BY DEF Kept
<1>2. upload' \in File /\ storage' \in Nat
  BY DEF IInv, TypeOK
<1>3. TypeOK' /\ SyncWaitsForCheckFileInfo'
  BY <1>1, <1>2, SoundStep
<1>4. InOrder(broker', upload, kit, storage)
  BY <1>1, FrameInOrder DEF IInv, VersionOrder, InOrder
<1>5. VersionOrder'
  BY <1>4 DEF InOrder, VersionOrder
<1> QED
  BY <1>3, <1>5 DEF IInv

\* The inputs left stay a count.
LEMMA SpendType ==
  ASSUME left \in [Input -> Nat], NEW input \in Input, Spend(input)
  PROVE  left' \in [Input -> Nat]
<1>1. left[input] \in Nat /\ left[input] > 0
  BY DEF Spend
<1>2. left[input] - 1 \in Nat
  BY <1>1
<1> QED
  BY <1>2 DEF Spend

\* The invariant, as the method lemmas need it.
LEMMA Invariant ==
  ASSUME IInv
  PROVE  Sound(broker) /\ RestTyped /\ upload \in File /\ storage \in Nat
BY DEF IInv, TypeOK, Sound, SyncWaitsForCheckFileInfo, RestTyped

\* After an event only Batched says whether the housekeeping has to follow.
LEMMA HandledStep ==
  ASSUME IInv, NEW b, Kept(broker, b), Handled(b),
         UNCHANGED <<kit, upload, storage>>,
         fromKit' \in Seq(BrokerMessage), edits' \in Nat, joined' \in Session,
         left' \in [Input -> Nat]
  PROVE  IInv'
<1>1. broker' = b /\ polled' \in BOOLEAN
  BY SystemConstants DEF Handled
<1>2. RestTyped'
  BY <1>1, Invariant DEF RestTyped
<1> QED
  BY <1>1, <1>2, QuietStep

-----------------------------------------------------------------------------
(* Events of the clients. *)

\* A client joins, or fails to.
LEMMA JoinStep ==
  ASSUME IInv, NEW added \in BOOLEAN, Join(added)
  PROVE  IInv'
<1> DEFINE b == KeepForNewSession(broker)
           s == joined + 1
           m == [type |-> "load", sessions |-> {s}]
           q == Append(b.toKit, m)
           e == b.editable \cup ({s} \cap Editors)
           x == [b EXCEPT !.sess[s] = "LOADING", !.editable = e, !.toKit = q]
           d == b.destroying \/ Present(b) = {}
           y == [b EXCEPT !.destroying = d]
<1>1. s \in Session /\ joined' = s
  BY DEF Join
<1>2. Sound(broker)
  BY Invariant
<1>3. b \in Broker /\ Same(broker, b)
  BY <1>2 DEF KeepForNewSession, Same, Sound, Broker
<1>4. Kept(broker, b) /\ Sound(b)
  BY <1>2, <1>3, SameKept
<1> HIDE DEF b
<1>5. m \in KitMessage
  BY <1>1 DEF KitMessage
<1>6. q \in Seq(KitMessage)
  BY <1>3, <1>5, QueueType
<1>7. e \in SUBSET Session
  BY <1>1, <1>3 DEF Broker
<1>8. d \in BOOLEAN
  BY <1>3 DEF Broker
<1>9. Handled(IF added THEN x ELSE y)
  BY DEF Join, b
<1> HIDE DEF s, m, q, e, d
<1>10. x \in Broker /\ y \in Broker
  <2>1. [b.sess EXCEPT ![s] = "LOADING"] \in [Session -> SessionState]
    BY <1>1, <1>3 DEF Broker, SessionState
  <2>2. x \in Broker
    BY <1>3, <1>6, <1>7, <2>1 DEF Broker
  <2>3. y \in Broker
    BY <1>3, <1>8 DEF Broker
  <2> QED
    BY <2>2, <2>3
<1>11. Same(b, x) /\ Same(b, y)
  BY <1>3 DEF Same, Broker
<1>12. Kept(broker, x) /\ Kept(broker, y)
  BY <1>4, <1>10, <1>11, SameKept, KeptTwice
<1>13. left' \in [Input -> Nat]
  BY Invariant, SpendType DEF Join, RestTyped, Input
<1>14. UNCHANGED <<kit, upload, fromKit, storage, edits>>
  BY DEF Join
<1> HIDE DEF x, y
<1>15. RestTyped
  BY Invariant
<1> QED
  BY <1>1, <1>9, <1>12, <1>13, <1>14, <1>15, HandledStep DEF RestTyped

\* A client's handler that is one method, and takes one input.
LEMMA ClientStep ==
  ASSUME IInv, NEW b, Kept(broker, b), Handled(b),
         NEW input \in Input, Spend(input),
         UNCHANGED <<kit, upload, fromKit, storage, edits, joined>>
  PROVE  IInv'
<1>1. left' \in [Input -> Nat]
  BY Invariant, SpendType DEF RestTyped
<1> QED
  BY <1>1, Invariant, HandledStep DEF RestTyped

\* A client edits.
LEMMA EditStep ==
  ASSUME IInv, NEW s \in Session, NEW command \in BOOLEAN, Edit(s, command)
  PROVE  IInv'
<1> DEFINE a == [broker EXCEPT !.lastEditing = s, !.modifyActivity = TRUE]
           m == [type |-> "edit", sessions |-> {s}]
           q == Append(a.toKit, m)
           x == [a EXCEPT !.toKit = q]
           passed == command \/ ~IsUnloading(broker)
<1>1. Sound(broker) /\ RestTyped
  BY Invariant
<1>2. a \in Broker /\ Same(broker, a)
  BY <1>1, SessionTypes DEF Same, Sound, Broker
<1>3. Kept(broker, a) /\ Sound(a)
  BY <1>1, <1>2, SameKept
<1>4. Handled(IF passed THEN x ELSE a)
  BY DEF Edit
<1> HIDE DEF a
<1>5. m \in KitMessage
  BY DEF KitMessage
<1>6. q \in Seq(KitMessage)
  BY <1>2, <1>5, QueueType
<1> HIDE DEF q
<1>7. x \in Broker /\ Same(a, x)
  BY <1>2, <1>6 DEF Broker, Same
<1>8. Kept(broker, x)
  BY <1>3, <1>7, SameKept, KeptTwice
<1>9. left' \in [Input -> Nat]
  BY <1>1, SpendType DEF Edit, RestTyped, Input
<1>10. edits' \in Nat /\ UNCHANGED <<kit, upload, fromKit, storage, joined>>
  BY <1>1 DEF Edit, RestTyped
<1> HIDE DEF x, passed
<1> QED
  BY <1>1, <1>3, <1>4, <1>8, <1>9, <1>10, HandledStep DEF RestTyped

\* A client asks to rename the file.
LEMMA RenameFileStep ==
  ASSUME IInv, NEW s \in Session, NEW sameName \in BOOLEAN, RenameFile(s, sameName)
  PROVE  IInv'
<1> DEFINE a == [broker EXCEPT !.renameSession = s]
           b == CASE broker.activity = "Rename" /\ ~sameName -> broker
                  [] broker.activity = "None" -> StartRenameFileCommand(a)
                  [] OTHER -> a
<1>1. Sound(broker)
  BY Invariant
<1>2. a \in Broker /\ Same(broker, a)
  BY <1>1, SessionTypes DEF Same, Sound, Broker
<1>3. Kept(broker, a) /\ Sound(a)
  BY <1>1, <1>2, SameKept
<1>4. Handled(b) /\ Spend("renames")
      /\ UNCHANGED <<kit, upload, fromKit, storage, edits, joined>>
  BY DEF RenameFile
<1>5. a.activity = broker.activity
  BY <1>1 DEF Sound, Broker
<1> HIDE DEF a
<1>6. broker.activity = "None" => Kept(broker, StartRenameFileCommand(a))
  BY <1>3, <1>5, StartRenameFileCommandKept, KeptTwice
<1>7. Kept(broker, b)
  <2>1. CASE broker.activity = "Rename"
    BY <1>1, <1>3, <2>1, KeptSame
  <2>2. CASE broker.activity = "None"
    BY <1>6, <2>2
  <2>3. CASE broker.activity # "Rename" /\ broker.activity # "None"
    BY <1>3, <2>3
  <2> QED
    BY <2>1, <2>2, <2>3
<1> HIDE DEF b
<1>8. "renames" \in Input
  BY DEF Input
<1> QED
  BY <1>4, <1>7, <1>8, ClientStep

\* The other inputs of the clients run one method each.
LEMMA ClientNextStep ==
  ASSUME IInv, ClientNext
  PROVE  IInv'
<1>1. Sound(broker) /\ RestTyped
  BY Invariant
<1>2. {"saves", "forced", "saveAs", "leaves", "closes"} \subseteq Input
  BY DEF Input
<1>3. ASSUME NEW s \in Session, NEW force \in BOOLEAN, Save(s, force)
      PROVE  IInv'
  BY <1>1, <1>2, <1>3, ManualSaveKept, ClientStep DEF Save
<1>4. ASSUME NEW s \in Session, NEW force \in BOOLEAN, NEW canUpload \in BOOLEAN,
             SaveToStorage(s, force, canUpload)
      PROVE  IInv'
  BY <1>1, <1>2, <1>4, UploadToStorageKept, ClientStep DEF SaveToStorage
<1>5. ASSUME NEW s \in Session, SaveAs(s)
      PROVE  IInv'
  <2>1. Kept(broker, UploadToStorageInternal(broker, s, "saveas"))
    BY <1>1, UploadToStorageInternalKept
  <2> QED
    BY <1>2, <1>5, <2>1, ClientStep DEF SaveAs
<1>6. ASSUME NEW s \in Session, Disconnect(s)
      PROVE  IInv'
  BY <1>1, <1>2, <1>6, RemoveSessionKept, ClientStep DEF Disconnect
<1>7. ASSUME CloseRequest
      PROVE  IInv'
  BY <1>1, <1>2, <1>7, CloseDocumentKept, ClientStep DEF CloseRequest
<1>8. ASSUME NEW s \in Session, ReloadRequest(s)
      PROVE  IInv'
  BY <1>1, <1>8, StopKept, HandledStep DEF ReloadRequest, RestTyped
<1> QED
  BY <1>3, <1>4, <1>5, <1>6, <1>7, <1>8, JoinStep, EditStep, RenameFileStep
  DEF ClientNext

-----------------------------------------------------------------------------
(* The Kit. *)

\* The Kit takes its next message: the broker's queue gets shorter.
LEMMA KitInputStep ==
  ASSUME IInv, NEW type, KitInput(type)
  PROVE  /\ Kept(broker, broker')
         /\ broker'.uploading = broker.uploading /\ broker'.http = broker.http
         /\ Head(broker.toKit) \in KitMessage
         /\ UNCHANGED <<storage, edits, joined, polled>>
<1> DEFINE q == Tail(broker.toKit)
<1>1. Sound(broker)
  BY Invariant
<1>2. broker.toKit \in Seq(KitMessage) /\ broker.toKit # <<>>
  BY <1>1 DEF Sound, Broker, KitInput
<1>3. q \in Seq(KitMessage) /\ Head(broker.toKit) \in KitMessage
  BY <1>2
<1>4. broker' = [broker EXCEPT !.toKit = q]
  BY DEF KitInput
<1> HIDE DEF q
<1>5. broker' \in Broker /\ Same(broker, broker')
  BY <1>1, <1>3, <1>4 DEF Sound, Broker, Same
<1>6. broker'.uploading = broker.uploading /\ broker'.http = broker.http
  BY <1>1, <1>4 DEF Sound, Broker
<1> QED
  BY <1>1, <1>3, <1>5, <1>6, SameKept DEF KitInput

\* What the Kit says of its document is a well-formed queue of messages.
LEMMA StatusType ==
  ASSUME kit \in Kit, NEW modified \in BOOLEAN
  PROVE  StatusMessages(modified) \in Seq(BrokerMessage)
<1> DEFINE m == [type |-> "ModifiedStatus", sessions |-> kit.views,
                 value |-> IF modified THEN "true" ELSE "false"]
<1>1. m \in BrokerMessage
  BY DEF Kit, BrokerMessage
<1> HIDE DEF m
<1>2. <<m>> \in Seq(BrokerMessage)
  BY <1>1
<1>3. StatusMessages(modified) = IF IsViewFileExtension THEN <<>> ELSE <<m>>
  BY DEF StatusMessages, m
<1> QED
  BY <1>2, <1>3

\* The Kit's messages follow those that it has sent before.
LEMMA SendsType ==
  ASSUME fromKit \in Seq(BrokerMessage), NEW messages \in Seq(BrokerMessage),
         KitSends(messages)
  PROVE  fromKit' \in Seq(BrokerMessage)
BY DEF KitSends

\* One well-formed message is a queue of its own.
LEMMA SingleType ==
  ASSUME NEW m \in BrokerMessage
  PROVE  <<m>> \in Seq(BrokerMessage)
OBVIOUS

\* The Kit loads a view.
LEMMA KitLoadStep ==
  ASSUME IInv, KitLoad
  PROVE  IInv'
<1> DEFINE S == Head(broker.toKit).sessions
           m == [type |-> "loaded", sessions |-> S,
                 value |-> IF kit.views = {} THEN "true" ELSE "false"]
<1>1. RestTyped
  BY Invariant
<1>2. KitInput("load") /\ KitSends(<<m>>) /\ UNCHANGED <<upload, left>>
      /\ kit' = [kit EXCEPT !.views = @ \cup S]
  BY DEF KitLoad
<1>3. /\ Kept(broker, broker') /\ S \in SUBSET Session
      /\ UNCHANGED <<storage, edits, joined, polled>>
  BY <1>2, KitInputStep DEF KitMessage
<1> HIDE DEF S
<1>4. m \in BrokerMessage
  BY <1>3 DEF BrokerMessage
<1> HIDE DEF m
<1>5. fromKit' \in Seq(BrokerMessage)
  BY <1>1, <1>2, <1>4, SingleType, SendsType DEF RestTyped
<1>6. kit' \in Kit /\ kit'.doc = kit.doc /\ kit'.content = kit.content
  BY <1>1, <1>2, <1>3 DEF RestTyped, Kit
<1>7. RestTyped'
  BY <1>1, <1>2, <1>3, <1>5, <1>6 DEF RestTyped
<1> QED
  BY <1>2, <1>3, <1>6, <1>7, QuietStep

\* The Kit drops views, and exits with the last one.
LEMMA KitDisconnectStep ==
  ASSUME IInv, KitDisconnect
  PROVE  IInv'
<1> DEFINE S == Head(broker.toKit).sessions
           m == [type |-> "disconnected", sessions |-> S, value |-> ""]
           w == kit.views \ S
           up == ~(kit.views # {} /\ w = {})
<1>1. RestTyped
  BY Invariant
<1>2. KitInput("disconnect") /\ KitSends(<<m>>) /\ UNCHANGED <<upload, left>>
      /\ kit' = [kit EXCEPT !.views = w, !.up = up]
  BY DEF KitDisconnect
<1>3. /\ Kept(broker, broker') /\ S \in SUBSET Session
      /\ UNCHANGED <<storage, edits, joined, polled>>
  BY <1>2, KitInputStep DEF KitMessage
<1> HIDE DEF S
<1>4. m \in BrokerMessage
  BY <1>3 DEF BrokerMessage
<1> HIDE DEF m
<1>5. fromKit' \in Seq(BrokerMessage)
  BY <1>1, <1>2, <1>4, SingleType, SendsType DEF RestTyped
<1>6. w \in SUBSET Session /\ up \in BOOLEAN
  BY <1>1 DEF RestTyped, Kit
<1> HIDE DEF w, up
<1>7. kit' \in Kit /\ kit'.doc = kit.doc /\ kit'.content = kit.content
  BY <1>1, <1>2, <1>6 DEF RestTyped, Kit
<1>8. RestTyped'
  BY <1>1, <1>2, <1>3, <1>5, <1>7 DEF RestTyped
<1> QED
  BY <1>2, <1>3, <1>7, <1>8, QuietStep

\* Core's document grows, and is newer still than every file.
LEMMA KitEditStep ==
  ASSUME IInv, KitEdit
  PROVE  IInv'
<1> DEFINE known == Head(broker.toKit).sessions \subseteq kit.views
           msgs  == IF known /\ ~kit.modified THEN StatusMessages(TRUE) ELSE <<>>
<1>1. RestTyped /\ upload \in File /\ storage \in Nat
  BY Invariant
<1>2. KitInput("edit") /\ KitSends(msgs) /\ UNCHANGED <<upload, left>>
      /\ kit' = IF known THEN [kit EXCEPT !.content = @ + 1, !.modified = TRUE] ELSE kit
  BY DEF KitEdit
<1>3. /\ Kept(broker, broker')
      /\ broker'.uploading = broker.uploading /\ broker'.http = broker.http
      /\ UNCHANGED <<storage, edits, joined, polled>>
  BY <1>2, KitInputStep
<1>4. msgs \in Seq(BrokerMessage)
  <2>1. StatusMessages(TRUE) \in Seq(BrokerMessage)
    BY <1>1, StatusType DEF RestTyped
  <2>2. <<>> \in Seq(BrokerMessage)
    OBVIOUS
  <2> QED
    BY <2>1, <2>2
<1> HIDE DEF known, msgs
<1>5. fromKit' \in Seq(BrokerMessage)
  BY <1>1, <1>2, <1>4, SendsType DEF RestTyped
<1> DEFINE n == kit.content + 1
<1>6. kit.content \in Nat /\ n \in Nat /\ kit.content <= n /\ kit.doc.content \in Nat
  BY <1>1 DEF RestTyped, Kit, File
<1>7. kit' = IF known THEN [kit EXCEPT !.content = n, !.modified = TRUE] ELSE kit
  BY <1>2
<1> HIDE DEF n
<1>8. /\ kit' \in Kit /\ kit'.doc = kit.doc
      /\ kit'.content = n \/ kit'.content = kit.content
  BY <1>1, <1>6, <1>7 DEF RestTyped, Kit
<1>9. RestTyped'
  BY <1>1, <1>2, <1>3, <1>5, <1>8 DEF RestTyped
<1>10. TypeOK' /\ SyncWaitsForCheckFileInfo'
  BY <1>1, <1>2, <1>3, <1>9, SoundStep DEF Kept
<1>11. kit'.doc.content <= kit'.content
  BY <1>6, <1>8 DEF IInv, VersionOrder
<1>12. VersionOrder'
  BY <1>2, <1>3, <1>8, <1>11 DEF IInv, VersionOrder
<1> QED
  BY <1>10, <1>12 DEF IInv

\* Core's new file is newer than all the others, and .upload becomes it.
LEMMA KitSaveStep ==
  ASSUME IInv, NEW forced \in BOOLEAN, NEW fails \in BOOLEAN,
         NEW statusFirst \in BOOLEAN, KitSave(forced, fails, statusFirst)
  PROVE  IInv'
<1> DEFINE S      == Head(broker.toKit).sessions
           known  == S \subseteq kit.views
           result == SaveResult(forced, fails)
           doc    == SavedDoc(result)
           m      == [type |-> "saveresult", sessions |-> S, value |-> result]
           answer == <<m>>
           status == IF result = "saved" /\ kit.modified THEN StatusMessages(FALSE)
                     ELSE <<>>
           modified == kit.modified /\ result # "saved"
           type   == IF forced THEN "forcedsave" ELSE "save"
<1>1. RestTyped /\ upload \in File /\ storage \in Nat /\ Sound(broker)
  BY Invariant
<1>2. /\ KitInput(type)
      /\ IF fails THEN known /\ Spend("saveFaults") ELSE UNCHANGED left
      /\ IF known
         THEN /\ kit' = [kit EXCEPT !.doc = doc, !.modified = modified]
              /\ upload' = doc
              /\ KitSends(IF statusFirst THEN status \o answer ELSE answer \o status)
         ELSE UNCHANGED <<kit, upload, fromKit>>
  BY DEF KitSave
<1>3. /\ Kept(broker, broker') /\ S \in SUBSET Session
      /\ broker'.uploading = broker.uploading /\ broker'.http = broker.http
      /\ UNCHANGED <<storage, edits, joined, polled>>
  BY <1>2, KitInputStep DEF KitMessage
<1>4. result \in {"saved", "unmodified", "failed"}
  BY DEF SaveResult
<1>5. /\ kit.doc \in File /\ kit.doc.mtime \in Int /\ kit.doc.content \in Nat
      /\ kit.content \in Nat /\ kit.doc.content <= kit.content
      /\ kit \in Kit /\ fromKit \in Seq(BrokerMessage)
  BY <1>1 DEF RestTyped, Kit, File, MTime, IInv, VersionOrder
<1>6. /\ doc \in File /\ OlderOrSame(kit.doc, doc) /\ doc.content <= kit.content
  <2>1. CASE result = "saved"
    <3>1. doc = [mtime |-> kit.doc.mtime + 1, content |-> kit.content]
      BY <2>1 DEF SavedDoc
    <3> QED
      BY <1>5, <3>1 DEF OlderOrSame, File, MTime
  <2>2. CASE result # "saved"
    <3>1. doc = kit.doc
      BY <2>2 DEF SavedDoc
    <3> QED
      BY <1>5, <3>1 DEF OlderOrSame
  <2> QED
    BY <2>1, <2>2
<1>7. modified \in BOOLEAN
  BY <1>5 DEF Kit
<1>8. status \in Seq(BrokerMessage)
  <2>1. StatusMessages(FALSE) \in Seq(BrokerMessage)
    BY <1>5, StatusType
  <2>2. <<>> \in Seq(BrokerMessage)
    OBVIOUS
  <2> QED
    BY <2>1, <2>2
<1> HIDE DEF S, known, result, doc, status, modified, type
<1>9. m \in BrokerMessage
  BY <1>3, <1>4 DEF BrokerMessage
<1> HIDE DEF m
<1>10. answer \in Seq(BrokerMessage)
  BY <1>9, SingleType
<1> HIDE DEF answer
<1>11. status \o answer \in Seq(BrokerMessage) /\ answer \o status \in Seq(BrokerMessage)
  BY <1>8, <1>10
<1>12. fromKit' \in Seq(BrokerMessage)
  BY <1>2, <1>5, <1>11, SendsType
<1>13. left' \in [Input -> Nat]
  BY <1>1, <1>2, SpendType DEF RestTyped, Input
<1>14. CASE known
  <2>1. /\ kit' = [kit EXCEPT !.doc = doc, !.modified = modified]
        /\ upload' = doc
    BY <1>2, <1>14
  <2>2. kit' \in Kit /\ kit'.doc = doc /\ kit'.content = kit.content
    BY <1>5, <1>6, <1>7, <2>1 DEF Kit
  <2>3. RestTyped'
    BY <1>1, <1>3, <1>12, <1>13, <2>2 DEF RestTyped
  <2>4. TypeOK' /\ SyncWaitsForCheckFileInfo'
    BY <1>1, <1>3, <1>6, <2>1, <2>3, SoundStep DEF Kept
  <2>5. OlderOrSame(broker.uploading, doc)
    <3>1. broker.uploading \in File
      BY <1>1 DEF Sound, Broker
    <3>2. OlderOrSame(broker.uploading, kit.doc)
      BY DEF IInv, VersionOrder
    <3> QED
      BY <1>5, <1>6, <3>1, <3>2 DEF OlderOrSame, File, MTime
  <2>6. OlderOrSame(doc, doc)
    BY DEF OlderOrSame
  <2>7. VersionOrder'
    BY <1>3, <1>6, <2>1, <2>2, <2>5, <2>6 DEF IInv, VersionOrder
  <2> QED
    BY <2>4, <2>7 DEF IInv
<1>15. CASE ~known
  <2>1. UNCHANGED <<kit, upload, fromKit>>
    BY <1>2, <1>15
  <2>2. RestTyped'
    BY <1>1, <1>3, <1>13, <2>1 DEF RestTyped
  <2> QED
    BY <1>3, <2>1, <2>2, QuietStep
<1> QED
  BY <1>14, <1>15

\* The Kit's steps.
LEMMA KitNextStep ==
  ASSUME IInv, KitNext
  PROVE  IInv'
<1>1. ASSUME KitCrash
      PROVE  IInv'
  <2>1. Sound(broker) /\ RestTyped
    BY Invariant
  <2>2. left' \in [Input -> Nat]
    BY <1>1, <2>1, SpendType DEF KitCrash, RestTyped, Input
  <2>3. kit' \in Kit /\ kit'.doc = kit.doc /\ kit'.content = kit.content
    BY <1>1, <2>1 DEF KitCrash, RestTyped, Kit
  <2>4. RestTyped' /\ UNCHANGED <<broker, upload, storage>>
    BY <1>1, <2>1, <2>2, <2>3 DEF KitCrash, RestTyped
  <2>5. Kept(broker, broker')
    BY <2>1, <2>4, KeptSame
  <2> QED
    BY <2>3, <2>4, <2>5, QuietStep
<1>2. ASSUME KitExit
      PROVE  IInv'
  <2>1. Sound(broker) /\ RestTyped
    BY Invariant
  <2>2. kit' \in Kit /\ kit'.doc = kit.doc /\ kit'.content = kit.content
    BY <1>2, <2>1 DEF KitExit, RestTyped, Kit
  <2>3. RestTyped' /\ UNCHANGED <<broker, upload, storage>>
    BY <1>2, <2>1, <2>2 DEF KitExit, RestTyped
  <2>4. Kept(broker, broker')
    BY <2>1, <2>3, KeptSame
  <2> QED
    BY <2>2, <2>3, <2>4, QuietStep
<1> QED
  BY <1>1, <1>2, KitLoadStep, KitEditStep, KitDisconnectStep, KitSaveStep DEF KitNext

-----------------------------------------------------------------------------
(* Events of the Kit. *)

\* The broker takes the next message of the Kit.
LEMMA KitEventType ==
  ASSUME IInv, NEW type, KitEvent(type)
  PROVE  /\ Head(fromKit) \in BrokerMessage
         /\ fromKit' \in Seq(BrokerMessage)
         /\ UNCHANGED <<kit, storage, edits, joined, left>>
<1>1. fromKit \in Seq(BrokerMessage) /\ fromKit # <<>>
  BY Invariant DEF RestTyped, KitEvent
<1>2. Tail(fromKit) \in Seq(BrokerMessage) /\ Head(fromKit) \in BrokerMessage
  BY <1>1
<1> QED
  BY <1>2 DEF KitEvent

\* A handler of the Kit's messages that moves no file.
LEMMA KitEventStep ==
  ASSUME IInv, NEW type, KitEvent(type), NEW b, Kept(broker, b), Handled(b),
         UNCHANGED upload
  PROVE  IInv'
<1>1. /\ fromKit' \in Seq(BrokerMessage)
      /\ UNCHANGED <<kit, storage, edits, joined, left>>
  BY KitEventType
<1>2. RestTyped
  BY Invariant
<1> QED
  BY <1>1, <1>2, HandledStep DEF RestTyped

\* The first session is loaded.
LEMMA LoadedStep ==
  ASSUME IInv, Loaded
  PROVE  IInv'
<1> DEFINE ready == {s \in Head(fromKit).sessions : broker.sess[s] = "LOADING"}
           S     == [s \in Session |-> IF s \in ready THEN "LIVE" ELSE broker.sess[s]]
           l     == broker.loaded \/ (ready # {} /\ Head(fromKit).value = "true")
           b     == [broker EXCEPT !.sess = S, !.loaded = l]
<1>1. Sound(broker)
  BY Invariant
<1>2. KitEvent("loaded") /\ Handled(b) /\ UNCHANGED upload
  BY DEF Loaded
<1>3. S \in [Session -> SessionState] /\ l \in BOOLEAN
  BY <1>1 DEF Sound, Broker, SessionState
<1> HIDE DEF S, l
<1>4. b \in Broker /\ Same(broker, b)
  BY <1>1, <1>3 DEF Sound, Broker, Same
<1> HIDE DEF b
<1> QED
  BY <1>1, <1>2, <1>4, SameKept, KitEventStep

\* The Kit reports that the document is, or is no longer, modified.
LEMMA SetModifiedStep ==
  ASSUME IInv, SetModified
  PROVE  IInv'
<1> DEFINE v == IF Head(fromKit).sessions \cap Present(broker) # {}
                THEN Head(fromKit).value = "true" ELSE broker.isModified
           b == [broker EXCEPT !.isModified = v]
<1>1. Sound(broker)
  BY Invariant
<1>2. KitEvent("ModifiedStatus") /\ Handled(b) /\ UNCHANGED upload
  BY DEF SetModified
<1>3. v \in BOOLEAN
  BY <1>1 DEF Sound, Broker
<1> HIDE DEF v
<1>4. b \in Broker /\ Same(broker, b)
  BY <1>1, <1>3 DEF Sound, Broker, Same
<1> HIDE DEF b
<1> QED
  BY <1>1, <1>2, <1>4, SameKept, KitEventStep

\* The Kit has finished the handshake of sessions that leave.
LEMMA DisconnectedStep ==
  ASSUME IInv, Disconnected
  PROVE  IInv'
<1> DEFINE D == Head(fromKit).sessions
           S == [s \in Session |-> IF s \in D THEN "absent" ELSE broker.sess[s]]
           f == broker.closeFrame \ D
           e == broker.expired \ D
           b == [broker EXCEPT !.sess = S, !.closeFrame = f, !.expired = e]
<1>1. Sound(broker)
  BY Invariant
<1>2. KitEvent("disconnected") /\ Handled(b) /\ UNCHANGED upload
  BY DEF Disconnected
<1>3. S \in [Session -> SessionState] /\ f \in SUBSET Session /\ e \in SUBSET Session
  BY <1>1 DEF Sound, Broker, SessionState
<1> HIDE DEF S, f, e
<1>4. b \in Broker /\ Same(broker, b)
  BY <1>1, <1>3 DEF Sound, Broker, Same
<1> HIDE DEF b
<1> QED
  BY <1>1, <1>2, <1>4, SameKept, KitEventStep

\* The Kit's socket closes.
LEMMA KitGoneStep ==
  ASSUME IInv, KitGone
  PROVE  IInv'
<1> DEFINE c == DisconnectedFromKit(broker)
           b == [c EXCEPT !.toKit = <<>>]
<1>1. Sound(broker) /\ RestTyped
  BY Invariant
<1>2. Handled(b) /\ UNCHANGED <<kit, upload, fromKit, storage, edits, joined, left>>
  BY DEF KitGone
<1>3. Kept(broker, c) /\ Sound(c)
  BY <1>1, DisconnectedFromKitKept DEF Kept
<1> HIDE DEF c
<1>4. b \in Broker /\ Same(c, b)
  <2>1. <<>> \in Seq(KitMessage)
    OBVIOUS
  <2> QED
    BY <1>3, <2>1 DEF Sound, Broker, Same
<1> HIDE DEF b
<1>5. Kept(broker, b)
  BY <1>3, <1>4, SameKept, KeptTwice
<1> QED
  BY <1>1, <1>2, <1>5, HandledStep DEF RestTyped

\* The rename of .upload puts the newer version into .uploading, and keeps
\* the body of the upload in flight.
LEMMA RenameInOrder ==
  ASSUME IInv
  PROVE  InOrder(RenameToUploading(broker, upload), NoFile, kit, storage)
<1> DEFINE c == RenameToUploading(broker, upload)
<1>1. Sound(broker) /\ RestTyped /\ upload \in File /\ storage \in Nat
  BY Invariant
<1>2. c.http = broker.http /\ c.uploading = IF Exists(upload) THEN upload ELSE broker.uploading
  BY <1>1 DEF RenameToUploading, Sound, Broker
<1> SUFFICES InOrder(c, NoFile, kit, storage)
  OBVIOUS
<1> HIDE DEF c
<1>3. InOrder(broker, upload, kit, storage)
  BY DEF IInv, VersionOrder, InOrder
<1>4. ~Exists(NoFile)
  BY DEF Exists, NoFile
<1>5. CASE ~Exists(upload)
  BY <1>2, <1>3, <1>4, <1>5 DEF InOrder
<1>6. CASE Exists(upload)
  <2>1. broker.uploading \in File /\ broker.http.file \in File
    BY <1>1 DEF Sound, Broker, HttpSession
  <2>2. c.uploading = upload
    BY <1>2, <1>6
  <2>3. OlderOrSame(broker.uploading, upload) /\ OlderOrSame(upload, kit.doc)
    BY <1>3, <1>6 DEF InOrder
  <2>4. storage <= upload.content
    BY <1>1, <1>3, <2>1, <2>3 DEF InOrder, OlderOrSame, File
  <2>5. OlderOrSame(broker.http.file, broker.uploading)
          => OlderOrSame(broker.http.file, upload)
    BY <1>1, <2>1, <2>3 DEF OlderOrSame, File, MTime
  <2> QED
    BY <1>2, <1>3, <1>4, <2>2, <2>3, <2>4, <2>5 DEF InOrder
<1> QED
  BY <1>5, <1>6

\* A save has ended: its file is renamed and, if need be, uploaded.
LEMMA SaveResponseStep ==
  ASSUME IInv, NEW canUpload \in BOOLEAN, SaveResponse(canUpload)
  PROVE  IInv'
<1>1. Sound(broker) /\ RestTyped /\ upload \in File /\ storage \in Nat
  BY Invariant
<1>2. KitEvent("saveresult")
  BY DEF SaveResponse
<1>3. /\ Head(fromKit).sessions \in SUBSET Session
      /\ fromKit' \in Seq(BrokerMessage)
      /\ UNCHANGED <<kit, storage, edits, joined, left>>
  BY <1>2, KitEventType DEF BrokerMessage
<1>4. PICK s \in Head(fromKit).sessions :
        IF s \in Present(broker)
        THEN /\ Handled(HandleSaveResponse(broker, s, Head(fromKit).value,
                                           upload, canUpload))
             /\ upload' = NoFile
        ELSE Handled(broker) /\ UNCHANGED upload
  BY DEF SaveResponse
<1>5. CASE s \in Present(broker)
  <2> DEFINE r == RenameToUploading(broker, upload)
             b == HandleSaveResponse(broker, s, Head(fromKit).value, upload, canUpload)
  <2>1. broker' = b /\ polled' \in BOOLEAN /\ upload' = NoFile
    BY <1>4, <1>5, SystemConstants DEF Handled
  <2>2. Kept(r, b)
    BY <1>1, <1>3, HandleSaveResponseKept
  <2>3. InOrder(r, NoFile, kit, storage)
    BY RenameInOrder
  <2> HIDE DEF r, b
  <2>4. InOrder(b, NoFile, kit, storage)
    BY <2>2, <2>3, FrameInOrder DEF Kept
  <2>5. VersionOrder'
    BY <1>3, <2>1, <2>4 DEF InOrder, VersionOrder
  <2>6. upload' \in File
    BY <2>1 DEF NoFile, File, MTime
  <2>7. RestTyped'
    BY <1>1, <1>3, <2>1 DEF RestTyped
  <2>8. TypeOK' /\ SyncWaitsForCheckFileInfo'
    BY <1>1, <1>3, <2>1, <2>2, <2>6, <2>7, SoundStep DEF Kept
  <2> QED
    BY <2>5, <2>8 DEF IInv
<1>6. CASE s \notin Present(broker)
  BY <1>1, <1>2, <1>4, <1>6, KeptSame, KitEventStep
<1> QED
  BY <1>5, <1>6

\* The broker's handlers of the Kit's messages.
LEMMA KitEventNextStep ==
  ASSUME IInv, KitEventNext
  PROVE  IInv'
BY LoadedStep, SetModifiedStep, DisconnectedStep, KitGoneStep, SaveResponseStep
DEF KitEventNext

-----------------------------------------------------------------------------
(* The host. *)

\* The Storage gets the body of the PUT, which is no older than what it has,
\* and no newer than .uploading.
LEMMA HostStoresStep ==
  ASSUME IInv, HostStores
  PROVE  IInv' /\ storage <= storage'
<1> DEFINE h == [broker.http EXCEPT !.applied = TRUE]
<1>1. Sound(broker) /\ RestTyped /\ upload \in File /\ storage \in Nat
  BY Invariant
<1>2. broker.http \in HttpSession /\ broker.uploading \in File
  BY <1>1 DEF Sound, Broker
<1>3. h \in HttpSession /\ h.kind = broker.http.kind /\ h.file = broker.http.file
      /\ h.kind = "put" /\ h.file \in File
  BY <1>2 DEF HttpSession, HostStores
<1>4. broker' = [broker EXCEPT !.http = h]
  BY DEF HostStores
<1>5. /\ storage' = broker.http.file.content
      /\ UNCHANGED <<kit, upload, fromKit, edits, joined, polled, left>>
  BY DEF HostStores
<1> HIDE DEF h
<1>6. /\ broker' \in Broker /\ broker'.http = h
      /\ broker'.uploading = broker.uploading /\ broker'.activity = broker.activity
      /\ broker'.request = broker.request
      /\ broker'.checkFileInfo = broker.checkFileInfo
  BY <1>1, <1>3, <1>4 DEF Sound, Broker
<1>7. Sound(broker')
  BY <1>1, <1>3, <1>6 DEF Sound, SyncOrderly, IsAsyncUploading
<1>8. RestTyped'
  BY <1>1, <1>5 DEF RestTyped
<1>9. upload' \in File /\ storage' \in Nat
  BY <1>1, <1>3, <1>5 DEF File
<1>10. TypeOK' /\ SyncWaitsForCheckFileInfo'
  BY <1>7, <1>8, <1>9, SoundStep
<1>11. /\ storage <= broker.http.file.content
       /\ OlderOrSame(broker.http.file, broker.uploading)
  BY <1>3 DEF IInv, VersionOrder
<1>12. storage <= storage'
  BY <1>5, <1>11
<1>13. storage' <= broker.uploading.content /\ storage' <= broker.http.file.content
  BY <1>2, <1>3, <1>5, <1>11 DEF OlderOrSame, File
<1>14. VersionOrder'
  BY <1>3, <1>5, <1>6, <1>11, <1>13 DEF IInv, VersionOrder
<1> QED
  BY <1>10, <1>12, <1>14 DEF IInv

\* The host answers a PUT.
LEMMA UploadAnswerStep ==
  ASSUME IInv, NEW result \in UploadFaults \cup {"OK"}, UploadAnswer(result)
  PROVE  IInv'
<1>1. Sound(broker) /\ RestTyped
  BY Invariant
<1>2. result \in UploadResults \cup {"OK"}
  BY SystemConstants
<1>3. Kept(broker, HandleUploadToStorageResponse(broker, result))
  BY <1>1, <1>2, HandleUploadToStorageResponseKept DEF UploadAnswer
<1>4. left' \in [Input -> Nat]
  BY <1>1, SpendType DEF UploadAnswer, RestTyped, Input
<1> QED
  BY <1>1, <1>3, <1>4, HandledStep DEF UploadAnswer, RestTyped

\* The host answers checkFileInfo, which ends the activity.
LEMMA CheckFileInfoAnswerStep ==
  ASSUME IInv, NEW state \in {"Pass", "Unauthorized", "Fail"},
         NEW sameSize \in BOOLEAN, CheckFileInfoAnswer(state, sameSize)
  PROVE  IInv'
<1> DEFINE done == [broker EXCEPT !.activity = "None", !.checkFileInfo = "done"]
           e    == done.expired \cup ({broker.cfiSession} \cap Present(broker))
           x    == [done EXCEPT !.expired = e]
           b    == CASE state = "Pass" /\ sameSize -> done
                     [] state = "Pass" /\ ~sameSize -> HandleDocumentConflict(done)
                     [] state = "Unauthorized" -> x
                     [] OTHER -> done
<1>1. Sound(broker) /\ RestTyped
  BY Invariant
<1>2. Handled(b) /\ UNCHANGED <<kit, upload, fromKit, storage, edits, joined>>
  BY DEF CheckFileInfoAnswer
<1>3. left' \in [Input -> Nat]
  BY <1>1, SpendType DEF CheckFileInfoAnswer, RestTyped, Input
<1>4. /\ done \in Broker /\ done.activity = "None" /\ done.checkFileInfo = "done"
      /\ done.http = broker.http /\ done.uploading = broker.uploading
  BY <1>1 DEF Sound, Broker, Activity
<1> HIDE DEF done
<1>5. Kept(broker, done) /\ Sound(done)
  BY <1>4 DEF Kept, FileFrame, Sound, SyncOrderly
<1>6. Kept(broker, HandleDocumentConflict(done))
  BY <1>5, HandleDocumentConflictKept, KeptTwice
<1>7. e \in SUBSET Session
  BY <1>4 DEF Broker, Present
<1> HIDE DEF e
<1>8. x \in Broker /\ Same(done, x)
  BY <1>4, <1>7 DEF Broker, Same
<1>9. Kept(broker, x)
  BY <1>5, <1>8, SameKept, KeptTwice
<1> HIDE DEF x
<1>10. Kept(broker, b)
  BY <1>5, <1>6, <1>9
<1> HIDE DEF b
<1> QED
  BY <1>1, <1>2, <1>3, <1>10, HandledStep DEF RestTyped

-----------------------------------------------------------------------------
(* The housekeeping. *)

\* A housekeeping step that runs one method.
LEMMA PollStep ==
  ASSUME IInv, NEW activity, Polling(activity), Kept(broker, broker'),
         left' \in [Input -> Nat]
  PROVE  IInv'
<1>1. RestTyped
  BY Invariant
<1>2. RestTyped'
  BY <1>1 DEF Polling, RestTyped
<1> QED
  BY <1>2, QuietStep DEF Polling

\* In Activity::None the request of checkFileInfo is reset, which is sound.
LEMMA PollNoneSteps ==
  ASSUME IInv, NEW modifiedStale \in BOOLEAN, NEW canSave \in BOOLEAN,
         NEW canUpload \in BOOLEAN,
         \/ PollNone(modifiedStale, canSave, canUpload)
         \/ PollIdleTimeout(modifiedStale, canSave, canUpload)
         \/ PollRename
         \/ PollAutoSave
  PROVE  IInv'
<1> DEFINE r == Reset(broker)
<1>1. Sound(broker) /\ RestTyped
  BY Invariant
<1>2. Polling("None") /\ broker.activity = "None"
  BY DEF PollNone, PollIdleTimeout, PollRename, PollAutoSave, Polling
<1>3. Kept(broker, r) /\ Sound(r) /\ r.activity = "None"
  BY <1>1, <1>2, ResetKept DEF Kept
<1>4. left' \in [Input -> Nat]
  <2>1. UNCHANGED left \/ Spend("idles")
    BY DEF PollNone, PollIdleTimeout, PollRename, PollAutoSave
  <2> QED
    BY <1>1, <2>1, SpendType DEF RestTyped, Input
<1>5. \/ broker' = PollIdle(r, modifiedStale, canSave, canUpload)
      \/ broker' = AutoSaveAndStop(r, modifiedStale, canSave, canUpload)
      \/ broker' = StartRenameFileCommand(r)
      \/ broker' = AutoSave(r, FALSE)
  BY DEF PollNone, PollIdleTimeout, PollRename, PollAutoSave
<1> HIDE DEF r
<1>6. /\ Kept(r, PollIdle(r, modifiedStale, canSave, canUpload))
      /\ Kept(r, AutoSaveAndStop(r, modifiedStale, canSave, canUpload))
      /\ Kept(r, StartRenameFileCommand(r))
      /\ Kept(r, AutoSave(r, FALSE))
  BY <1>3, PollIdleKept, AutoSaveAndStopKept, StartRenameFileCommandKept, AutoSaveKept
<1>7. Kept(r, broker')
  BY <1>5, <1>6, Zenon
<1>8. Kept(broker, broker')
  BY <1>3, <1>7, KeptTwice
<1> QED
  BY <1>2, <1>4, <1>8, PollStep

\* The timeout of a save ends an activity that is not checkFileInfo's.
LEMMA PollSaveStep ==
  ASSUME IInv, PollSave
  PROVE  IInv'
<1> DEFINE c == SetLastSaveResult(broker, FALSE, FALSE)
<1>1. Sound(broker) /\ RestTyped
  BY Invariant
<1>2. Polling("Save") /\ broker.activity = "Save" /\ broker' = EndActivity(c)
  BY DEF PollSave, Polling, SaveNeverCame
<1>3. Kept(broker, c) /\ Same(broker, c)
  BY <1>1, SetLastSaveResultKept
<1> HIDE DEF c
<1>4. c.checkFileInfo # "running" /\ Sound(c)
  BY <1>1, <1>2, <1>3 DEF Same, Kept, Sound, SyncOrderly
<1>5. Kept(broker, broker')
  BY <1>2, <1>3, <1>4, EndActivityKept, KeptTwice
<1>6. left' \in [Input -> Nat]
  BY <1>1, SpendType DEF PollSave, RestTyped, Input
<1> QED
  BY <1>2, <1>5, <1>6, PollStep

\* checkFileInfo starts, or ends its activity when nobody can send it.
LEMMA PollSyncFileTimestampStep ==
  ASSUME IInv, PollSyncFileTimestamp
  PROVE  IInv'
<1> DEFINE s == FirstAuthorizedSession(broker)
           c == [broker EXCEPT !.checkFileInfo = "running", !.cfiSession = s]
<1>1. Sound(broker) /\ RestTyped
  BY Invariant
<1>2. /\ Polling("SyncFileTimestamp") /\ broker.activity = "SyncFileTimestamp"
      /\ broker.checkFileInfo = "none" /\ UNCHANGED left
      /\ broker' = IF s = NoSession THEN EndActivity(broker) ELSE c
  BY DEF PollSyncFileTimestamp, Polling
<1>3. s \in SessionOrNone
  BY FirstAuthorizedSessionType
<1> HIDE DEF s
<1>4. /\ c \in Broker /\ c.activity = broker.activity /\ c.http = broker.http
      /\ c.uploading = broker.uploading /\ c.request = broker.request
  BY <1>1, <1>3 DEF Sound, Broker
<1> HIDE DEF c
<1>5. Kept(broker, c)
  BY <1>1, <1>2, <1>4 DEF Kept, FileFrame, Sound, SyncOrderly, IsAsyncUploading
<1>6. Kept(broker, EndActivity(broker))
  BY <1>1, <1>2, EndActivityKept
<1>7. Kept(broker, broker') /\ left' \in [Input -> Nat]
  BY <1>1, <1>2, <1>5, <1>6 DEF RestTyped
<1> QED
  BY <1>2, <1>7, PollStep

\* The housekeeping's steps.
LEMMA PollNextStep ==
  ASSUME IInv, PollNext
  PROVE  IInv'
<1>1. Sound(broker) /\ RestTyped
  BY Invariant
<1>2. ASSUME PollOther
      PROVE  IInv'
  BY <1>1, <1>2, KeptSame, PollStep DEF PollOther, RestTyped
<1>3. ASSUME PollLoadTimeout
      PROVE  IInv'
  <2>1. left' \in [Input -> Nat]
    BY <1>1, <1>3, SpendType DEF PollLoadTimeout, RestTyped, Input
  <2>2. kit' \in Kit /\ kit'.doc = kit.doc /\ kit'.content = kit.content
    BY <1>1, <1>3 DEF PollLoadTimeout, RestTyped, Kit
  <2>3. RestTyped' /\ UNCHANGED <<upload, storage>>
    BY <1>1, <1>3, <2>1, <2>2 DEF PollLoadTimeout, RestTyped
  <2>4. Kept(broker, broker')
    BY <1>1, <1>3, StopKept DEF PollLoadTimeout
  <2> QED
    BY <2>2, <2>3, <2>4, QuietStep
<1>4. ASSUME NEW s \in Session, PollStaleDisconnect(s)
      PROVE  IInv'
  <2>1. left' \in [Input -> Nat]
    BY <1>1, <1>4, SpendType DEF PollStaleDisconnect, RestTyped, Input
  <2> QED
    BY <1>1, <1>4, <2>1, FinalRemoveSessionKept, PollStep DEF PollStaleDisconnect
<1> QED
  BY <1>2, <1>3, <1>4, PollNoneSteps, PollSaveStep, PollSyncFileTimestampStep
  DEF PollNext

-----------------------------------------------------------------------------
(* The theorems. *)

\* The document that was just opened satisfies the invariant.
LEMMA InitIInv == Init => IInv
<1> SUFFICES ASSUME Init PROVE IInv
  OBVIOUS
<1> DEFINE m == [type |-> "load", sessions |-> {1}]
           S == [s \in Session |-> IF s = 1 THEN "LOADING" ELSE "absent"]
<1>1. 1 \in Session /\ NoSession \in SessionOrNone
  BY BrokerConstants, SessionTypes DEF Session
<1>2. m \in KitMessage /\ S \in [Session -> SessionState]
  BY <1>1 DEF KitMessage, SessionState
<1>3. <<m>> \in Seq(KitMessage)
  BY <1>2
<1>4. {1} \cap Editors \in SUBSET Session /\ {} \in SUBSET Session
  BY <1>1
<1>5. -1 \in MTime /\ 0 \in MTime /\ 0 \in 0..LimStoreFailures
  BY BrokerConstants DEF MTime
<1>6. /\ NoFile \in File /\ NoRequest \in UploadRequest
      /\ NoHttpSession \in HttpSession /\ NoHttpSession.kind = "none"
  BY <1>1, <1>5 DEF NoFile, File, NoRequest, UploadRequest, UploadKind,
                    NoHttpSession, HttpSession
<1>7. InitBroker \in Broker
  BY <1>1, <1>2, <1>3, <1>4, <1>5, <1>6 DEF InitBroker, Broker, Activity, KitDisconnected
<1>8. broker \in Broker
  BY <1>7 DEF Init
<1>9. kit \in Kit
  BY <1>4, <1>5 DEF Init, Kit, File
<1>10. TypeOK
  <2>1. fromKit \in Seq(BrokerMessage) /\ upload \in File /\ joined \in Session
    BY <1>1, <1>6 DEF Init
  <2>2. storage \in Nat /\ edits \in Nat /\ polled \in BOOLEAN /\ left \in [Input -> Nat]
    BY SystemConstants DEF Init
  <2> QED
    BY <1>8, <1>9, <2>1, <2>2 DEF TypeOK
<1>11. /\ broker.http = NoHttpSession /\ broker.uploading = NoFile
       /\ broker.activity = "None" /\ broker.checkFileInfo = "none"
  BY DEF Init, InitBroker
<1>12. SyncWaitsForCheckFileInfo
  BY <1>11 DEF SyncWaitsForCheckFileInfo, SyncOrderly
<1>13. VersionOrder
  <2>1. upload = NoFile /\ storage = 0 /\ kit.content = 0
        /\ kit.doc.mtime = 0 /\ kit.doc.content = 0
    BY DEF Init
  <2>2. NoFile.mtime = -1 /\ NoFile.content = 0
    BY DEF NoFile
  <2> QED
    BY <1>6, <1>11, <2>1, <2>2 DEF VersionOrder, OlderOrSame, Exists
<1> QED
  BY <1>10, <1>12, <1>13 DEF IInv

\* The poll thread ends.
LEMMA EndStep ==
  ASSUME IInv, StopPolling \/ Terminate \/ Finished \/ UNCHANGED vars
  PROVE  IInv'
<1>1. Sound(broker) /\ RestTyped
  BY Invariant
<1>2. ASSUME NEW phase \in {"polling", "flushing", "done"}, NEW loss \in BOOLEAN,
             NEW q \in Seq(KitMessage)
      PROVE  Kept(broker, [broker EXCEPT !.phase = phase, !.dataLoss = loss, !.toKit = q])
  <2> DEFINE c == [broker EXCEPT !.phase = phase, !.dataLoss = loss, !.toKit = q]
  <2>1. c \in Broker /\ Same(broker, c)
    BY <1>1 DEF Sound, Broker, Same
  <2> QED
    BY <1>1, <2>1, SameKept
<1>3. CASE StopPolling
  <2>1. DetectsDataLoss(broker) \in BOOLEAN
    BY DEF DetectsDataLoss
  <2> DEFINE m == [type |-> "exit", sessions |-> {}]
             q == IF Present(broker) = {} THEN Append(broker.toKit, m) ELSE broker.toKit
  <2>2. broker' = [broker EXCEPT !.phase = "flushing",
                                 !.dataLoss = DetectsDataLoss(broker), !.toKit = q]
    BY <1>3 DEF StopPolling
  <2>3. m \in KitMessage
    BY DEF KitMessage
  <2>4. q \in Seq(KitMessage)
    BY <1>1, <2>3, QueueType DEF Sound, Broker
  <2> HIDE DEF q
  <2>5. Kept(broker, broker')
    BY <1>2, <2>1, <2>2, <2>4
  <2> QED
    BY <1>1, <1>3, <2>5, QuietStep DEF StopPolling, RestTyped
<1>4. CASE Terminate
  <2>1. broker' = [broker EXCEPT !.phase = "done", !.dataLoss = broker.dataLoss,
                                 !.toKit = broker.toKit]
    BY <1>1, <1>4 DEF Terminate, Sound, Broker
  <2>2. broker.dataLoss \in BOOLEAN /\ broker.toKit \in Seq(KitMessage)
    BY <1>1 DEF Sound, Broker
  <2>3. Kept(broker, broker')
    BY <1>2, <2>1, <2>2
  <2> QED
    BY <1>1, <1>4, <2>3, QuietStep DEF Terminate, RestTyped
<1>5. CASE UNCHANGED vars
  BY <1>1, <1>5, KeptSame, QuietStep DEF vars, RestTyped
<1> QED
  BY <1>3, <1>4, <1>5 DEF Finished

\* Every step keeps the invariant, and only HostStores changes the Storage.
LEMMA NextIInv ==
  ASSUME IInv, [Next]_vars
  PROVE  IInv' /\ storage <= storage'
<1>1. storage \in Nat
  BY Invariant
<1>2. CASE ClientNext
  <2>1. UNCHANGED storage
    BY <1>2 DEF ClientNext, Join, Edit, Save, SaveToStorage, SaveAs, RenameFile,
                Disconnect, CloseRequest, ReloadRequest
  <2> QED
    BY <1>1, <1>2, <2>1, ClientNextStep
<1>3. CASE KitNext
  <2>1. UNCHANGED storage
    BY <1>3 DEF KitNext, KitLoad, KitEdit, KitSave, KitDisconnect, KitCrash, KitExit,
                KitInput
  <2> QED
    BY <1>1, <1>3, <2>1, KitNextStep
<1>4. CASE KitEventNext
  <2>1. UNCHANGED storage
    BY <1>4 DEF KitEventNext, Loaded, SetModified, SaveResponse, Disconnected,
                KitGone, KitEvent
  <2> QED
    BY <1>1, <1>4, <2>1, KitEventNextStep
<1>5. CASE HostNext
  <2>1. ASSUME NEW result \in UploadFaults \cup {"OK"}, UploadAnswer(result)
        PROVE  IInv' /\ storage <= storage'
    BY <1>1, <2>1, UploadAnswerStep DEF UploadAnswer
  <2>2. ASSUME NEW state \in {"Pass", "Unauthorized", "Fail"},
               NEW sameSize \in BOOLEAN, CheckFileInfoAnswer(state, sameSize)
        PROVE  IInv' /\ storage <= storage'
    BY <1>1, <2>2, CheckFileInfoAnswerStep DEF CheckFileInfoAnswer
  <2> QED
    BY <1>5, <2>1, <2>2, HostStoresStep DEF HostNext
<1>6. CASE PollNext
  <2>1. UNCHANGED storage
    BY <1>6 DEF PollNext, PollNone, PollRename, PollIdleTimeout, PollAutoSave, PollSave,
                PollSyncFileTimestamp, PollOther, PollLoadTimeout,
                PollStaleDisconnect, Polling
  <2> QED
    BY <1>1, <1>6, <2>1, PollNextStep
<1>7. CASE StopPolling \/ Terminate \/ Finished \/ UNCHANGED vars
  <2>1. UNCHANGED storage
    BY <1>7 DEF StopPolling, Terminate, Finished, vars
  <2> QED
    BY <1>1, <1>7, <2>1, EndStep
<1> QED
  BY <1>2, <1>3, <1>4, <1>5, <1>6, <1>7 DEF Next

\* The invariant holds throughout.
LEMMA AlwaysIInv == Spec => []IInv
<1>1. Init => IInv
  BY InitIInv
<1>2. IInv /\ [Next]_vars => IInv'
  BY NextIInv
<1> QED
  BY <1>1, <1>2, PTL DEF Spec

\* The members of the broker, the messages between it and its Kit and the
\* counters keep their types, the counts of failures their limit included,
\* whatever the number of sessions and however often the inputs and the
\* failures come.
THEOREM TypeCorrect == Spec => []TypeOK
<1>1. IInv => TypeOK
  BY DEF IInv
<1> QED
  BY <1>1, AlwaysIInv, PTL

\* No handler that runs while checkFileInfo is on its way ends the activity
\* that its continuation asserts.
THEOREM SyncOrder == Spec => []SyncWaitsForCheckFileInfo
<1>1. IInv => SyncWaitsForCheckFileInfo
  BY DEF IInv
<1> QED
  BY <1>1, AlwaysIInv, PTL

\* Core's file, .upload, .uploading, the body of the PUT and the Storage
\* hold versions in this order, never a newer one after an older.
THEOREM VersionsInOrder == Spec => []VersionOrder
<1>1. IInv => VersionOrder
  BY DEF IInv
<1> QED
  BY <1>1, AlwaysIInv, PTL

\* No upload, retry or late answer puts an older version into the Storage.
THEOREM NoStorageRollback == Spec => StorageNeverGoesBack
<1>1. IInv /\ [Next]_vars => [storage' >= storage]_vars
  <2> SUFFICES ASSUME IInv, [Next]_vars PROVE storage' >= storage
    OBVIOUS
  <2>1. IInv' /\ storage <= storage'
    BY NextIInv
  <2>2. storage \in Nat /\ storage' \in Nat
    BY <2>1 DEF IInv, TypeOK
  <2> QED
    BY <2>1, <2>2
<1> QED
  BY <1>1, AlwaysIInv, PTL DEF Spec, StorageNeverGoesBack
=============================================================================

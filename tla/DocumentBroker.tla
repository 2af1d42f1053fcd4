--------------------------- MODULE DocumentBroker ---------------------------
(***************************************************************************)
(* A document open in Collabora Online: its DocumentBroker, the browser    *)
(* clients that edit it, the Kit process that holds it in Core, and the    *)
(* WOPI host that stores it.                                               *)
(*                                                                         *)
(* The broker's poll thread handles one event of a client, of the Kit or   *)
(* of the host at a time, and does its housekeeping (Poll) whenever        *)
(* SocketPoll::poll returns.  One call of poll may handle several events:  *)
(* with Batched = FALSE the housekeeping follows every event.              *)
(*                                                                         *)
(* left bounds how often the clients act and the environment fails; the    *)
(* broker, the Kit and the host are never bounded by it.                   *)
(***************************************************************************)
EXTENDS BrokerMethods

CONSTANTS
    Batched,       \* poll may handle several events before the housekeeping
    UploadFaults,  \* the upload results, other than OK, that may be seen
    Budget         \* how often each input or fault may happen

UploadResults ==
    {"CONNECT_FAILED", "FAILED", "TOO_LARGE", "UNAUTHORIZED", "CONFLICT"}
Input ==
    {"joins", "leaves", "edits", "saves", "forced", "saveAs", "renames",
     "closes", "idles", "saveFaults", "uploadFaults",
     "infoFaults", "crashes", "timeouts"}

ASSUME SystemConstants ==
    /\ Batched \in BOOLEAN
    /\ UploadFaults \subseteq UploadResults
    /\ Budget \in [Input -> Nat]

VARIABLES
    broker,   \* the members of the DocumentBroker
    kit,      \* the Kit: its views, Core's document, the file Core saved
    upload,   \* the .upload file, copied by the Kit and renamed by the broker
    fromKit,  \* what the Kit has sent to the broker
    storage,  \* the content in the host's file
    edits,    \* how many edits the broker has passed on to the Kit
    joined,   \* how many sessions have connected
    polled,   \* no event was handled since the last housekeeping
    left

vars == <<broker, kit, upload, fromKit, storage, edits, joined, polled, left>>

Kit == [up : BOOLEAN, views : SUBSET Session, content : Nat,
        modified : BOOLEAN, doc : File]

BrokerMessage ==
    [type : {"loaded", "ModifiedStatus", "saveresult", "disconnected"},
     sessions : SUBSET Session,
     value : {"", "true", "false", "saved", "unmodified", "failed"}]

\* The state in which a document's first session was just added.
InitBroker ==
    [ sess             |-> [s \in Session |-> IF s = 1 THEN "LOADING" ELSE "absent"],
      closeFrame       |-> {},
      editable         |-> {1} \cap Editors,
      expired          |-> {},
      lastEditing      |-> NoSession,
      activity         |-> "None",
      loaded           |-> FALSE,
      closeRequested   |-> FALSE,
      unloadRequested  |-> FALSE,
      destroying       |-> FALSE,
      kitDisconnected  |-> "No",
      stop             |-> FALSE,
      changedInStorage |-> FALSE,
      isModified       |-> FALSE,
      modifyActivity   |-> FALSE,
      saving           |-> FALSE,
      saveFailures     |-> 0,
      versioned        |-> FALSE,
      uploadActive     |-> FALSE,
      uploadFailures   |-> 0,
      uploadedTime     |-> 0,
      request          |-> NoRequest,
      http             |-> NoHttpSession,
      uploading        |-> NoFile,
      sizeAsUploaded   |-> -1,
      renameSession    |-> NoSession,
      checkFileInfo    |-> "none",
      cfiSession       |-> NoSession,
      toKit            |-> <<[type |-> "load", sessions |-> {1}]>>,
      phase            |-> "polling",
      dataLoss         |-> FALSE ]

Init ==
    /\ broker = InitBroker
    /\ kit = [up |-> TRUE, views |-> {}, content |-> 0, modified |-> FALSE,
              doc |-> [mtime |-> 0, content |-> 0]]
    /\ upload = NoFile
    /\ fromKit = <<>>
    /\ storage = 0
    /\ edits = 0
    /\ joined = 1
    /\ polled = TRUE
    /\ left = Budget

Spend(input) ==
    /\ left[input] > 0
    /\ left' = [left EXCEPT ![input] = @ - 1]

\* The poll thread is in SocketPoll::poll and may handle an event.
Handling == broker.phase # "done" /\ polled
Handled(b) == broker' = b /\ polled' = Batched

-----------------------------------------------------------------------------
(* Events of the clients. *)

\* Mutant: a document that is about to be unloaded is not kept for a client.
StillUnloading(b) == b

KeepForNewSession(b) == [b EXCEPT !.unloadRequested = FALSE]

\* createNewClientSession, then addSession, which downloads nothing for the
\* sessions after the first but calls the host, and may fail.
Join(added) ==
    LET b == KeepForNewSession(broker)
        s == joined + 1
    IN  /\ Handling /\ Spend("joins")
        /\ s \in Session
        /\ ~IsMarkedToDestroy(broker) /\ ~broker.closeRequested
        /\ joined' = s
        /\ Handled(IF added
                   THEN [b EXCEPT !.sess[s] = "LOADING",
                                  !.editable = @ \cup ({s} \cap Editors),
                                  !.toKit = Append(@, [type |-> "load", sessions |-> {s}])]
                   ELSE [b EXCEPT !.destroying = @ \/ Present(b) = {}])
        /\ UNCHANGED <<kit, upload, fromKit, storage, edits>>

\* textinput, mouse and key messages are dropped while unloading; a uno
\* command is not.
Edit(s, command) ==
    LET active == [broker EXCEPT !.lastEditing = s, !.modifyActivity = TRUE]
        passed == command \/ ~IsUnloading(broker)
    IN  /\ Handling /\ Spend("edits")
        /\ ~broker.stop
        /\ IsLive(broker, s) /\ IsEditable(broker, s)
        /\ Handled(IF passed
                   THEN [active EXCEPT !.toKit = Append(@, [type |-> "edit", sessions |-> {s}])]
                   ELSE active)
        /\ edits' = IF passed THEN edits + 1 ELSE edits
        /\ UNCHANGED <<kit, upload, fromKit, storage, joined>>

Save(s, force) ==
    /\ Handling /\ Spend("saves")
    /\ IsLive(broker, s) /\ IsEditable(broker, s)
    /\ Handled(ManualSave(broker, s, force))
    /\ UNCHANGED <<kit, upload, fromKit, storage, edits, joined>>

SaveToStorage(s, force, canUpload) ==
    /\ Handling /\ Spend("forced")
    /\ IsLive(broker, s)
    /\ Handled(UploadToStorage(broker, s, force, canUpload))
    /\ UNCHANGED <<kit, upload, fromKit, storage, edits, joined>>

\* The Kit has exported the document for s, and the export is uploaded.
SaveAs(s) ==
    /\ Handling /\ Spend("saveAs")
    /\ IsLive(broker, s) /\ broker.loaded
    /\ Handled(UploadToStorageInternal(broker, s, "saveas"))
    /\ UNCHANGED <<kit, upload, fromKit, storage, edits, joined>>

RenameFile(s, sameName) ==
    LET asked == [broker EXCEPT !.renameSession = s]
    IN  /\ Handling /\ Spend("renames")
        /\ IsLive(broker, s) /\ IsEditable(broker, s)
        /\ Handled(CASE broker.activity = "Rename" /\ ~sameName -> broker
                     [] broker.activity = "None" -> StartRenameFileCommand(asked)
                     [] OTHER -> asked)
        /\ UNCHANGED <<kit, upload, fromKit, storage, edits, joined>>

Disconnect(s) ==
    /\ Handling /\ Spend("leaves")
    /\ s \in Present(broker) \ broker.closeFrame
    /\ Handled(RemoveSession(broker, s))
    /\ UNCHANGED <<kit, upload, fromKit, storage, edits, joined>>

\* closedocument of the owner, versionrestore, or the admin console.
CloseRequest ==
    /\ Handling /\ Spend("closes")
    /\ Handled(CloseDocument(broker))
    /\ UNCHANGED <<kit, upload, fromKit, storage, edits, joined>>

\* closedocument of another client, to reload after a conflict.
ReloadRequest(s) ==
    /\ Handling
    /\ IsLive(broker, s) /\ s \notin Owners
    /\ broker.changedInStorage /\ ~broker.stop
    /\ Handled(Stop(broker))
    /\ UNCHANGED <<kit, upload, fromKit, storage, edits, joined, left>>

-----------------------------------------------------------------------------
(* The Kit. *)

KitInput(type) ==
    /\ kit.up /\ broker.phase # "done"
    /\ broker.toKit # <<>> /\ Head(broker.toKit).type = type
    /\ broker' = [broker EXCEPT !.toKit = Tail(@)]
    /\ UNCHANGED <<storage, edits, joined, polled>>

KitSends(messages) == fromKit' = fromKit \o messages

StatusMessages(modified) ==
    IF IsViewFileExtension THEN <<>>
    ELSE <<[type |-> "ModifiedStatus", sessions |-> kit.views,
            value |-> IF modified THEN "true" ELSE "false"]>>

KitLoad ==
    LET S == Head(broker.toKit).sessions
    IN  /\ KitInput("load")
        /\ kit' = [kit EXCEPT !.views = @ \cup S]
        /\ KitSends(<<[type |-> "loaded", sessions |-> S,
                       value |-> IF kit.views = {} THEN "true" ELSE "false"]>>)
        /\ UNCHANGED <<upload, left>>

KitEdit ==
    LET known == Head(broker.toKit).sessions \subseteq kit.views
    IN  /\ KitInput("edit")
        /\ kit' = IF known THEN [kit EXCEPT !.content = @ + 1, !.modified = TRUE] ELSE kit
        /\ KitSends(IF known /\ ~kit.modified THEN StatusMessages(TRUE) ELSE <<>>)
        /\ UNCHANGED <<upload, left>>

SaveResult(forced, fails) ==
    CASE fails -> "failed"
      [] ~fails /\ ~kit.modified /\ ~forced -> "unmodified"
      [] OTHER -> "saved"

\* Mutant: a save that fails leaves an empty file.
TruncatedDoc(result) ==
    CASE result = "saved" -> [mtime |-> kit.doc.mtime + 1, content |-> kit.content]
      [] result = "failed" -> [mtime |-> kit.doc.mtime + 1, content |-> 0]
      [] OTHER -> kit.doc

\* Core's file after a save.
SavedDoc(result) ==
    IF result = "saved"
    THEN [mtime |-> kit.doc.mtime + 1, content |-> kit.content]
    ELSE kit.doc

\* The result of .uno:Save; whatever it is, the file on disk is copied to
\* .upload.  Core may report that the document is unmodified before or after.
KitSave(forced, fails, statusFirst) ==
    LET S       == Head(broker.toKit).sessions
        known   == S \subseteq kit.views
        result  == SaveResult(forced, fails)
        doc     == SavedDoc(result)
        answer  == <<[type |-> "saveresult", sessions |-> S, value |-> result]>>
        status  == IF result = "saved" /\ kit.modified THEN StatusMessages(FALSE) ELSE <<>>
    IN  /\ KitInput(IF forced THEN "forcedsave" ELSE "save")
        /\ IF fails THEN known /\ Spend("saveFaults") ELSE UNCHANGED left
        /\ IF known
           THEN /\ kit' = [kit EXCEPT !.doc = doc,
                                      !.modified = @ /\ result # "saved"]
                /\ upload' = doc
                /\ KitSends(IF statusFirst THEN status \o answer ELSE answer \o status)
           ELSE UNCHANGED <<kit, upload, fromKit>>

\* The Kit exits with its last view.
KitDisconnect ==
    LET S     == Head(broker.toKit).sessions
        views == kit.views \ S
    IN  /\ KitInput("disconnect")
        /\ kit' = [kit EXCEPT !.views = views,
                              !.up = ~(kit.views # {} /\ views = {})]
        /\ KitSends(<<[type |-> "disconnected", sessions |-> S, value |-> ""]>>)
        /\ UNCHANGED <<upload, left>>

KitCrash ==
    /\ Spend("crashes")
    /\ kit.up /\ broker.phase = "polling"
    /\ kit' = [kit EXCEPT !.up = FALSE]
    /\ UNCHANGED <<broker, upload, fromKit, storage, edits, joined, polled>>

\* exit is obeyed at once, before what is queued.
KitExit ==
    /\ kit.up /\ broker.phase # "done"
    /\ \E i \in DOMAIN broker.toKit : broker.toKit[i].type = "exit"
    /\ kit' = [kit EXCEPT !.up = FALSE]
    /\ UNCHANGED <<broker, upload, fromKit, storage, edits, joined, polled, left>>

-----------------------------------------------------------------------------
(* Events of the Kit. *)

KitEvent(type) ==
    /\ Handling
    /\ fromKit # <<>> /\ Head(fromKit).type = type
    /\ fromKit' = Tail(fromKit)
    /\ UNCHANGED <<kit, storage, edits, joined, left>>

Loaded ==
    LET ready == {s \in Head(fromKit).sessions : broker.sess[s] = "LOADING"}
    IN  /\ KitEvent("loaded")
        /\ Handled([broker EXCEPT
                      !.sess = [s \in Session |-> IF s \in ready THEN "LIVE" ELSE @[s]],
                      !.loaded = @ \/ (ready # {} /\ Head(fromKit).value = "true")])
        /\ UNCHANGED upload

\* Sent once for each view: it is lost when all their sessions are gone.
SetModified ==
    /\ KitEvent("ModifiedStatus")
    /\ Handled([broker EXCEPT
                  !.isModified = IF Head(fromKit).sessions \cap Present(broker) # {}
                                 THEN Head(fromKit).value = "true" ELSE @])
    /\ UNCHANGED upload

\* The result of a save whose session is gone is dropped.
SaveResponse(canUpload) ==
    /\ KitEvent("saveresult")
    /\ \E s \in Head(fromKit).sessions :
          IF s \in Present(broker)
          THEN /\ Handled(HandleSaveResponse(broker, s, Head(fromKit).value,
                                             upload, canUpload))
               /\ upload' = NoFile
          ELSE Handled(broker) /\ UNCHANGED upload

Disconnected ==
    LET S == Head(fromKit).sessions
    IN  /\ KitEvent("disconnected")
        /\ Handled([broker EXCEPT
                      !.sess = [s \in Session |-> IF s \in S THEN "absent" ELSE @[s]],
                      !.closeFrame = @ \ S,
                      !.expired = @ \ S])
        /\ UNCHANGED upload

\* The Kit's socket closes after the last of its messages.
KitGone ==
    /\ Handling
    /\ ~kit.up /\ fromKit = <<>> /\ broker.kitDisconnected = "No"
    /\ Handled([DisconnectedFromKit(broker) EXCEPT !.toKit = <<>>])
    /\ UNCHANGED <<kit, upload, fromKit, storage, edits, joined, left>>

-----------------------------------------------------------------------------
(* The host and its answers. *)

HostStores ==
    /\ broker.phase # "done"
    /\ broker.http.kind = "put" /\ ~broker.http.applied
    /\ storage' = broker.http.file.content
    /\ broker' = [broker EXCEPT !.http.applied = TRUE]
    /\ UNCHANGED <<kit, upload, fromKit, edits, joined, polled, left>>

\* A PUT that was stored is answered with OK, or its answer is lost.
UploadAnswer(result) ==
    /\ Handling
    /\ IsAsyncUploading(broker)
    /\ IF result = "OK"
       THEN (broker.http.kind = "put" => broker.http.applied) /\ UNCHANGED left
       ELSE (broker.http.applied => result = "FAILED") /\ Spend("uploadFaults")
    /\ Handled(HandleUploadToStorageResponse(broker, result))
    /\ UNCHANGED <<kit, upload, fromKit, storage, edits, joined>>

\* The continuation of checkFileInfo.  The sizes agree when the host has the
\* version that was uploaded last; two other versions may have one size too.
CheckFileInfoAnswer(state, sameSize) ==
    LET done == [broker EXCEPT !.activity = "None", !.checkFileInfo = "done"]
    IN  /\ Handling
        /\ broker.checkFileInfo = "running"
        /\ storage = broker.sizeAsUploaded => sameSize
        /\ IF state = "Pass" THEN UNCHANGED left ELSE Spend("infoFaults")
        /\ Handled(CASE state = "Pass" /\ sameSize -> done
                     [] state = "Pass" /\ ~sameSize -> HandleDocumentConflict(done)
                     [] state = "Unauthorized" ->
                           [done EXCEPT !.expired =
                               @ \cup ({broker.cfiSession} \cap Present(broker))]
                     [] OTHER -> done)
        /\ UNCHANGED <<kit, upload, fromKit, storage, edits, joined>>

-----------------------------------------------------------------------------
(* The housekeeping, once SocketPoll::poll has returned. *)

Polling(activity) ==
    /\ broker.phase = "polling" /\ ~broker.stop
    /\ broker.activity = activity
    /\ polled' = TRUE
    /\ UNCHANGED <<kit, upload, fromKit, storage, edits, joined>>

\* The instances of what is over are reset first.
Reset(b) ==
    [b EXCEPT !.checkFileInfo = "none",
              !.request = IF b.request.complete THEN NoRequest ELSE @]

ReachedStoreFailures(b) ==
    b.saveFailures >= LimStoreFailures \/ b.uploadFailures >= LimStoreFailures

RetryUpload(b, canUpload) ==
    LET session == WriteableSession(b)
    IN  IF session # NoSession /\ session \notin b.expired
        THEN CheckAndUploadToStorage(b, session, FALSE, canUpload)
        ELSE b

\* Mutant: the request to close is forgotten.
OnlyUnload(b) == b.unloadRequested

UnloadWanted(b) == b.unloadRequested \/ b.closeRequested

\* Activity::None with no queued rename, no idle timeout and no timed save.
PollIdle(b, modifiedStale, canSave, canUpload) ==
    IF Present(b) = {} /\ (b.loaded \/ b.destroying)
    THEN IF ~b.loaded
         THEN AutoSaveAndStop(Stop(b), modifiedStale, canSave, canUpload)
         ELSE AutoSaveAndStop(b, modifiedStale, canSave, canUpload)
    ELSE IF UnloadWanted(b)
    THEN IF ReachedStoreFailures(b) THEN Stop(b)
         ELSE AutoSaveAndStop(b, modifiedStale, canSave, canUpload)
    ELSE IF /\ ~IsAsyncUploading(b) /\ ~LastUploadSuccessful(b)
            /\ NeedToUploadToStorage(b)
    THEN RetryUpload(b, canUpload)
    ELSE b

PollNone(modifiedStale, canSave, canUpload) ==
    /\ Polling("None")
    /\ broker.renameSession = NoSession
    /\ broker' = PollIdle(Reset(broker), modifiedStale, canSave, canUpload)
    /\ UNCHANGED left

PollRename ==
    /\ Polling("None")
    /\ broker.renameSession # NoSession
    /\ broker' = StartRenameFileCommand(Reset(broker))
    /\ UNCHANGED left

\* per_document.idle_timeout_secs have passed without activity.
PollIdleTimeout(modifiedStale, canSave, canUpload) ==
    /\ Polling("None") /\ Spend("idles")
    /\ broker.renameSession = NoSession /\ broker.loaded
    /\ broker' = AutoSaveAndStop(Reset(broker), modifiedStale, canSave, canUpload)

\* per_document.idlesave_duration_secs or autosave_duration_secs have passed.
PollAutoSave ==
    /\ Polling("None") /\ UNCHANGED left
    /\ broker.renameSession = NoSession /\ Present(broker) # {}
    /\ ~broker.unloadRequested /\ ~broker.closeRequested
    /\ broker' = AutoSave(Reset(broker), FALSE)

\* A save that the Kit has not read, or whose result the broker has not.
SaveInFlight ==
    \/ \E i \in DOMAIN broker.toKit :
          broker.toKit[i].type \in {"save", "forcedsave"}
    \/ \E i \in DOMAIN fromKit : fromKit[i].type = "saveresult"

\* Mutant: the save that never came is no failure.
ForgiveSave(b) == EndActivity([b EXCEPT !.saving = FALSE])

\* Mutant: the save is given up, but not its activity.
GiveUpSave(b) == SetLastSaveResult(b, FALSE, FALSE)

SaveNeverCame(b) == EndActivity(SetLastSaveResult(b, FALSE, FALSE))

\* The save never comes: the Kit is gone, or hasSavingTimedOut, which while
\* the save is under way may happen left["timeouts"] times.
PollSave ==
    /\ Polling("Save")
    /\ broker.kitDisconnected # "No" \/ broker.saving
    /\ IF broker.kitDisconnected = "No" /\ SaveInFlight THEN Spend("timeouts")
       ELSE UNCHANGED left
    /\ broker' = SaveNeverCame(broker)

PollSyncFileTimestamp ==
    LET session == FirstAuthorizedSession(broker)
    IN  /\ Polling("SyncFileTimestamp")
        /\ broker.checkFileInfo = "none"
        /\ broker' = IF session = NoSession THEN EndActivity(broker)
                     ELSE [broker EXCEPT !.checkFileInfo = "running",
                                         !.cfiSession = session]
        /\ UNCHANGED left

\* Nothing to do for this activity: only the time passes.
PollOther ==
    /\ broker.activity \in {"Rename", "Save", "SyncFileTimestamp"}
    /\ Polling(broker.activity)
    /\ UNCHANGED <<broker, left>>

\* per_document.limit_load_secs have passed: the Kit is killed.
PollLoadTimeout ==
    /\ broker.phase = "polling" /\ ~broker.stop /\ Spend("timeouts")
    /\ ~broker.loaded
    /\ broker' = Stop(broker)
    /\ kit' = [kit EXCEPT !.up = FALSE]
    /\ polled' = TRUE
    /\ UNCHANGED <<upload, fromKit, storage, edits, joined>>

\* The Kit has not finished the handshake of s within twenty seconds.
PollStaleDisconnect(s) ==
    /\ Polling(broker.activity)
    /\ InWaitDisconnected(broker, s)
    /\ IF kit.up \/ fromKit # <<>> THEN Spend("timeouts") ELSE UNCHANGED left
    /\ broker' = FinalRemoveSession(broker, s)

-----------------------------------------------------------------------------
(* The end of the poll thread. *)

\* Mutant: only the save is checked, not the upload.
DetectsUnsavedOnly(b) ==
    /\ b.modifyActivity \/ ~LastSaveSuccessful(b)
    /\ ~(b.closeRequested /\ b.changedInStorage)

DetectsDataLoss(b) ==
    /\ \/ b.modifyActivity
       \/ ~LastSaveSuccessful(b)
       \/ ~LastUploadSuccessful(b)
       \/ IsStorageOutdated(b)
    /\ ~(b.closeRequested /\ b.changedInStorage)

\* The loop ends; without sessions the Kit is asked to exit.
StopPolling ==
    /\ broker.phase = "polling" /\ broker.stop
    /\ broker' = [broker EXCEPT !.phase = "flushing",
                                !.dataLoss = DetectsDataLoss(broker),
                                !.toKit = IF Present(broker) = {}
                                          THEN Append(@, [type |-> "exit", sessions |-> {}])
                                          ELSE @]
    /\ polled' = TRUE
    /\ UNCHANGED <<kit, upload, fromKit, storage, edits, joined, left>>

\* After at most two seconds of flushing, or without a socket left.  The
\* sessions that remain are removed and the Kit is told to exit, but nobody
\* waits for what that sends: nothing is handled any more.
Terminate ==
    /\ broker.phase = "flushing"
    /\ broker' = [broker EXCEPT !.phase = "done"]
    /\ polled' = TRUE
    /\ UNCHANGED <<kit, upload, fromKit, storage, edits, joined, left>>

Finished ==
    /\ broker.phase = "done"
    /\ UNCHANGED vars

-----------------------------------------------------------------------------
ClientNext ==
    \/ \E added \in BOOLEAN : Join(added)
    \/ \E s \in Session, flag \in BOOLEAN :
          \/ Edit(s, flag)
          \/ Save(s, flag)
          \/ RenameFile(s, flag)
    \/ \E s \in Session, force, canUpload \in BOOLEAN :
          SaveToStorage(s, force, canUpload)
    \/ \E s \in Session : SaveAs(s) \/ Disconnect(s) \/ ReloadRequest(s)
    \/ CloseRequest

KitNext ==
    \/ KitLoad \/ KitEdit \/ KitDisconnect \/ KitCrash \/ KitExit
    \/ \E forced, fails, statusFirst \in BOOLEAN : KitSave(forced, fails, statusFirst)

KitEventNext ==
    \/ Loaded \/ SetModified \/ Disconnected \/ KitGone
    \/ \E canUpload \in BOOLEAN : SaveResponse(canUpload)

HostNext ==
    \/ HostStores
    \/ \E result \in UploadFaults \cup {"OK"} : UploadAnswer(result)
    \/ \E state \in {"Pass", "Unauthorized", "Fail"}, sameSize \in BOOLEAN :
          CheckFileInfoAnswer(state, sameSize)

PollNext ==
    \/ \E modifiedStale, canSave, canUpload \in BOOLEAN :
          \/ PollNone(modifiedStale, canSave, canUpload)
          \/ PollIdleTimeout(modifiedStale, canSave, canUpload)
    \/ PollRename \/ PollAutoSave \/ PollSave \/ PollSyncFileTimestamp
    \/ PollOther \/ PollLoadTimeout
    \/ \E s \in Session : PollStaleDisconnect(s)

Next ==
    \/ ClientNext \/ KitNext \/ KitEventNext \/ HostNext \/ PollNext
    \/ StopPolling \/ Terminate \/ Finished

Spec == Init /\ [][Next]_vars

-----------------------------------------------------------------------------
(* Properties. *)

\* Every variable has its type; in particular sendUnoSave is never called without
\* a session to save with, whoever has left meanwhile.
TypeOK ==
    /\ broker \in Broker
    /\ kit \in Kit
    /\ upload \in File
    /\ fromKit \in Seq(BrokerMessage)
    /\ storage \in Nat
    /\ edits \in Nat
    /\ joined \in Session
    /\ polled \in BOOLEAN
    /\ left \in [Input -> Nat]

\* f is g, or a version that Core saved before g.
OlderOrSame(f, g) == f = g \/ (f.mtime < g.mtime /\ f.content <= g.content)

\* The file travels from Core's save over .upload and .uploading and the body
\* of a PUT to the host, and each station overwrites what it holds while the
\* others go on: still no station ever holds a newer version than the one
\* before it, and two files with one timestamp are one version, which is what
\* isStorageOutdated relies on.
VersionOrder ==
    /\ broker.http.kind = "put" =>
          /\ storage <= broker.http.file.content
          /\ OlderOrSame(broker.http.file, broker.uploading)
    /\ storage <= broker.uploading.content
    /\ OlderOrSame(broker.uploading, kit.doc)
    /\ Exists(upload) =>
          OlderOrSame(broker.uploading, upload) /\ OlderOrSame(upload, kit.doc)
    /\ kit.doc.content <= kit.content

\* A step never replaces the version in the Storage by an older one, however
\* saves, uploads, failures and retries interleave.
StorageNeverGoesBack == [][storage' >= storage]_vars

\* While checkFileInfo waits for the host, the broker stays in the activity
\* that sent the request; and no success of a rename, which would end that
\* activity, can arrive.
SyncOrderly(b) ==
    /\ b.checkFileInfo = "running" => b.activity = "SyncFileTimestamp"
    /\ b.activity = "SyncFileTimestamp" /\ IsAsyncUploading(b)
          => b.request.kind # "rename"

\* The continuation of checkFileInfo asserts that it runs in the activity that
\* has sent the request: whatever saves, uploads and failures the broker
\* handles in the meantime, they do not end it.
SyncWaitsForCheckFileInfo == SyncOrderly(broker)
=============================================================================

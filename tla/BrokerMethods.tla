---------------------------- MODULE BrokerMethods ----------------------------
(***************************************************************************)
(* The methods of wsd/DocumentBroker.cpp that save, upload and unload the  *)
(* document, and the part of wsd/wopi/WopiStorage.cpp that they run on the *)
(* same thread.  Each takes the broker's members and returns them as they  *)
(* are when the method returns, nested calls included.                     *)
(*                                                                         *)
(* A parameter canUpload or canSave says whether the throttle of the       *)
(* StorageManager or the SaveManager has elapsed when the method asks.     *)
(***************************************************************************)
EXTENDS BrokerState

EndActivity(b) == [b EXCEPT !.activity = "None"]

\* Mutant: a result also clears the activity that is newer than its request.
ForgetfulSaveResult(b, success, newVersion) ==
    [b EXCEPT !.saving = FALSE,
              !.saveFailures = IF success THEN 0 ELSE BumpFailures(@),
              !.versioned = @ \/ newVersion,
              !.modifyActivity = FALSE]

SetLastSaveResult(b, success, newVersion) ==
    [b EXCEPT !.saving = FALSE,
              !.saveFailures = IF success THEN 0 ELSE BumpFailures(@),
              !.versioned = @ \/ newVersion]

SetLastUploadResult(b, success) ==
    [b EXCEPT !.uploadActive = FALSE,
              !.uploadFailures = IF success THEN 0 ELSE BumpFailures(@)]

Stop(b) == [b EXCEPT !.stop = TRUE]

-----------------------------------------------------------------------------
(* Removing sessions. *)

FinalRemoveSession(b, s) ==
    [b EXCEPT !.sess[s] = "absent",
              !.closeFrame = @ \ {s},
              !.expired = @ \ {s}]

\* disconnectSessionInternal for the sessions of S in turn, none of which is
\* waiting for its disconnection yet.  Loading sessions are failed when the
\* first of S was the last loaded one; afterwards a session of S is waiting,
\* and the code's count no longer matches.
DisconnectSessions(b, S) ==
    LET others  == Present(b) \ {MinOf(S)}
        failed  == IF \A o \in others : ~IsLive(b, o) /\ ~InWaitDisconnected(b, o)
                   THEN {o \in others \ S :
                            b.sess[o] = "LOADING" /\ o \notin b.closeFrame}
                   ELSE {}
    IN  IF S = {} THEN b
        ELSE [b EXCEPT
                !.sess = [s \in Session |->
                            IF s \in S THEN "WAIT_DISCONNECT"
                            ELSE IF s \in failed THEN "absent" ELSE @[s]],
                !.expired = @ \ failed,
                !.destroying = @ \/ b.unloadRequested,
                !.stop = @ \/ (~b.loaded /\ Present(b) \ failed = S /\ Cardinality(S) = 1),
                !.toKit = Append(@, [type |-> "disconnect", sessions |-> S])]

\* Mutant: the sessions that were kept for the upload are never removed.
KeepClosedSessions(b) == b

\* The loop over _sessions after an upload, or when there is none to do.
DisconnectClosedSessions(b) ==
    DisconnectSessions(b, {s \in Present(b) \cap b.closeFrame :
                              ~InWaitDisconnected(b, s)})

-----------------------------------------------------------------------------
(* Uploading. *)

EndRenameFileCommand(b) ==
    EndActivity([b EXCEPT !.renameSession = NoSession])

\* asyncUploadCallback with State::Error.
AsyncUploadError(b) ==
    IF b.request.kind = "none" THEN b
    ELSE LET failed == SetLastUploadResult([b EXCEPT !.request.complete = TRUE], FALSE)
         IN  IF failed.activity = "Rename" THEN EndRenameFileCommand(failed) ELSE failed

\* WopiStorage: an upload in flight, or a missing file, is an immediate error
\* of size 0.  The body is opened here, and a later save renames another file
\* over it: the upload goes on with this one.  A save-as uploads another file.
UploadLocalFileToStorageAsync(b, kind) ==
    IF IsAsyncUploading(b) \/ (kind # "saveas" /\ ~Exists(b.uploading))
    THEN [AsyncUploadError(b) EXCEPT !.sizeAsUploaded = -1]
    ELSE LET file == IF kind = "saveas" THEN NoFile ELSE b.uploading
         IN  [b EXCEPT
                !.http = [kind |-> kind, file |-> file, applied |-> FALSE],
                !.sizeAsUploaded = IF kind = "saveas" THEN -1 ELSE file.content]

UploadToStorageInternal(b, s, kind) ==
    IF ~IsEditable(b, s) THEN b
    ELSE UploadLocalFileToStorageAsync(
            [b EXCEPT !.request = [kind |-> kind, mtime |-> b.uploading.mtime,
                                   session |-> s, complete |-> FALSE],
                      !.uploadActive = TRUE],
            kind)

UploadToStorage(b, s, force, canUpload) ==
    IF force \/ LastUploadSuccessful(b) \/ (~b.uploadActive /\ canUpload)
    THEN UploadToStorageInternal(b, s, "put")
    ELSE b

\* The second half of a rename, once the Storage has the latest version.
RenameInStorage(b) ==
    IF b.renameSession \notin Present(b) THEN EndRenameFileCommand(b)
    ELSE UploadToStorageInternal(b, b.renameSession, "rename")

\* Mutant: the rename does not wait for the upload.
RenameAtOnce(b) == b.activity = "Rename"

\* The save of a rename needs no upload, or it was uploaded.
ReadyToRename(b) == b.activity = "Rename" /\ ~NeedToUploadToStorage(b)

CheckAndUploadToStorage(b, s, justSaved, canUpload) ==
    LET need     == NeedToUploadToStorage(b)
        idle     == IF b.activity = "Save" THEN EndActivity(b) ELSE b
        modified == IF justSaved THEN b.modifyActivity ELSE NeedToSaveToDisk(b)
    IN  CASE ReadyToRename(b) -> RenameInStorage(b)
          [] OTHER ->
                IF modified /\ IsUnloading(b) THEN idle
                ELSE IF need THEN UploadToStorage(idle, s, FALSE, canUpload)
                ELSE IF IsAsyncUploading(b) THEN idle
                ELSE DisconnectClosedSessions(idle)

HandleDocumentConflict(b) ==
    LET contacted == Present(b) \ b.closeFrame
    IN  [b EXCEPT !.changedInStorage = TRUE, !.stop = @ \/ contacted = {}]

\* Mutant: the timestamp is that of the file on disk when the upload ends.
CurrentVersion(b) ==
    [b EXCEPT !.uploadedTime = b.uploading.mtime, !.changedInStorage = FALSE]

\* The version in the Storage is the one the upload request names.
UploadedVersion(b) ==
    [b EXCEPT !.uploadedTime = b.request.mtime, !.changedInStorage = FALSE]

HandleUploadToStorageSuccessful(b) ==
    LET stored   == CASE b.request.kind = "put" ->
                            IF b.activity = "Rename"
                            THEN RenameInStorage(UploadedVersion(b))
                            ELSE UploadedVersion(b)
                      [] b.request.kind = "rename" -> EndRenameFileCommand(b)
                      [] OTHER -> b
        marked   == [stored EXCEPT !.destroying = @ \/ b.unloadRequested]
        stopping == (marked.destroying \/ Present(marked) = {})
                    /\ ~IsPossiblyModified(marked)
    IN  DisconnectClosedSessions(IF stopping THEN Stop(marked) ELSE marked)

HandleUploadToStorageFailed(b, result) ==
    LET ended == IF b.activity = "Rename" THEN EndRenameFileCommand(b) ELSE b
    IN  CASE result = "TOO_LARGE" -> [ended EXCEPT !.editable = {}]
          [] result = "UNAUTHORIZED" ->
                [ended EXCEPT !.expired = @ \cup ({b.request.session} \cap Present(b))]
          [] result = "FAILED" -> [ended EXCEPT !.activity = "SyncFileTimestamp"]
          [] result = "CONFLICT" -> HandleDocumentConflict(ended)

\* finishedCallback and connectFailHandler of the PUT, then
\* asyncUploadCallback; a response without an upload request is dropped.
HandleUploadToStorageResponse(b, result) ==
    LET retired  == [b EXCEPT !.http = NoHttpSession]
        complete == SetLastUploadResult([retired EXCEPT !.request.complete = TRUE],
                                        result = "OK")
    IN  CASE result = "CONNECT_FAILED" -> AsyncUploadError(retired)
          [] result # "CONNECT_FAILED" /\ b.request.kind = "none" -> retired
          [] result = "OK" /\ b.request.kind # "none" ->
                HandleUploadToStorageSuccessful(complete)
          [] OTHER -> HandleUploadToStorageFailed(complete, result)

-----------------------------------------------------------------------------
(* Saving. *)

\* Mutant: the save takes over from any other activity.
UsurpingSave(b, s, force) ==
    [b EXCEPT !.toKit = Append(@, [type |-> IF force THEN "forcedsave" ELSE "save",
                                   sessions |-> {s}]),
              !.saving = TRUE,
              !.modifyActivity = FALSE,
              !.activity = "Save"]

SendUnoSave(b, s, force) ==
    [b EXCEPT !.toKit = Append(@, [type |-> IF force THEN "forcedsave" ELSE "save",
                                   sessions |-> {s}]),
              !.saving = TRUE,
              !.modifyActivity = FALSE,
              !.activity = IF @ = "None" THEN "Save" ELSE @]

\* A second save is refused with save_in_progress.
ManualSave(b, s, force) ==
    IF b.activity = "Save" THEN b
    ELSE SendUnoSave(b, s, force)

SavingSession(b) ==
    IF /\ b.lastEditing # NoSession
       /\ b.lastEditing \in b.editable
       /\ IsViewLoaded(b, b.lastEditing)
    THEN b.lastEditing
    ELSE WriteableSession(b)

\* What autoSave returns: a save is under way or has just been sent.
AutoSaves(b, force) ==
    \/ b.activity = "Save"
    \/ CanSaveToDisk(b) /\ (b.isModified \/ force)

AutoSave(b, force) ==
    IF AutoSaves(b, force) /\ b.activity # "Save"
    THEN SendUnoSave(b, SavingSession(b), FALSE)
    ELSE b

\* Mutant: the rename from .upload is not checked for an existing file.
RenameUnchecked(b, upload) == [b EXCEPT !.uploading = upload]

\* storage->getRootFilePathToUpload is renamed to .uploading, if it exists.
RenameToUploading(b, upload) ==
    [b EXCEPT !.uploading = IF Exists(upload) THEN upload ELSE @]

HandleSaveResponse(b, s, result, upload, canUpload) ==
    LET saved   == SetLastSaveResult(RenameToUploading(b, upload), result # "failed", result = "saved")
    IN  CheckAndUploadToStorage(saved, s, result # "failed", canUpload)

-----------------------------------------------------------------------------
(* Unloading. *)

\* autoSaveAndStop decides to stop before it tries to save or to upload.
CanStop(b) ==
    LET needSave   == NeedToSaveToDisk(b)
        needUpload == NeedToUploadToStorage(b)
    IN  \/ ~needSave /\ ~needUpload
        \/ /\ ~needSave /\ ~IsStorageOutdated(b)
           /\ (AlwaysSaveOnExit /\ ~LastUploadSuccessful(b))
                 => b.uploadFailures >= LimStoreFailures
        \/ needSave /\ ~CanSaveToDisk(b)
        \/ ~needUpload /\ ~b.modifyActivity /\ LastSaveSuccessful(b)

\* ... but waits for a ModifiedStatus that may still clear isModified.
WaitForModifiedStatus(b) ==
    /\ NeedToSaveToDisk(b) /\ CanSaveToDisk(b)
    /\ ~NeedToUploadToStorage(b)
    /\ ~b.modifyActivity /\ LastSaveSuccessful(b) /\ b.isModified

SaveOrUploadBeforeStop(b, canUpload) ==
    LET force   == IsPossiblyModified(b) \/ ~LastSaveSuccessful(b)
        session == WriteableSession(b)
    IN  IF AutoSaves(b, force) THEN AutoSave(b, force)
        ELSE IF session # NoSession /\ session \notin b.expired
        THEN CheckAndUploadToStorage(b, session, FALSE, canUpload)
        ELSE Stop(b)

\* modifiedStale: two seconds have passed since the last save response.
AutoSaveAndStop(b, modifiedStale, canSave, canUpload) ==
    IF b.saving \/ IsAsyncUploading(b) THEN b
    ELSE IF WaitForModifiedStatus(b) /\ ~modifiedStale THEN b
    ELSE IF CanStop(b) THEN Stop(b)
    ELSE IF canSave THEN SaveOrUploadBeforeStop(b, canUpload)
    ELSE b

\* onDisconnect of a client: removeSession, then its close frame is noted.
RemoveSession(b, s) ==
    LET lastEditable == IsEditable(b, s) /\ ~HaveAnotherEditableSession(b, s)
        force        == AlwaysSaveOnExit \/ IsPossiblyModified(b)
        autoSaved    == IF lastEditable /\ ~b.saving THEN AutoSave(b, force) ELSE b
        kept         == lastEditable /\ (b.saving \/ AutoSaves(b, force))
        removed      == IF kept THEN autoSaved
                        ELSE IF InWaitDisconnected(b, s)
                        THEN FinalRemoveSession(
                                [b EXCEPT !.destroying = @ \/ b.unloadRequested], s)
                        ELSE DisconnectSessions(b, {s})
        busy         == removed.saving \/ IsAsyncUploading(removed)
        lastView     == Cardinality(ActiveSessions(b)) <= 1
    IN  [removed EXCEPT
            !.unloadRequested = @ \/ (lastView /\ busy),
            !.destroying = @ \/ (lastView /\ ~busy /\ Present(removed) = {}),
            !.closeFrame = @ \cup ({s} \cap Present(removed))]

CloseDocument(b) ==
    [b EXCEPT !.closeRequested = TRUE, !.stop = @ \/ b.changedInStorage]

\* _closeReason is set exactly when the document is being closed or stopped.
DisconnectedFromKit(b) ==
    LET lost == [b EXCEPT !.kitDisconnected =
                    IF IsUnloading(b) THEN "Normal" ELSE "Unexpected"]
    IN  IF b.closeRequested \/ b.stop THEN lost ELSE CloseDocument(lost)

StartRenameFileCommand(b) ==
    LET renaming == [b EXCEPT !.activity = "Rename"]
    IN  IF b.renameSession \notin Present(b) THEN EndRenameFileCommand(renaming)
        ELSE SendUnoSave(renaming, b.renameSession, FALSE)
=============================================================================

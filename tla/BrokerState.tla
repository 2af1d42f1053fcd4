----------------------------- MODULE BrokerState -----------------------------
(***************************************************************************)
(* The members of wsd/DocumentBroker that decide when a document is saved, *)
(* uploaded and unloaded, and the const queries of DocumentBroker.hpp over *)
(* them.  All the members belong to the document's own poll thread, which  *)
(* runs one event handler at a time, so a handler is a function from the   *)
(* record of members to a new one.                                         *)
(*                                                                         *)
(* Time is abstracted to the orders the code compares: a RequestManager is *)
(* "active" when its last request is newer than its last response, and     *)
(* modifyActivity says that the last modifying input is newer than the     *)
(* last save request.  Throttles and timeouts are Boolean inputs of the    *)
(* handlers.  A file is the modification time that the broker reads and    *)
(* the content that only Core and the Storage see: the number of edits it  *)
(* holds.                                                                  *)
(***************************************************************************)
EXTENDS Integers, Sequences, FiniteSets

CONSTANTS
    NumSessions,          \* client sessions are 1..NumSessions, in std::map order
    Editors,              \* the sessions that join with an editable view
    Owners,               \* the sessions of the document's owner
    AlwaysSaveOnExit,     \* per_document.always_save_on_exit
    IsViewFileExtension,  \* the document's type has no ModifiedStatus
    LimStoreFailures      \* per_document.limit_store_failures

ASSUME BrokerConstants ==
    /\ NumSessions \in Nat \ {0}
    /\ Editors \subseteq 1..NumSessions
    /\ Owners \subseteq 1..NumSessions
    /\ AlwaysSaveOnExit \in BOOLEAN
    /\ IsViewFileExtension \in BOOLEAN
    /\ LimStoreFailures \in Nat \ {0}

Session == 1..NumSessions
NoSession == 0
SessionOrNone == 0..NumSessions

SessionState == {"absent", "LOADING", "LIVE", "WAIT_DISCONNECT"}
Activity == {"None", "Rename", "Save", "SyncFileTimestamp"}
KitDisconnected == {"No", "Normal", "Unexpected"}
UploadKind == {"none", "put", "rename", "saveas"}

\* A modification time is the number of the save that wrote the file.
MTime == Int
File == [mtime : MTime, content : Nat]
NoFile == [mtime |-> -1, content |-> 0]
Exists(f) == f.mtime # -1

\* DocumentBroker::UploadRequest; kind "none" is a null _uploadRequest.
UploadRequest == [kind : UploadKind, mtime : MTime, session : SessionOrNone,
                  complete : BOOLEAN]
NoRequest == [kind |-> "none", mtime |-> -1, session |-> NoSession,
              complete |-> FALSE]

\* WopiStorage::_uploadHttpSession: the PUT in flight, and whether the host
\* has already stored its body.
HttpSession == [kind : UploadKind, file : File, applied : BOOLEAN]
NoHttpSession == [kind |-> "none", file |-> NoFile, applied |-> FALSE]

\* What the broker sends to its Kit.
KitMessage ==
    [type : {"load", "edit", "save", "forcedsave", "disconnect", "exit"},
     sessions : SUBSET Session]

Broker ==
    [ sess             : [Session -> SessionState],  \* _sessions
      closeFrame       : SUBSET Session,
      editable         : SUBSET Session,
      expired          : SUBSET Session,
      lastEditing      : SessionOrNone,
      activity         : Activity,                   \* _docState
      loaded           : BOOLEAN,
      closeRequested   : BOOLEAN,
      unloadRequested  : BOOLEAN,
      destroying       : BOOLEAN,
      kitDisconnected  : KitDisconnected,
      stop             : BOOLEAN,
      changedInStorage : BOOLEAN,
      isModified       : BOOLEAN,
      modifyActivity   : BOOLEAN,
      saving           : BOOLEAN,                    \* _saveManager
      saveFailures     : 0..LimStoreFailures,
      versioned        : BOOLEAN,
      uploadActive     : BOOLEAN,                    \* _storageManager
      uploadFailures   : 0..LimStoreFailures,
      uploadedTime     : MTime,
      request          : UploadRequest,
      http             : HttpSession,
      uploading        : File,                       \* the .uploading file
      sizeAsUploaded   : MTime,                      \* a content, or -1 for 0
      renameSession    : SessionOrNone,
      checkFileInfo    : {"none", "running", "done"},
      cfiSession       : SessionOrNone,
      toKit            : Seq(KitMessage),
      phase            : {"polling", "flushing", "done"},
      dataLoss         : BOOLEAN ]

-----------------------------------------------------------------------------
(* Sessions. *)

Present(b) == {s \in Session : b.sess[s] # "absent"}
IsViewLoaded(b, s) == b.sess[s] = "LIVE"
IsLive(b, s) == b.sess[s] = "LIVE" /\ s \notin b.closeFrame
InWaitDisconnected(b, s) == b.sess[s] = "WAIT_DISCONNECT"
IsEditable(b, s) == s \in b.editable
ActiveSessions(b) == {s \in Session : IsLive(b, s)}

HaveAnotherEditableSession(b, s) ==
    \E o \in Session \ {s} : IsViewLoaded(b, o) /\ IsEditable(b, o)

MinOf(S) == CHOOSE s \in S : \A o \in S : s <= o
MaxOf(S) == CHOOSE s \in S : \A o \in S : o <= s

FirstAuthorizedSession(b) ==
    LET valid == Present(b) \ b.expired
    IN  IF valid = {} THEN NoSession ELSE MinOf(valid)

\* The first owner; else the last loaded, editable and authorized session;
\* else the first session of the map.
WriteableSession(b) ==
    LET owners == Present(b) \cap Owners
        usable == {s \in Present(b) \ b.expired :
                      IsViewLoaded(b, s) /\ IsEditable(b, s)}
    IN  CASE Present(b) = {} -> NoSession
          [] Present(b) # {} /\ owners # {} -> MinOf(owners)
          [] Present(b) # {} /\ owners = {} /\ usable # {} -> MaxOf(usable)
          [] OTHER -> MinOf(Present(b))

-----------------------------------------------------------------------------
(* Unloading, saving and uploading. *)

IsMarkedToDestroy(b) == b.destroying \/ b.stop
IsUnloading(b) ==
    IsMarkedToDestroy(b) \/ b.closeRequested \/ b.unloadRequested

IsAsyncUploading(b) == b.http.kind # "none"
IsStorageOutdated(b) == Exists(b.uploading) /\ b.uploading.mtime # b.uploadedTime

LastSaveSuccessful(b) == b.saveFailures = 0
LastUploadSuccessful(b) == b.uploadFailures = 0

\* The code counts on; its only tests are for 0 and for at least the limit,
\* where the model's count stays.
BumpFailures(n) == IF n < LimStoreFailures THEN n + 1 ELSE n

\* Mutant: it is not noticed that there is no session to save with.
CanSaveWithoutSession(b) == b.kitDisconnected = "No" /\ b.loaded

CanSaveToDisk(b) ==
    b.kitDisconnected = "No" /\ b.loaded /\ Present(b) # {}

NeedToSaveToDisk(b) ==
    \/ ~LastSaveSuccessful(b)
    \/ b.isModified /\ ~IsViewFileExtension
    \/ b.modifyActivity

IsPossiblyModified(b) ==
    \/ b.modifyActivity
    \/ IF IsViewFileExtension THEN ~LastSaveSuccessful(b) ELSE b.isModified

NeedToUploadToStorage(b) ==
    \/ IsUnloading(b) /\ AlwaysSaveOnExit /\ b.versioned
    \/ ~LastUploadSuccessful(b) /\ ~b.changedInStorage
    \/ IsStorageOutdated(b)
=============================================================================

---------------------------- MODULE BrokerFrames ----------------------------
(***************************************************************************)
(* What the methods of the broker do to the members that the history       *)
(* properties are about.  There is one lemma for each method: its result   *)
(* Follows the members it starts from.  Sessions only leave; at most one   *)
(* message is sent to the Kit, a save, which is then under way, or the     *)
(* disconnection of sessions that have left; at most one upload is         *)
(* started, and only where there is none; and the flags of the unload are  *)
(* set for a reason.                                                       *)
(***************************************************************************)
EXTENDS BrokerLemmas, BrokerHistory

IsSave(m) == m.type \in {"save", "forcedsave"}

\* The session has neither left nor is waiting for its disconnection.
Here(b, s) == b.sess[s] \in {"LOADING", "LIVE"}

SessionFrame(b, c) ==
    /\ \A s \in Session : b.sess[s] = "absent" => c.sess[s] = "absent"
    /\ \A s \in Session : Here(c, s) => c.sess[s] = b.sess[s]
    /\ Open(c) \subseteq Open(b)

SameQueue(b, c) ==
    c.toKit = b.toKit /\ c.saving = b.saving /\ c.modifyActivity = b.modifyActivity

\* The message m is sent to the Kit.
Sends(b, c, m) ==
    /\ c.toKit = Append(b.toKit, m)
    /\ m.sessions \subseteq Present(b)
    /\ \/ /\ m.type = "disconnect"
          /\ \A s \in m.sessions : ~Here(c, s)
          /\ c.saving = b.saving /\ c.modifyActivity = b.modifyActivity
       \/ /\ IsSave(m)
          /\ c.saving /\ ~c.modifyActivity

QueueFrame(b, c) == SameQueue(b, c) \/ \E m \in KitMessage : Sends(b, c, m)

SameUpload(b, c) == c.http = b.http /\ c.request = b.request

\* An upload is started, and the request describes it.
Starts(b, c) ==
    /\ b.http.kind = "none"
    /\ c.http.kind # "none" /\ ~c.http.applied
    /\ c.request.kind = c.http.kind
    /\ c.http.kind # "saveas" =>
          /\ Exists(b.uploading)
          /\ c.http.file = b.uploading
          /\ c.request.mtime = b.uploading.mtime

UploadFrame(b, c) ==
    /\ c.uploading = b.uploading
    /\ c.uploadedTime = b.uploadedTime
    /\ c.http = b.http \/ Starts(b, c)

FlagFrame(b, c) ==
    /\ c.phase = b.phase
    /\ c.dataLoss = b.dataLoss
    /\ c.kitDisconnected = b.kitDisconnected
    /\ c.saveFailures = b.saveFailures
    /\ c.unloadRequested = b.unloadRequested
    /\ c.destroying => b.destroying \/ b.unloadRequested
    /\ b.closeRequested => c.closeRequested
    /\ b.changedInStorage => c.changedInStorage
    /\ b.stop => c.stop

\* What every method promises of its result c.
Follows(b, c) ==
    SessionFrame(b, c) /\ QueueFrame(b, c) /\ UploadFrame(b, c) /\ FlagFrame(b, c)

\* The members are stopped for a reason.
StopsWell(b, c) ==
    c.stop /\ ~b.stop =>
       \/ Open(c) = {}
       \/ c.changedInStorage \/ c.closeRequested
       \/ b.destroying \/ b.unloadRequested

\* A rename is sent only when the version on disk is the one last uploaded.
RenamesCurrent(b, c) ==
    c.http.kind = "rename" /\ c.http # b.http => ~IsStorageOutdated(b)

-----------------------------------------------------------------------------
(* Frames. *)

\* The members that the frames are about, but for the upload.
SameButUpload(b, c) ==
    /\ c.sess = b.sess /\ c.closeFrame = b.closeFrame
    /\ SameQueue(b, c)
    /\ c.uploading = b.uploading /\ c.uploadedTime = b.uploadedTime
    /\ c.phase = b.phase /\ c.dataLoss = b.dataLoss
    /\ c.kitDisconnected = b.kitDisconnected /\ c.saveFailures = b.saveFailures
    /\ c.unloadRequested = b.unloadRequested /\ c.destroying = b.destroying
    /\ c.closeRequested = b.closeRequested
    /\ c.changedInStorage = b.changedInStorage /\ c.stop = b.stop

\* Nothing but members that no frame is about has changed.
Alike(b, c) == SameButUpload(b, c) /\ c.http = b.http

\* The same, but an upload may have been started.
Uploads(b, c) ==
    SameButUpload(b, c) /\ (c.http = b.http \/ Starts(b, c))

\* The sessions of members with the same states and close frames.
LEMMA SameSessions ==
  ASSUME NEW b, NEW c, c.sess = b.sess, c.closeFrame = b.closeFrame
  PROVE  Present(c) = Present(b) /\ Open(c) = Open(b) /\ SessionFrame(b, c)
<1>1. Present(c) = Present(b)
  BY DEF Present
<1>2. Open(c) = Open(b)
  BY <1>1 DEF Open, InWaitDisconnected
<1> QED
  BY <1>1, <1>2 DEF SessionFrame, Here

\* What such methods promise.
LEMMA UploadsFollows ==
  ASSUME NEW b, NEW c, Uploads(b, c)
  PROVE  Follows(b, c) /\ StopsWell(b, c) /\ SameQueue(b, c)
<1>1. SessionFrame(b, c)
  BY SameSessions DEF Uploads, SameButUpload
<1>2. QueueFrame(b, c)
  BY DEF Uploads, SameButUpload, QueueFrame
<1>3. UploadFrame(b, c)
  BY DEF Uploads, SameButUpload, UploadFrame
<1>4. FlagFrame(b, c)
  BY DEF Uploads, SameButUpload, FlagFrame
<1>5. StopsWell(b, c)
  BY DEF Uploads, SameButUpload, StopsWell
<1> QED
  BY <1>1, <1>2, <1>3, <1>4, <1>5 DEF Follows, Uploads, SameButUpload

\* A method that changes no member the frames are about.
LEMMA AlikeUploads ==
  ASSUME NEW b, NEW c, Alike(b, c)
  PROVE  Uploads(b, c) /\ RenamesCurrent(b, c)
BY DEF Alike, Uploads, RenamesCurrent

\* Two of them in a row, of which one starts an upload.
LEMMA AlikeTwice ==
  ASSUME NEW b, NEW c, NEW d, Alike(b, c)
  PROVE  /\ Alike(c, d) => Alike(b, d)
         /\ Uploads(c, d) => Uploads(b, d)
         /\ RenamesCurrent(c, d) => RenamesCurrent(b, d)
<1>1. c.uploading = b.uploading /\ c.uploadedTime = b.uploadedTime /\ c.http = b.http
  BY DEF Alike, SameButUpload
<1>2. Alike(c, d) => Alike(b, d)
  BY DEF Alike, SameButUpload, SameQueue
<1>3. Starts(c, d) => Starts(b, d)
  BY <1>1 DEF Starts
<1>4. Uploads(c, d) => Uploads(b, d)
  BY <1>3 DEF Alike, Uploads, SameButUpload, SameQueue
<1>5. RenamesCurrent(c, d) => RenamesCurrent(b, d)
  BY <1>1 DEF RenamesCurrent, IsStorageOutdated
<1> QED
  BY <1>2, <1>4, <1>5

\* What two methods in a row promise, when at most one of them sends a message
\* and the second touches no upload that the first has started.
LEMMA FollowsTwice ==
  ASSUME NEW b, NEW c, NEW d, Follows(b, c), Follows(c, d),
         SameQueue(b, c) \/ SameQueue(c, d),
         c.http = b.http \/ SameUpload(c, d)
  PROVE  Follows(b, d)
<1>1. SessionFrame(b, d)
  BY DEF Follows, SessionFrame, Here
<1>2. Present(c) \subseteq Present(b)
  BY DEF Follows, SessionFrame, Present
<1>3. QueueFrame(b, d)
  <2>1. CASE SameQueue(b, c)
    BY <1>2, <2>1 DEF Follows, QueueFrame, SameQueue, Sends
  <2>2. CASE SameQueue(c, d) /\ ~SameQueue(b, c)
    <3>1. PICK m \in KitMessage : Sends(b, c, m)
      BY <2>2 DEF Follows, QueueFrame
    <3>2. m.sessions \subseteq Session
      BY DEF KitMessage
    <3>3. \A s \in Session : ~Here(c, s) => ~Here(d, s)
      BY DEF Follows, SessionFrame, Here
    <3>4. Sends(b, d, m)
      BY <2>2, <3>1, <3>2, <3>3 DEF Sends, SameQueue
    <3> QED
      BY <3>4 DEF QueueFrame
  <2> QED
    BY <2>1, <2>2
<1>4. UploadFrame(b, d)
  BY DEF Follows, UploadFrame, SameUpload, Starts
<1>5. FlagFrame(b, d)
  BY DEF Follows, FlagFrame
<1> QED
  BY <1>1, <1>3, <1>4, <1>5 DEF Follows

\* The reasons to stop add up.
LEMMA StopsTwice ==
  ASSUME NEW b, NEW c, NEW d, Follows(b, c), Follows(c, d),
         StopsWell(b, c), StopsWell(c, d)
  PROVE  StopsWell(b, d)
BY DEF Follows, SessionFrame, FlagFrame, StopsWell

-----------------------------------------------------------------------------
(* Uploading. *)

\* Ending an activity changes no member that a frame is about.
LEMMA EndActivityAlike ==
  ASSUME NEW b \in Broker
  PROVE  Alike(b, EndActivity(b))
BY DEF EndActivity, Alike, SameButUpload, SameQueue, Broker

\* Nor does the result of an upload.
LEMMA SetLastUploadResultAlike ==
  ASSUME NEW b \in Broker, NEW success
  PROVE  Alike(b, SetLastUploadResult(b, success))
BY DEF SetLastUploadResult, Alike, SameButUpload, SameQueue, Broker

\* Nor does the end of a rename.
LEMMA EndRenameFileCommandAlike ==
  ASSUME NEW b \in Broker
  PROVE  Alike(b, EndRenameFileCommand(b))
<1> DEFINE c == [b EXCEPT !.renameSession = NoSession]
<1>1. c \in Broker
  BY SessionTypes DEF Broker
<1>2. Alike(b, c)
  BY DEF Alike, SameButUpload, SameQueue, Broker
<1> HIDE DEF c
<1>3. Alike(c, EndActivity(c))
  BY <1>1, EndActivityAlike
<1> QED
  BY <1>2, <1>3, AlikeTwice DEF EndRenameFileCommand, c

\* Nor does marking the upload request complete.
LEMMA CompleteAlike ==
  ASSUME NEW b \in Broker
  PROVE  Alike(b, [b EXCEPT !.request.complete = TRUE])
BY DEF Alike, SameButUpload, SameQueue, Broker

\* Nor does an upload that cannot be started.
LEMMA AsyncUploadErrorAlike ==
  ASSUME NEW b, Sound(b)
  PROVE  Alike(b, AsyncUploadError(b))
<1> DEFINE c == [b EXCEPT !.request.complete = TRUE]
           f == SetLastUploadResult(c, FALSE)
<1>1. b \in Broker
  BY DEF Sound
<1>2. Alike(b, c) /\ Sound(c)
  BY <1>1, CompleteAlike, CompleteKept DEF Kept
<1>3. AsyncUploadError(b) =
        IF b.request.kind = "none" THEN b
        ELSE IF f.activity = "Rename" THEN EndRenameFileCommand(f) ELSE f
  BY DEF AsyncUploadError
<1> HIDE DEF c
<1>4. Alike(c, f) /\ f \in Broker
  BY <1>2, SetLastUploadResultAlike, SetLastUploadResultKept DEF Kept, Sound
<1> HIDE DEF f
<1>5. Alike(b, f) /\ Alike(f, EndRenameFileCommand(f))
  BY <1>2, <1>4, EndRenameFileCommandAlike, AlikeTwice
<1>6. Alike(b, b)
  BY DEF Alike, SameButUpload, SameQueue
<1> QED
  BY <1>3, <1>5, <1>6, AlikeTwice

\* Nor does forgetting what is over.
LEMMA ResetAlike ==
  ASSUME NEW b \in Broker
  PROVE  Alike(b, Reset(b))
BY DEF Reset, Alike, SameButUpload, SameQueue, Broker

\* An upload is started with the file on disk when there is none in flight.
LEMMA UploadLocalFileToStorageAsyncUploads ==
  ASSUME NEW b, Sound(b), NEW kind \in {"put", "rename", "saveas"},
         b.request.kind = kind, b.request.mtime = b.uploading.mtime
  PROVE  LET c == UploadLocalFileToStorageAsync(b, kind)
         IN  /\ Uploads(b, c)
             /\ kind # "rename" \/ ~IsStorageOutdated(b) => RenamesCurrent(b, c)
<1> DEFINE e    == AsyncUploadError(b)
           err  == [e EXCEPT !.sizeAsUploaded = -1]
           file == IF kind = "saveas" THEN NoFile ELSE b.uploading
           http == [kind |-> kind, file |-> file, applied |-> FALSE]
           size == IF kind = "saveas" THEN -1 ELSE file.content
           c    == [b EXCEPT !.http = http, !.sizeAsUploaded = size]
           d    == UploadLocalFileToStorageAsync(b, kind)
<1>1. \/ d = err
      \/ /\ d = c
         /\ b.http.kind = "none" /\ (kind # "saveas" => Exists(b.uploading))
  BY DEF UploadLocalFileToStorageAsync, IsAsyncUploading
<1>2. Alike(b, err)
  <2>1. Alike(b, e) /\ e \in Broker
    BY AsyncUploadErrorAlike, AsyncUploadErrorKept DEF Kept, Sound
  <2> HIDE DEF e
  <2>2. Alike(e, err)
    BY <2>1 DEF Alike, SameButUpload, SameQueue, Broker
  <2> QED
    BY <2>1, <2>2, AlikeTwice
<1>3. SameButUpload(b, c) /\ c.http = http /\ c.request = b.request
  <2> HIDE DEF http, size
  <2> QED
    BY DEF Sound, SameButUpload, SameQueue, Broker
<1>4. b.http.kind = "none" /\ (kind # "saveas" => Exists(b.uploading)) => Starts(b, c)
  BY <1>3 DEF Starts
<1>5. c.http.kind = kind
  BY <1>3
<1> HIDE DEF err, c, d
<1>6. CASE d = err
  BY <1>2, <1>6, AlikeUploads DEF d
<1>7. CASE d = c /\ b.http.kind = "none" /\ (kind # "saveas" => Exists(b.uploading))
  BY <1>3, <1>4, <1>5, <1>7 DEF d, Uploads, RenamesCurrent
<1> QED
  BY <1>1, <1>6, <1>7

\* The upload request describes the upload that is started.
LEMMA UploadToStorageInternalUploads ==
  ASSUME NEW b, Sound(b), NEW s \in Session,
         NEW kind \in {"put", "rename", "saveas"},
         kind = "rename" => b.activity # "SyncFileTimestamp"
  PROVE  LET c == UploadToStorageInternal(b, s, kind)
         IN  /\ Uploads(b, c)
             /\ kind # "rename" \/ ~IsStorageOutdated(b) => RenamesCurrent(b, c)
<1> DEFINE r == [kind |-> kind, mtime |-> b.uploading.mtime,
                 session |-> s, complete |-> FALSE]
           c == [b EXCEPT !.request = r, !.uploadActive = TRUE]
           d == UploadLocalFileToStorageAsync(c, kind)
<1>1. r \in UploadRequest /\ r.kind = kind /\ r.mtime = b.uploading.mtime
  BY SessionTypes DEF Sound, Broker, File, UploadRequest, UploadKind
<1>2. UploadToStorageInternal(b, s, kind) = IF ~IsEditable(b, s) THEN b ELSE d
  BY DEF UploadToStorageInternal
<1> HIDE DEF r
<1>3. c \in Broker
  BY <1>1 DEF Sound, Broker
<1>4. /\ c.checkFileInfo = b.checkFileInfo /\ c.activity = b.activity
      /\ c.http = b.http /\ c.request = r /\ c.uploading = b.uploading
      /\ c.uploadedTime = b.uploadedTime /\ Alike(b, c)
  BY DEF Sound, Broker, Alike, SameButUpload, SameQueue
<1> HIDE DEF c
<1>5. Sound(c)
  BY <1>1, <1>3, <1>4 DEF Sound, SyncOrderly, IsAsyncUploading
<1>6. IsStorageOutdated(c) = IsStorageOutdated(b)
  BY <1>4 DEF IsStorageOutdated
<1>7. /\ Uploads(c, d)
      /\ kind # "rename" \/ ~IsStorageOutdated(c) => RenamesCurrent(c, d)
  BY <1>1, <1>4, <1>5, UploadLocalFileToStorageAsyncUploads
<1> HIDE DEF d
<1>8. /\ Uploads(b, d)
      /\ kind # "rename" \/ ~IsStorageOutdated(b) => RenamesCurrent(b, d)
  BY <1>4, <1>6, <1>7, AlikeTwice
<1>9. Uploads(b, b) /\ RenamesCurrent(b, b)
  BY DEF Uploads, SameButUpload, SameQueue, RenamesCurrent
<1> QED
  BY <1>2, <1>8, <1>9

\* An upload, forced or not, renames nothing.
LEMMA UploadToStorageUploads ==
  ASSUME NEW b, Sound(b), NEW s \in Session, NEW force, NEW canUpload
  PROVE  LET c == UploadToStorage(b, s, force, canUpload)
         IN  Uploads(b, c) /\ RenamesCurrent(b, c)
<1>1. LET c == UploadToStorageInternal(b, s, "put")
      IN  Uploads(b, c) /\ RenamesCurrent(b, c)
  BY UploadToStorageInternalUploads
<1>2. Uploads(b, b) /\ RenamesCurrent(b, b)
  BY DEF Uploads, SameButUpload, SameQueue, RenamesCurrent
<1> QED
  BY <1>1, <1>2 DEF UploadToStorage

\* The second half of a rename is an upload, if anything.
LEMMA RenameInStorageUploads ==
  ASSUME NEW b, Sound(b), b.activity = "Rename"
  PROVE  LET c == RenameInStorage(b)
         IN  Uploads(b, c) /\ (~IsStorageOutdated(b) => RenamesCurrent(b, c))
<1>1. Alike(b, EndRenameFileCommand(b))
  BY EndRenameFileCommandAlike DEF Sound
<1>2. b.renameSession \in Present(b) =>
        LET c == UploadToStorageInternal(b, b.renameSession, "rename")
        IN  Uploads(b, c) /\ (~IsStorageOutdated(b) => RenamesCurrent(b, c))
  BY UploadToStorageInternalUploads DEF Present
<1> QED
  BY <1>1, <1>2, AlikeUploads DEF RenameInStorage

-----------------------------------------------------------------------------
(* Removing sessions. *)

\* Doing nothing follows.
LEMMA FollowsSame ==
  ASSUME NEW b
  PROVE  Follows(b, b) /\ StopsWell(b, b) /\ RenamesCurrent(b, b) /\ Alike(b, b)
<1>1. Alike(b, b)
  BY DEF Alike, SameButUpload, SameQueue
<1> QED
  BY <1>1, AlikeUploads, UploadsFollows

\* So does what changes no member that a frame is about.
LEMMA AlikeFollows ==
  ASSUME NEW b, NEW c, Alike(b, c)
  PROVE  /\ Follows(b, c) /\ StopsWell(b, c) /\ RenamesCurrent(b, c)
         /\ SameQueue(b, c) /\ c.http = b.http
BY AlikeUploads, UploadsFollows DEF Alike

\* What follows after it also follows before it.
LEMMA AlikeThen ==
  ASSUME NEW b, NEW c, NEW d, Alike(b, c)
  PROVE  /\ Follows(c, d) => Follows(b, d)
         /\ StopsWell(c, d) => StopsWell(b, d)
         /\ SameUpload(c, d) => d.http = b.http
<1>1. Follows(b, c) /\ SameQueue(b, c) /\ c.http = b.http
  BY AlikeFollows
<1>2. Follows(c, d) => Follows(b, d)
  BY <1>1, FollowsTwice
<1>3. StopsWell(c, d) => StopsWell(b, d)
  BY DEF StopsWell, Alike, SameButUpload
<1> QED
  BY <1>1, <1>2, <1>3 DEF SameUpload

\* The poll thread is asked to stop.
LEMMA StopFollows ==
  ASSUME NEW b \in Broker
  PROVE  LET c == Stop(b)
         IN  /\ Follows(b, c) /\ SameQueue(b, c) /\ SameUpload(b, c)
             /\ Open(c) = Open(b) /\ c.stop
<1> DEFINE c == Stop(b)
<1>1. /\ c.sess = b.sess /\ c.closeFrame = b.closeFrame
      /\ SameQueue(b, c) /\ SameUpload(b, c) /\ c.stop
      /\ c.uploading = b.uploading /\ c.uploadedTime = b.uploadedTime
      /\ FlagFrame(b, c)
  BY DEF Stop, SameQueue, SameUpload, FlagFrame, Broker
<1> HIDE DEF c
<1>2. SessionFrame(b, c) /\ Open(c) = Open(b)
  BY <1>1, SameSessions
<1> QED
  BY <1>1, <1>2 DEF Follows, QueueFrame, UploadFrame, SameUpload, c

\* The sessions of S leave, and at the end of those that load nobody is left.
LEMMA DisconnectSessionsFollows ==
  ASSUME NEW b \in Broker, NEW S \in SUBSET Present(b),
         \A s \in S : ~InWaitDisconnected(b, s)
  PROVE  LET c == DisconnectSessions(b, S)
         IN  Follows(b, c) /\ SameUpload(b, c) /\ StopsWell(b, c)
<1> DEFINE others == Present(b) \ {MinOf(S)}
           failed == IF \A o \in others : ~IsLive(b, o) /\ ~InWaitDisconnected(b, o)
                     THEN {o \in others \ S :
                              b.sess[o] = "LOADING" /\ o \notin b.closeFrame}
                     ELSE {}
           sess   == [s \in Session |->
                        IF s \in S THEN "WAIT_DISCONNECT"
                        ELSE IF s \in failed THEN "absent" ELSE b.sess[s]]
           destr  == b.destroying \/ b.unloadRequested
           halt   == b.stop \/ (~b.loaded /\ Present(b) \ failed = S /\ Cardinality(S) = 1)
           m      == [type |-> "disconnect", sessions |-> S]
           queue  == Append(b.toKit, m)
           c      == [b EXCEPT !.sess = sess, !.expired = @ \ failed,
                               !.destroying = destr, !.stop = halt, !.toKit = queue]
<1>1. DisconnectSessions(b, S) = IF S = {} THEN b ELSE c
  BY DEF DisconnectSessions
<1>2. S \subseteq Session /\ failed \subseteq Session /\ failed \cap S = {}
  BY DEF Present
<1>3. m \in KitMessage
  BY <1>2 DEF KitMessage
<1>4. /\ c.sess = sess /\ c.closeFrame = b.closeFrame
      /\ c.destroying = destr /\ c.stop = halt /\ c.toKit = queue
      /\ c.saving = b.saving /\ c.modifyActivity = b.modifyActivity
      /\ SameUpload(b, c)
      /\ c.uploading = b.uploading /\ c.uploadedTime = b.uploadedTime
      /\ c.phase = b.phase /\ c.dataLoss = b.dataLoss
      /\ c.kitDisconnected = b.kitDisconnected /\ c.saveFailures = b.saveFailures
      /\ c.unloadRequested = b.unloadRequested
      /\ c.closeRequested = b.closeRequested
      /\ c.changedInStorage = b.changedInStorage
  <2> HIDE DEF others, failed, sess, destr, halt, m, queue
  <2> QED
    BY DEF SameUpload, Broker
<1> HIDE DEF others, failed, c
<1>5. \A s \in Session : c.sess[s] = IF s \in S THEN "WAIT_DISCONNECT"
                                     ELSE IF s \in failed THEN "absent" ELSE b.sess[s]
  BY <1>4
<1> HIDE DEF sess
<1>6. \A s \in Session : b.sess[s] = "absent" => s \notin S
  BY DEF Present
<1>7. SessionFrame(b, c)
  <2>1. \A s \in Session : b.sess[s] = "absent" => c.sess[s] = "absent"
    BY <1>5, <1>6
  <2>2. \A s \in Session : Here(c, s) => c.sess[s] = b.sess[s]
    BY <1>5 DEF Here
  <2>3. Open(c) \subseteq Open(b)
    BY <1>4, <1>5 DEF Open, Present, InWaitDisconnected
  <2> QED
    BY <2>1, <2>2, <2>3 DEF SessionFrame
<1>8. QueueFrame(b, c)
  <2>1. \A s \in S : ~Here(c, s)
    BY <1>2, <1>5 DEF Here
  <2>2. m.sessions = S /\ m.type = "disconnect"
    OBVIOUS
  <2>3. Sends(b, c, m)
    BY <1>4, <2>1, <2>2 DEF Sends
  <2> QED
    BY <1>3, <2>3 DEF QueueFrame
<1>9. UploadFrame(b, c) /\ FlagFrame(b, c)
  BY <1>4 DEF UploadFrame, FlagFrame, SameUpload
<1>10. StopsWell(b, c)
  <2>1. Present(b) \ failed = S => Open(c) = {}
    BY <1>5 DEF Open, Present, InWaitDisconnected
  <2> QED
    BY <1>4, <2>1 DEF StopsWell
<1>11. Follows(b, c) /\ SameUpload(b, c) /\ StopsWell(b, c)
  BY <1>4, <1>7, <1>8, <1>9, <1>10 DEF Follows
<1>12. Follows(b, b) /\ SameUpload(b, b) /\ StopsWell(b, b)
  BY FollowsSame DEF SameUpload
<1> QED
  BY <1>1, <1>11, <1>12

\* The sessions whose clients have gone leave once they are not waited for.
LEMMA DisconnectClosedSessionsFollows ==
  ASSUME NEW b \in Broker
  PROVE  LET c == DisconnectClosedSessions(b)
         IN  Follows(b, c) /\ SameUpload(b, c) /\ StopsWell(b, c)
<1> DEFINE S == {s \in Present(b) \cap b.closeFrame : ~InWaitDisconnected(b, s)}
<1>1. S \in SUBSET Present(b) /\ \A s \in S : ~InWaitDisconnected(b, s)
  OBVIOUS
<1> HIDE DEF S
<1>2. LET c == DisconnectSessions(b, S)
      IN  Follows(b, c) /\ SameUpload(b, c) /\ StopsWell(b, c)
  BY <1>1, DisconnectSessionsFollows
<1> QED
  BY <1>2 DEF DisconnectClosedSessions, S

\* A session is gone for good.
LEMMA FinalRemoveSessionFollows ==
  ASSUME NEW b \in Broker, NEW s \in Session
  PROVE  LET c == FinalRemoveSession(b, s)
         IN  Follows(b, c) /\ SameQueue(b, c) /\ SameUpload(b, c) /\ StopsWell(b, c)
<1> DEFINE c == FinalRemoveSession(b, s)
<1>1. /\ c.sess = [b.sess EXCEPT ![s] = "absent"]
      /\ c.closeFrame = b.closeFrame \ {s}
      /\ SameQueue(b, c) /\ SameUpload(b, c) /\ FlagFrame(b, c)
      /\ c.uploading = b.uploading /\ c.uploadedTime = b.uploadedTime
      /\ c.stop = b.stop
  BY DEF FinalRemoveSession, SameQueue, SameUpload, FlagFrame, Broker
<1> HIDE DEF c
<1>2. \A o \in Session : c.sess[o] = IF o = s THEN "absent" ELSE b.sess[o]
  BY <1>1 DEF Broker
<1>3. SessionFrame(b, c)
  BY <1>1, <1>2 DEF SessionFrame, Here, Open, Present, InWaitDisconnected
<1> QED
  BY <1>1, <1>3 DEF Follows, QueueFrame, UploadFrame, SameUpload, StopsWell, c

-----------------------------------------------------------------------------
(* Saving, and what follows a save. *)

\* A rename that is sent after a method that leaves the files alone.
LEMMA RenamesLater ==
  ASSUME NEW b, NEW c, NEW d, Follows(b, c), c.http = b.http, RenamesCurrent(c, d)
  PROVE  RenamesCurrent(b, d)
BY DEF Follows, UploadFrame, RenamesCurrent, IsStorageOutdated

\* A method that starts no upload sends no rename.
LEMMA RenamesNothing ==
  ASSUME NEW b, NEW c, c.http = b.http
  PROVE  RenamesCurrent(b, c)
BY DEF RenamesCurrent

\* After a save the document is uploaded, or renamed, or clients that have
\* left are disconnected.
LEMMA CheckAndUploadToStorageFollows ==
  ASSUME NEW b, Sound(b), NEW s \in Session, NEW justSaved, NEW canUpload
  PROVE  LET c == CheckAndUploadToStorage(b, s, justSaved, canUpload)
         IN  Follows(b, c) /\ StopsWell(b, c) /\ RenamesCurrent(b, c)
<1> DEFINE idle == IF b.activity = "Save" THEN EndActivity(b) ELSE b
           up   == UploadToStorage(idle, s, FALSE, canUpload)
           disc == DisconnectClosedSessions(idle)
           ren  == RenameInStorage(b)
           c    == CheckAndUploadToStorage(b, s, justSaved, canUpload)
<1>1. Alike(b, idle) /\ Sound(idle)
  BY EndActivityAlike, EndActivityKept, FollowsSame DEF Kept, Sound, SyncOrderly
<1>2. (c = ren /\ ReadyToRename(b)) \/ c = idle \/ c = up \/ c = disc
  BY DEF CheckAndUploadToStorage
<1> SUFFICES Follows(b, c) /\ StopsWell(b, c) /\ RenamesCurrent(b, c)
  OBVIOUS
<1> HIDE DEF idle, c
<1>3. CASE c = ren /\ ReadyToRename(b)
  <2>1. b.activity = "Rename" /\ ~IsStorageOutdated(b)
    BY <1>3 DEF ReadyToRename, NeedToUploadToStorage
  <2>2. Uploads(b, ren) /\ RenamesCurrent(b, ren)
    BY <2>1, RenameInStorageUploads
  <2> QED
    BY <1>3, <2>2, UploadsFollows
<1>4. CASE c = idle
  BY <1>1, <1>4, AlikeFollows
<1>5. CASE c = up
  <2>1. Uploads(idle, up) /\ RenamesCurrent(idle, up)
    BY <1>1, UploadToStorageUploads
  <2> HIDE DEF up
  <2>2. Uploads(b, up) /\ RenamesCurrent(b, up)
    BY <1>1, <2>1, AlikeTwice
  <2> QED
    BY <1>5, <2>2, UploadsFollows
<1>6. CASE c = disc
  <2>1. Follows(idle, disc) /\ SameUpload(idle, disc) /\ StopsWell(idle, disc)
    BY <1>1, DisconnectClosedSessionsFollows DEF Sound
  <2> HIDE DEF disc
  <2> QED
    BY <1>1, <1>6, <2>1, AlikeThen, RenamesNothing
<1> QED
  BY <1>2, <1>3, <1>4, <1>5, <1>6

\* The document is in conflict with the one of the host.
LEMMA HandleDocumentConflictFollows ==
  ASSUME NEW b \in Broker
  PROVE  LET c == HandleDocumentConflict(b)
         IN  Follows(b, c) /\ SameUpload(b, c) /\ StopsWell(b, c)
<1> DEFINE c == HandleDocumentConflict(b)
<1>1. /\ c.sess = b.sess /\ c.closeFrame = b.closeFrame
      /\ SameQueue(b, c) /\ SameUpload(b, c) /\ FlagFrame(b, c)
      /\ c.uploading = b.uploading /\ c.uploadedTime = b.uploadedTime
      /\ c.changedInStorage
  BY DEF HandleDocumentConflict, SameQueue, SameUpload, FlagFrame, Broker
<1> HIDE DEF c
<1>2. SessionFrame(b, c)
  BY <1>1, SameSessions
<1> QED
  BY <1>1, <1>2 DEF Follows, QueueFrame, UploadFrame, SameUpload, StopsWell, c

\* The document is closed.
LEMMA CloseDocumentFollows ==
  ASSUME NEW b \in Broker
  PROVE  LET c == CloseDocument(b)
         IN  Follows(b, c) /\ SameUpload(b, c) /\ SameQueue(b, c) /\ StopsWell(b, c)
<1> DEFINE c == CloseDocument(b)
<1>1. /\ c.sess = b.sess /\ c.closeFrame = b.closeFrame
      /\ SameQueue(b, c) /\ SameUpload(b, c) /\ FlagFrame(b, c)
      /\ c.uploading = b.uploading /\ c.uploadedTime = b.uploadedTime
      /\ c.closeRequested
  BY DEF CloseDocument, SameQueue, SameUpload, FlagFrame, Broker
<1> HIDE DEF c
<1>2. SessionFrame(b, c)
  BY <1>1, SameSessions
<1> QED
  BY <1>1, <1>2 DEF Follows, QueueFrame, UploadFrame, SameUpload, StopsWell, c

\* A save is sent to the Kit, and nothing else happens.
LEMMA SendUnoSaveFollows ==
  ASSUME NEW b \in Broker, NEW s \in Present(b), NEW force \in BOOLEAN
  PROVE  LET c == SendUnoSave(b, s, force)
         IN  Follows(b, c) /\ SameUpload(b, c) /\ StopsWell(b, c)
<1> DEFINE m == [type |-> IF force THEN "forcedsave" ELSE "save", sessions |-> {s}]
           c == SendUnoSave(b, s, force)
<1>1. m \in KitMessage /\ m.sessions = {s} /\ IsSave(m)
  BY DEF KitMessage, Present, IsSave
<1>2. /\ c.sess = b.sess /\ c.closeFrame = b.closeFrame
      /\ c.toKit = Append(b.toKit, m) /\ c.saving /\ ~c.modifyActivity
      /\ SameUpload(b, c) /\ FlagFrame(b, c)
      /\ c.uploading = b.uploading /\ c.uploadedTime = b.uploadedTime
      /\ c.stop = b.stop
  <2> HIDE DEF m
  <2> QED
    BY DEF SendUnoSave, SameUpload, FlagFrame, Broker, m
<1> HIDE DEF c, m
<1>3. SessionFrame(b, c)
  BY <1>2, SameSessions
<1>4. Sends(b, c, m)
  BY <1>1, <1>2 DEF Sends
<1> QED
  BY <1>1, <1>2, <1>3, <1>4 DEF Follows, QueueFrame, UploadFrame, SameUpload,
                                StopsWell, c

\* A client asks for the save.
LEMMA ManualSaveFollows ==
  ASSUME NEW b \in Broker, NEW s \in Present(b), NEW force \in BOOLEAN
  PROVE  LET c == ManualSave(b, s, force)
         IN  Follows(b, c) /\ SameUpload(b, c) /\ StopsWell(b, c)
<1>1. Follows(b, b) /\ SameUpload(b, b) /\ StopsWell(b, b)
  BY FollowsSame DEF SameUpload
<1> QED
  BY <1>1, SendUnoSaveFollows DEF ManualSave

\* The broker saves with a session that is there.
LEMMA AutoSaveFollows ==
  ASSUME NEW b \in Broker, NEW force
  PROVE  LET c == AutoSave(b, force)
         IN  Follows(b, c) /\ SameUpload(b, c) /\ StopsWell(b, c)
<1>1. CASE AutoSaves(b, force) /\ b.activity # "Save"
  <2>1. Present(b) # {}
    BY <1>1 DEF AutoSaves, CanSaveToDisk
  <2>2. WriteableSession(b) \in Present(b)
    BY <2>1, WriteableSessionType
  <2>3. b.lastEditing # NoSession => b.lastEditing \in Session
    BY BrokerConstants DEF Broker, SessionOrNone, Session, NoSession
  <2>4. SavingSession(b) \in Present(b)
    BY <2>2, <2>3 DEF SavingSession, Present, IsViewLoaded
  <2> HIDE DEF SavingSession
  <2>5. LET c == SendUnoSave(b, SavingSession(b), FALSE)
        IN  Follows(b, c) /\ SameUpload(b, c) /\ StopsWell(b, c)
    BY <2>4, SendUnoSaveFollows
  <2> QED
    BY <1>1, <2>5 DEF AutoSave
<1>2. CASE ~(AutoSaves(b, force) /\ b.activity # "Save")
  <2>1. AutoSave(b, force) = b
    BY <1>2 DEF AutoSave
  <2> QED
    BY <2>1, FollowsSame DEF SameUpload
<1> QED
  BY <1>1, <1>2

\* A rename begins with a save, or ends at once.
LEMMA StartRenameFileCommandFollows ==
  ASSUME NEW b \in Broker
  PROVE  LET c == StartRenameFileCommand(b)
         IN  Follows(b, c) /\ c.http = b.http /\ StopsWell(b, c)
<1> DEFINE r == [b EXCEPT !.activity = "Rename"]
           e == EndRenameFileCommand(r)
           c == SendUnoSave(r, b.renameSession, FALSE)
<1>1. r \in Broker /\ Alike(b, r) /\ r.sess = b.sess
  BY DEF Broker, Activity, Alike, SameButUpload, SameQueue
<1>2. StartRenameFileCommand(b) = IF b.renameSession \notin Present(b) THEN e ELSE c
  BY DEF StartRenameFileCommand
<1> HIDE DEF r
<1>3. Present(r) = Present(b)
  BY <1>1 DEF Present
<1>4. Alike(b, e)
  BY <1>1, EndRenameFileCommandAlike, AlikeTwice
<1>5. b.renameSession \in Present(b) =>
        Follows(r, c) /\ SameUpload(r, c) /\ StopsWell(r, c)
  BY <1>1, <1>3, SendUnoSaveFollows
<1> HIDE DEF e, c
<1> QED
  BY <1>1, <1>2, <1>4, <1>5, AlikeFollows, AlikeThen

-----------------------------------------------------------------------------
(* Unloading. *)

\* A document that may stop is stopped; else it is saved or uploaded first.
LEMMA AutoSaveAndStopFollows ==
  ASSUME NEW b, Sound(b), NEW modifiedStale, NEW canSave, NEW canUpload
  PROVE  LET c == AutoSaveAndStop(b, modifiedStale, canSave, canUpload)
         IN  Follows(b, c) /\ RenamesCurrent(b, c)
<1> DEFINE s == WriteableSession(b)
           force == IsPossiblyModified(b) \/ ~LastSaveSuccessful(b)
           check == CheckAndUploadToStorage(b, s, FALSE, canUpload)
           saved == AutoSave(b, force)
           c == AutoSaveAndStop(b, modifiedStale, canSave, canUpload)
<1>1. Follows(b, Stop(b)) /\ RenamesCurrent(b, Stop(b))
  BY StopFollows, RenamesNothing DEF Sound, SameUpload
<1>2. s # NoSession => s \in Session
  BY WriteableSessionType DEF Present
<1>3. s # NoSession => Follows(b, check) /\ RenamesCurrent(b, check)
  BY <1>2, CheckAndUploadToStorageFollows
<1>4. Follows(b, saved) /\ RenamesCurrent(b, saved)
  BY AutoSaveFollows, RenamesNothing DEF Sound, SameUpload
<1>5. Follows(b, b) /\ RenamesCurrent(b, b)
  BY FollowsSame
<1>6. \/ c = b \/ c = Stop(b) \/ c = saved
      \/ s # NoSession /\ c = check
  BY DEF AutoSaveAndStop, SaveOrUploadBeforeStop
<1> HIDE DEF s, check, saved, c
<1> QED
  BY <1>1, <1>3, <1>4, <1>5, <1>6 DEF c

\* A failed upload is tried again.
LEMMA RetryUploadFollows ==
  ASSUME NEW b, Sound(b), NEW canUpload
  PROVE  LET c == RetryUpload(b, canUpload)
         IN  Follows(b, c) /\ StopsWell(b, c) /\ RenamesCurrent(b, c)
<1>1. WriteableSession(b) # NoSession => WriteableSession(b) \in Session
  BY WriteableSessionType DEF Present
<1>2. WriteableSession(b) # NoSession =>
        LET c == CheckAndUploadToStorage(b, WriteableSession(b), FALSE, canUpload)
        IN  Follows(b, c) /\ StopsWell(b, c) /\ RenamesCurrent(b, c)
  BY <1>1, CheckAndUploadToStorageFollows
<1> QED
  BY <1>2, FollowsSame DEF RetryUpload

\* The housekeeping stops only a document that nobody uses, that is closed or
\* that is to be unloaded.
LEMMA PollIdleFollows ==
  ASSUME NEW b, Sound(b), NEW modifiedStale, NEW canSave, NEW canUpload
  PROVE  LET c == PollIdle(b, modifiedStale, canSave, canUpload)
         IN  Follows(b, c) /\ StopsWell(b, c) /\ RenamesCurrent(b, c)
<1> DEFINE h == Stop(b)
           c1 == AutoSaveAndStop(h, modifiedStale, canSave, canUpload)
           c2 == AutoSaveAndStop(b, modifiedStale, canSave, canUpload)
           retry == RetryUpload(b, canUpload)
           wanted == Present(b) = {} \/ b.unloadRequested \/ b.closeRequested
           c == PollIdle(b, modifiedStale, canSave, canUpload)
<1>1. /\ Follows(b, h) /\ SameQueue(b, h) /\ h.http = b.http
      /\ RenamesCurrent(b, h) /\ Sound(h)
  BY StopFollows, StopKept, RenamesNothing DEF Kept, Sound, SameUpload
<1>2. \/ c = b \/ c = retry
      \/ wanted /\ c \in {h, c1, c2}
  BY DEF PollIdle, UnloadWanted
<1> HIDE DEF h, c, wanted
<1>3. Follows(h, c1) /\ RenamesCurrent(h, c1)
  BY <1>1, AutoSaveAndStopFollows
<1>4. Follows(b, c2) /\ RenamesCurrent(b, c2)
  BY AutoSaveAndStopFollows
<1>5. Follows(b, retry) /\ StopsWell(b, retry) /\ RenamesCurrent(b, retry)
  BY RetryUploadFollows
<1> HIDE DEF c1, c2, retry
<1>6. Follows(b, c1) /\ RenamesCurrent(b, c1)
  BY <1>1, <1>3, FollowsTwice, RenamesLater
<1>7. ASSUME NEW d, wanted, Follows(b, d)
      PROVE  StopsWell(b, d)
  <2>1. Present(b) = {} => Open(d) = {}
    BY <1>7 DEF Follows, SessionFrame, Open
  <2> QED
    BY <1>7, <2>1 DEF wanted, Follows, FlagFrame, StopsWell
<1> QED
  BY <1>1, <1>2, <1>4, <1>5, <1>6, <1>7, FollowsSame DEF c

-----------------------------------------------------------------------------
(* The answers of the host. *)

\* What an answer says of the upload: it is over, and if it was a PUT that has
\* succeeded, the Storage has the version that the request names.
Answered(b, result) ==
    LET stored == result = "OK" /\ b.request.kind = "put"
    IN  [b EXCEPT !.http = NoHttpSession,
                  !.uploadedTime = IF stored THEN b.request.mtime ELSE @,
                  !.changedInStorage = @ /\ ~stored]

\* After a success the clients that were kept for it leave, and a document
\* that nobody uses is stopped.
LEMMA HandleUploadToStorageSuccessfulFollows ==
  ASSUME NEW b, Sound(b),
         b.request.kind = "rename" => b.checkFileInfo # "running"
  PROVE  LET u == IF b.request.kind = "put" THEN UploadedVersion(b) ELSE b
             c == HandleUploadToStorageSuccessful(b)
         IN  /\ Follows(u, c) /\ StopsWell(u, c)
             /\ c.http = u.http \/ b.request.kind = "put"
<1> DEFINE u        == IF b.request.kind = "put" THEN UploadedVersion(b) ELSE b
           stored   == CASE b.request.kind = "put" ->
                              IF b.activity = "Rename"
                              THEN RenameInStorage(UploadedVersion(b))
                              ELSE UploadedVersion(b)
                         [] b.request.kind = "rename" -> EndRenameFileCommand(b)
                         [] OTHER -> b
           d        == stored.destroying \/ b.unloadRequested
           marked   == [stored EXCEPT !.destroying = d]
           stopping == (marked.destroying \/ Present(marked) = {})
                       /\ ~IsPossiblyModified(marked)
           h        == IF stopping THEN Stop(marked) ELSE marked
           c        == DisconnectClosedSessions(h)
<1>1. HandleUploadToStorageSuccessful(b) = c
  BY DEF HandleUploadToStorageSuccessful
<1>2. /\ Sound(UploadedVersion(b)) /\ Same(b, UploadedVersion(b))
      /\ UploadedVersion(b).unloadRequested = b.unloadRequested
  BY UploadedVersionKept DEF Kept, UploadedVersion, Sound, Broker
<1>3. u.unloadRequested = b.unloadRequested
  BY <1>2
<1>4. /\ Sound(stored) /\ Uploads(u, stored)
      /\ stored.http = u.http \/ b.request.kind = "put"
  <2>1. CASE b.request.kind = "put" /\ b.activity = "Rename"
    <3> DEFINE v == UploadedVersion(b)
    <3> HIDE DEF v
    <3>1. Sound(v) /\ v.activity = "Rename"
      BY <1>2, <2>1 DEF v, Same
    <3>2. Sound(RenameInStorage(v)) /\ Uploads(v, RenameInStorage(v))
      BY <3>1, RenameInStorageKept, RenameInStorageUploads DEF Kept
    <3> QED
      BY <2>1, <3>2 DEF v
  <2>2. CASE b.request.kind = "put" /\ b.activity # "Rename"
    BY <1>2, <2>2, FollowsSame, AlikeUploads
  <2>3. CASE b.request.kind = "rename"
    <3>1. /\ Sound(EndRenameFileCommand(b)) /\ Alike(b, EndRenameFileCommand(b))
          /\ Uploads(b, EndRenameFileCommand(b))
      BY <2>3, EndRenameFileCommandKept, EndRenameFileCommandAlike, AlikeUploads
      DEF Kept, Sound
    <3> QED
      BY <2>3, <3>1 DEF Alike
  <2>4. CASE b.request.kind # "put" /\ b.request.kind # "rename"
    BY <2>4, FollowsSame, AlikeUploads
  <2> QED
    BY <2>1, <2>2, <2>3, <2>4
<1> HIDE DEF u, stored
<1>5. /\ Follows(u, stored) /\ SameQueue(u, stored) /\ StopsWell(u, stored)
      /\ stored.unloadRequested = u.unloadRequested
      /\ stored.destroying = u.destroying /\ stored.stop = u.stop
  BY <1>4, UploadsFollows DEF Uploads, SameButUpload
<1>6. /\ marked \in Broker /\ Follows(stored, marked)
      /\ SameQueue(stored, marked) /\ SameUpload(stored, marked)
      /\ marked.destroying = d /\ marked.stop = stored.stop
  <2>1. stored \in Broker /\ d \in BOOLEAN
    BY <1>4 DEF Sound, Broker
  <2>2. d => stored.destroying \/ stored.unloadRequested
    BY <1>3, <1>5
  <2> HIDE DEF d
  <2>3. marked \in Broker
    BY <2>1 DEF Broker
  <2>4. /\ marked.sess = stored.sess /\ marked.closeFrame = stored.closeFrame
        /\ SameQueue(stored, marked) /\ SameUpload(stored, marked)
        /\ marked.uploading = stored.uploading
        /\ marked.uploadedTime = stored.uploadedTime
        /\ FlagFrame(stored, marked)
        /\ marked.destroying = d /\ marked.stop = stored.stop
    BY <2>1, <2>2 DEF SameQueue, SameUpload, FlagFrame, Broker
  <2> HIDE DEF marked
  <2>5. SessionFrame(stored, marked)
    BY <2>4, SameSessions
  <2> QED
    BY <2>3, <2>4, <2>5 DEF Follows, QueueFrame, UploadFrame, SameUpload
<1>7. Follows(u, marked) /\ SameQueue(u, marked) /\ marked.stop = u.stop
  BY <1>5, <1>6, FollowsTwice DEF SameQueue
<1> HIDE DEF marked
<1>8. /\ Stop(marked) \in Broker /\ Follows(marked, Stop(marked))
      /\ SameQueue(marked, Stop(marked)) /\ SameUpload(marked, Stop(marked))
      /\ Open(Stop(marked)) = Open(marked)
  <2>1. Stop(marked) \in Broker
    BY <1>6 DEF Stop, Broker
  <2> QED
    BY <1>6, <2>1, StopFollows
<1>9. /\ h \in Broker /\ Follows(marked, h) /\ SameQueue(marked, h)
      /\ SameUpload(marked, h)
  BY <1>6, <1>8, FollowsSame DEF SameQueue, SameUpload
<1>10. StopsWell(u, h)
  <2>1. CASE stopping
    <3>1. marked.destroying => u.destroying \/ u.unloadRequested
      BY <1>3, <1>5, <1>6
    <3>2. Present(marked) = {} => Open(h) = {}
      BY <1>8, <2>1 DEF Open
    <3> QED
      BY <2>1, <3>1, <3>2 DEF StopsWell
  <2>2. CASE ~stopping
    BY <1>7, <2>2 DEF StopsWell
  <2> QED
    BY <2>1, <2>2
<1> HIDE DEF h
<1>11. Follows(u, h) /\ SameQueue(u, h) /\ h.http = stored.http
  BY <1>6, <1>7, <1>9, FollowsTwice DEF SameQueue, SameUpload
<1>12. Follows(h, c) /\ SameUpload(h, c) /\ StopsWell(h, c)
  BY <1>9, DisconnectClosedSessionsFollows
<1> HIDE DEF c
<1>13. Follows(u, c) /\ StopsWell(u, c) /\ c.http = stored.http
  BY <1>10, <1>11, <1>12, FollowsTwice, StopsTwice DEF SameUpload
<1> QED
  BY <1>1, <1>4, <1>13 DEF u

\* After a failure nothing that a frame is about changes, but for a conflict.
LEMMA HandleUploadToStorageFailedFollows ==
  ASSUME NEW b, Sound(b),
         NEW result \in {"FAILED", "TOO_LARGE", "UNAUTHORIZED", "CONFLICT"}
  PROVE  LET c == HandleUploadToStorageFailed(b, result)
         IN  Follows(b, c) /\ StopsWell(b, c) /\ c.http = b.http
<1> DEFINE e    == IF b.activity = "Rename" THEN EndRenameFileCommand(b) ELSE b
           who  == {b.request.session} \cap Present(b)
           big  == [e EXCEPT !.editable = {}]
           exp  == [e EXCEPT !.expired = @ \cup who]
           sync == [e EXCEPT !.activity = "SyncFileTimestamp"]
           conf == HandleDocumentConflict(e)
           c    == HandleUploadToStorageFailed(b, result)
<1>1. Alike(b, e) /\ e \in Broker
  <2>1. b.activity = "Rename" => b.checkFileInfo # "running"
    BY DEF Sound, SyncOrderly
  <2> QED
    BY <2>1, EndRenameFileCommandAlike, EndRenameFileCommandKept, FollowsSame
    DEF Kept, Sound
<1>2. c = big \/ c = exp \/ c = sync \/ c = conf
  BY DEF HandleUploadToStorageFailed
<1> HIDE DEF e, who, c
<1>3. Alike(e, big) /\ Alike(e, exp) /\ Alike(e, sync)
  BY <1>1 DEF Alike, SameButUpload, SameQueue, Broker
<1>4. Follows(e, conf) /\ SameUpload(e, conf) /\ StopsWell(e, conf)
  BY <1>1, HandleDocumentConflictFollows
<1> HIDE DEF big, exp, sync, conf
<1>5. c = conf \/ Alike(b, c)
  BY <1>1, <1>2, <1>3, AlikeTwice
<1>6. Follows(b, c) /\ StopsWell(b, c) /\ c.http = b.http
  BY <1>1, <1>4, <1>5, AlikeThen, AlikeFollows
<1> QED
  BY <1>6 DEF c

\* So every answer only adds to what it says.
LEMMA HandleUploadToStorageResponseFollows ==
  ASSUME NEW b, Sound(b), IsAsyncUploading(b),
         NEW result \in UploadResults \cup {"OK"}
  PROVE  LET a == Answered(b, result)
             c == HandleUploadToStorageResponse(b, result)
         IN  /\ Follows(a, c) /\ StopsWell(a, c)
             /\ c.http = NoHttpSession \/ (result = "OK" /\ b.request.kind = "put")
<1> DEFINE retired == [b EXCEPT !.http = NoHttpSession]
           comp    == [retired EXCEPT !.request.complete = TRUE]
           full    == SetLastUploadResult(comp, result = "OK")
           u       == IF b.request.kind = "put" THEN UploadedVersion(full) ELSE full
           a       == Answered(b, result)
           c       == HandleUploadToStorageResponse(b, result)
<1>1. /\ retired \in Broker
      /\ retired.http = NoHttpSession /\ NoHttpSession.kind = "none"
      /\ retired.uploading = b.uploading /\ retired.activity = b.activity
      /\ retired.checkFileInfo = b.checkFileInfo /\ retired.request = b.request
  <2>1. NoHttpSession \in HttpSession /\ NoHttpSession.kind = "none"
    BY DEF NoHttpSession, HttpSession, UploadKind, NoFile, File, MTime
  <2>2. retired \in Broker
    BY <2>1 DEF Sound, Broker
  <2> QED
    BY <2>1, <2>2 DEF Sound, Broker
<1>2. \/ c = AsyncUploadError(retired) /\ result # "OK"
      \/ c = retired /\ ~(result = "OK" /\ b.request.kind = "put")
      \/ result = "OK" /\ c = HandleUploadToStorageSuccessful(full)
      \/ /\ result \in {"FAILED", "TOO_LARGE", "UNAUTHORIZED", "CONFLICT"}
         /\ c = HandleUploadToStorageFailed(full, result)
  BY DEF HandleUploadToStorageResponse, UploadResults
<1>3. ~(result = "OK" /\ b.request.kind = "put") => Alike(retired, a) /\ Alike(a, retired)
  BY DEF Answered, Alike, SameButUpload, SameQueue, Sound, Broker
<1>4. result = "OK" /\ b.request.kind = "put" =>
        /\ Alike(a, UploadedVersion(retired))
        /\ UploadedVersion(retired) \in Broker
  <2>1. b.request.mtime \in MTime
    BY DEF Sound, Broker, UploadRequest
  <2>2. UploadedVersion(retired) \in Broker
    BY <1>1, <2>1 DEF UploadedVersion, Broker
  <2>3. result = "OK" /\ b.request.kind = "put" => Alike(a, UploadedVersion(retired))
    BY DEF Answered, UploadedVersion, Alike, SameButUpload, SameQueue, Sound, Broker
  <2> QED
    BY <2>2, <2>3
<1>5. a.http = NoHttpSession
  BY DEF Answered, Sound, Broker
<1> SUFFICES /\ Follows(a, c) /\ StopsWell(a, c)
             /\ c.http = NoHttpSession \/ (result = "OK" /\ b.request.kind = "put")
  OBVIOUS
<1> HIDE DEF retired, a, c
<1>6. Sound(retired)
  BY <1>1 DEF Sound, SyncOrderly, IsAsyncUploading
<1>7. /\ Sound(comp) /\ Alike(retired, comp)
      /\ comp.checkFileInfo = retired.checkFileInfo /\ comp.http = retired.http
      /\ comp.request.kind = retired.request.kind
      /\ comp.request.mtime = retired.request.mtime
  <2>1. comp.request.mtime = retired.request.mtime
    BY <1>1 DEF Broker, UploadRequest
  <2> QED
    BY <1>1, <1>6, <2>1, CompleteKept, CompleteAlike DEF Kept
<1> HIDE DEF comp
<1>8. Sound(full) /\ Same(comp, full) /\ Alike(comp, full)
  BY <1>7, SetLastUploadResultKept, SetLastUploadResultAlike DEF Kept, Sound
<1> HIDE DEF full
<1>9. /\ Alike(retired, full)
      /\ full.http = NoHttpSession /\ full.request.kind = b.request.kind
      /\ full.request.mtime = b.request.mtime
      /\ full.checkFileInfo = b.checkFileInfo
  BY <1>1, <1>7, <1>8, AlikeTwice DEF Same
<1>10. CASE c = AsyncUploadError(retired) /\ result # "OK"
  <2>1. Alike(retired, AsyncUploadError(retired))
    BY <1>6, AsyncUploadErrorAlike
  <2> HIDE DEF AsyncUploadError
  <2>2. Alike(a, c)
    BY <1>3, <1>10, <2>1, AlikeTwice
  <2> QED
    BY <1>5, <2>2, AlikeFollows
<1>11. CASE c = retired /\ ~(result = "OK" /\ b.request.kind = "put")
  BY <1>3, <1>5, <1>11, AlikeFollows
<1>12. CASE /\ result \in {"FAILED", "TOO_LARGE", "UNAUTHORIZED", "CONFLICT"}
            /\ c = HandleUploadToStorageFailed(full, result)
  <2>1. Follows(full, c) /\ StopsWell(full, c) /\ c.http = full.http
    BY <1>8, <1>12, HandleUploadToStorageFailedFollows
  <2>2. Alike(a, full)
    BY <1>3, <1>9, <1>12, AlikeTwice
  <2> QED
    BY <1>9, <2>1, <2>2, AlikeThen
<1>13. CASE result = "OK" /\ c = HandleUploadToStorageSuccessful(full)
  <2>1. b.request.kind = "rename" => b.checkFileInfo # "running"
    BY DEF Sound, SyncOrderly
  <2>2. Follows(u, c) /\ StopsWell(u, c) /\ (c.http = u.http \/ b.request.kind = "put")
    BY <1>8, <1>9, <1>13, <2>1, HandleUploadToStorageSuccessfulFollows
  <2>3. Alike(a, u) /\ (b.request.kind = "put" \/ u.http = NoHttpSession)
    <3>1. CASE b.request.kind # "put"
      BY <1>3, <1>9, <3>1, AlikeTwice
    <3>2. CASE b.request.kind = "put"
      <4>1. full \in Broker /\ retired \in Broker
        BY <1>1, <1>8 DEF Sound
      <4>2. Alike(UploadedVersion(retired), UploadedVersion(full))
        BY <1>1, <1>9, <4>1 DEF UploadedVersion, Alike, SameButUpload, SameQueue, Broker
      <4> HIDE DEF UploadedVersion
      <4> QED
        BY <1>4, <1>13, <3>2, <4>2, AlikeTwice
    <3> QED
      BY <3>1, <3>2
  <2> HIDE DEF u
  <2> QED
    BY <1>13, <2>2, <2>3, AlikeThen
<1> QED
  BY <1>2, <1>10, <1>11, <1>12, <1>13

-----------------------------------------------------------------------------
(* The client's leaving. *)

\* What every handler of the broker does to the flags.  Only the leaving of a
\* client asks to unload; it is observed when that is wrong.
StepFlags(b, c) ==
    /\ c.phase = b.phase
    /\ c.dataLoss = b.dataLoss
    /\ c.kitDisconnected = b.kitDisconnected
    /\ c.saveFailures = b.saveFailures
    /\ c.destroying => b.destroying \/ b.unloadRequested \/ Open(c) = {}
    /\ b.closeRequested => c.closeRequested
    /\ b.stop => c.stop
    /\ StopsWell(b, c)

\* A method that follows, and stops for a reason, is such a handler.
LEMMA FollowsFlags ==
  ASSUME NEW b, NEW c, Follows(b, c), StopsWell(b, c)
  PROVE  /\ SessionFrame(b, c) /\ QueueFrame(b, c)
         /\ UploadFrame(b, c) /\ StepFlags(b, c)
BY DEF Follows, FlagFrame, StepFlags

\* The leaving of a client saves, disconnects its session or removes it, and
\* sets flags; it uploads nothing.
LEMMA RemoveSessionFrames ==
  ASSUME NEW b, Sound(b), NEW s \in Present(b)
  PROVE  LET c == RemoveSession(b, s)
         IN  /\ SessionFrame(b, c) /\ QueueFrame(b, c)
             /\ UploadFrame(b, c) /\ c.http = b.http /\ StepFlags(b, c)
<1> DEFINE lastEditable == IsEditable(b, s) /\ ~HaveAnotherEditableSession(b, s)
           force        == AlwaysSaveOnExit \/ IsPossiblyModified(b)
           autoSaved    == IF lastEditable /\ ~b.saving THEN AutoSave(b, force) ELSE b
           kept         == lastEditable /\ (b.saving \/ AutoSaves(b, force))
           marked       == [b EXCEPT !.destroying = @ \/ b.unloadRequested]
           removed      == IF kept THEN autoSaved
                           ELSE IF InWaitDisconnected(b, s)
                           THEN FinalRemoveSession(marked, s)
                           ELSE DisconnectSessions(b, {s})
           busy         == removed.saving \/ IsAsyncUploading(removed)
           lastView     == Cardinality(ActiveSessions(b)) <= 1
           unload       == removed.unloadRequested \/ (lastView /\ busy)
           gone         == lastView /\ ~busy /\ Present(removed) = {}
           frames       == removed.closeFrame \cup ({s} \cap Present(removed))
           c            == RemoveSession(b, s)
<1>1. c = [removed EXCEPT !.unloadRequested = unload,
                          !.destroying = @ \/ gone,
                          !.closeFrame = frames]
  BY DEF RemoveSession
<1>2. s \in Session /\ b \in Broker
  BY DEF Present, Sound
<1>3. /\ autoSaved \in Broker /\ Follows(b, autoSaved) /\ autoSaved.http = b.http
      /\ StopsWell(b, autoSaved)
  BY <1>2, AutoSaveKept, AutoSaveFollows, FollowsSame DEF Kept, Sound, SameUpload
<1>4. /\ marked \in Broker /\ Follows(b, marked) /\ marked.http = b.http
      /\ SameQueue(b, marked) /\ StopsWell(b, marked)
  <2>1. marked \in Broker
    BY <1>2 DEF Broker
  <2>2. /\ marked.sess = b.sess /\ marked.closeFrame = b.closeFrame
        /\ SameQueue(b, marked) /\ SameUpload(b, marked) /\ FlagFrame(b, marked)
        /\ marked.uploading = b.uploading /\ marked.uploadedTime = b.uploadedTime
        /\ marked.stop = b.stop
    BY <1>2 DEF SameQueue, SameUpload, FlagFrame, Broker
  <2> HIDE DEF marked
  <2>3. SessionFrame(b, marked)
    BY <2>2, SameSessions
  <2> QED
    BY <2>1, <2>2, <2>3 DEF Follows, QueueFrame, UploadFrame, SameUpload, StopsWell
<1> HIDE DEF marked
<1>5. LET d == FinalRemoveSession(marked, s)
      IN  /\ d \in Broker /\ Follows(b, d) /\ d.http = b.http
          /\ StopsWell(b, d)
  <2> DEFINE d == FinalRemoveSession(marked, s)
  <2>1. d \in Broker
    BY <1>2, <1>4 DEF FinalRemoveSession, Broker, SessionState
  <2>2. Follows(marked, d) /\ SameQueue(marked, d) /\ SameUpload(marked, d)
        /\ StopsWell(marked, d)
    BY <1>2, <1>4, FinalRemoveSessionFollows
  <2> HIDE DEF d
  <2>3. Follows(b, d) /\ StopsWell(b, d) /\ d.http = b.http
    BY <1>4, <2>2, FollowsTwice, StopsTwice DEF SameUpload
  <2> QED
    BY <2>1, <2>3 DEF d
<1>6. ~InWaitDisconnected(b, s) =>
        LET d == DisconnectSessions(b, {s})
        IN  /\ d \in Broker /\ Follows(b, d) /\ d.http = b.http
            /\ StopsWell(b, d)
  <2>1. {s} \in SUBSET Session /\ {s} \in SUBSET Present(b)
    BY <1>2
  <2>2. DisconnectSessions(b, {s}) \in Broker
    BY <2>1, DisconnectSessionsKept DEF Kept, Sound
  <2> QED
    BY <1>2, <2>1, <2>2, DisconnectSessionsFollows DEF SameUpload
<1> HIDE DEF autoSaved, kept
<1>7. /\ removed \in Broker /\ Follows(b, removed) /\ removed.http = b.http
      /\ StopsWell(b, removed)
  <2>1. CASE kept
    BY <1>3, <2>1
  <2>2. CASE ~kept /\ InWaitDisconnected(b, s)
    BY <1>5, <2>2
  <2>3. CASE ~kept /\ ~InWaitDisconnected(b, s)
    BY <1>6, <2>3
  <2> QED
    BY <2>1, <2>2, <2>3
<1> HIDE DEF removed
<1>8. gone => Present(removed) = {}
  OBVIOUS
<1> HIDE DEF unload, gone, busy
<1>9. /\ c.sess = removed.sess
      /\ c.closeFrame = frames
      /\ SameQueue(removed, c) /\ SameUpload(removed, c)
      /\ c.uploading = removed.uploading /\ c.uploadedTime = removed.uploadedTime
      /\ c.phase = removed.phase /\ c.dataLoss = removed.dataLoss
      /\ c.kitDisconnected = removed.kitDisconnected
      /\ c.saveFailures = removed.saveFailures
      /\ c.destroying = (removed.destroying \/ gone)
      /\ c.closeRequested = removed.closeRequested
      /\ c.changedInStorage = removed.changedInStorage
      /\ c.stop = removed.stop
  <2> HIDE DEF frames
  <2> QED
    BY <1>1, <1>7 DEF Broker, SameQueue, SameUpload
<1> SUFFICES /\ SessionFrame(b, c) /\ QueueFrame(b, c)
             /\ UploadFrame(b, c) /\ c.http = b.http /\ StepFlags(b, c)
  OBVIOUS
<1> HIDE DEF c
<1>10. Present(c) = Present(removed) /\ Open(c) \subseteq Open(removed)
  BY <1>9 DEF Open, Present, InWaitDisconnected
<1>11. SessionFrame(b, c)
  BY <1>7, <1>9, <1>10 DEF Follows, SessionFrame, Here
<1>12. QueueFrame(b, c)
  BY <1>7, <1>9 DEF Follows, QueueFrame, SameQueue, Sends, Here
<1>13. UploadFrame(b, c) /\ c.http = b.http
  BY <1>7, <1>9 DEF Follows, UploadFrame, SameUpload
<1>14. gone => Open(c) = {}
  BY <1>8, <1>10 DEF Open
<1>15. StopsWell(b, c)
  BY <1>7, <1>9, <1>10 DEF StopsWell
<1>16. StepFlags(b, c)
  BY <1>7, <1>9, <1>14, <1>15 DEF Follows, FlagFrame, StepFlags
<1> QED
  BY <1>11, <1>12, <1>13, <1>16
=============================================================================

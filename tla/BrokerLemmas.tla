---------------------------- MODULE BrokerLemmas ----------------------------
(***************************************************************************)
(* What the methods of the broker keep, whatever the members they start    *)
(* from.  A method is a function on the members, so there is one lemma for *)
(* each: it keeps the members Sound, which are their types and the order   *)
(* of checkFileInfo, and leaves the files alone but for an upload that it  *)
(* starts (FileFrame).  The lemma of a method cites the lemmas of the      *)
(* methods it calls.                                                       *)
(***************************************************************************)
EXTENDS DocumentBroker, QueueLemmas, TLAPS

Sound(b) == b \in Broker /\ SyncOrderly(b)

FileFrame(b, c) ==
    /\ c.uploading = b.uploading
    /\ \/ c.http = b.http
       \/ c.http.kind # "put"
       \/ c.http.file = b.uploading

\* What every method promises of its result c.
Kept(b, c) == Sound(c) /\ FileFrame(b, c)

-----------------------------------------------------------------------------
(* The helpers. *)

\* The first session of a nonempty set, in the order of the map, is in it.
LEMMA MinOfIn ==
  ASSUME NEW S \in SUBSET Session, S # {}
  PROVE  MinOf(S) \in S
<1>1. \E m \in S : \A k \in S : m <= k
  BY Least, BrokerConstants DEF Session
<1> QED
  BY <1>1 DEF MinOf

\* So is the last.
LEMMA MaxOfIn ==
  ASSUME NEW S \in SUBSET Session, S # {}
  PROVE  MaxOf(S) \in S
<1> DEFINE T == {NumSessions - s : s \in S}
<1>1. \A s \in S : NumSessions - s \in Nat
  BY BrokerConstants DEF Session
<1>2. T \in SUBSET Nat
  BY <1>1, Zenon
<1>3. T # {}
  BY Zenon
<1>4. PICK m \in T : \A k \in T : m <= k
  BY <1>2, <1>3, Least
<1>5. PICK s \in S : m = NumSessions - s
  BY <1>4
<1>6. \A o \in S : NumSessions - s <= NumSessions - o
  BY <1>4, <1>5
<1>7. \A o \in S : o <= s
  BY <1>6, BrokerConstants DEF Session
<1> QED
  BY <1>7 DEF MaxOf

\* The count of failures stays within its limit.
LEMMA BumpType ==
  ASSUME NEW n \in 0..LimStoreFailures
  PROVE  BumpFailures(n) \in 0..LimStoreFailures
BY BrokerConstants DEF BumpFailures

\* A well-formed message can be queued for the Kit.
LEMMA QueueType ==
  ASSUME NEW b \in Broker, NEW m \in KitMessage
  PROVE  Append(b.toKit, m) \in Seq(KitMessage)
<1>1. b.toKit \in Seq(KitMessage)
  BY DEF Broker
<1> QED
  BY <1>1

\* An absent session is none of NoSession.
LEMMA SessionTypes ==
  /\ Session \subseteq SessionOrNone
  /\ NoSession \in SessionOrNone
  /\ NoSession \notin Session
BY BrokerConstants DEF Session, SessionOrNone, NoSession

\* What two methods in a row promise.
LEMMA KeptTwice ==
  ASSUME NEW b, NEW c, NEW d, Kept(b, c), Kept(c, d)
  PROVE  Kept(b, d)
BY DEF Kept, FileFrame

\* A method that does nothing keeps its promise.
LEMMA KeptSame ==
  ASSUME NEW b, Sound(b)
  PROVE  Kept(b, b)
BY DEF Kept, FileFrame

\* The members that the invariants are about.
Same(b, c) ==
    /\ c.checkFileInfo = b.checkFileInfo
    /\ c.activity = b.activity
    /\ c.http = b.http
    /\ c.request = b.request
    /\ c.uploading = b.uploading

\* A method that only changes other members keeps its promise.
LEMMA SameKept ==
  ASSUME NEW b, NEW c, Sound(b), c \in Broker, Same(b, c)
  PROVE  Kept(b, c) /\ Sound(c)
BY DEF Same, Kept, FileFrame, Sound, SyncOrderly, IsAsyncUploading

-----------------------------------------------------------------------------
(* The methods. *)

\* The activity may end when no checkFileInfo is on its way.
LEMMA EndActivityKept ==
  ASSUME NEW b, Sound(b), b.checkFileInfo # "running"
  PROVE  Kept(b, EndActivity(b))
BY DEF Sound, Kept, FileFrame, SyncOrderly, IsAsyncUploading, EndActivity,
       Broker, Activity

\* The result of a save changes neither the activity nor the files.
LEMMA SetLastSaveResultKept ==
  ASSUME NEW b, Sound(b), NEW success \in BOOLEAN, NEW newVersion \in BOOLEAN
  PROVE  /\ Kept(b, SetLastSaveResult(b, success, newVersion))
         /\ Same(b, SetLastSaveResult(b, success, newVersion))
<1> DEFINE n == IF success THEN 0 ELSE BumpFailures(b.saveFailures)
           v == b.versioned \/ newVersion
           c == [b EXCEPT !.saving = FALSE, !.saveFailures = n, !.versioned = v]
<1>1. n \in 0..LimStoreFailures
  BY BumpType, BrokerConstants DEF Sound, Broker
<1>2. v \in BOOLEAN
  BY DEF Sound, Broker
<1>3. SetLastSaveResult(b, success, newVersion) = c
  BY DEF SetLastSaveResult
<1> HIDE DEF n, v
<1>4. c \in Broker
  BY <1>1, <1>2 DEF Sound, Broker
<1>5. Same(b, c)
  BY DEF Same, Sound, Broker
<1> QED
  BY <1>3, <1>4, <1>5, SameKept

\* Nor does the result of an upload.
LEMMA SetLastUploadResultKept ==
  ASSUME NEW b, Sound(b), NEW success \in BOOLEAN
  PROVE  /\ Kept(b, SetLastUploadResult(b, success))
         /\ Same(b, SetLastUploadResult(b, success))
<1> DEFINE n == IF success THEN 0 ELSE BumpFailures(b.uploadFailures)
           c == [b EXCEPT !.uploadActive = FALSE, !.uploadFailures = n]
<1>1. n \in 0..LimStoreFailures
  BY BumpType, BrokerConstants DEF Sound, Broker
<1>2. SetLastUploadResult(b, success) = c
  BY DEF SetLastUploadResult
<1> HIDE DEF n
<1>3. c \in Broker
  BY <1>1 DEF Sound, Broker
<1>4. Same(b, c)
  BY DEF Same, Sound, Broker
<1> QED
  BY <1>2, <1>3, <1>4, SameKept

\* Asking the poll thread to stop changes nothing else.
LEMMA StopKept ==
  ASSUME NEW b, Sound(b)
  PROVE  Kept(b, Stop(b)) /\ Same(b, Stop(b))
<1>1. Stop(b) \in Broker
  BY DEF Stop, Sound, Broker
<1>2. Same(b, Stop(b))
  BY DEF Same, Stop, Sound, Broker
<1> QED
  BY <1>1, <1>2, SameKept

\* Removing a session leaves the activity and the files alone.
LEMMA FinalRemoveSessionKept ==
  ASSUME NEW b, Sound(b), NEW s \in Session
  PROVE  Kept(b, FinalRemoveSession(b, s))
<1>1. FinalRemoveSession(b, s) \in Broker
  BY DEF FinalRemoveSession, Sound, Broker, SessionState
<1>2. Same(b, FinalRemoveSession(b, s))
  BY DEF Same, FinalRemoveSession, Sound, Broker
<1> QED
  BY <1>1, <1>2, SameKept

\* The sessions that are disconnected, and those that fail to load, change
\* their state; nothing else but flags and the queue to the Kit does.
LEMMA DisconnectSessionsKept ==
  ASSUME NEW b, Sound(b), NEW S \in SUBSET Session
  PROVE  Kept(b, DisconnectSessions(b, S))
<1> DEFINE others == Present(b) \ {MinOf(S)}
           failed == IF \A o \in others : ~IsLive(b, o) /\ ~InWaitDisconnected(b, o)
                     THEN {o \in others \ S :
                              b.sess[o] = "LOADING" /\ o \notin b.closeFrame}
                     ELSE {}
           sess   == [s \in Session |->
                        IF s \in S THEN "WAIT_DISCONNECT"
                        ELSE IF s \in failed THEN "absent" ELSE b.sess[s]]
           destr  == b.destroying \/ b.unloadRequested
           halt   == b.stop \/ (~b.loaded /\ Present(b) \ failed = S /\ Cardinality(S) = 1)
           queue  == Append(b.toKit, [type |-> "disconnect", sessions |-> S])
           c      == [b EXCEPT !.sess = sess, !.expired = @ \ failed,
                               !.destroying = destr, !.stop = halt, !.toKit = queue]
<1>1. DisconnectSessions(b, S) = IF S = {} THEN b ELSE c
  BY DEF DisconnectSessions
<1>2. sess \in [Session -> SessionState]
  BY DEF Sound, Broker, SessionState
<1>3. destr \in BOOLEAN /\ halt \in BOOLEAN
  BY DEF Sound, Broker
<1>4. [type |-> "disconnect", sessions |-> S] \in KitMessage
  BY DEF KitMessage
<1>5. queue \in Seq(KitMessage)
  BY <1>4, QueueType DEF Sound
<1> HIDE DEF others, failed, sess, destr, halt, queue
<1>6. c \in Broker
  BY <1>2, <1>3, <1>5 DEF Sound, Broker
<1>7. Same(b, c)
  BY DEF Same, Sound, Broker
<1> QED
  BY <1>1, <1>6, <1>7, SameKept, KeptSame

\* And removing the sessions that were kept for the upload.
LEMMA DisconnectClosedSessionsKept ==
  ASSUME NEW b, Sound(b)
  PROVE  Kept(b, DisconnectClosedSessions(b))
BY DisconnectSessionsKept DEF DisconnectClosedSessions, Present

\* A rename may end when no checkFileInfo is on its way.
LEMMA EndRenameFileCommandKept ==
  ASSUME NEW b, Sound(b), b.checkFileInfo # "running"
  PROVE  Kept(b, EndRenameFileCommand(b)) /\ EndRenameFileCommand(b).http = b.http
<1> DEFINE c == [b EXCEPT !.renameSession = NoSession]
<1>1. c \in Broker
  BY SessionTypes DEF Sound, Broker
<1>2. Same(b, c)
  BY DEF Same, Sound, Broker
<1>3. Kept(b, c)
  BY <1>1, <1>2, SameKept
<1>4. Sound(c) /\ c.checkFileInfo # "running"
  BY <1>2, <1>3 DEF Same, Kept
<1> HIDE DEF c
<1>5. Kept(c, EndActivity(c))
  BY <1>4, EndActivityKept
<1>6. EndActivity(c).http = c.http
  BY <1>4 DEF EndActivity, Sound, Broker
<1>7. EndRenameFileCommand(b) = EndActivity(c)
  BY DEF EndRenameFileCommand, c
<1> QED
  BY <1>2, <1>3, <1>5, <1>6, <1>7, KeptTwice DEF Same

\* The upload request is marked complete.
LEMMA CompleteKept ==
  ASSUME NEW b, Sound(b)
  PROVE  LET c == [b EXCEPT !.request.complete = TRUE]
         IN  /\ Kept(b, c)
             /\ c.checkFileInfo = b.checkFileInfo
             /\ c.activity = b.activity
             /\ c.http = b.http
             /\ c.request.kind = b.request.kind
<1> DEFINE r == [b.request EXCEPT !.complete = TRUE]
           c == [b EXCEPT !.request = r]
<1>1. b.request \in UploadRequest
  BY DEF Sound, Broker
<1>2. r \in UploadRequest /\ r.kind = b.request.kind
  BY <1>1 DEF UploadRequest
<1>3. [b EXCEPT !.request.complete = TRUE] = c
  BY DEF Sound, Broker
<1> HIDE DEF r
<1>4. c \in Broker
  BY <1>2 DEF Sound, Broker
<1>5. /\ c.checkFileInfo = b.checkFileInfo /\ c.activity = b.activity
      /\ c.http = b.http /\ c.uploading = b.uploading /\ c.request = r
  BY DEF Sound, Broker
<1> HIDE DEF c
<1>6. Kept(b, c)
  BY <1>2, <1>4, <1>5 DEF Kept, FileFrame, Sound, SyncOrderly, IsAsyncUploading
<1> QED
  BY <1>2, <1>3, <1>5, <1>6

\* A failed upload ends at most a rename, never checkFileInfo.
LEMMA AsyncUploadErrorKept ==
  ASSUME NEW b, Sound(b)
  PROVE  Kept(b, AsyncUploadError(b))
<1> DEFINE c == [b EXCEPT !.request.complete = TRUE]
           f == SetLastUploadResult(c, FALSE)
<1>1. Kept(b, c)
  BY CompleteKept
<1>2. Sound(c)
  BY <1>1 DEF Kept
<1> HIDE DEF c
<1>3. Kept(c, f) /\ Same(c, f)
  BY <1>2, SetLastUploadResultKept
<1>4. Kept(b, f)
  BY <1>1, <1>3, KeptTwice
<1>5. AsyncUploadError(b) =
        IF b.request.kind = "none" THEN b
        ELSE IF f.activity = "Rename" THEN EndRenameFileCommand(f) ELSE f
  BY DEF AsyncUploadError, c
<1> HIDE DEF f
<1>6. f.activity = "Rename" => Kept(f, EndRenameFileCommand(f))
  BY <1>4, EndRenameFileCommandKept DEF Kept, Sound, SyncOrderly
<1> QED
  BY <1>4, <1>5, <1>6, KeptTwice, KeptSame

\* An upload starts with the .uploading file, or fails.
LEMMA UploadLocalFileToStorageAsyncKept ==
  ASSUME NEW b, Sound(b), NEW kind \in {"put", "rename", "saveas"},
         b.activity = "SyncFileTimestamp" => b.request.kind # "rename"
  PROVE  Kept(b, UploadLocalFileToStorageAsync(b, kind))
<1> DEFINE e    == AsyncUploadError(b)
           err  == [e EXCEPT !.sizeAsUploaded = -1]
           file == IF kind = "saveas" THEN NoFile ELSE b.uploading
           http == [kind |-> kind, file |-> file, applied |-> FALSE]
           size == IF kind = "saveas" THEN -1 ELSE file.content
           c    == [b EXCEPT !.http = http, !.sizeAsUploaded = size]
<1>1. \/ UploadLocalFileToStorageAsync(b, kind) = err
      \/ UploadLocalFileToStorageAsync(b, kind) = c
  BY DEF UploadLocalFileToStorageAsync
<1>2. Kept(b, err)
  <2>1. Kept(b, e)
    BY AsyncUploadErrorKept
  <2> HIDE DEF e
  <2>2. e \in Broker /\ -1 \in MTime
    BY <2>1 DEF Kept, Sound, MTime
  <2>3. err \in Broker
    BY <2>2 DEF Broker
  <2>4. Same(e, err)
    BY <2>2 DEF Broker, Same
  <2> QED
    BY <2>1, <2>3, <2>4, SameKept, KeptTwice DEF Kept
<1>3. Kept(b, c)
  <2>1. b.uploading \in File /\ NoFile \in File
    BY DEF Sound, Broker, File, NoFile, MTime
  <2>2. http \in HttpSession
    BY <2>1 DEF HttpSession, UploadKind
  <2>3. size \in MTime
    BY <2>1 DEF File, MTime
  <2>4. kind = "put" => file = b.uploading
    OBVIOUS
  <2>5. http.kind = kind /\ http.file = file
    OBVIOUS
  <2> HIDE DEF http, size, file
  <2>6. c \in Broker
    BY <2>2, <2>3 DEF Sound, Broker
  <2>7. /\ c.checkFileInfo = b.checkFileInfo /\ c.activity = b.activity
        /\ c.http = http /\ c.request = b.request /\ c.uploading = b.uploading
    BY DEF Sound, Broker
  <2> HIDE DEF c
  <2> QED
    BY <2>4, <2>5, <2>6, <2>7 DEF Kept, FileFrame, Sound, SyncOrderly, IsAsyncUploading
<1> QED
  BY <1>1, <1>2, <1>3

\* No rename is uploaded during checkFileInfo.
LEMMA UploadToStorageInternalKept ==
  ASSUME NEW b, Sound(b), NEW s \in Session,
         NEW kind \in {"put", "rename", "saveas"},
         kind = "rename" => b.activity # "SyncFileTimestamp"
  PROVE  Kept(b, UploadToStorageInternal(b, s, kind))
<1> DEFINE r == [kind |-> kind, mtime |-> b.uploading.mtime,
                 session |-> s, complete |-> FALSE]
           c == [b EXCEPT !.request = r, !.uploadActive = TRUE]
<1>1. r \in UploadRequest /\ r.kind = kind
  BY SessionTypes DEF Sound, Broker, File, UploadRequest, UploadKind
<1>2. UploadToStorageInternal(b, s, kind) =
        IF ~IsEditable(b, s) THEN b ELSE UploadLocalFileToStorageAsync(c, kind)
  BY DEF UploadToStorageInternal
<1> HIDE DEF r
<1>3. c \in Broker
  BY <1>1 DEF Sound, Broker
<1>4. /\ c.checkFileInfo = b.checkFileInfo /\ c.activity = b.activity
      /\ c.http = b.http /\ c.request = r /\ c.uploading = b.uploading
  BY DEF Sound, Broker
<1> HIDE DEF c
<1>5. Kept(b, c)
  BY <1>1, <1>3, <1>4 DEF Kept, FileFrame, Sound, SyncOrderly, IsAsyncUploading
<1>6. Kept(c, UploadLocalFileToStorageAsync(c, kind))
  BY <1>1, <1>4, <1>5, UploadLocalFileToStorageAsyncKept DEF Kept
<1> QED
  BY <1>2, <1>5, <1>6, KeptTwice, KeptSame

\* An upload, forced or not, may come at any time.
LEMMA UploadToStorageKept ==
  ASSUME NEW b, Sound(b), NEW s \in Session, NEW force, NEW canUpload
  PROVE  Kept(b, UploadToStorage(b, s, force, canUpload))
<1>1. Kept(b, UploadToStorageInternal(b, s, "put"))
  BY UploadToStorageInternalKept
<1> QED
  BY <1>1, KeptSame DEF UploadToStorage

\* The rename is uploaded, or ends, in its own activity.
LEMMA RenameInStorageKept ==
  ASSUME NEW b, Sound(b), b.activity = "Rename"
  PROVE  Kept(b, RenameInStorage(b))
<1>1. Kept(b, EndRenameFileCommand(b))
  BY EndRenameFileCommandKept DEF Sound, SyncOrderly
<1>2. b.renameSession \in Present(b)
        => Kept(b, UploadToStorageInternal(b, b.renameSession, "rename"))
  BY UploadToStorageInternalKept DEF Present
<1> QED
  BY <1>1, <1>2 DEF RenameInStorage

\* What follows a save ends at most the save's own activity.
LEMMA CheckAndUploadToStorageKept ==
  ASSUME NEW b, Sound(b), NEW s \in Session, NEW justSaved, NEW canUpload
  PROVE  Kept(b, CheckAndUploadToStorage(b, s, justSaved, canUpload))
<1> DEFINE idle == IF b.activity = "Save" THEN EndActivity(b) ELSE b
           up   == UploadToStorage(idle, s, FALSE, canUpload)
           disc == DisconnectClosedSessions(idle)
           c    == CheckAndUploadToStorage(b, s, justSaved, canUpload)
<1>1. Kept(b, idle)
  BY EndActivityKept, KeptSame DEF Sound, SyncOrderly
<1>2. ReadyToRename(b) => Kept(b, RenameInStorage(b))
  BY RenameInStorageKept DEF ReadyToRename
<1>3. (c = RenameInStorage(b) /\ ReadyToRename(b)) \/ c = idle \/ c = up \/ c = disc
  BY DEF CheckAndUploadToStorage
<1> HIDE DEF idle, c
<1>4. Kept(b, up)
  BY <1>1, UploadToStorageKept, KeptTwice DEF Kept
<1>5. Kept(b, disc)
  BY <1>1, DisconnectClosedSessionsKept, KeptTwice DEF Kept
<1> QED
  BY <1>1, <1>2, <1>3, <1>4, <1>5 DEF c

\* A conflict changes neither the activity nor the files.
LEMMA HandleDocumentConflictKept ==
  ASSUME NEW b, Sound(b)
  PROVE  Kept(b, HandleDocumentConflict(b))
<1>1. HandleDocumentConflict(b) \in Broker
  BY DEF HandleDocumentConflict, Sound, Broker
<1>2. Same(b, HandleDocumentConflict(b))
  BY DEF HandleDocumentConflict, Same, Sound, Broker
<1> QED
  BY <1>1, <1>2, SameKept

\* Nor does noting which version was uploaded.
LEMMA UploadedVersionKept ==
  ASSUME NEW b, Sound(b)
  PROVE  Kept(b, UploadedVersion(b)) /\ Same(b, UploadedVersion(b))
<1>1. b.request.mtime \in MTime
  BY DEF Sound, Broker, UploadRequest
<1>2. UploadedVersion(b) \in Broker
  BY <1>1 DEF UploadedVersion, Sound, Broker
<1>3. Same(b, UploadedVersion(b))
  BY DEF UploadedVersion, Same, Sound, Broker
<1> QED
  BY <1>2, <1>3, SameKept

\* An upload's success ends a rename only outside checkFileInfo.
LEMMA HandleUploadToStorageSuccessfulKept ==
  ASSUME NEW b, Sound(b),
         b.request.kind = "rename" => b.checkFileInfo # "running"
  PROVE  Kept(b, HandleUploadToStorageSuccessful(b))
<1> DEFINE stored   == CASE b.request.kind = "put" ->
                              IF b.activity = "Rename"
                              THEN RenameInStorage(UploadedVersion(b))
                              ELSE UploadedVersion(b)
                         [] b.request.kind = "rename" -> EndRenameFileCommand(b)
                         [] OTHER -> b
           d        == stored.destroying \/ b.unloadRequested
           marked   == [stored EXCEPT !.destroying = d]
           stopping == (marked.destroying \/ Present(marked) = {})
                       /\ ~IsPossiblyModified(marked)
           c        == IF stopping THEN Stop(marked) ELSE marked
<1>1. Kept(b, UploadedVersion(b)) /\ Same(b, UploadedVersion(b))
  BY UploadedVersionKept
<1>2. b.activity = "Rename" =>
        Kept(UploadedVersion(b), RenameInStorage(UploadedVersion(b)))
  BY <1>1, RenameInStorageKept DEF Kept, Same
<1>3. Kept(b, stored)
  BY <1>1, <1>2, EndRenameFileCommandKept, KeptTwice, KeptSame
<1>4. HandleUploadToStorageSuccessful(b) = DisconnectClosedSessions(c)
  BY DEF HandleUploadToStorageSuccessful
<1> HIDE DEF stored
<1>5. Kept(stored, marked)
  <2>1. stored \in Broker /\ d \in BOOLEAN
    BY <1>3 DEF Kept, Sound, Broker
  <2> HIDE DEF d
  <2>2. marked \in Broker
    BY <2>1 DEF Broker
  <2>3. Same(stored, marked)
    BY <2>1 DEF Same, Broker
  <2> QED
    BY <1>3, <2>2, <2>3, SameKept DEF Kept
<1>6. Kept(b, marked)
  BY <1>3, <1>5, KeptTwice
<1> HIDE DEF marked, stopping
<1>7. Kept(b, c)
  BY <1>6, StopKept, KeptTwice DEF Kept
<1> HIDE DEF c
<1>8. Kept(c, DisconnectClosedSessions(c))
  BY <1>7, DisconnectClosedSessionsKept DEF Kept
<1> QED
  BY <1>4, <1>7, <1>8, KeptTwice

\* A failed upload starts checkFileInfo when no upload is in flight.
LEMMA HandleUploadToStorageFailedKept ==
  ASSUME NEW b, Sound(b), ~IsAsyncUploading(b),
         NEW result \in {"FAILED", "TOO_LARGE", "UNAUTHORIZED", "CONFLICT"}
  PROVE  Kept(b, HandleUploadToStorageFailed(b, result))
<1> DEFINE e    == IF b.activity = "Rename" THEN EndRenameFileCommand(b) ELSE b
           who  == {b.request.session} \cap Present(b)
           big  == [e EXCEPT !.editable = {}]
           exp  == [e EXCEPT !.expired = @ \cup who]
           sync == [e EXCEPT !.activity = "SyncFileTimestamp"]
           c    == HandleUploadToStorageFailed(b, result)
<1>1. Kept(b, e) /\ e.http = b.http
  BY EndRenameFileCommandKept, KeptSame DEF Sound, SyncOrderly
<1>2. c = big \/ c = exp \/ c = sync \/ c = HandleDocumentConflict(e)
  BY DEF HandleUploadToStorageFailed
<1>3. who \in SUBSET Session
  BY DEF Present
<1> HIDE DEF e, who
<1>4. e \in Broker /\ Sound(e)
  BY <1>1 DEF Kept, Sound
<1>5. Kept(e, big)
  <2>1. big \in Broker
    BY <1>4 DEF Broker
  <2>2. Same(e, big)
    BY <1>4 DEF Same, Broker
  <2> QED
    BY <1>4, <2>1, <2>2, SameKept
<1>6. Kept(e, exp)
  <2>1. exp \in Broker
    BY <1>3, <1>4 DEF Broker
  <2>2. Same(e, exp)
    BY <1>4 DEF Same, Broker
  <2> QED
    BY <1>4, <2>1, <2>2, SameKept
<1>7. Kept(e, sync)
  <2>1. sync \in Broker
    BY <1>4 DEF Broker, Activity
  <2>2. /\ sync.http = e.http /\ sync.uploading = e.uploading
        /\ sync.activity = "SyncFileTimestamp"
    BY <1>4 DEF Broker
  <2>3. ~IsAsyncUploading(sync)
    BY <1>1, <2>2 DEF IsAsyncUploading
  <2> HIDE DEF sync
  <2> QED
    BY <2>1, <2>2, <2>3 DEF Kept, FileFrame, Sound, SyncOrderly
<1>8. Kept(e, HandleDocumentConflict(e))
  BY <1>4, HandleDocumentConflictKept
<1> HIDE DEF big, exp, sync, c
<1> QED
  BY <1>1, <1>2, <1>5, <1>6, <1>7, <1>8, KeptTwice DEF c

\* So every answer to a PUT keeps the order of checkFileInfo.
LEMMA HandleUploadToStorageResponseKept ==
  ASSUME NEW b, Sound(b), IsAsyncUploading(b),
         NEW result \in UploadResults \cup {"OK"}
  PROVE  Kept(b, HandleUploadToStorageResponse(b, result))
<1> DEFINE retired == [b EXCEPT !.http = NoHttpSession]
           comp    == [retired EXCEPT !.request.complete = TRUE]
           full    == SetLastUploadResult(comp, result = "OK")
           c       == HandleUploadToStorageResponse(b, result)
<1>1. /\ retired \in Broker
      /\ retired.http.kind = "none"
      /\ retired.uploading = b.uploading /\ retired.activity = b.activity
      /\ retired.checkFileInfo = b.checkFileInfo /\ retired.request = b.request
  <2>1. NoHttpSession \in HttpSession /\ NoHttpSession.kind = "none"
    BY DEF NoHttpSession, HttpSession, UploadKind, NoFile, File, MTime
  <2>2. retired \in Broker
    BY <2>1 DEF Sound, Broker
  <2> QED
    BY <2>1, <2>2 DEF Sound, Broker
<1>2. \/ c = AsyncUploadError(retired)
      \/ c = retired
      \/ result = "OK" /\ c = HandleUploadToStorageSuccessful(full)
      \/ /\ result \in {"FAILED", "TOO_LARGE", "UNAUTHORIZED", "CONFLICT"}
         /\ c = HandleUploadToStorageFailed(full, result)
  BY DEF HandleUploadToStorageResponse, UploadResults
<1> HIDE DEF retired, c
<1>3. Kept(b, retired)
  BY <1>1 DEF Kept, FileFrame, Sound, SyncOrderly, IsAsyncUploading
<1>4. /\ Kept(retired, comp)
      /\ comp.checkFileInfo = retired.checkFileInfo /\ comp.http = retired.http
      /\ comp.request.kind = retired.request.kind
  BY <1>3, CompleteKept DEF Kept
<1> HIDE DEF comp
<1>5. Kept(comp, full) /\ Same(comp, full)
  BY <1>4, SetLastUploadResultKept DEF Kept
<1>6. Kept(b, full)
  BY <1>3, <1>4, <1>5, KeptTwice
<1>7. full.http.kind = "none" /\ full.request.kind = b.request.kind
      /\ full.checkFileInfo = b.checkFileInfo
  BY <1>1, <1>4, <1>5 DEF Same
<1> HIDE DEF full
<1>8. Kept(full, HandleUploadToStorageSuccessful(full))
  BY <1>6, <1>7, HandleUploadToStorageSuccessfulKept DEF Kept, Sound, SyncOrderly
<1>9. result \in {"FAILED", "TOO_LARGE", "UNAUTHORIZED", "CONFLICT"}
        => Kept(full, HandleUploadToStorageFailed(full, result))
  BY <1>6, <1>7, HandleUploadToStorageFailedKept DEF Kept, IsAsyncUploading
<1>10. Kept(retired, AsyncUploadError(retired))
  BY <1>3, AsyncUploadErrorKept DEF Kept
<1> QED
  BY <1>2, <1>3, <1>6, <1>8, <1>9, <1>10, KeptTwice DEF c

\* A save that is sent during checkFileInfo leaves its activity alone.
LEMMA SendUnoSaveKept ==
  ASSUME NEW b, Sound(b), NEW s \in Session, NEW force \in BOOLEAN
  PROVE  Kept(b, SendUnoSave(b, s, force))
<1> DEFINE m == [type |-> IF force THEN "forcedsave" ELSE "save", sessions |-> {s}]
           q == Append(b.toKit, m)
           a == IF b.activity = "None" THEN "Save" ELSE b.activity
           c == [b EXCEPT !.toKit = q, !.saving = TRUE,
                          !.modifyActivity = FALSE, !.activity = a]
<1>1. m \in KitMessage
  BY DEF KitMessage
<1>2. q \in Seq(KitMessage)
  BY <1>1, QueueType DEF Sound
<1>3. /\ a \in Activity
      /\ a = "SyncFileTimestamp" <=> b.activity = "SyncFileTimestamp"
  BY DEF Sound, Broker, Activity
<1>4. SendUnoSave(b, s, force) = c
  BY DEF SendUnoSave
<1> HIDE DEF m, q, a
<1>5. c \in Broker
  BY <1>2, <1>3 DEF Sound, Broker
<1>6. /\ c.checkFileInfo = b.checkFileInfo /\ c.activity = a
      /\ c.http = b.http /\ c.request = b.request /\ c.uploading = b.uploading
  BY DEF Sound, Broker
<1> HIDE DEF c
<1>7. Kept(b, c)
  BY <1>3, <1>5, <1>6 DEF Kept, FileFrame, Sound, SyncOrderly, IsAsyncUploading
<1> QED
  BY <1>4, <1>7

\* So does one that a client asks for.
LEMMA ManualSaveKept ==
  ASSUME NEW b, Sound(b), NEW s \in Session, NEW force \in BOOLEAN
  PROVE  Kept(b, ManualSave(b, s, force))
BY SendUnoSaveKept, KeptSame DEF ManualSave

\* getWriteableSession finds a session unless there is none.
LEMMA WriteableSessionType ==
  ASSUME NEW b
  PROVE  IF Present(b) = {} THEN WriteableSession(b) = NoSession
         ELSE WriteableSession(b) \in Present(b)
<1> DEFINE owners == Present(b) \cap Owners
           usable == {s \in Present(b) \ b.expired :
                         IsViewLoaded(b, s) /\ IsEditable(b, s)}
<1>1. /\ Present(b) \in SUBSET Session
      /\ owners \in SUBSET Session /\ owners \subseteq Present(b)
      /\ usable \in SUBSET Session /\ usable \subseteq Present(b)
  BY DEF Present
<1>2. owners # {} => MinOf(owners) \in Present(b)
  BY <1>1, MinOfIn
<1>3. usable # {} => MaxOf(usable) \in Present(b)
  BY <1>1, MaxOfIn
<1>4. Present(b) # {} => MinOf(Present(b)) \in Present(b)
  BY <1>1, MinOfIn
<1> QED
  BY <1>2, <1>3, <1>4 DEF WriteableSession

\* The session of checkFileInfo is one of them, or none.
LEMMA FirstAuthorizedSessionType ==
  ASSUME NEW b
  PROVE  FirstAuthorizedSession(b) \in SessionOrNone
<1>1. Present(b) \ b.expired \in SUBSET Session
  BY DEF Present
<1> QED
  BY <1>1, MinOfIn, SessionTypes DEF FirstAuthorizedSession

\* An autosave is a save.
LEMMA AutoSaveKept ==
  ASSUME NEW b, Sound(b), NEW force
  PROVE  Kept(b, AutoSave(b, force))
<1>1. CASE AutoSaves(b, force) /\ b.activity # "Save"
  <2>1. Present(b) # {}
    BY <1>1 DEF AutoSaves, CanSaveToDisk
  <2>2. WriteableSession(b) \in Session
    BY <2>1, WriteableSessionType DEF Present
  <2>3. b.lastEditing # NoSession => b.lastEditing \in Session
    BY BrokerConstants DEF Sound, Broker, SessionOrNone, Session, NoSession
  <2>4. SavingSession(b) \in Session
    BY <2>2, <2>3 DEF SavingSession
  <2> QED
    BY <1>1, <2>4, SendUnoSaveKept DEF AutoSave
<1>2. CASE ~(AutoSaves(b, force) /\ b.activity # "Save")
  BY <1>2, KeptSame DEF AutoSave
<1> QED
  BY <1>1, <1>2

\* The renamed file is the only thing that changes with it.
LEMMA RenameToUploadingSound ==
  ASSUME NEW b, Sound(b), NEW f \in File
  PROVE  LET c == RenameToUploading(b, f)
         IN  /\ Sound(c)
             /\ c.http = b.http
             /\ c.uploading = IF Exists(f) THEN f ELSE b.uploading
<1> DEFINE u == IF Exists(f) THEN f ELSE b.uploading
           c == [b EXCEPT !.uploading = u]
<1>1. u \in File
  BY DEF Sound, Broker
<1>2. RenameToUploading(b, f) = c
  BY DEF RenameToUploading
<1> HIDE DEF u
<1>3. c \in Broker
  BY <1>1 DEF Sound, Broker
<1>4. /\ c.checkFileInfo = b.checkFileInfo /\ c.activity = b.activity
      /\ c.http = b.http /\ c.request = b.request /\ c.uploading = u
  BY DEF Sound, Broker
<1> HIDE DEF c
<1>5. Sound(c)
  BY <1>3, <1>4 DEF Sound, SyncOrderly, IsAsyncUploading
<1> QED
  BY <1>2, <1>4, <1>5 DEF u

\* The rest of the handler of a save's result keeps that file.
LEMMA HandleSaveResponseKept ==
  ASSUME NEW b, Sound(b), NEW s \in Session, NEW result, NEW f \in File,
         NEW canUpload
  PROVE  Kept(RenameToUploading(b, f), HandleSaveResponse(b, s, result, f, canUpload))
<1> DEFINE r == RenameToUploading(b, f)
           c == SetLastSaveResult(r, result # "failed", result = "saved")
<1>1. Sound(r)
  BY RenameToUploadingSound
<1> HIDE DEF r
<1>2. Kept(r, c)
  BY <1>1, SetLastSaveResultKept
<1> HIDE DEF c
<1>3. Kept(c, CheckAndUploadToStorage(c, s, result # "failed", canUpload))
  BY <1>2, CheckAndUploadToStorageKept DEF Kept
<1> QED
  BY <1>2, <1>3, KeptTwice DEF HandleSaveResponse, r, c

\* Saving, uploading or stopping before the unload is sound.
LEMMA AutoSaveAndStopKept ==
  ASSUME NEW b, Sound(b), NEW modifiedStale, NEW canSave, NEW canUpload
  PROVE  Kept(b, AutoSaveAndStop(b, modifiedStale, canSave, canUpload))
<1>1. Kept(b, Stop(b))
  BY StopKept
<1>2. Kept(b, SaveOrUploadBeforeStop(b, canUpload))
  <2> DEFINE s == WriteableSession(b)
             force == IsPossiblyModified(b) \/ ~LastSaveSuccessful(b)
  <2>1. s # NoSession => s \in Session
    BY WriteableSessionType DEF Present
  <2>2. s # NoSession => Kept(b, CheckAndUploadToStorage(b, s, FALSE, canUpload))
    BY <2>1, CheckAndUploadToStorageKept
  <2>3. Kept(b, AutoSave(b, force))
    BY AutoSaveKept
  <2> QED
    BY <1>1, <2>2, <2>3 DEF SaveOrUploadBeforeStop
<1> QED
  BY <1>1, <1>2, KeptSame DEF AutoSaveAndStop

\* Flags and close frames that a handler sets at its end.
LEMMA FlagsKept ==
  ASSUME NEW b, Sound(b), NEW unload \in BOOLEAN, NEW destroy \in BOOLEAN,
         NEW frames \in SUBSET Session
  PROVE  Kept(b, [b EXCEPT !.unloadRequested = unload, !.destroying = destroy,
                           !.closeFrame = frames])
<1> DEFINE c == [b EXCEPT !.unloadRequested = unload, !.destroying = destroy,
                          !.closeFrame = frames]
<1>1. c \in Broker
  BY DEF Sound, Broker
<1>2. Same(b, c)
  BY DEF Same, Sound, Broker
<1> QED
  BY <1>1, <1>2, SameKept

\* A client that leaves may cause a save, and sets flags.
LEMMA RemoveSessionKept ==
  ASSUME NEW b, Sound(b), NEW s \in Session
  PROVE  Kept(b, RemoveSession(b, s))
<1> DEFINE lastEditable == IsEditable(b, s) /\ ~HaveAnotherEditableSession(b, s)
           force        == AlwaysSaveOnExit \/ IsPossiblyModified(b)
           autoSaved    == IF lastEditable /\ ~b.saving THEN AutoSave(b, force) ELSE b
           kept         == lastEditable /\ (b.saving \/ AutoSaves(b, force))
           marked       == [b EXCEPT !.destroying = @ \/ b.unloadRequested]
           removed      == IF kept THEN autoSaved
                           ELSE IF InWaitDisconnected(b, s)
                           THEN FinalRemoveSession(marked, s)
                           ELSE DisconnectSessions(b, {s})
           busy         == removed.saving \/ IsAsyncUploading(removed)
           lastView     == Cardinality(ActiveSessions(b)) <= 1
           unload       == removed.unloadRequested \/ (lastView /\ busy)
           destroy      == removed.destroying \/ (lastView /\ ~busy /\ Present(removed) = {})
           frames       == removed.closeFrame \cup ({s} \cap Present(removed))
<1>1. RemoveSession(b, s) =
        [removed EXCEPT !.unloadRequested = unload, !.destroying = destroy,
                        !.closeFrame = frames]
  BY DEF RemoveSession
<1>2. Kept(b, autoSaved)
  BY AutoSaveKept, KeptSame
<1>3. Kept(b, marked)
  <2>1. b.destroying \/ b.unloadRequested \in BOOLEAN
    BY DEF Sound, Broker
  <2>2. marked \in Broker
    BY DEF Sound, Broker
  <2>3. Same(b, marked)
    BY DEF Same, Sound, Broker
  <2> QED
    BY <2>2, <2>3, SameKept
<1>4. Kept(b, FinalRemoveSession(marked, s))
  BY <1>3, FinalRemoveSessionKept, KeptTwice DEF Kept
<1>5. Kept(b, DisconnectSessions(b, {s}))
  BY DisconnectSessionsKept
<1> HIDE DEF lastEditable, autoSaved, kept, marked
<1>6. Kept(b, removed)
  BY <1>2, <1>4, <1>5
<1> HIDE DEF removed
<1>7. /\ unload \in BOOLEAN /\ destroy \in BOOLEAN
      /\ frames \in SUBSET Session
  BY <1>6 DEF Kept, Sound, Broker, Present
<1> DEFINE after == [removed EXCEPT !.unloadRequested = unload, !.destroying = destroy,
                                    !.closeFrame = frames]
<1> HIDE DEF unload, destroy, frames
<1>8. Sound(removed)
  BY <1>6 DEF Kept
<1>9. Kept(removed, after)
  BY <1>7, <1>8, FlagsKept
<1>10. Kept(b, after)
  BY <1>6, <1>9, KeptTwice
<1> QED
  BY <1>1, <1>10

\* Closing the document sets flags.
LEMMA CloseDocumentKept ==
  ASSUME NEW b, Sound(b)
  PROVE  Kept(b, CloseDocument(b))
<1>1. CloseDocument(b) \in Broker
  BY DEF CloseDocument, Sound, Broker
<1>2. Same(b, CloseDocument(b))
  BY DEF CloseDocument, Same, Sound, Broker
<1> QED
  BY <1>1, <1>2, SameKept

\* So does the loss of the Kit.
LEMMA DisconnectedFromKitKept ==
  ASSUME NEW b, Sound(b)
  PROVE  Kept(b, DisconnectedFromKit(b))
<1> DEFINE k    == IF IsUnloading(b) THEN "Normal" ELSE "Unexpected"
           lost == [b EXCEPT !.kitDisconnected = k]
<1>1. k \in KitDisconnected
  BY DEF KitDisconnected
<1> HIDE DEF k
<1>2. lost \in Broker
  BY <1>1 DEF Sound, Broker
<1>3. Same(b, lost)
  BY DEF Same, Sound, Broker
<1>4. Kept(b, lost)
  BY <1>2, <1>3, SameKept
<1>5. DisconnectedFromKit(b) =
        IF b.closeRequested \/ b.stop THEN lost ELSE CloseDocument(lost)
  BY DEF DisconnectedFromKit, k
<1> HIDE DEF lost
<1> QED
  BY <1>4, <1>5, CloseDocumentKept, KeptTwice DEF Kept

\* A rename starts from Activity::None with a save.
LEMMA StartRenameFileCommandKept ==
  ASSUME NEW b, Sound(b), b.activity = "None"
  PROVE  Kept(b, StartRenameFileCommand(b))
<1> DEFINE c == [b EXCEPT !.activity = "Rename"]
<1>1. c \in Broker
  BY DEF Sound, Broker, Activity
<1>2. /\ c.activity = "Rename" /\ c.checkFileInfo = b.checkFileInfo
      /\ c.http = b.http /\ c.uploading = b.uploading
  BY DEF Sound, Broker
<1>3. StartRenameFileCommand(b) =
        IF b.renameSession \notin Present(b) THEN EndRenameFileCommand(c)
        ELSE SendUnoSave(c, b.renameSession, FALSE)
  BY DEF StartRenameFileCommand
<1> HIDE DEF c
<1>4. Kept(b, c) /\ c.checkFileInfo # "running"
  BY <1>1, <1>2 DEF Kept, FileFrame, Sound, SyncOrderly
<1>5. Kept(c, EndRenameFileCommand(c))
  BY <1>4, EndRenameFileCommandKept DEF Kept
<1>6. b.renameSession \in Present(b)
        => Kept(c, SendUnoSave(c, b.renameSession, FALSE))
  BY <1>4, SendUnoSaveKept DEF Kept, Present
<1> QED
  BY <1>3, <1>4, <1>5, <1>6, KeptTwice

\* In Activity::None what is over may be forgotten.
LEMMA ResetKept ==
  ASSUME NEW b, Sound(b)
  PROVE  Kept(b, Reset(b)) /\ Reset(b).activity = b.activity
<1> DEFINE r == IF b.request.complete THEN NoRequest ELSE b.request
           c == [b EXCEPT !.checkFileInfo = "none", !.request = r]
<1>1. r \in UploadRequest /\ (r.kind = "rename" => b.request.kind = "rename")
  BY SessionTypes DEF Sound, Broker, NoRequest, UploadRequest, UploadKind, MTime
<1>2. Reset(b) = c
  BY DEF Reset
<1> HIDE DEF r
<1>3. c \in Broker
  BY <1>1 DEF Sound, Broker
<1>4. /\ c.activity = b.activity /\ c.checkFileInfo = "none"
      /\ c.http = b.http /\ c.uploading = b.uploading /\ c.request = r
  BY DEF Sound, Broker
<1> HIDE DEF c
<1>5. Kept(b, c)
  BY <1>1, <1>3, <1>4 DEF Kept, FileFrame, Sound, SyncOrderly, IsAsyncUploading
<1> QED
  BY <1>2, <1>4, <1>5

\* The housekeeping of Activity::None is sound.
LEMMA PollIdleKept ==
  ASSUME NEW b, Sound(b), NEW modifiedStale, NEW canSave, NEW canUpload
  PROVE  Kept(b, PollIdle(b, modifiedStale, canSave, canUpload))
<1>1. Kept(b, Stop(b))
  BY StopKept
<1>2. Kept(b, AutoSaveAndStop(b, modifiedStale, canSave, canUpload))
  BY AutoSaveAndStopKept
<1>3. Kept(b, AutoSaveAndStop(Stop(b), modifiedStale, canSave, canUpload))
  BY <1>1, AutoSaveAndStopKept, KeptTwice DEF Kept
<1>4. Kept(b, RetryUpload(b, canUpload))
  <2>1. WriteableSession(b) # NoSession => WriteableSession(b) \in Session
    BY WriteableSessionType DEF Present
  <2> QED
    BY <2>1, CheckAndUploadToStorageKept, KeptSame DEF RetryUpload
<1> QED
  BY <1>1, <1>2, <1>3, <1>4, KeptSame DEF PollIdle
=============================================================================

---------------------------- MODULE BrokerHistory ----------------------------
(***************************************************************************)
(* DocumentBroker with a history variable: which of the rare courses of    *)
(* events that the broker's book-keeping does not follow have happened.    *)
(* The properties say what holds of the document as long as none of them   *)
(* has, and that each of them is the only way to break what it breaks.     *)
(***************************************************************************)
EXTENDS DocumentBroker

VARIABLE seen

\* The sessions whose client is still there.
Open(b) == {s \in Present(b) \ b.closeFrame : ~InWaitDisconnected(b, s)}

Anomaly ==
    {"savingAtExit", "requestReplaced", "fileReplaced", "overlappingSaves",
     "discarded", "notTheLast"}

SendsSave ==
    /\ Len(broker'.toKit) > Len(broker.toKit)
    /\ broker'.toKit[Len(broker'.toKit)].type \in {"save", "forcedsave"}

\* The poll thread ends its loop while a save request has no result yet.
SavingAtExit ==
    broker.phase = "polling" /\ broker'.phase = "flushing" /\ broker.saving

\* _uploadRequest is replaced while the PUT it describes is in flight.
RequestReplaced ==
    /\ IsAsyncUploading(broker) /\ broker'.http = broker.http
    /\ broker'.request # broker.request

\* A save replaces the file on disk while the PUT of the older one is in flight.
FileReplaced ==
    broker.http.kind = "put" /\ broker'.uploading # broker.uploading

\* A save is sent while an earlier one is still to be answered.
OverlappingSaves == SaveInFlight /\ SendsSave

\* A user, or nobody being left to ask, gives up a document in conflict, or
\* one that is given up turns out to be in conflict.
GivenUp(b) == b.stop /\ b.changedInStorage
Discarded == ~GivenUp(broker) /\ GivenUp(broker')

\* removeSession takes the session that leaves for the last view although
\* another is open: the sessions that are still loading are not counted.
NotTheLast ==
    /\ ~broker.unloadRequested /\ broker'.unloadRequested
    /\ Open(broker') # {}

Observed ==
    {a \in Anomaly : \/ a = "savingAtExit" /\ SavingAtExit
                     \/ a = "requestReplaced" /\ RequestReplaced
                     \/ a = "fileReplaced" /\ FileReplaced
                     \/ a = "overlappingSaves" /\ OverlappingSaves
                     \/ a = "discarded" /\ Discarded
                     \/ a = "notTheLast" /\ NotTheLast}

historyVars == <<vars, seen>>

HInit == Init /\ seen = {}
HNext == Next /\ seen' = seen \cup Observed

HSpec == HInit /\ [][HNext]_historyVars

\* Time passes and every process goes on: the poll thread handles what is
\* ready and does its housekeeping, the throttles elapse, the Kit answers
\* while it runs and the host answers what it is asked.
Fairness ==
    /\ WF_vars(KitLoad) /\ WF_vars(KitEdit) /\ WF_vars(KitDisconnect)
    /\ WF_vars(\E forced, statusFirst \in BOOLEAN : KitSave(forced, FALSE, statusFirst))
    /\ WF_vars(Loaded) /\ WF_vars(SetModified) /\ WF_vars(Disconnected)
    /\ WF_vars(KitGone) /\ WF_vars(SaveResponse(TRUE))
    /\ WF_vars(HostStores) /\ WF_vars(UploadAnswer("OK"))
    /\ WF_vars(\E sameSize \in BOOLEAN : CheckFileInfoAnswer("Pass", sameSize))
    /\ WF_vars(PollNone(TRUE, TRUE, TRUE))
    /\ WF_vars(PollRename) /\ WF_vars(PollAutoSave)
    /\ WF_vars(PollSave) /\ WF_vars(PollSyncFileTimestamp)
    /\ WF_vars(\E s \in Session : PollStaleDisconnect(s))
    /\ WF_vars(StopPolling) /\ WF_vars(Terminate)

FairSpec == HSpec /\ Fairness

-----------------------------------------------------------------------------
(* Properties. *)

\* What the data-loss check copes with.
Harmless == {"notTheLast", "fileReplaced"}

\* The data-loss check at the end of pollThread is complete: a document that
\* is unloaded without it has every edit that reached the Kit in the Storage.
\* The four courses of events it does not notice are the other anomalies; an
\* unload for a session that was not the last, and a save while an older
\* version is uploaded, are none of them.
NoSilentLoss ==
    (/\ broker.phase = "done" /\ ~broker.dataLoss
     /\ seen \subseteq Harmless)
      => storage = edits

\* needToUploadToStorage skips the upload when the timestamp of the file on
\* disk is that of the last upload: then the Storage does have that version,
\* although the file may be replaced and the PUT may fail after it was stored.
UploadedTimeSound ==
    (/\ Exists(broker.uploading) /\ ~IsStorageOutdated(broker)
     /\ "requestReplaced" \notin seen)
      => storage = broker.uploading.content

\* The rename request, which carries no new version, is sent only when the
\* version on disk is in the Storage, right after the upload of the version
\* that was saved for it or without one; unless another save came in between.
LatestBeforeRename ==
    broker.http.kind = "rename" /\ seen \cap {"requestReplaced", "fileReplaced"} = {}
      => storage = broker.http.file.content

\* A client that has not left loses its document only because the document is
\* closed, idle, given up or never loaded: another client's leaving, with its
\* save and upload still under way, does not unload it.
OpenSessionsStay ==
    broker.stop /\ broker.phase = "polling" /\ Open(broker) # {}
      => \/ broker.closeRequested
         \/ left["idles"] < Budget["idles"]
         \/ left["timeouts"] < Budget["timeouts"]
         \/ seen \cap {"discarded", "notTheLast"} # {}

\* Every client has left, or has never come back.
NobodyLeft == Present(broker) \subseteq broker.closeFrame

\* A document without clients is unloaded, after the saves, the uploads and
\* the handshakes with the Kit it waits for, unless a client joins.
Unloads == NobodyLeft ~> (broker.phase = "done" \/ ~NobodyLeft)

\* A document that is asked to close, or that has lost its Kit, is unloaded.
CloseFinishes == broker.closeRequested ~> broker.phase = "done"

Store ==
    INSTANCE DocumentStore WITH
        latest <- edits,
        stored <- storage,
        session <- IF broker.phase # "done" THEN "open"
                   ELSE IF broker.dataLoss \/ ~(seen \subseteq Harmless)
                   THEN "alarmed"
                   ELSE "closed"

\* The broker, the Kit and the host keep the promise of DocumentStore; a
\* session with a harmful anomaly counts as one that ended with an alarm.
ImplementsDocumentStore == Store!StoreSpec
=============================================================================

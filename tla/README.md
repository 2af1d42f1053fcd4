# A verification project for Collabora Online

Collabora Online lets several browsers edit one document that lives on a WOPI
host. The server keeps the document in a jailed LibreOffice process while it is
open, and must bring every edit back to the host before it lets the document
go, although saves, uploads, clients, processes and connections overlap and
fail. The browser shows the document as tiles, which come as deltas that only
make sense on the right pixels, and keeps a connection that is lost, refused,
closed for idleness and made again. This directory holds TLA+ specifications of
those three parts of the program, TLC configurations that check them, and
proofs that TLAPS checks.

| Part | Modules | About |
|---|---|---|
| The document's life | `DocumentStore`, `BrokerState`, `BrokerMethods`, `DocumentBroker`, `BrokerHistory`, `BrokerClaims` | no edit is lost between Core and the host |
| The tiles | `TileWire`, `TileCache`, `TileManager`, `TilePipeline` | what a user sees is what was rendered, and in the end what the document is |
| The connection | `ClientSocket` | inputs and documents survive reconnections |

Paths such as `wsd/DocumentBroker.cpp` are relative to the repository.

## Inventory

| Component | State | Operations | Hard because |
|---|---|---|---|
| `wsd/DocumentBroker`: one per open document, with a thread of its own | sessions, `DocumentState` (activity, flags), `SaveManager`, `StorageManager`, `_uploadRequest`, `_checkFileInfo`, `_isModified`, `_stop` | add and remove sessions, save, upload, rename, export, conflict, close, unload; the poll loop with its timers | every operation is asynchronous; results come late, out of order, or not at all |
| `wsd/ClientSession`: one per browser | `SessionState`, permissions, the close frame | client messages, Kit messages, disconnect handshake | a session outlives its client until its save and upload are done |
| `wsd/wopi/WopiStorage` | `_uploadHttpSession`, host timestamps | asynchronous PUT, rename, CheckFileInfo, locks | the host may store a PUT whose answer is lost |
| `kit/Kit.cpp`, `kit/ChildSession.cpp`: the process with Core | views, the document, the file that Core saves | load, edit, save, copy to `.upload`, unload, background save | dies, hangs, fails to save; its messages cross the broker's |
| `wsd/Storage.hpp` lock context | token, timer, state | lock, refresh, unlock | the lock expires or is lost while the document is edited |
| Tiles at the server: `wsd/TileCache`, `wsd/ClientSession`, `wsd/DocumentBroker` | cached keyframe and deltas, the wireId last sent, tiles being rendered, `_requestedTiles`, `_tilesOnFly` | request, render, send, acknowledge, invalidate | deltas are sent on top of what the browser is believed to have |
| Tiles in the browser: `app/TilesMiddleware.ts`, `app/TaskWorkerSrc.js` | `tiles` with raw deltas and bitmaps, `pendingDeltas`, transactions, pauses, workers' images | fetch, receive, decompress in workers, show, invalidate, reclaim, redraw | answers of workers come after the tile has changed or gone |
| The browser's connection: `app/Socket.ts`, `control/Control.IdleHandler.ts`, `map/Map.js` | the WebSocket, the slurp queue, queues of messages, `_reconnecting`, `ReconnectCount`, timers, `_active`, `_documentIdle`, `_serverRecycling` | send, queue, open, close, slurp, emit, reconnect, dim, activate | the events of the socket, the slurped messages, the timers and the user come in any order |
| `kit/KitQueue` | callbacks and tile requests | put, elide, prioritise, pop | dropping one message must not reorder the others |
| `kit/ForKit`, the pool of Kits in `wsd/COOLWSD.cpp` | spare children, outstanding requests | fork, adopt, rebalance | requests race with deaths |
| `net/`: sockets and polls | buffers, poll sets | read, write, time out | seen by the broker as one event at a time |
| Admin console, file server, request dispatch, the rest of the browser, mobile and desktop apps | | | not the subject of this project; see *Not modelled* |

What makes the core correct:

* a document is never unloaded with an edit missing from the host unless the
  data-loss check says so;
* the host's document never goes back to an older version;
* the timestamps that decide whether an upload is needed never call an old
  version current;
* a client that is still there does not lose its document because another left;
* a document nobody uses any more, or that was asked to close, is unloaded.

What makes the browser correct:

* no delta is applied to pixels it was not made for, and no tile goes back to
  an older rendering;
* every tile sent is acknowledged once, so that the server's limit on tiles on
  the fly is not used up by tiles it waits for in vain;
* drawing that is paused is resumed, a transaction that begins ends, and a
  visible tile comes to show the document as it is;
* an input is not sent twice, nor before an earlier one;
* a page that is connected again is in order, and one that is not has a way to
  come back.

`PROJECT.json` lists under `hazards` where the code is exposed, line by line.

## Modules

| Module | Contents |
|---|---|
| `DocumentStore` | the abstract specification: edits are accepted, a newer version reaches the Storage, the session closes with everything stored or with an alarm |
| `BrokerState` | the members of `DocumentBroker` as one record, and the const queries (`needToUploadToStorage`, `isStorageOutdated`, `canSaveToDisk`, ...) |
| `BrokerMethods` | the methods that change the members, as functions from record to record, nested calls included |
| `DocumentBroker` | the system: clients, Kit, host and the poll loop; `Next`, `Spec`, and the properties that need no history |
| `BrokerHistory` | a history variable for six rare courses of events, fairness, the properties that mention them, and the refinement of `DocumentStore` |
| `BrokerClaims` | what comments of the code claim and the model contradicts |
| `TileWire` | the messages between browser and coolwsd that are about tiles, and the two channels |
| `TileCache` | one session's tiles in coolwsd, and the Kit that renders them |
| `TileManager` | the browser's tiles, its workers, and the slurping of messages |
| `TilePipeline` | both ends composed; interference by users and memory limits, fairness, the properties |
| `ClientSocket` | the browser's connection, with coolwsd and the network as its environment |
| `MCDocumentBroker`, `MCTiles`, `MCClientSocket` | instances for TLC |
| `QueueLemmas` | lemmas on sets of numbers, and on queues: what is at each place after a message was sent or received, and how many messages of a sort are on their way |
| `BrokerLemmas`, `DocumentBrokerProofs` | the broker's methods and their types; the theorems of `DocumentBroker` |
| `BrokerFrames`, `BrokerHistoryProofs` | what each method does to the members that the history properties are about; the theorems of `BrokerHistory` with the refinement |
| `TilePipelineProofs`, `TileImagesProofs` | the theorems of the tiles: types and counts, then images |
| `ClientSocketProofs` | the theorems of the connection |

Lines that begin with `Mutant:` above a definition mark a variant of the
definition that follows, with a bug in it; `PROJECT.json` names the property
that catches it. No specification uses them.

### Correspondence

*One thread.* All members of a `DocumentBroker` belong to its poll thread
(`ASSERT_CORRECT_THREAD`), which runs one handler at a time to its end. So a
method is a function on the record `broker`, and an action is one handler with
every call it makes. `SocketPoll::poll` may run several handlers before
the housekeeping of `pollThread`; `Batched` says whether it does.

*Activities* are those of `DocumentState::Activity` that `startActivity` is ever
called with, without SwitchingToOffline and SwitchingToOnline; SaveAs, Conflict
and Upload are never started, and an export runs in no activity of its own.

*Time.* The code compares time points only to know which came first, or whether
a period has passed. The first kind becomes a Boolean: `saving` is "last save
request newer than last response", `modifyActivity` is "last modifying input
newer than last save request". The second kind is nondeterministic:
`canSave`, `canUpload` and `modifiedStale` are parameters of the actions, and a
timeout is an action of its own. A timeout that fires although the answer is on
its way spends from the budget; one for an answer that can no longer come does
not.

*Files.* A file is a modification time, which the broker reads, and a content,
the number of edits in it, which only Core and the host know. A save writes a
new modification time. The file goes from Core's save over `.upload` (the Kit's
`copyForUpload`) and `.uploading` (`handleSaveResponse` renames it) into the
body of the PUT, which was opened when the upload began, to the host.

*Failure counters* saturate at `LimStoreFailures`: the code only compares them
with 0 and with the limit.

*The Kit* (`kit`) reads the broker's messages in order. A save of an unmodified
document writes nothing unless it is forced; Core may report ModifiedStatus
before or after the save's result. With its last view it exits; the message
`exit` is obeyed before what is queued. A message for a view it does not know is
ignored. `KitGone` is the closing of its socket, seen after its last message.

*The host* stores a PUT in a step of its own (`HostStores`), before it is
answered; an answer may then be lost (`FAILED`), which the broker cannot tell
from a PUT that was never stored. Nobody else writes to the host's file.

*The end.* `StopPolling` is the end of the loop with its data-loss check; in the
phase `flushing` the sockets are still served, for two seconds, without
housekeeping; `Terminate` ends that.

| Actions | Code |
|---|---|
| `Join` | `createNewClientSession`, `addSession`; it may fail at the host |
| `Edit` | client input that modifies; text, mouse and key events are dropped while unloading, but still count as activity |
| `Save`, `SaveToStorage`, `SaveAs`, `RenameFile`, `CloseRequest`, `ReloadRequest` | the client messages of `ClientSession::_handleInput`; an administrator closes with `CloseRequest` too |
| `Disconnect` | `ClientSession::onDisconnect` with `removeSession` |
| `KitLoad`, `KitEdit`, `KitSave`, `KitDisconnect`, `KitExit`, `KitCrash` | the Kit process |
| `Loaded`, `SetModified`, `SaveResponse`, `Disconnected`, `KitGone` | the Kit's messages at the broker |
| `HostStores`, `UploadAnswer`, `CheckFileInfoAnswer` | the host, and its answers at the broker |
| `PollNone`, `PollRename`, `PollIdleTimeout`, `PollAutoSave`, `PollSave`, `PollSyncFileTimestamp`, `PollOther`, `PollLoadTimeout`, `PollStaleDisconnect` | the branches of `pollThread`'s housekeeping |

### The tiles

*A rendering is its number.* Each rendering of the Kit gets a new `wireId`, so
an image is the `wireId` whose pixels it holds. A keyframe makes its image from
nothing; a delta is a pair, and turns the image of `from` into that of `to`. On
any other image it leaves garbage, `Broken`, and the code would not notice.

*Both ends.* `TileCache` keeps for each tile the keyframe, the last delta and
whether it is valid, the `wireId` last sent to the session, what is rendered for
it, what it waits for and the list of its tiles on the fly, by `wireId`. `TileManager` keeps
the fields of the class `Tile` that decide anything, the pending deltas, the
pause of drawing, the slurp queue and the transaction. The distance from the
view is kept as `current`, whether it is 0. The two channels are the WebSocket:
reliable and in order.

*One thread and some workers.* A callback of the main thread is one step, except
the loop of `_emitSlurpedEvents`, which is one step per message with no other
callback between them. A worker's step is one task; its answer is another
step of the main thread. A worker that has to apply a delta without an image
throws (`TaskWorkerSrc.js` compares with `null` what `Map.get` returns as
`undefined`); the deltas that its task lists before that one have been applied
by then, which ones is left open. The workers are terminated when the main
thread handles the error, and from then on the main thread decompresses:
`bitmapPromises` are its `createImageBitmap` calls.

*Memory.* What `garbageCollect` and the limit on bitmaps take is chosen among
the tiles that are not current: the image, the raw deltas or the tile. Which
ones, by distance and size, is left open.

*Time.* A tile that was requested less than five seconds ago may or may not be
left out of a request; timers fire when they are due, or later. Whenever
`sendRequestedTiles` runs, `removeOutdatedTilesOnFly` takes the tiles off the fly
that have waited for an acknowledgement for longer than
`TILE_ROUNDTRIP_TIMEOUT_MS`, and with them those that have waited for nearly as
long. The list is in the order of sending, so these are its `n` oldest, for any
`n`, at each of the three handlers that call `sendRequestedTiles`; an `n` other
than 0 spends a stall from the budget. A tile that was dropped may still be
acknowledged: `onTileProcessed` takes the first of its `wireId` off, if there is
one.

| Actions of `TilePipeline` | Code |
|---|---|
| `Edit`, `Render` | Core changes the document (`handleTileInvalidation`); the Kit renders, and `saveTileAndNotify` sends |
| `Request`, `Processed`, `VisibleArea` | coolwsd's handlers of `tilecombine`, `tileprocessed`, `clientvisiblearea`, each with `sendRequestedTiles` |
| `Scroll`, `PreFetch`, `Flush` | `update`, `preFetchTiles`, `flushPendingTileCombineQueue` |
| `Blur`, `Redraw` | `_onDocumentBlur`; `requestReDraw` with the deferred `rehydrateCurrentTiles` |
| `Slurp`, `Timer`, `EmitTile`, `EmitCanonical`, `EmitEnd` | `_slurpMessage`, its timer, `_emitSlurpedEvents` with `onTileMsg` and `canonicalidchange` |
| `WorkerStep`, `AnswerOf`, `Promise`, `WorkersFail` | `TaskWorkerSrc.js`, `onWorkerEndTransaction`, the promises, `onWorkerError` |
| `CanonicalIdChange` | the Kit tells of a changed view setting |

### The connection

*A handler is a function.* `socket` is a record of the members of `Socket`,
`IdleHandler` and `Map` that take part, of the WebSocket and of what coolwsd
does with it. A handler maps the record to the record it leaves, nested calls
included; an action is a callback of the main thread, with the same exception
for the emission loop as above. A close event comes after every message that
arrived before it has been received, not after it has been emitted.

*Inputs* are numbered in the order the user makes them and are of four classes:
critical ones, mouse buttons (never deferred), selections and moves (compacted:
only the last is kept; the code keeps one per kind, the model one), and ones a
full queue drops first. `sent` and `sentBefore` are what went out on this
connection and on earlier ones.

*The dialog of an idle document* stays in the page, closing, until a layouting
task removes it; a MutationObserver then restarts the connection.

*coolwsd* accepts a session, loads, and may refuse it because the document is
unloading, close it (idle, recycling, conflict), tell that it shuts down, or
fail; the network may lose the connection with or without what is under way.
Each is bounded by the budget; `MaxKinds` bounds how many kinds one behaviour
meets, and every combination is checked.

*Time.* The 1200 ms between two attempts of `sendMessage` and the periods of the
intervals are left open. A WebSocket handshake takes longer than 1 ms, so it
does not end before the timeout of `_onSocketClose`. A layer transaction ends at
once or later, but ends.

| Actions of `ClientSocket` | Code |
|---|---|
| `UserInput`, `Focus`, `Hover`, `Inactivity`, `Blur` | `sendMessage`, `_onGotFocus`, the dialog's `onmouseover`, `_dimIfInactive` and the out-of-focus timer, `_deactivate` |
| `DimRemoved` | `onRemoveHTMLElement` |
| `SlurpMessage`, `SlurpTimer`, `EmitMessage`, `EmitEnd`, `TransactionEnds` | `_slurpMessage`, `_queueSlurpEventEmission`, `_emitSlurpedEvents` with `_onMessage` |
| `Open`, `CloseEvent`, `ConnectFails` | `_onSocketOpen`, `_onSocketClose` |
| `ReconnectTimer`, `Interval` | the timeout of `_onSocketClose`, `Socket.timer` |
| `ServerReady`, `Load`, `Refuse`, `CloseSession`, `ShuttingDown`, `Exit`, `Drop` | coolwsd and the network |

## Properties

Of the document's life:

* `TypeOK`: types; in particular no save is sent without a session.
* `NoSilentLoss`: an unload without the data-loss alarm has every edit that
  reached the Kit in the Storage.
* `UploadedTimeSound`: when `isStorageOutdated` says no, the Storage has the
  version on disk.
* `VersionOrder`: along Core's file, `.upload`, `.uploading`, the PUT and the
  Storage, no station has a newer version than the one before it, and files with
  one timestamp are one version.
* `StorageNeverGoesBack`: no step puts an older version into the Storage.
* `SyncWaitsForCheckFileInfo`: while `checkFileInfo` waits for the host the
  broker stays in the activity that the continuation asserts.
* `LatestBeforeRename`: the rename request is sent only when the version on disk
  is stored, unless another save came in between.
* `OpenSessionsStay`: an open client loses its document only because it is
  closed, idle, given up or never loaded, or because `removeSession` took the
  client that left for the last one while the other was still loading. That
  last course does happen (`notTheLast`, see *Observations*), so that this
  property says nothing about it: it is about what the one who left leaves
  behind, a save, an upload or a handshake under way.
* `Unloads`, `CloseFinishes`: a document without clients, or asked to close, is
  unloaded.
* `ImplementsDocumentStore`: the broker, the Kit and the host together implement
  `DocumentStore`, with the edits passed on as `latest` and the host's file as
  `stored`.

Of the tiles:

* `TypeOK`: types; in particular no answer of a worker finds no task pending.
* `NoBrokenImage`: no delta is applied to pixels it was not made for, on the
  main thread or in a worker. Two cases are left out (`Sound`): all tiles from
  the time a worker has thrown until `onWorkerError` redraws them, and on the
  main thread a tile of which deltas waited when `redraw()` removed it, which
  the history variable `orphaned` records. In both the code does apply a delta
  to the wrong pixels (see *Observations*).
* `NoOlderImage`: a tile that shows a rendering shows the newest it ever showed,
  which the history variable `newest` records. It has no exceptions.
* `OnFlyAccounted`: every tile on the fly has an acknowledgement of its own to
  come, counted for each `wireId`: the tile is on its way or waits to be emitted,
  or its acknowledgement waits or is on its way. So none holds its room until
  the timeout because the browser forgot it, however useless the tile was. As
  long as nothing was dropped by the timeout the two numbers are equal;
  afterwards an acknowledgement may be left over, and finds nothing or takes a
  later sending of the same rendering off.
* `PauseEnds`: drawing is paused only while bitmaps are on their way.
* `Settles`: when the document is no longer edited, every visible tile comes to
  show it as it is, and drawing is not paused.
* `MessagesEmitted`: slurped messages are emitted.

Of the connection:

* `TypeOK`: types, and the limit on the queue for a reconnection.
* `InputOrder`: no input is sent twice, over all connections, and on a
  connection those that are not compacted are sent in order.
* `ReconnectComplete`: a page that has loaded the document, with nothing under
  way, can edit, is not reconnecting, and has no count or interval left over.
* `IdleHasDialog`: while `_documentIdle` is set the dialog that resets it is in
  the page.
* `Resumes`: once the interference is over, a user who comes back has the
  document, unless the page shows an error, was told that the server goes down,
  or lost its connection while it retried an unloading document (see
  *Observations*).

Several of those of the document's life hold only outside six courses of
events, which the history variable `seen` records:

| Anomaly | What happens |
|---|---|
| `savingAtExit` | the loop ends while a save is under way |
| `requestReplaced` | `_uploadRequest` is replaced while the request it describes is in flight, and stays in flight |
| `fileReplaced` | a save replaces `.uploading` while the PUT of the older version is in flight |
| `overlappingSaves` | a save is sent before the earlier one is answered: after a timeout, or in a rename or SyncFileTimestamp, where no activity guards it |
| `discarded` | a user, or nobody being left to ask, gives up a document in conflict, or one that is given up turns out to be in conflict |
| `notTheLast` | `removeSession` takes a session for the last although another is loading |

Each property names only the anomalies it needs, and claims nothing about them: `UploadedTimeSound` the second,
`LatestBeforeRename` the second and the third, `OpenSessionsStay` the last two,
`NoSilentLoss` all but `fileReplaced` and `notTheLast`, which the data-loss check
copes with. `DocumentStore` takes a session with one of the anomalies that
`NoSilentLoss` names for one that ended with an alarm.

## Runs

Bounds are budgets: how often the clients act and the environment fails. The
broker, the Kit and the host are not bounded. `LimStoreFailures` is 2, so that
a first failure is retried and a second is the limit.

| Run | Instance | Shows |
|---|---|---|
| `Sessions` | two clients who edit, one of them the owner; a join, two departures, an edit, a save on demand, an idle timeout, one failed connection to the host | `TypeOK`, `NoSilentLoss`, `OpenSessionsStay`, `ImplementsDocumentStore` |
| `Uploads` | one client, two edits, two failed uploads of any of five kinds, one failed CheckFileInfo, a close | `NoSilentLoss`, `UploadedTimeSound`, `VersionOrder`, `SyncWaitsForCheckFileInfo` |
| `Renames` | one client, two edits, a rename, an export and a forced upload; `always_save_on_exit` | `NoSilentLoss`, `LatestBeforeRename` |
| `KitFailures` | one client, two edits, a failed save, a crash, a timeout before its answer; fairness | `NoSilentLoss`, `StorageNeverGoesBack`, `Unloads`, `CloseFinishes` |
| `Unloading` | two clients, an edit, two failed connections, a close; fairness | `Unloads`, `CloseFinishes` |
| `Tiles` | one visible tile; two edits, a blur, a redraw, a stall | `OnFlyAccounted`, `NoBrokenImage`, `NoOlderImage` |
| `TilesWorkers` | one tile out of view; two edits, two prefetches, a scroll, a reclaim, a keyframe | `TypeOK`, `NoBrokenImage`, `NoOlderImage` |
| `TilesSettle` | a visible and a prefetched tile; two edits; fairness | `PauseEnds`, `Settles`, `MessagesEmitted` |
| `Reconnects` | two inputs, losses, refusals and idle timeouts, one of every other interference, two kinds in a behaviour; fairness | `TypeOK`, `InputOrder`, `ReconnectComplete`, `IdleHasDialog`, `Resumes` |

Two edits are the least with which a newer save meets an older upload; two
failures of the host the least with which a failure meets the recovery from
another; two sessions the least with which one leaves while another comes. A
longer run repeats these encounters with the same members: the members hold one
request, one PUT, one file each. In `Unloading`, `Uploads` and `KitFailures` the
failures reach `LimStoreFailures`; in `KitFailures` a timeout, of a save or of a
disconnect handshake, may end while the answer is on its way. `Batched` is TRUE in every run, which allows
the behaviours of FALSE too.

The tiles share nothing but the transaction and the limit on tiles on the fly:
one tile and one worker are enough for images, two tiles where one waits for
the other. One stall is enough for an acknowledgement that comes too late. In
`TilesSettle` there is none: what must come to pass there does so without the
timeout. `OnFlyLimit` is 1, so that requests do wait, and `MaxWid` is more
renderings than the edits and requests of a run can cause. In `Reconnects` the
queue holds one message and an unloading document is tried twice, so that both
limits are met; two kinds are the least with which one interference meets the
recovery from another, and two of a kind with which it meets its own.

The runs of the tiles and of the connection allow deadlock: with the budget
spent the system rests. What must still happen is then said by their liveness.

The following runs end in a violation, each of a sentence in the code's
comments:

| Run | Claim | What the code does |
|---|---|---|
| `UnloadWithSave` | `UnloadWaitsForSave` | the success of an upload stops the broker although a newer save is under way, and the data-loss check does not look at it: the edit is lost silently |
| `StuckTransaction` | `MessagesEmitted` | `onWorkerEndTransaction` ends the transaction only if it has a bitmap to show; when the tiles were removed meanwhile it has none, and no message is emitted any more. The instance is `Tiles` with one edit and one redraw, under the fairness of `TilesSettle` |
| `IdleReopened` | `IdleStaysClosed` | the close event is handled 1 ms later, the slurped `close: idle` up to 50 ms later or after the transaction: the page reconnects to the idle document |

### Fairness

`FairSpec` is weakly fair to the Kit's steps, to the broker's handling of the
Kit's messages and of the host's answers, to the host, and to every branch of
the housekeeping but the timeouts of what is still running. That is what the
code relies on: the poll thread returns from `poll` at least every few seconds;
the throttles elapse, so `PollNone` is fair with every throttle open; the
processes run. A client is never obliged to do anything, and faults may happen,
within the budget, at any time. No fairness is assumed for edits, saves, joins
or departures, nor for successful answers over failed ones beyond what the
budget of failures leaves.

For the tiles, `FairSpec` of `TilePipeline` is weakly fair to the browser's main
thread as a whole (its event loop runs something that is due, in any order), to
the document's thread of coolwsd, to each worker and to the rendering of each
tile. Nobody has to edit, scroll or redraw. For the connection, the main thread
without the user and the interval, the interval, coolwsd's acceptance and
loading of a session, and two things a user does who wants the document: giving
the page the focus and moving the mouse over the dialog. A connection that is
open is not obliged to stay open, but the budget bounds its losses.

## Proofs

The theorems hold for every value of the constants: any number of sessions, any
set of editors and owners, any configuration of the broker; any tiles, workers
and limit on tiles on the fly; any limit of the queue and number of retries; and
any budget, so that nothing bounds how often the clients act and the environment
fails.

| Module | Theorem | States |
|---|---|---|
| `DocumentBrokerProofs` | `TypeCorrect` | `Spec => []TypeOK` |
| | `SyncOrder` | `Spec => []SyncWaitsForCheckFileInfo` |
| | `VersionsInOrder` | `Spec => []VersionOrder` |
| | `NoStorageRollback` | `Spec => StorageNeverGoesBack` |
| `BrokerHistoryProofs` | `NothingLostSilently` | `HSpec => []NoSilentLoss` |
| | `TimestampSound` | `HSpec => []UploadedTimeSound` |
| | `RenamesLatest` | `HSpec => []LatestBeforeRename` |
| | `ClientsStay` | `HSpec => []OpenSessionsStay`, which excludes `notTheLast` and `discarded` |
| | `KeepsDocumentStore` | `HSpec => ImplementsDocumentStore` |
| `TilePipelineProofs` | `TileTypes` | `Spec => []TypeOK` |
| | `TilesAccounted` | `Spec => []OnFlyAccounted` |
| `TileImagesProofs` | `TilesWhole` | `Spec => []NoBrokenImage` |
| | `TilesAdvance` | `Spec => []NoOlderImage` |
| `ClientSocketProofs` | `SocketTypeOK` | `Spec => []TypeOK` |
| | `IdleDialogStays` | `Spec => []IdleHasDialog` |
| | `InputsInOrder` | `Spec => []InputOrder` |
| | `ReconnectsCompletely` | `Spec => []ReconnectComplete` |

Assumptions: `BrokerConstants` and `SystemConstants`, which only type the
constants (at least one session, a positive limit); `WireAssumption`,
`WorkerAssumption`, `OnFlyAssumption` and `BudgetAssumption` (finitely many
tiles and workers, a worker for each tile if there are any, a positive limit);
`SocketAssumption`, which types the constants and asks that the queue holds a
message. TLC evaluates them in the runs of each.

### Versions

The inductive invariant of `DocumentBrokerProofs` is `IInv`, the conjunction of
the three invariants.
`VersionOrder` needs the types. By itself the intuitive part of it, "the PUT is
no older than the Storage", is not inductive: a new upload takes `.uploading`,
so that file must be no older than the Storage and than the PUT before it; a
save result takes `.upload`, so that one must be no older than `.uploading`; and
so on to Core's document. The timestamps are there since an equal version may be
copied again: `OlderOrSame` says "the same file or one saved strictly earlier".
`SyncWaitsForCheckFileInfo` says more than the code's assertion, for the same
reason: the success of a rename request ends whatever activity there is, so none
may be pending in SyncFileTimestamp.

`BrokerLemmas` has one lemma for every method: the record it returns is a
`Broker`, and what it leaves alone. The loops over sets of sessions
need the least element of a non-empty set of numbers, from the
well-founded order of the naturals. `NoStorageRollback` follows from the first
conjunct of `VersionOrder`, since `HostStores` alone changes the Storage.

### No silent loss

`NoSilentLoss` speaks of the last state only; `HInv` follows an edit on its way
there, on top of `IInv`:

* `ViewsKnown`: the Kit knows the view of every session that is live, and the
  disconnection of a session comes after its last edit. Without it the Kit would
  drop an edit as one of an unknown view.
* `EditsCounted`: until the Kit is lost, the edits are those in Core and those
  that wait in the queue to the Kit; an unmodified Core has saved its content.
* `SavesOK`: without overlapping saves there is at most one save on its way, as
  a request or as a result; and when no input was noted since it was sent, no
  edit waits behind it, a result that is not a failure finds every edit in
  `.upload`, and `.uploading` has every edit once the save has succeeded.
  This is what `saving`, `saveFailures` and `modifyActivity` together mean.
* `FilesOK`, `UploadsOK`: a file that Core has not saved holds no edit; the
  request describes the PUT in flight; the time of the last upload is at most
  that of the file on disk, and equal only if the Storage has that version.
* `EndOK`: once the data-loss check has passed, the Storage has every edit. It
  cannot be said of the last state alone: after the loop the sockets are still
  served, so that a result that comes in then must not change it.
* `OpenOK`: the flags of the unload are set under an open client only for one of
  the reasons `OpenSessionsStay` lists.

`BrokerFrames` shows once for each method how its result `Follows` the members
it starts from (sessions only leave, at most one message is sent to the Kit, at
most one upload is started and only where there is none, the flags of the unload
are set for a reason); `BrokerHistoryProofs` has one lemma for each action from
there. The refinement needs `HInv` in three places: edits only add to `latest`,
what a PUT stores is no older than what is stored and no newer than `latest`
(`VersionsInOrder`, with `EditsCounted`), and a session that closes without an
alarm has everything stored (`EndOK`).

The attempt to prove `LatestBeforeRename` in an earlier form showed a course of
events that no run had reached (see *Observations*, the rename); the anomaly
`fileReplaced` is what it led to.

### Tiles

`TypeOK` is not inductive: the browser subtracts what its workers answer, and a
worker's answer is taken apart delta by delta. The invariant `TInv` adds

* `OnFlyAccounted` itself, as `Balanced`: for each `wireId`, the tiles on the fly
  are at most the tiles that are on their way or slurped plus the
  acknowledgements that are `Owed`, and equal while nothing has timed out. That
  it is at most holds although a late acknowledgement takes something off: one
  that arrives leaves both sides, or only the right one, when that side was the
  larger (`ProcessedErases`); a timeout only makes the left one smaller
  (`Outdated`). `SpendsOn` says that a step which spends no stall drops nothing;
* `TasksCounted`: the tasks and answers that are posted are at most the pending
  tasks. It is no equation, since a task whose worker threw is counted until
  `onWorkerError` resets the count;
* `Answered`: an answer has one image for each delta.

The sums are cardinalities of sets of places in queues (`Count`, `Counted`,
`Posted`), so that what a message changes is shown by bijections and disjoint
unions and not by induction over queues. `SendRequestedTiles` sends as many
tiles of each `wireId` as it puts on the fly (`SendKeeps`), and
`OnTileProcessed` keeps, of each, all but as many as are acknowledged; both need
that `InTurn` numbers the places of a finite set in order (`Ranks`).

### Images

The images need an account of everything that is on its way from coolwsd to the
canvas. `Leads(q, h, a, b)` says that what waits in the queue `q` leads from the
rendering `a` to `b`: there are renderings in between, one for each place, so
that every element of `q` is known by the hops `h` that it may make. What is
appended, taken out or passed on from one queue to the next is then a lemma
about `Leads` (`LeadsAppend`, `LeadsTail`, `LeadsConcat`), and none is by
induction over queues. The invariant `ImagesInv`, on top of `TInv`, says for each
tile:

* `Stream`: the slurp queue and the channel lead from the rendering `R` that the
  browser has received, message by message, to the one that coolwsd believes it
  has, or coolwsd believes nothing; and the cache is not older.
* `Held`: the raw deltas of the tile are a chain that ends at `R`, each id once
  and in order, and what was sent to decompression of them leads up to a
  rendering `e`. Reclaiming, collecting, invalidating, `tileReady` and rehydrating
  only take the chain's beginning or all of it (`Lighter`).
* `Line`: from the newest rendering that the tile has shown, the answers or
  promised bitmaps lead to the image that the worker or the main thread has, and
  the tasks and the waiting deltas from there to `e`. A keyframe may start
  anywhere; a delta starts where the one before it ends, which is the image that
  it finds.
* `Waiting`: on the main thread a delta may be skipped, so that the chain alone
  does not tell what it is applied to. The deltas that are still known to the
  tile are a tail of those that wait, and the first of them is a keyframe or
  finds the image that it was made for (`Usable`).
* `ImageOK`: the tile's image is none or the newest that it has shown.

`CacheFit`, `OwnWork` and `ModeOK` complete it: the cache of coolwsd is not ahead
of the Kit, a worker has work and images only for its own tiles, and the main
thread holds no image while there are workers. Each action has a lemma that it
keeps `ImagesInv`. The hops that `Line` allows are loose where `Sound` is false:
an image may be anything after a worker's throw, but no bitmap is newer than
what has been received, so that `NoOlderImage` needs no exception.

The attempt to prove `NoBrokenImage` without its two exceptions is what found
them: the runs are too small for either.

### Connection

`Sound` is the types with the limit and with the dialog. The limit is inductive
by `DropOneType`: of a full queue, the
least droppable message, or the first, is taken out, which shortens the queue by
one whatever it holds. The dialog is not inductive from any single handler:
`_dim` with a dialog that is already closing does not make another, and
`closeAll` starts closing one; it holds because a dialog is in the page until
`DimRemoved`, and `DimRemoved` resets `_documentIdle` in the same callback. Each
handler has a lemma that it keeps a sound page sound; those that touch neither
the queue nor the dialog follow from `SoundFrame`.

`Orderly` is the invariant of the other two. `InputsOK`: each input was sent, or
waits in the queue, or waits as the compacted one, at most once; the queue is in
the order of the inputs, and none of it is newer than the last input made; on a
connection that is not open nothing was sent. `LoadOK`: on an open connection,
whatever is not yet in order will be put in order by a message of coolwsd that
is still in the slurp queue or behind it (`Coming`), which is why a page with
nothing under way is in order.

### Only model-checked

* `Unloads`, `CloseFinishes`, `Settles`, `MessagesEmitted`, `Resumes`: liveness
  under fairness is out of the prover's reach.
* `PauseEnds`: it holds in `TilesSettle`, where nothing is redrawn, and not in
  general, as `StuckTransaction` shows of the transaction; there is nothing to
  prove for every budget.
* What a recursive function computes for every input: of `Images` and
  `SyncImages` it is proved which images they return for a chain of deltas.

## Observations

Courses of events that the models show, or that reading the code for them did,
and no run is kept for. In the document's life:

* A second upload replaces `_uploadRequest` before it is refused because the
  first is in flight; the first one's success records the second's timestamp
  (`wsd/DocumentBroker.cpp:2995`, against the comment at
  `wsd/DocumentBroker.hpp:205`).
* A rename saves, uploads and then asks the host to rename. When a newer save
  replaces the file on disk while the PUT of the older one is in flight, and no
  second upload may start yet, the success of the first sends the rename
  although the newer version is not in the Storage
  (`wsd/DocumentBroker.cpp:3014`). `LatestBeforeRename` excludes it; the newer
  version still counts as not uploaded.
* After a PUT that was not stored the unchanged document is taken for a
  conflict: `getSizeOnServer` is never set and never compared
  (`wsd/DocumentBroker.cpp:5663`).
* Loading sessions are not counted, and the document is marked to be destroyed
  under one (`wsd/DocumentBroker.cpp:4106`).
* `_checkFileInfo` is reset only in Activity::None; a second failure before that
  waits for ever in SyncFileTimestamp (`wsd/DocumentBroker.cpp:642`).
* No one ends Activity::Rename when the Kit is gone; the document is never
  unloaded (`wsd/DocumentBroker.cpp:666`).
* A save that was sent before an upload failed comes back in
  SyncFileTimestamp and uploads; `pollThread` asserts there is no upload in that
  activity (`wsd/DocumentBroker.cpp:639`).
* After a failed upload, the upload of a newer version is skipped while
  throttled; when the retry of the older one, already in flight, succeeds, the
  failure is cleared and nothing retries the newer one until the next save or
  the unload. The loss is not silent: `isStorageOutdated` stays true.
* After TOO_LARGE every session is read-only, `uploadToStorageInternal` returns
  before it counts a request, and a document that is asked to close tries for
  ever.
* A client that fails to join has already cancelled the unload
  (`resetUnloadRequested` comes before `addSession`); after a failed save the
  session of the client that had left then stays until the idle timeout. The
  run `Unloading` therefore has no failing saves.

In the tiles:

* An invalidation overtakes a tile that waits in the slurp queue. The browser
  removes a tile without content, and the older tile then makes it look clean
  (`TilesMiddleware.ts:2574`). `Settles` holds since the server sends the new
  one to who sees it.
* `_onDocumentBlur` takes the bitmaps of visible tiles. When a delta is being
  decompressed then, its answer finds nothing to show: drawing stays paused and
  the transaction open, as in `StuckTransaction`. `TilesSettle` has no blurs
  and no redraws.
* A worker throws on a delta for an image that was evicted
  (`TaskWorkerSrc.js:61`); the guard before it compares with `null`. All workers
  are then terminated for the rest of the page's life. Until the main thread
  handles the error the worker goes on with its next task, and may apply its
  deltas to an image that misses those of the task it threw away; the redraw
  removes what comes of it.
* `redraw()` removes the tiles but not the deltas of theirs that wait in
  `pendingDeltas` (`TilesMiddleware.ts:2154`). On the main thread they are
  decompressed at the end of the emission; a tile that has taken the place of
  the old one numbers its deltas from 1 again, so that one of the old tile can
  pass for one of its own and be applied to its pixels
  (`TilesMiddleware.ts:2245`). With workers the old deltas still meet the old
  image.
* `pausedForCoherency` is not reset by `onWorkerError`, and `deferDrawing(null)`
  may cancel a pending `rehydrateCurrentTiles`; both are repaired by the next
  tile.
* A tile that is edited while it scrolls into view may stay invalid until the
  next `update()`.

In the connection:

* A connection lost while an unloading document is tried again is neither
  reconnected nor reported (`Socket.ts:1036`); the user has to act.
* After a failed automatic reconnection there is no further attempt until the
  user acts.
* The slurp queue is not cleared when the connection closes: a stale
  `docunloading` or `documentconflict` closes the next connection, a stale
  `recycling` leaves `_serverRecycling` set. `Resumes` holds since the intervals
  try again, or excludes it.
* An input that waited while the page was inactive and reconnecting on an open
  socket is sent with the next connection, after later inputs of this one; the
  order is kept on a connection, not across them.
* Mouse buttons made while an inactive page reconnects are ignored, although the
  comment at `Socket.ts:306` keeps them responsive.
* `_activate` calls `closeDialog` with an id that no dialog has; the dialog is
  closed by its own handlers.
* The dialog of an idle document is closed, and the document with it resumed, by
  anything that closes all dialogs, such as `setPermission('view')`; while a
  slide show is presented there is no dialog at all, which the model leaves out.

## Not modelled

Of the document's life: the lock context, background saves, the Kit's queue, the
pool of Kits and the SenderQueue (planned, below); switching to offline,
migration and shutdown of the server, interactive dialogs while loading,
templates, presets, clipboards, `failLoadingSessions` without removal, after the
loop and when the Kit is gone (it only sends a message to the clients that are
loading, also after the load timeout; the removal of loading sessions by
`disconnectSessionInternal` is modelled), the quarantine (it only copies),
convert-to brokers, host timestamps and forced uploads after a conflict (planned
with `WopiUpload`). The administration, the file server and the dispatch of
requests keep no state of a document. The mobile and desktop apps run the same
broker with a Storage that is a local file and answers at once.

A document type without ModifiedStatus (`IsViewFileExtension`) is covered by the
proofs, which are for both values; the runs have it FALSE.

Of the tiles: several sessions that share a cache, previews, PNG tiles and ones
that are incomplete, file-based and multi-page views, the view that compares
changes, prefetching of other parts, the animation of zooming,
`disableTaskWorkers`, and everything that is done only in the Android app. The
channel has no SenderQueue: when a `tile:` message is enqueued while another of
the same tile still waits for the socket, the older one is taken out
(`wsd/SenderQueue.hpp:108`). Its `wireId` then stays on the fly, with no
acknowledgement to come, until the timeout, the newer one is not put on the fly
(`wsd/ClientSession.cpp:3310`), and a delta between the two follows what came
before them; the properties of the tiles do not cover that. The server's cache
is not limited: when `TileCache::ensureCacheSize` evicts a tile that nobody
waits for (`wsd/TileCache.cpp:557`), its next request finds none and forces a
keyframe, like the request of a tile that was never rendered. The bytes of a
delta are not modelled, only what it is made from and for.

Of the connection: the mobile apps (the gesture guard,
`_interactionBlockedForReconnect`, throttling), the indirect socket and
migration, blocked user interfaces, passwords and documents that fail to load,
termination by the owner, a running slide show, and the messages about tiles,
which are dropped while the page reconnects.

The rest of the browser, which is most of its code (menus, toolbars, dialogs,
drawing of sections, selections and comments, the slide show, vendored
libraries), is user interface: it keeps no state that outlives or competes with
an event, and its messages are the inputs of the actions above. It is left out
because a model of it would only repeat it.

## Plan

Done: the document's life with its history, claims and runs; the tiles and the
connection of one browser; and the proofs of the safety of all three. Next, in
this order:

1. `LockContext`: lock, refresh, loss and recovery, with unlock at the end.
2. `KitSave`: the background save of `forkToSave` with its watchdog, against an
   abstract save that succeeds, fails or is abandoned once; composed with
   `DocumentBroker` as the refinement of `KitSave`'s single step there.
3. `WopiUpload`: host timestamps, `X-COOL-WOPI-Timestamp`, forced uploads and
   the storage attributes that are merged after a failure; with another writer
   at the host, and the promise that nothing of the other writer's is
   overwritten without a user's consent.
4. `KitQueue`: eliding as an algorithm, checked against the sequence of
   callbacks it stands for.
5. `ChildPool`: the balance of spare Kits.
6. `TilePipeline` with the SenderQueue between coolwsd and the socket: which of
   the tiles' properties survive its removal of messages, and which need the
   queue to be empty.
7. `TilePipeline` with the connection: tiles over a reconnection, where
   `resetReconnectTransientState` and a new session of coolwsd meet.

----------------------------- MODULE TileManager -----------------------------
(***************************************************************************)
(* The tiles of the browser: app/TilesMiddleware.ts, the worker threads of *)
(* app/TaskWorkerSrc.js that decompress them, and the part of              *)
(* app/Socket.ts that slurps messages and emits them in transactions.      *)
(*                                                                         *)
(* The main thread runs one callback at a time.  The emission loop of      *)
(* _emitSlurpedEvents is the one callback that is modelled as several      *)
(* steps, one per message: while emitting holds no other callback runs.    *)
(*                                                                         *)
(* An image is the wireId of the rendering whose pixels it holds, None     *)
(* where there is none and Broken after a delta was applied to pixels it   *)
(* was not made for.  A tile's distance from the view is abstracted to     *)
(* current, the distance 0.  What garbageCollect and the limit on bitmaps  *)
(* reclaim is chosen among the tiles that are not current.                 *)
(***************************************************************************)
EXTENDS TileWire, SequencesExt

CONSTANTS
    Workers,     \* the task workers, none in the mobile apps
    WorkerOf,    \* the worker of each tile, by its coordinates
    FirstView    \* the tiles of the area that is displayed first

ASSUME WorkerAssumption ==
    /\ IsFiniteSet(Workers)
    /\ Workers # {} => WorkerOf \in [Keys -> Workers]
    /\ FirstView \subseteq Keys

VARIABLES
    tiles,                    \* the Map of tiles, by key
    view,                     \* the tiles of the displayed area
    cachedTiles,              \* keys the workers' answers left in tileImageCache
    imageCache,               \* tileImageCache of the synchronous path
    pendingDeltas,            \* of each tile, in order
    nPendingWorkerTasks,
    queuedProcessed,          \* wireIds of the acknowledgements that wait to be sent
    fetchKeyframeQueue,
    pendingTileCombineQueue,  \* its flush timer runs while it is not empty
    pausedForCoherency,
    dehydratedCurrentTiles,
    deferredDraw,             \* rehydrateCurrentTiles is the deferred callback
    slurpQueue,
    slurpTimer,
    slurpDuringTransaction,
    inLayerTransaction,       \* and a transaction callback is registered
    emitting,                 \* in the loop of _emitSlurpedEvents
    workers,                  \* the workers that have not been terminated
    inbox,                    \* tasks posted to each worker
    outbox,                   \* answers posted by each worker
    workerImages,             \* tileImageCache of each worker
    workerError,              \* an "error" event waits to be handled
    bitmapPromises            \* createImageBitmap calls of the main thread

drawing == <<pausedForCoherency, dehydratedCurrentTiles, deferredDraw>>
slurping == <<slurpQueue, slurpTimer, slurpDuringTransaction,
              inLayerTransaction, emitting>>
working == <<nPendingWorkerTasks, cachedTiles, imageCache, workers, inbox,
             outbox, workerImages, workerError, bitmapPromises>>
fetching == <<queuedProcessed, fetchKeyframeQueue, pendingTileCombineQueue>>
browser == <<tiles, view, pendingDeltas, drawing, slurping, working, fetching>>

None == 0
Broken == -1
Image == {Broken} \cup WireId

-----------------------------------------------------------------------------
(* The class Tile.                                                         *)

RawDelta == [id : Nat, isKeyframe : BOOLEAN, from : WireId, to : WireId]
Tile == [current : BOOLEAN, image : Image, rawDeltas : Seq(RawDelta),
         wireId : WireId, invalidFrom : WireId, deltaId : Nat,
         lastPendingId : Nat, decompressedId : Nat, requested : BOOLEAN]

\* A tile is created at distance 0.
NewTile(current) ==
    [current |-> current, image |-> None, rawDeltas |-> <<>>, wireId |-> 0,
     invalidFrom |-> 0, deltaId |-> 0, lastPendingId |-> 0,
     decompressedId |-> 0, requested |-> FALSE]

HasKeyframe(t) == t.rawDeltas # <<>>
HasContent(t) == t.image # None \/ HasKeyframe(t)
NeedsFetch(t) == t.invalidFrom >= t.wireId \/ ~HasContent(t)
NeedsRehydration(t) ==
    HasKeyframe(t) /\ t.lastPendingId # t.rawDeltas[Len(t.rawDeltas)].id
IsReady(t) == t.decompressedId = t.lastPendingId

\* Demand a tile from the keyframe on, and allow to request it at once.
ForceKeyframe(t, w) ==
    [t EXCEPT !.wireId = w, !.invalidFrom = w, !.requested = FALSE]

\* The index of the last stored keyframe; the first delta is always one.
LastKeyframe(raw) ==
    LET kfs == {i \in 2..Len(raw) : raw[i].isKeyframe}
    IN  IF kfs = {} THEN 1 ELSE CHOOSE i \in kfs : \A j \in kfs : j <= i

\* rehydrateTile: what is sent to decompression starts at the last keyframe,
\* or after the last delta that was already sent.
FirstDelta(t) ==
    LET kf == LastKeyframe(t.rawDeltas)
        sent == {i \in 1..Len(t.rawDeltas) :
                   t.rawDeltas[i].id = t.lastPendingId}
    IN  IF t.lastPendingId > t.rawDeltas[kf].id /\ sent # {}
        THEN (CHOOSE i \in sent : \A j \in sent : i <= j) + 1
        ELSE kf

\* applyCompressedDelta: the raw deltas from the first one on, concatenated.
Delta == [ids : Nat \X Nat, isKeyframe : BOOLEAN, from : WireId, to : WireId,
          wireMessage : BOOLEAN]
CompressedDelta(t, wireMessage) ==
    LET first == t.rawDeltas[FirstDelta(t)]
        last == t.rawDeltas[Len(t.rawDeltas)]
    IN  [ids |-> <<first.id, last.id>>, isKeyframe |-> first.isKeyframe,
         from |-> first.from, to |-> last.to, wireMessage |-> wireMessage]

Rehydrated(t) ==
    [t EXCEPT !.lastPendingId = t.rawDeltas[Len(t.rawDeltas)].id]

\* reclaimTileBitmapMemory.
Reclaimed(t) ==
    IF t.image = None THEN t
    ELSE [t EXCEPT !.image = None, !.lastPendingId = 0, !.decompressedId = 0]

\* Mutant: the keyframe is discarded with the deltas before it.
KeyframeDiscarded(t) ==
    LET kf == LastKeyframe(t.rawDeltas)
    IN  IF t.rawDeltas = <<>> \/ kf = 1 THEN t
        ELSE [t EXCEPT !.rawDeltas = SubSeq(@, kf + 1, Len(@))]

\* tileReady: the raw deltas before the last keyframe are not needed any more.
TileReady(t) ==
    IF t.rawDeltas = <<>> THEN t
    ELSE [t EXCEPT !.rawDeltas =
            SubSeq(@, LastKeyframe(@), Len(@))]

-----------------------------------------------------------------------------
(* Decompression.                                                          *)

\* The deltas posted to a worker, and the keys of the tileImageCache that
\* tell it which of its own images to keep.
NoDeltas == [k \in Keys |-> <<>>]
Task == [deltas : [Keys -> Seq(Delta)], cached : SUBSET Keys]
Answer == [deltas : [Keys -> Seq(Delta)], bitmaps : [Keys -> Seq(Image)]]
NoBitmaps == [k \in Keys |-> None]

\* updateImageFromDeltas: a keyframe needs nothing, a delta the pixels it was
\* made for.
ApplyDelta(image, d) ==
    CASE d.isKeyframe -> d.to
      [] ~d.isKeyframe /\ image = d.from -> d.to
      [] OTHER -> Broken

\* The images after each of the deltas ds of one tile, in turn.
Images(image, ds) ==
    LET after[i \in 0..Len(ds)] ==
          IF i = 0 THEN image ELSE ApplyDelta(after[i - 1], ds[i])
    IN  [i \in 1..Len(ds) |-> after[i]]

\* onWorkerEndTransaction: the deltas whose bitmap is shown.  One that came
\* off the wire to a tile that has no raw deltas of its own is skipped, and so
\* is one for a tile with nothing decompressed.
Known(t, d) ==
    \A n \in 1..2 : \E i \in 1..Len(t.rawDeltas) : t.rawDeltas[i].id = d.ids[n]

Shown(t, ds) ==
    {i \in 1..Len(ds) :
       \/ ds[i].isKeyframe
       \/ /\ ds[i].wireMessage => Known(t, ds[i])
          /\ i = 1 => t.decompressedId # 0}

Decompressed(t, ds) ==
    IF ds = <<>> THEN t ELSE [t EXCEPT !.decompressedId = ds[Len(ds)].ids[2]]

LastOf(S) == CHOOSE i \in S : \A j \in S : j <= i

\* The bitmap each tile is left with, of the answers' deltas and images.
BitmapsOf(ts, deltas, images) ==
    [k \in Keys |->
       IF k \notin DOMAIN ts THEN None
       ELSE LET shown == Shown(ts[k], deltas[k])
            IN  IF shown = {} THEN None ELSE images[k][LastOf(shown)]]

AllDecompressed(ts, deltas) ==
    [k \in DOMAIN ts |-> Decompressed(ts[k], deltas[k])]

\* On the main thread a delta that is skipped is not applied either, and one
\* that finds no image is dropped.
SyncImages(t, image, ds) ==
    LET shown == Shown(t, ds)
        after[i \in 0..Len(ds)] ==
          IF i = 0 THEN image
          ELSE IF i \notin shown \/ (~ds[i].isKeyframe /\ after[i - 1] = None)
               THEN after[i - 1]
               ELSE ApplyDelta(after[i - 1], ds[i])
    IN  [i \in 1..Len(ds) |-> after[i]]

\* decompressPendingDeltas: each worker gets the deltas of its tiles.
PostTo(w, deltas) ==
    [k \in Keys |-> IF WorkerOf[k] = w THEN deltas[k] ELSE <<>>]

PostTasks(deltas) ==
    LET busy == {w \in workers : PostTo(w, deltas) # NoDeltas}
    IN  /\ inbox' = [w \in Workers |->
             IF w \in busy
             THEN Append(inbox[w], [deltas |-> PostTo(w, deltas),
                                    cached |-> cachedTiles])
             ELSE inbox[w]]
        /\ nPendingWorkerTasks' = nPendingWorkerTasks + Cardinality(busy)

\* ... or the main thread decompresses them and waits for the bitmaps.
DecompressNow(ts, deltas, data) ==
    LET images == [k \in Keys |->
          IF k \in DOMAIN ts THEN SyncImages(ts[k], data[k], deltas[k])
                             ELSE <<>>]
        bitmaps == BitmapsOf(ts, deltas, images)
    IN  /\ tiles' = AllDecompressed(ts, deltas)
        /\ imageCache' = [k \in Keys |-> IF images[k] = <<>> THEN data[k]
                                         ELSE images[k][Len(images[k])]]
        /\ bitmapPromises' = IF bitmaps = NoBitmaps THEN bitmapPromises
                             ELSE Append(bitmapPromises, bitmaps)

\* endTransaction, when it is the outermost one; data is the image cache.
EndTransaction(ts, deltas, data) ==
    /\ IF deltas # NoDeltas /\ workers # {}
       THEN PostTasks(deltas)
       ELSE UNCHANGED <<inbox, nPendingWorkerTasks>>
    /\ IF deltas # NoDeltas /\ workers = {}
       THEN DecompressNow(ts, deltas, data)
       ELSE tiles' = ts /\ imageCache' = data /\ UNCHANGED bitmapPromises
    /\ UNCHANGED <<cachedTiles, workers, outbox, workerImages, workerError>>

\* Mutant: messages that came during the transaction are left to wait.
CallbackForgetsSlurp(fetch) ==
    /\ toServer' = IF queuedProcessed = <<>> THEN toServer
                   ELSE Append(toServer, Tileprocessed(queuedProcessed))
    /\ queuedProcessed' = <<>>
    /\ pendingTileCombineQueue' =
         pendingTileCombineQueue \cup fetchKeyframeQueue \cup fetch
    /\ fetchKeyframeQueue' = {}
    /\ inLayerTransaction' = FALSE
    /\ slurpDuringTransaction' = FALSE
    /\ UNCHANGED slurpTimer

\* The callback of the slurp transaction: "messagesdone" sends the
\* acknowledgements and the keyframe fetches, and slurping goes on.
TransactionCallback(fetch) ==
    /\ toServer' = IF queuedProcessed = <<>> THEN toServer
                   ELSE Append(toServer, Tileprocessed(queuedProcessed))
    /\ queuedProcessed' = <<>>
    /\ pendingTileCombineQueue' =
         pendingTileCombineQueue \cup fetchKeyframeQueue \cup fetch
    /\ fetchKeyframeQueue' = {}
    /\ inLayerTransaction' = FALSE
    /\ slurpTimer' = (slurpTimer \/ slurpDuringTransaction)
    /\ slurpDuringTransaction' = FALSE

-----------------------------------------------------------------------------
(* Reclaiming.                                                             *)

Fate == {"keep", "evict", "drop", "remove"}
KeepAll == [k \in Keys |-> "keep"]

\* What the bitmap limit and garbageCollect may do: tiles that are not
\* current lose their image, their raw deltas or everything.
Fates(ts) ==
    {f \in [Keys -> Fate] :
       \A k \in Keys : f[k] # "keep" => k \in DOMAIN ts /\ ~ts[k].current}

GarbageCollect(ts, fate) ==
    [k \in {x \in DOMAIN ts : fate[x] # "remove"} |->
       CASE fate[k] = "drop" ->
              ForceKeyframe([Reclaimed(ts[k]) EXCEPT !.rawDeltas = <<>>], 0)
         [] fate[k] = "evict" -> Reclaimed(ts[k])
         [] OTHER -> ts[k]]

\* The images that go with the bitmaps of S.
ForgetImages(ts, S) ==
    [k \in Keys |-> IF k \in S \cap DOMAIN ts /\ ts[k].image # None
                    THEN None ELSE imageCache[k]]

\* endTransactionHandleBitmaps.
WithBitmaps(ts, bitmaps) ==
    [k \in DOMAIN ts |->
       IF bitmaps[k] = None THEN ts[k]
       ELSE LET t == [ts[k] EXCEPT !.image = bitmaps[k]]
            IN  IF IsReady(t) THEN TileReady(t) ELSE t]

\* Mutant: tiles that are not visible have to be ready too.
AllTilesReady(ts) ==
    \A k \in DOMAIN ts : ts[k].image # None /\ IsReady(ts[k])

VisibleTilesReady(ts) ==
    \A k \in DOMAIN ts :
      ts[k].current /\ ts[k].lastPendingId # 0 => IsReady(ts[k])

HandleBitmaps(ts, bitmaps, tasks, fate) ==
    LET shown == WithBitmaps(ts, bitmaps)
        ready == VisibleTilesReady(shown)
    IN  /\ fate \in Fates(shown)
        /\ tiles' = GarbageCollect(shown, fate)
        /\ imageCache' = ForgetImages(shown, {k \in Keys : fate[k] # "keep"})
        /\ pausedForCoherency' = (pausedForCoherency /\ ~ready)
        /\ deferredDraw' = (deferredDraw /\ ~ready)
        /\ IF tasks = 0 /\ inLayerTransaction
           THEN TransactionCallback({})
           ELSE UNCHANGED <<toServer, fetching, inLayerTransaction, slurpTimer,
                            slurpDuringTransaction>>
        /\ UNCHANGED <<dehydratedCurrentTiles, emitting, slurpQueue>>

-----------------------------------------------------------------------------
(* Looking at the document.                                                *)

\* getMissingTiles of the current area: its tiles are fetched, or made current
\* and rehydrated.
Distances(ts, shown) ==
    [k \in DOMAIN ts |-> [ts[k] EXCEPT !.current = (k \in shown)]]

Missing(ts, area) == {k \in area : k \notin DOMAIN ts \/ NeedsFetch(ts[k])}

ToRehydrate(ts, area) ==
    {k \in area \ Missing(ts, area) : NeedsRehydration(ts[k])}

MakeTileCurrent(t) ==
    LET c == [t EXCEPT !.current = TRUE, !.requested = FALSE]
    IN  IF NeedsRehydration(c) THEN Rehydrated(c) ELSE c

\* addTiles creates the tiles that are not there.
UpdatedTiles(ts, shown, area) ==
    LET missing == Missing(ts, area)
        old == Distances(ts, shown)
    IN  [k \in DOMAIN ts \cup missing |->
           CASE k \notin DOMAIN ts -> NewTile(TRUE)
             [] k \in area \ missing -> MakeTileCurrent(old[k])
             [] OTHER -> old[k]]

Rehydrating(ts, S, wireMessage) ==
    [k \in Keys |->
       IF k \in S THEN Append(pendingDeltas[k], CompressedDelta(ts[k], wireMessage))
                  ELSE pendingDeltas[k]]

\* The user scrolls or zooms: update().  The area that is made current is the
\* displayed one, expanded unless drawing could not keep up.
Update(shown, area) ==
    /\ ~emitting
    /\ shown \subseteq area
    /\ view' = shown
    /\ toServer' = IF shown = view THEN toServer
                   ELSE Append(toServer, Clientvisiblearea(shown))
    /\ pausedForCoherency' = (pausedForCoherency \/ ToRehydrate(tiles, area) # {})
    /\ EndTransaction(UpdatedTiles(tiles, shown, area),
                      Rehydrating(tiles, ToRehydrate(tiles, area), FALSE),
                      imageCache)
    /\ pendingTileCombineQueue' = pendingTileCombineQueue \cup Missing(tiles, area)
    /\ UNCHANGED <<toClient, pendingDeltas, dehydratedCurrentTiles, deferredDraw,
                   slurping, queuedProcessed, fetchKeyframeQueue>>

\* preFetchTiles: tiles around the view that need it are fetched.
PreFetchTiles(S) ==
    /\ ~emitting
    /\ S \subseteq Missing(tiles, Keys)
    /\ tiles' = [k \in DOMAIN tiles \cup S |->
                   IF k \in DOMAIN tiles THEN tiles[k] ELSE NewTile(k \in view)]
    /\ pendingTileCombineQueue' = pendingTileCombineQueue \cup S
    /\ UNCHANGED <<wire, view, pendingDeltas, drawing, slurping, working,
                   queuedProcessed, fetchKeyframeQueue>>

\* flushPendingTileCombineQueue: a tile that was requested in the last five
\* seconds is left out.
FlushPendingTileCombineQueue ==
    /\ ~emitting
    /\ pendingTileCombineQueue # {}
    /\ \E tooFast \in SUBSET {k \in pendingTileCombineQueue \cap DOMAIN tiles :
                                tiles[k].requested} :
         LET added == pendingTileCombineQueue \ tooFast
         IN  /\ toServer' = IF added = {} THEN toServer
                  ELSE Append(toServer, Tilecombine(added,
                         [k \in added |-> IF k \in DOMAIN tiles
                                          THEN tiles[k].wireId ELSE 0]))
             /\ tiles' = [k \in DOMAIN tiles |->
                  [tiles[k] EXCEPT !.requested = @ \/ k \in added]]
    /\ pendingTileCombineQueue' = {}
    /\ UNCHANGED <<toClient, view, pendingDeltas, drawing, slurping, working,
                   queuedProcessed, fetchKeyframeQueue>>

\* _onDocumentBlur: pruneTiles and reclaimGraphicsMemory.
OnDocumentBlur(fate) ==
    LET near == Distances(tiles, view)
        pruned == GarbageCollect(near, fate)
    IN  /\ ~emitting
        /\ fate \in Fates(near)
        /\ tiles' = [k \in DOMAIN pruned |-> Reclaimed(pruned[k])]
        /\ imageCache' = ForgetImages(near, Keys)
        /\ dehydratedCurrentTiles' =
             dehydratedCurrentTiles \cup {k \in DOMAIN pruned : pruned[k].current}
        /\ deferredDraw' = (deferredDraw \/ dehydratedCurrentTiles' # {})
        /\ UNCHANGED <<wire, view, pendingDeltas, pausedForCoherency, slurping,
                       fetching, nPendingWorkerTasks, cachedTiles, workers,
                       inbox, outbox, workerImages, workerError, bitmapPromises>>

\* requestReDraw calls the deferred callback, rehydrateCurrentTiles.
RehydrateCurrentTiles ==
    LET S == {k \in dehydratedCurrentTiles \cap DOMAIN tiles :
                NeedsRehydration(tiles[k])}
    IN  /\ ~emitting
        /\ deferredDraw /\ ~pausedForCoherency
        /\ deferredDraw' = FALSE
        /\ dehydratedCurrentTiles' = {}
        /\ pausedForCoherency' = (\E k \in S : tiles[k].current)
        /\ EndTransaction([k \in DOMAIN tiles |-> IF k \in S
                             THEN Rehydrated(tiles[k]) ELSE tiles[k]],
                          Rehydrating(tiles, S, FALSE), imageCache)
        /\ UNCHANGED <<wire, view, pendingDeltas, slurping, fetching>>

\* redraw: every tile is removed, and those of the area are fetched anew.
RedrawnTiles(area) == [k \in area |-> NewTile(TRUE)]

-----------------------------------------------------------------------------
(* Messages of coolwsd.                                                    *)

\* invalidateTile, when a message arrives: invalidations are filtered out and
\* overtake the messages that wait in the slurp queue.
Invalidated(t, w) == ForceKeyframe(t, IF w # 0 THEN w ELSE t.wireId)

InvalidateTile(k, w) ==
    IF k \notin DOMAIN tiles THEN tiles
    ELSE IF HasContent(tiles[k])
         THEN [tiles EXCEPT ![k] = Invalidated(@, w)]
         ELSE [x \in DOMAIN tiles \ {k} |-> tiles[x]]

SlurpMessage ==
    /\ ~emitting
    /\ toClient # <<>>
    /\ toClient' = Tail(toClient)
    /\ LET m == Head(toClient)
       IN  IF m.type = "invalidatetiles"
           THEN /\ tiles' = InvalidateTile(m.key, m.wid)
                /\ UNCHANGED <<slurpQueue, slurpTimer>>
           ELSE /\ slurpQueue' = Append(slurpQueue, m)
                /\ slurpTimer' = TRUE
                /\ UNCHANGED tiles
    /\ UNCHANGED <<toServer, view, pendingDeltas, drawing, working, fetching,
                   slurpDuringTransaction, inLayerTransaction, emitting>>

\* The slurp timer starts the emission, unless a transaction is under way.
SlurpTimer ==
    /\ ~emitting
    /\ slurpTimer
    /\ slurpTimer' = FALSE
    /\ IF inLayerTransaction
       THEN slurpDuringTransaction' = TRUE
            /\ UNCHANGED <<emitting, inLayerTransaction>>
       ELSE emitting' = TRUE /\ inLayerTransaction' = TRUE
            /\ UNCHANGED slurpDuringTransaction
    /\ UNCHANGED <<wire, tiles, view, pendingDeltas, drawing, working, fetching,
                   slurpQueue>>

\* Mutant: a delta is kept although there is no keyframe.
ReceivedAnyDelta(t, m) ==
    LET r == [t EXCEPT !.wireId = m.to]
    IN  IF m.from = m.to THEN r
        ELSE [r EXCEPT !.deltaId = @ + 1,
                !.rawDeltas = Append(@, [id |-> r.deltaId + 1,
                    isKeyframe |-> m.isKeyframe, from |-> m.from, to |-> m.to])]

\* onTileMsg: a delta for a tile whose keyframe is gone is not kept, and the
\* tile is fetched again; a current tile is rehydrated.
ReceivedTile(t, m) ==
    LET r == [t EXCEPT !.wireId = m.to]
    IN  IF ~m.isKeyframe /\ ~HasKeyframe(r) THEN ForceKeyframe(r, 0)
        ELSE IF m.from = m.to THEN r
        ELSE [r EXCEPT !.deltaId = @ + 1,
                !.rawDeltas = Append(@, [id |-> r.deltaId + 1,
                    isKeyframe |-> m.isKeyframe, from |-> m.from, to |-> m.to])]

\* Mutant: a delta that cannot be used is not acknowledged.
AcknowledgeUseful(m) ==
    queuedProcessed' = IF m.isKeyframe \/ (m.key \in DOMAIN tiles
                                              /\ HasKeyframe(tiles[m.key]))
                       THEN Append(queuedProcessed, m.to) ELSE queuedProcessed

\* Every tile is acknowledged, the useless ones too.
QueueAcknowledgement(m) == queuedProcessed' = Append(queuedProcessed, m.to)

OnTileMsg ==
    /\ emitting /\ slurpQueue # <<>>
    /\ Head(slurpQueue).type = "tile"
    /\ LET m == Head(slurpQueue)
           k == m.key
           t == IF k \in DOMAIN tiles THEN tiles[k] ELSE NewTile(k \in view)
           r == ReceivedTile(t, m)
           hydrate == r.current /\ NeedsRehydration(r)
       IN  /\ tiles' = [x \in DOMAIN tiles \cup {k} |->
                          IF x # k THEN tiles[x]
                          ELSE IF hydrate THEN Rehydrated(r) ELSE r]
           /\ pendingDeltas' = IF hydrate
                THEN [pendingDeltas EXCEPT
                        ![k] = Append(@, CompressedDelta(r, TRUE))]
                ELSE pendingDeltas
           /\ pausedForCoherency' = (pausedForCoherency \/ hydrate)
           /\ fetchKeyframeQueue' = IF ~m.isKeyframe /\ ~HasKeyframe(t)
                THEN fetchKeyframeQueue \cup {k} ELSE fetchKeyframeQueue
    /\ QueueAcknowledgement(Head(slurpQueue))
    /\ slurpQueue' = Tail(slurpQueue)
    /\ UNCHANGED <<wire, view, dehydratedCurrentTiles, deferredDraw, working,
                   pendingTileCombineQueue, slurpTimer, slurpDuringTransaction,
                   inLayerTransaction, emitting>>

\* canonicalidchange: all tiles are invalid, and redraw() removes them.
OnCanonicalIdChange(area) ==
    /\ emitting /\ slurpQueue # <<>>
    /\ Head(slurpQueue).type = "canonicalidchange"
    /\ view \subseteq area
    /\ tiles' = RedrawnTiles(area)
    /\ imageCache' = ForgetImages(tiles, Keys)
    /\ pendingTileCombineQueue' = pendingTileCombineQueue \cup area
    /\ slurpQueue' = Tail(slurpQueue)
    /\ UNCHANGED <<wire, view, pendingDeltas, drawing, queuedProcessed,
                   fetchKeyframeQueue, slurpTimer, slurpDuringTransaction,
                   inLayerTransaction, emitting, nPendingWorkerTasks,
                   cachedTiles, workers, inbox, outbox, workerImages,
                   workerError, bitmapPromises>>

\* The end of the emission: endTransaction with the callback.
EmitSlurpedEventsEnd ==
    /\ emitting /\ slurpQueue = <<>>
    /\ emitting' = FALSE
    /\ EndTransaction(tiles, pendingDeltas, imageCache)
    /\ pendingDeltas' = NoDeltas
    /\ IF pendingDeltas = NoDeltas
       THEN TransactionCallback({})
       ELSE UNCHANGED <<toServer, fetching, inLayerTransaction, slurpTimer,
                        slurpDuringTransaction>>
    /\ UNCHANGED <<toClient, view, drawing, slurpQueue>>

-----------------------------------------------------------------------------
(* The workers.                                                            *)

\* onMessage of the worker: it forgets the images the main thread does not
\* know of, decompresses, and answers.  A delta without an image throws: the
\* deltas that the task lists before it have been applied.
Kept(w, task) ==
    [k \in Keys |-> IF k \in task.cached THEN workerImages[w][k] ELSE None]

Throwing(w, task) ==
    {k \in Keys :
       /\ task.deltas[k] # <<>>
       /\ ~task.deltas[k][1].isKeyframe
       /\ Kept(w, task)[k] = None}

WorkerMessage(w) ==
    /\ w \in workers /\ inbox[w] # <<>>
    /\ inbox' = [inbox EXCEPT ![w] = Tail(@)]
    /\ LET task == Head(inbox[w])
           throwing == Throwing(w, task)
           bitmaps == [k \in Keys |-> Images(Kept(w, task)[k], task.deltas[k])]
       IN  IF throwing # {}
           THEN /\ \E images \in [Keys -> Image] :
                     /\ \A k \in Keys :
                          images[k] \in {Kept(w, task)[k]} \cup
                            (IF k \in throwing THEN {} ELSE Range(bitmaps[k]))
                     /\ workerImages' = [workerImages EXCEPT ![w] = images]
                /\ workerError' = TRUE
                /\ UNCHANGED outbox
           ELSE /\ workerImages' = [workerImages EXCEPT ![w] =
                     [k \in Keys |-> IF bitmaps[k] = <<>> THEN Kept(w, task)[k]
                                     ELSE bitmaps[k][Len(bitmaps[k])]]]
                /\ outbox' = [outbox EXCEPT ![w] = Append(@,
                     [deltas |-> task.deltas, bitmaps |-> bitmaps])]
                /\ UNCHANGED workerError
    /\ UNCHANGED <<wire, tiles, view, pendingDeltas, drawing, slurping, fetching,
                   nPendingWorkerTasks, cachedTiles, imageCache, workers,
                   bitmapPromises>>

\* onWorkerEndTransaction, of a worker's answer.  Without a bitmap to show,
\* the bitmaps are not handled at all.  The code warns of an answer that finds
\* no task pending; here the count would become negative, which ManagerTypeOK
\* excludes.
OnWorkerEndTransaction(w, fate) ==
    /\ ~emitting
    /\ w \in workers /\ outbox[w] # <<>>
    /\ outbox' = [outbox EXCEPT ![w] = Tail(@)]
    /\ LET a == Head(outbox[w])
           left == nPendingWorkerTasks - 1
           decompressed == AllDecompressed(tiles, a.deltas)
           bitmaps == BitmapsOf(tiles, a.deltas, a.bitmaps)
       IN  /\ nPendingWorkerTasks' = left
           /\ cachedTiles' = cachedTiles \cup {k \in Keys : bitmaps[k] # None}
           /\ IF bitmaps # NoBitmaps
              THEN HandleBitmaps(decompressed, bitmaps, left, fate)
              ELSE /\ fate = KeepAll
                   /\ tiles' = decompressed
                   /\ UNCHANGED <<toServer, fetching, drawing, slurping,
                                  imageCache>>
    /\ UNCHANGED <<toClient, view, pendingDeltas, workers, inbox, workerImages,
                   workerError, bitmapPromises>>

\* The promises of createImageBitmap resolve.
BitmapsResolve(fate) ==
    /\ ~emitting
    /\ bitmapPromises # <<>>
    /\ bitmapPromises' = Tail(bitmapPromises)
    /\ HandleBitmaps(tiles, Head(bitmapPromises), nPendingWorkerTasks, fate)
    /\ UNCHANGED <<toClient, view, pendingDeltas, nPendingWorkerTasks,
                   cachedTiles, workers, inbox, outbox, workerImages,
                   workerError>>

\* Mutant: the workers go on, and their answers come after the tasks were
\* written off.
WorkersGoOn(area) ==
    /\ ~emitting
    /\ workerError
    /\ view \subseteq area
    /\ workerError' = FALSE
    /\ nPendingWorkerTasks' = 0
    /\ IF inLayerTransaction
       THEN TransactionCallback(area)
       ELSE /\ pendingTileCombineQueue' = pendingTileCombineQueue \cup area
            /\ UNCHANGED <<toServer, queuedProcessed, fetchKeyframeQueue,
                           inLayerTransaction, slurpTimer,
                           slurpDuringTransaction>>
    /\ tiles' = RedrawnTiles(area)
    /\ imageCache' = ForgetImages(tiles, Keys)
    /\ UNCHANGED <<toClient, view, pendingDeltas, drawing, slurpQueue, emitting,
                   workers, inbox, outbox, cachedTiles, workerImages,
                   bitmapPromises>>

\* onWorkerError, of Socket and of TileManager: the workers are terminated,
\* the transaction is over, and everything is fetched again.
OnWorkerError(area) ==
    /\ ~emitting
    /\ workerError
    /\ view \subseteq area
    /\ workerError' = FALSE
    /\ workers' = {}
    /\ inbox' = [w \in Workers |-> <<>>]
    /\ outbox' = [w \in Workers |-> <<>>]
    /\ nPendingWorkerTasks' = 0
    /\ IF inLayerTransaction
       THEN TransactionCallback(area)
       ELSE /\ pendingTileCombineQueue' = pendingTileCombineQueue \cup area
            /\ UNCHANGED <<toServer, queuedProcessed, fetchKeyframeQueue,
                           inLayerTransaction, slurpTimer,
                           slurpDuringTransaction>>
    /\ tiles' = RedrawnTiles(area)
    /\ imageCache' = ForgetImages(tiles, Keys)
    /\ pendingDeltas' = NoDeltas
    /\ UNCHANGED <<toClient, view, drawing, slurpQueue, emitting, cachedTiles,
                   workerImages, bitmapPromises>>

-----------------------------------------------------------------------------
\* The document is shown for the first time: its visible tiles are requested.
ManagerInit ==
    /\ view = FirstView
    /\ tiles = [k \in view |-> NewTile(TRUE)]
    /\ cachedTiles = {}
    /\ imageCache = NoBitmaps
    /\ pendingDeltas = NoDeltas
    /\ nPendingWorkerTasks = 0
    /\ queuedProcessed = <<>>
    /\ fetchKeyframeQueue = {}
    /\ pendingTileCombineQueue = view
    /\ pausedForCoherency = FALSE
    /\ dehydratedCurrentTiles = {}
    /\ deferredDraw = FALSE
    /\ slurpQueue = <<>>
    /\ slurpTimer = FALSE
    /\ slurpDuringTransaction = FALSE
    /\ inLayerTransaction = FALSE
    /\ emitting = FALSE
    /\ workers = Workers
    /\ inbox = [w \in Workers |-> <<>>]
    /\ outbox = [w \in Workers |-> <<>>]
    /\ workerImages = [w \in Workers |-> NoBitmaps]
    /\ workerError = FALSE
    /\ bitmapPromises = <<>>

ManagerTypeOK ==
    /\ view \subseteq Keys
    /\ DOMAIN tiles \subseteq Keys
    /\ \A k \in DOMAIN tiles : tiles[k] \in Tile
    /\ cachedTiles \subseteq Keys
    /\ imageCache \in [Keys -> Image]
    /\ pendingDeltas \in [Keys -> Seq(Delta)]
    /\ nPendingWorkerTasks \in Nat
    /\ queuedProcessed \in Seq(WireId)
    /\ fetchKeyframeQueue \subseteq Keys
    /\ pendingTileCombineQueue \subseteq Keys
    /\ pausedForCoherency \in BOOLEAN
    /\ dehydratedCurrentTiles \subseteq Keys
    /\ deferredDraw \in BOOLEAN
    /\ slurpQueue \in Seq(TileMsg \cup CanonicalMsg)
    /\ slurpTimer \in BOOLEAN
    /\ slurpDuringTransaction \in BOOLEAN
    /\ inLayerTransaction \in BOOLEAN
    /\ emitting \in BOOLEAN
    /\ workers \subseteq Workers
    /\ inbox \in [Workers -> Seq(Task)]
    /\ outbox \in [Workers -> Seq(Answer)]
    /\ workerImages \in [Workers -> [Keys -> Image]]
    /\ workerError \in BOOLEAN
    /\ bitmapPromises \in Seq([Keys -> Image])
=============================================================================

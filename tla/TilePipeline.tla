---------------------------- MODULE TilePipeline ----------------------------
(***************************************************************************)
(* One browser and one coolwsd: the tiles of a document from the Kit that  *)
(* renders them to the canvas that shows them.  A budget bounds how often  *)
(* the users and the memory limits interfere.                              *)
(***************************************************************************)
EXTENDS TileManager, TileCache

CONSTANT Budget    \* how often each of Interference may happen

Interference == {"edits", "scrolls", "prefetches", "blurs", "redraws", "reclaims",
                 "keyframes", "stalls"}

ASSUME BudgetAssumption == Budget \in [Interference -> Nat]

VARIABLES
    spent,     \* of the budget
    newest,    \* history: the newest rendering that each tile has shown
    orphaned   \* history: the tiles that redraw() removed while deltas of
               \* theirs waited to be decompressed on the main thread

system == <<wire, browser, tileCache, spent>>
vars == <<system, newest, orphaned>>

Init ==
    /\ toClient = <<>>
    /\ ManagerInit
    /\ toServer = <<Clientvisiblearea(view)>>
    /\ CacheInit
    /\ spent = [i \in Interference |-> 0]
    /\ newest = [k \in Keys |-> None]
    /\ orphaned = {}

SpendAll(S) ==
    /\ \A i \in S : spent[i] < Budget[i]
    /\ spent' = [i \in Interference |-> IF i \in S THEN spent[i] + 1 ELSE spent[i]]

Spend(i) == SpendAll({i})

\* The client is so late with its acknowledgements that n tiles time out.
Stalls(n) == IF n = 0 THEN {} ELSE {"stalls"}

\* A memory limit is met now and then.
Reclaiming(fate) ==
    IF fate = KeepAll THEN UNCHANGED spent ELSE Spend("reclaims")

Areas(shown) == {shown, Keys}

Edit == \E k \in Keys : \E n \in 0..Len(onFly) :
    /\ SpendAll({"edits"} \cup Stalls(n)) /\ HandleTileInvalidation(k, n)
    /\ UNCHANGED browser

\* The Kit's answer to a change of a view setting.
CanonicalIdChange ==
    /\ Spend("redraws")
    /\ toClient' = Append(toClient, Canonicalidchange)
    /\ UNCHANGED <<toServer, browser, tileCache>>

Scroll == \E shown \in SUBSET Keys : \E area \in Areas(shown) :
    Spend("scrolls") /\ Update(shown, area) /\ UNCHANGED tileCache

PreFetch == \E S \in SUBSET Keys \ {{}} :
    Spend("prefetches") /\ PreFetchTiles(S) /\ UNCHANGED tileCache

Blur == \E fate \in Fates(Distances(tiles, view)) :
    /\ Spend("blurs") /\ OnDocumentBlur(fate) /\ fate = KeepAll
    /\ UNCHANGED tileCache

\* The steps of the browser's main thread that follow from earlier ones.
Flush == FlushPendingTileCombineQueue /\ UNCHANGED <<tileCache, spent>>
Redraw == RehydrateCurrentTiles /\ UNCHANGED <<tileCache, spent>>
Slurp == SlurpMessage /\ UNCHANGED <<tileCache, spent>>
Timer == SlurpTimer /\ UNCHANGED <<tileCache, spent>>
EmitTile == OnTileMsg /\ UNCHANGED <<tileCache, spent>>
EmitCanonical == \E area \in Areas(view) :
    OnCanonicalIdChange(area) /\ UNCHANGED <<tileCache, spent>>
EmitEnd == EmitSlurpedEventsEnd /\ UNCHANGED <<tileCache, spent>>
AnswerOf(w) == \E fate \in [Keys -> Fate] :
    OnWorkerEndTransaction(w, fate) /\ Reclaiming(fate) /\ UNCHANGED tileCache
Promise == \E fate \in [Keys -> Fate] :
    BitmapsResolve(fate) /\ Reclaiming(fate) /\ UNCHANGED tileCache
WorkersFail == \E area \in Areas(view) :
    OnWorkerError(area) /\ UNCHANGED <<tileCache, spent>>

\* The workers' step, and those of coolwsd and the Kit.
WorkerStep(w) == WorkerMessage(w) /\ UNCHANGED <<tileCache, spent>>
Request == \E n \in 0..Len(onFly) :
    HandleTileCombinedRequest(n) /\ SpendAll(Stalls(n)) /\ UNCHANGED browser
Processed == \E n \in 0..Len(onFly) :
    HandleTileProcessed(n) /\ SpendAll(Stalls(n)) /\ UNCHANGED browser
VisibleArea == HandleClientVisibleArea /\ UNCHANGED <<browser, spent>>
Render(k) == \E isKeyframe \in BOOLEAN :
    /\ SaveTileAndNotify(k, isKeyframe) /\ UNCHANGED browser
    /\ IF isKeyframe /\ cache[k].keyframe # 0 THEN Spend("keyframes")
                                            ELSE UNCHANGED spent

\* What the event loop of the browser's main thread, the threads of the
\* workers, the document's thread in coolwsd and the Kit have to do.
MainThread ==
    \/ Flush \/ Redraw \/ Slurp \/ Timer
    \/ EmitTile \/ EmitCanonical \/ EmitEnd
    \/ \E w \in Workers : AnswerOf(w)
    \/ Promise \/ WorkersFail
Coolwsd == Request \/ Processed \/ VisibleArea

Progress ==
    \/ MainThread \/ Coolwsd
    \/ \E w \in Workers : WorkerStep(w)
    \/ \E k \in Keys : Render(k)

Step == Edit \/ CanonicalIdChange \/ Scroll \/ PreFetch \/ Blur \/ Progress

\* What tile k has shown, with the bitmap it has now.
Newest(k, ts) ==
    IF k \in DOMAIN ts /\ ts[k].image > newest[k] THEN ts[k].image ELSE newest[k]

\* The deltas of a tile that is gone, and that no worker will decompress.
Orphans(ts) ==
    {k \in Keys : workers = {} /\ pendingDeltas[k] # <<>> /\ k \notin DOMAIN ts}

Next ==
    /\ Step
    /\ newest' = [k \in Keys |-> Newest(k, tiles')]
    /\ orphaned' = orphaned \cup Orphans(tiles')

Spec == Init /\ [][Next]_vars

\* No thread stops while it has something to do; nobody has to scroll or to
\* edit.
Fairness ==
    /\ WF_system(MainThread)
    /\ WF_system(Coolwsd)
    /\ \A w \in Workers : WF_system(WorkerStep(w))
    /\ \A k \in Keys : WF_system(Render(k))

FairSpec == Spec /\ Fairness

-----------------------------------------------------------------------------
\* The types of the wire's two ends.
TypeOK ==
    /\ toClient \in Seq(ServerMsg) /\ toServer \in Seq(ClientMsg)
    /\ ManagerTypeOK /\ CacheTypeOK
    /\ spent \in [Interference -> Nat]
    /\ newest \in [Keys -> WireId]
    /\ orphaned \subseteq Keys

\* No delta is applied to pixels it was not made for, although coolwsd sends
\* deltas on top of what it believes the browser has, and the browser drops
\* bitmaps, raw deltas and tiles as it likes.  Two cases are left out.  After
\* a worker threw in the middle of a task it goes on with the next one, until
\* onWorkerError terminates it and redraws everything.  And the deltas of a
\* tile that redraw() removed are still decompressed on the main thread, as
\* far as their ids are those of deltas of the tile that took its place.
Sound(k) == IF workers # {} THEN ~workerError ELSE k \notin orphaned

NoBrokenImage ==
    \A k \in Keys : Sound(k) =>
      /\ k \in DOMAIN tiles => tiles[k].image # Broken
      /\ imageCache[k] # Broken
      /\ \A w \in workers : workerImages[w][k] # Broken

\* The tiles in the queue q that were sent with wireId w, and the places in
\* the messages "tileprocessed" in q that acknowledge w.
TilesIn(q, w) == {i \in 1..Len(q) : q[i].type = "tile" /\ q[i].to = w}
Acknowledging(q) == {i \in 1..Len(q) : q[i].type = "tileprocessed"}
Counted(q, w) == UNION {{i} \X PlacesOf(q[i].wids, w) : i \in Acknowledging(q)}

\* How many acknowledgements of w coolwsd may still get: of tiles that are on
\* their way to the browser or wait to be emitted there, and of those whose
\* acknowledgement waits to be sent or is on its way back.
Awaited(w) ==
    Cardinality(TilesIn(toClient, w)) + Cardinality(TilesIn(slurpQueue, w))
      + Cardinality(PlacesOf(queuedProcessed, w)) + Cardinality(Counted(toServer, w))

\* Every tile that counts against the session's limit of tiles on the fly has
\* an acknowledgement of its own to come: no tile is forgotten, however useless
\* it is to the browser, which would hold its room until the timeout.  As long
\* as nothing was dropped by the timeout, no acknowledgement is to come of a
\* tile that does not count either.  Afterwards one may be, and it finds
\* nothing or takes off a later sending of the same rendering.
OnFlyAccounted ==
    \A w \in WireId :
      LET flying == Cardinality(PlacesOf(onFly, w))
      IN  /\ flying <= Awaited(w)
          /\ spent["stalls"] = 0 => flying = Awaited(w)

\* Something is under way that ends in endTransactionHandleBitmaps.
Working == nPendingWorkerTasks > 0 \/ bitmapPromises # <<>>

\* rehydrateTile: "If we dehydrate a visible tile, wait for it to be ready
\* before drawing."  Drawing is paused only while bitmaps are on their way,
\* so that it is resumed.
PauseEnds == pausedForCoherency /\ ~emitting => Working

\* A tile never shows an older rendering than it has shown before, although
\* bitmaps come back from the workers after the tile has been invalidated,
\* collected, removed or created again, and are built anew from raw deltas.
NoOlderImage ==
    \A k \in DOMAIN tiles :
      tiles[k].image \notin {None, Broken} => tiles[k].image = newest[k]

\* The tile shows the document as it is.
UpToDate(k) ==
    /\ k \in DOMAIN tiles
    /\ tiles[k].image > editWid[k]

\* Once the document is no longer edited, every visible tile comes to show it
\* as it is, and drawing is not paused.
Settles == <>[](~pausedForCoherency /\ \A k \in view : UpToDate(k))

\* _slurpMessage: "slurp and then emit at idle".  Messages that wait in the
\* slurp queue are emitted.
MessagesEmitted == slurpQueue # <<>> ~> slurpQueue = <<>>
=============================================================================

------------------------------ MODULE TileCache ------------------------------
(***************************************************************************)
(* The tiles of one client session in coolwsd: the TileCache of its        *)
(* document, the ClientDeltaTracker and the tiles on the fly of its        *)
(* ClientSession, and the Kit that renders.  The document's poll thread    *)
(* runs one handler at a time.  A cached tile is the wireId of its         *)
(* keyframe and of its last delta.                                         *)
(***************************************************************************)
EXTENDS TileWire, SequencesExt

CONSTANT OnFlyLimit    \* getTilesOnFlyUpperLimit

ASSUME OnFlyAssumption == OnFlyLimit \in Nat \ {0}

VARIABLES
    wid,            \* RenderTiles::getCurrentWireId
    editWid,        \* the wireId at the last change of each tile
    cache,          \* _cache: TileData, keyframe 0 when there is none
    lastSent,       \* _tracker: the wireId last sent of each tile
    rendering,      \* tiles being rendered with this session subscribed
    requested,      \* _requestedTiles, in order
    onFly,          \* _tilesOnFly: the wireIds of the tiles sent, in order
    visibleArea     \* _clientVisibleArea

tileCache == <<wid, editWid, cache, lastSent, rendering, requested, onFly,
               visibleArea>>

TileData == [keyframe : WireId, last : WireId, valid : BOOLEAN]
NoTileData == [keyframe |-> 0, last |-> 0, valid |-> FALSE]

CacheInit ==
    /\ wid = 0
    /\ editWid = [k \in Keys |-> 0]
    /\ cache = [k \in Keys |-> NoTileData]
    /\ lastSent = [k \in Keys |-> 0]
    /\ rendering = {}
    /\ requested = <<>>
    /\ onFly = <<>>
    /\ visibleArea = {}

\* Mutant: a keyframe is sent without the deltas that follow it.
SendKeyframeAlone(k, data, last) ==
    LET needsKeyframe == last < data.keyframe
    IN  [type |-> "tile", key |-> k, isKeyframe |-> needsKeyframe,
         from |-> IF needsKeyframe THEN 0 ELSE last,
         to |-> IF needsKeyframe THEN data.keyframe ELSE data.last]

\* ClientSession::sendTileNow: a keyframe when the client's last tile is
\* older than the cached keyframe, else the deltas since that tile.
SendTileNow(k, data, last) ==
    LET needsKeyframe == last < data.keyframe
    IN  [type |-> "tile", key |-> k, isKeyframe |-> needsKeyframe,
         from |-> IF needsKeyframe THEN 0 ELSE last, to |-> data.last]

\* What waits at the places S of the queue, in order.
InTurn(queue, S) ==
    [j \in 1..Cardinality(S) |->
       queue[CHOOSE i \in S : Cardinality({x \in S : x <= i}) = j]]

\* onTileProcessed, of each acknowledged wireId in turn: the first tile on the
\* fly with that wireId is taken off, if there still is one.
PlacesOf(q, w) == {i \in 1..Len(q) : q[i] = w}

OnTileProcessed(flying, wids) ==
    InTurn(flying, {i \in 1..Len(flying) :
       Cardinality({j \in PlacesOf(flying, flying[i]) : j <= i})
         > Cardinality(PlacesOf(wids, flying[i]))})

\* removeOutdatedTilesOnFly: the n oldest have waited for longer than
\* TILE_ROUNDTRIP_TIMEOUT_MS, or for nearly as long as those.
RemoveOutdatedTilesOnFly(flying, n) == SubSeq(flying, n + 1, Len(flying))

\* sendRequestedTiles: after outdated tiles were taken off, requests leave the
\* queue, in order, while fewer than the limit are on the fly.  A tile that is
\* valid in the cache is sent, any other is rendered for this session.
Taken(data, queue, flying) ==
    {i \in 1..Len(queue) :
       Len(flying) + Cardinality({j \in 1..(i - 1) : data[queue[j]].valid})
         < OnFlyLimit}

SendRequestedTiles(data, queue, fly, n, sent, subscribed, before) ==
    LET flying == RemoveOutdatedTilesOnFly(fly, n)
        taken == Taken(data, queue, flying)
        Valid(k) == data[k].valid
        out == InTurn(queue, {i \in taken : Valid(queue[i])})
    IN  /\ requested' = SubSeq(queue, Cardinality(taken) + 1, Len(queue))
        /\ rendering' =
             subscribed \cup {k \in Keys : ~Valid(k)
                                             /\ \E i \in taken : queue[i] = k}
        /\ onFly' = flying \o [i \in 1..Len(out) |-> data[out[i]].last]
        /\ lastSent' = [k \in Keys |-> IF k \in Range(out) THEN data[k].last
                                                           ELSE sent[k]]
        /\ toClient' = before \o [i \in 1..Len(out) |->
                         SendTileNow(out[i], data[out[i]], sent[out[i]])]

\* The end of handleTileCombinedRequest: keys that are not waiting already
\* join the queue.
Enqueue(queue, S) == queue \o SetToSeq(S \ Range(queue))

\* handleTileCombinedRequest, of the browser: a tile it has nothing of is
\* sent from its keyframe, and what the cache lacks is rendered.
HandleTileCombinedRequest(n) ==
    /\ toServer # <<>> /\ Head(toServer).type = "tilecombine"
    /\ LET m == Head(toServer)
       IN  SendRequestedTiles(
             cache, Enqueue(requested, m.keys), onFly, n,
             [k \in Keys |-> IF k \in m.keys /\ m.oldwid[k] = 0
                             THEN 0 ELSE lastSent[k]],
             rendering \cup {k \in m.keys : ~cache[k].valid}, toClient)
    /\ toServer' = Tail(toServer)
    /\ UNCHANGED <<wid, editWid, cache, visibleArea>>

\* "tileprocessed": the acknowledged tiles make room for waiting requests.
HandleTileProcessed(n) ==
    /\ toServer # <<>> /\ Head(toServer).type = "tileprocessed"
    /\ SendRequestedTiles(
         cache, requested, OnTileProcessed(onFly, Head(toServer).wids), n,
         lastSent, rendering, toClient)
    /\ toServer' = Tail(toServer)
    /\ UNCHANGED <<wid, editWid, cache, visibleArea>>

HandleClientVisibleArea ==
    /\ toServer # <<>> /\ Head(toServer).type = "clientvisiblearea"
    /\ visibleArea' = Head(toServer).keys
    /\ toServer' = Tail(toServer)
    /\ UNCHANGED <<toClient, wid, editWid, cache, lastSent, rendering,
                   requested, onFly>>

\* Mutant: the browser is told, and has to ask for the tile itself.
InvalidateOnly(k, n) ==
    /\ n = 0
    /\ editWid' = [editWid EXCEPT ![k] = wid]
    /\ cache' = [cache EXCEPT ![k].valid = FALSE]
    /\ toClient' = Append(toClient, Invalidatetiles(k, wid))
    /\ UNCHANGED <<toServer, wid, lastSent, rendering, requested, onFly,
                   visibleArea>>

\* The document changes under tile k: the browser is told, the cached tile is
\* no longer valid, and a tile the client sees is requested for it.
HandleTileInvalidation(k, n) ==
    LET data == [cache EXCEPT ![k].valid = FALSE]
        seen == {k} \cap visibleArea
    IN  /\ editWid' = [editWid EXCEPT ![k] = wid]
        /\ cache' = data
        /\ IF seen # {}
           THEN SendRequestedTiles(
                  data, Enqueue(requested, seen), onFly, n, lastSent,
                  rendering \cup seen,
                  Append(toClient, Invalidatetiles(k, wid)))
           ELSE /\ n = 0
                /\ toClient' = Append(toClient, Invalidatetiles(k, wid))
                /\ UNCHANGED <<requested, rendering, onFly, lastSent>>
        /\ UNCHANGED <<toServer, wid, visibleArea>>

\* The Kit renders tile k, as a keyframe or, where the cache has one that is
\* not too large, as a delta; TileCache::saveTileAndNotify keeps the rendering
\* and sends it to the session.
SaveTileAndNotify(k, isKeyframe) ==
    LET data == [keyframe |-> IF isKeyframe THEN wid + 1 ELSE cache[k].keyframe,
                 last |-> wid + 1, valid |-> TRUE]
    IN  /\ k \in rendering /\ wid < MaxWid
        /\ cache[k].keyframe = 0 => isKeyframe
        /\ wid' = wid + 1
        /\ cache' = [cache EXCEPT ![k] = data]
        /\ toClient' = Append(toClient, SendTileNow(k, data, lastSent[k]))
        /\ lastSent' = [lastSent EXCEPT ![k] = wid + 1]
        /\ onFly' = Append(onFly, wid + 1)
        /\ rendering' = rendering \ {k}
        /\ UNCHANGED <<toServer, editWid, requested, visibleArea>>

CacheTypeOK ==
    /\ wid \in WireId
    /\ editWid \in [Keys -> WireId]
    /\ cache \in [Keys -> TileData]
    /\ lastSent \in [Keys -> WireId]
    /\ rendering \subseteq Keys
    /\ requested \in Seq(Keys)
    /\ onFly \in Seq(WireId)
    /\ visibleArea \subseteq Keys
=============================================================================

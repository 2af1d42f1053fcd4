------------------------- MODULE TilePipelineProofs -------------------------
(***************************************************************************)
(* For every set of tiles and workers, every limit and every budget: the   *)
(* types of the tile pipeline, and that every tile on the fly is           *)
(* accounted for.                                                          *)
(***************************************************************************)
EXTENDS TilePipeline, QueueLemmas, SequenceTheorems, TLAPS

-----------------------------------------------------------------------------
(* The tasks of the workers.                                               *)

\* The tasks and the answers that are posted and not handled.
Posted(boxes) == {p \in Workers \X Nat : p[2] \in 1..Len(boxes[p[1]])}

\* Each of them was counted when it was posted, so an answer never finds the
\* count at 0; a task whose worker threw is counted too.
TasksCounted ==
    /\ IsFiniteSet(Posted(inbox)) /\ IsFiniteSet(Posted(outbox))
    /\ Cardinality(Posted(inbox)) + Cardinality(Posted(outbox))
         <= nPendingWorkerTasks

-----------------------------------------------------------------------------
(* The class Tile.                                                         *)

\* A tile is created without anything.
LEMMA NewTileType ==
  ASSUME NEW c \in BOOLEAN
  PROVE  NewTile(c) \in Tile
<1>1. <<>> \in Seq(RawDelta) /\ 0 \in Nat /\ None \in Image /\ 0 \in WireId
  BY WireAssumption DEF None, Image, WireId
<1> QED
  BY <1>1 DEF NewTile, Tile

\* forceKeyframe.
LEMMA ForceKeyframeType ==
  ASSUME NEW t \in Tile, NEW w \in WireId
  PROVE  ForceKeyframe(t, w) \in Tile
BY DEF ForceKeyframe, Tile

\* The last keyframe is one of the raw deltas.
LEMMA LastKeyframeType ==
  ASSUME NEW raw \in Seq(RawDelta), raw # <<>>
  PROVE  LastKeyframe(raw) \in 1..Len(raw)
<1> DEFINE kfs == {i \in 2..Len(raw) : raw[i].isKeyframe}
<1>1. Len(raw) \in Nat /\ Len(raw) >= 1
  OBVIOUS
<1>2. CASE kfs = {}
  BY <1>1, <1>2 DEF LastKeyframe
<1>3. CASE kfs # {}
  <2>1. kfs \in SUBSET (0..Len(raw))
    BY <1>1
  <2>2. \E i \in kfs : \A j \in kfs : j <= i
    BY <1>1, <1>3, <2>1, Greatest
  <2>3. (CHOOSE i \in kfs : \A j \in kfs : j <= i) \in kfs
    BY <2>2
  <2>4. LastKeyframe(raw) \in kfs
    BY <1>3, <2>3 DEF LastKeyframe
  <2> QED
    BY <1>1, <2>4
<1> QED
  BY <1>2, <1>3

\* A tile that needs rehydration has a raw delta to begin with.
LEMMA FirstDeltaType ==
  ASSUME NEW t \in Tile, NeedsRehydration(t)
  PROVE  FirstDelta(t) \in 1..Len(t.rawDeltas)
<1> DEFINE raw == t.rawDeltas
           n == Len(raw)
           sent == {i \in 1..n : raw[i].id = t.lastPendingId}
<1>1. raw \in Seq(RawDelta) /\ raw # <<>> /\ raw[n].id # t.lastPendingId
  BY DEF NeedsRehydration, HasKeyframe, Tile
<1>2. n \in Nat /\ n >= 1
  BY <1>1
<1>3. LastKeyframe(raw) \in 1..n
  BY <1>1, LastKeyframeType
<1>4. ASSUME sent # {}
      PROVE  (CHOOSE i \in sent : \A j \in sent : i <= j) + 1 \in 1..n
  <2> DEFINE i == CHOOSE x \in sent : \A j \in sent : x <= j
  <2>1. sent \in SUBSET Nat
    BY <1>2
  <2>2. \E x \in sent : \A j \in sent : x <= j
    BY <1>4, <2>1, Least
  <2>3. i \in sent
    BY <2>2
  <2>4. i \in 1..n /\ i # n
    BY <1>1, <2>3
  <2> HIDE DEF i
  <2>5. i + 1 \in 1..n
    BY <1>2, <2>4
  <2> QED
    BY <2>5 DEF i
<1>5. \/ FirstDelta(t) = LastKeyframe(raw)
      \/ /\ sent # {}
         /\ FirstDelta(t) = (CHOOSE i \in sent : \A j \in sent : i <= j) + 1
  BY DEF FirstDelta
<1> QED
  BY <1>3, <1>4, <1>5

\* applyCompressedDelta.
LEMMA CompressedDeltaType ==
  ASSUME NEW t \in Tile, NeedsRehydration(t), NEW b \in BOOLEAN
  PROVE  CompressedDelta(t, b) \in Delta
<1> DEFINE raw == t.rawDeltas
           f == raw[FirstDelta(t)]
           l == raw[Len(raw)]
<1>1. raw \in Seq(RawDelta) /\ raw # <<>>
  BY DEF NeedsRehydration, HasKeyframe, Tile
<1>2. Len(raw) \in 1..Len(raw) /\ FirstDelta(t) \in 1..Len(raw)
  BY <1>1, FirstDeltaType
<1>3. f \in RawDelta /\ l \in RawDelta
  BY <1>1, <1>2
<1>4. CompressedDelta(t, b) =
        [ids |-> <<f.id, l.id>>, isKeyframe |-> f.isKeyframe,
         from |-> f.from, to |-> l.to, wireMessage |-> b]
  BY DEF CompressedDelta
<1> HIDE DEF f, l
<1> QED
  BY <1>3, <1>4 DEF RawDelta, Delta

\* rehydrateTile.
LEMMA RehydratedType ==
  ASSUME NEW t \in Tile, NeedsRehydration(t)
  PROVE  Rehydrated(t) \in Tile
<1> DEFINE raw == t.rawDeltas
           d == raw[Len(raw)].id
<1>1. raw \in Seq(RawDelta) /\ raw # <<>>
  BY DEF NeedsRehydration, HasKeyframe, Tile
<1>2. raw[Len(raw)] \in RawDelta
  BY <1>1
<1>3. d \in Nat
  BY <1>2 DEF RawDelta
<1>4. Rehydrated(t) = [t EXCEPT !.lastPendingId = d]
  BY DEF Rehydrated
<1> HIDE DEF d
<1> QED
  BY <1>3, <1>4 DEF Tile

\* reclaimTileBitmapMemory.
LEMMA ReclaimedType ==
  ASSUME NEW t \in Tile
  PROVE  Reclaimed(t) \in Tile
<1>1. None \in Image /\ 0 \in Nat
  BY WireAssumption DEF None, Image, WireId
<1> QED
  BY <1>1 DEF Reclaimed, Tile

\* tileReady.
LEMMA TileReadyType ==
  ASSUME NEW t \in Tile
  PROVE  TileReady(t) \in Tile
<1> DEFINE raw == t.rawDeltas
           r == SubSeq(raw, LastKeyframe(raw), Len(raw))
<1>1. raw \in Seq(RawDelta)
  BY DEF Tile
<1>2. CASE raw = <<>>
  BY <1>2 DEF TileReady
<1>3. CASE raw # <<>>
  <2>1. LastKeyframe(raw) \in 1..Len(raw)
    BY <1>1, <1>3, LastKeyframeType
  <2>2. \A i \in LastKeyframe(raw)..Len(raw) : raw[i] \in RawDelta
    BY <1>1, <2>1
  <2>3. r \in Seq(RawDelta)
    BY <2>1, <2>2, SubSeqProperties
  <2>4. TileReady(t) = [t EXCEPT !.rawDeltas = r]
    BY <1>3 DEF TileReady, Tile
  <2> HIDE DEF r
  <2> QED
    BY <2>3, <2>4 DEF Tile
<1> QED
  BY <1>2, <1>3

\* makeTileCurrent.
LEMMA MakeTileCurrentType ==
  ASSUME NEW t \in Tile
  PROVE  MakeTileCurrent(t) \in Tile
<1> DEFINE c == [t EXCEPT !.current = TRUE, !.requested = FALSE]
<1>1. c \in Tile
  BY DEF Tile
<1>2. MakeTileCurrent(t) = IF NeedsRehydration(c) THEN Rehydrated(c) ELSE c
  BY DEF MakeTileCurrent
<1> HIDE DEF c
<1> QED
  BY <1>1, <1>2, RehydratedType

\* A tile message that is received.
LEMMA ReceivedTileType ==
  ASSUME NEW t \in Tile, NEW m \in TileMsg
  PROVE  ReceivedTile(t, m) \in Tile
<1> DEFINE r == [t EXCEPT !.wireId = m.to]
           d == r.deltaId + 1
           x == [id |-> d, isKeyframe |-> m.isKeyframe, from |-> m.from, to |-> m.to]
           raw == Append(r.rawDeltas, x)
           u == [r EXCEPT !.deltaId = d, !.rawDeltas = raw]
<1>1. /\ m.to \in WireId /\ m.from \in WireId /\ m.isKeyframe \in BOOLEAN
  BY DEF TileMsg
<1>2. r \in Tile
  BY <1>1 DEF Tile
<1>3. ReceivedTile(t, m) \in {ForceKeyframe(r, 0), r, u}
  BY DEF ReceivedTile
<1> HIDE DEF r
<1>4. d \in Nat /\ r.rawDeltas \in Seq(RawDelta)
  BY <1>2 DEF Tile
<1> HIDE DEF d
<1>5. x \in RawDelta
  BY <1>1, <1>4 DEF RawDelta
<1>6. raw \in Seq(RawDelta)
  BY <1>4, <1>5
<1> HIDE DEF raw
<1>7. u \in Tile
  BY <1>2, <1>4, <1>6 DEF Tile
<1>8. ForceKeyframe(r, 0) \in Tile
  BY <1>2, ForceKeyframeType, WireAssumption DEF WireId
<1> QED
  BY <1>2, <1>3, <1>7, <1>8

-----------------------------------------------------------------------------
(* Decompression.                                                          *)

\* updateImageFromDeltas.
LEMMA ApplyDeltaType ==
  ASSUME NEW image, NEW d \in Delta
  PROVE  ApplyDelta(image, d) \in Image
BY DEF ApplyDelta, Delta, Image

\* The images after the first deltas exist, one after the other.
LEMMA ImagesExist ==
  ASSUME NEW image \in Image, NEW ds \in Seq(Delta)
  PROVE  \E f : f = [i \in 0..Len(ds) |->
                       IF i = 0 THEN image ELSE ApplyDelta(f[i - 1], ds[i])]
<1> DEFINE n == Len(ds)
           After(f, m) == \A i \in 1..m : f[i] = ApplyDelta(f[i - 1], ds[i])
           T == {m \in 0..n : \E f \in [0..m -> Image] : f[0] = image /\ After(f, m)}
<1>1. n \in Nat /\ \A i \in 1..n : ds[i] \in Delta
  OBVIOUS
<1> HIDE DEF n
<1>2. 0 \in T
  <2> DEFINE f == [i \in 0..0 |-> image]
  <2>1. f \in [0..0 -> Image] /\ f[0] = image /\ After(f, 0)
    OBVIOUS
  <2>2. 0 \in 0..n
    BY <1>1
  <2> HIDE DEF f
  <2>3. \E g \in [0..0 -> Image] : g[0] = image /\ After(g, 0)
    BY <2>1, Zenon
  <2> QED
    BY <2>2, <2>3
<1>3. ASSUME NEW m \in 0..(n - 1), m \in T
      PROVE  m + 1 \in T
  <2>1. PICK f \in [0..m -> Image] : f[0] = image /\ After(f, m)
    BY <1>3
  <2> DEFINE x == ApplyDelta(f[m], ds[m + 1])
             g == [i \in 0..(m + 1) |-> IF i = m + 1 THEN x ELSE f[i]]
  <2>2. m \in Nat /\ m + 1 \in 1..n /\ m + 1 \in 0..n
    BY <1>1
  <2>3. x \in Image
    BY <1>1, <2>2, ApplyDeltaType
  <2>4. g \in [0..(m + 1) -> Image]
    BY <2>2, <2>3
  <2>5. g[0] = image
    BY <2>1, <2>2
  <2>6. ASSUME NEW i \in 1..(m + 1)
        PROVE  g[i] = ApplyDelta(g[i - 1], ds[i])
    <3>1. CASE i = m + 1
      BY <2>2, <3>1
    <3>2. CASE i # m + 1
      <4>1. i \in 1..m /\ g[i] = f[i] /\ g[i - 1] = f[i - 1]
        BY <2>2, <3>2
      <4> QED
        BY <2>1, <4>1
    <3> QED
      BY <3>1, <3>2
  <2> HIDE DEF g
  <2> QED
    BY <2>2, <2>4, <2>5, <2>6
<1>4. n \in T
  <2> HIDE DEF T
  <2>1. 0..n \subseteq T
    BY <1>1, <1>2, <1>3, UpTo
  <2> QED
    BY <1>1, <2>1
<1>5. PICK f \in [0..n -> Image] : f[0] = image /\ After(f, n)
  BY <1>4
<1>6. f = [i \in 0..n |-> IF i = 0 THEN image ELSE ApplyDelta(f[i - 1], ds[i])]
  BY <1>1, <1>5
<1> QED
  BY <1>6 DEF n

\* Each delta of a tile leaves an image.
LEMMA ImagesType ==
  ASSUME NEW image \in Image, NEW ds \in Seq(Delta)
  PROVE  /\ Images(image, ds) \in Seq(Image)
         /\ Len(Images(image, ds)) = Len(ds)
<1> DEFINE n == Len(ds)
           after == CHOOSE f : f = [i \in 0..n |->
                      IF i = 0 THEN image ELSE ApplyDelta(f[i - 1], ds[i])]
<1>1. n \in Nat /\ \A i \in 1..n : ds[i] \in Delta
  OBVIOUS
<1>2. after = [i \in 0..n |-> IF i = 0 THEN image ELSE ApplyDelta(after[i - 1], ds[i])]
  BY ImagesExist
<1>3. Images(image, ds) = [i \in 1..n |-> after[i]]
  BY DEF Images
<1> HIDE DEF after, n
<1>4. \A i \in 1..n : after[i] \in Image
  <2> SUFFICES ASSUME NEW i \in 1..n PROVE after[i] \in Image
    OBVIOUS
  <2>1. after[i] = ApplyDelta(after[i - 1], ds[i])
    BY <1>1, <1>2
  <2> QED
    BY <1>1, <2>1, ApplyDeltaType
<1>5. Images(image, ds) \in Seq(Image) /\ Len(Images(image, ds)) = n
  BY <1>1, <1>3, <1>4
<1> QED
  BY <1>5 DEF n

\* On the main thread too, although deltas are skipped there.
LEMMA SyncImagesExist ==
  ASSUME NEW image \in Image, NEW ds \in Seq(Delta), NEW shown \in SUBSET (1..Len(ds))
  PROVE  \E f \in [0..Len(ds) -> Image] :
           /\ f[0] = image
           /\ \A i \in 1..Len(ds) :
                f[i] = IF i \notin shown \/ (~ds[i].isKeyframe /\ f[i - 1] = None)
                       THEN f[i - 1] ELSE ApplyDelta(f[i - 1], ds[i])
<1> DEFINE n == Len(ds)
           Value(f, i) == IF i \notin shown \/ (~ds[i].isKeyframe /\ f[i - 1] = None)
                          THEN f[i - 1] ELSE ApplyDelta(f[i - 1], ds[i])
           After(f, m) == \A i \in 1..m : f[i] = Value(f, i)
           T == {m \in 0..n : \E f \in [0..m -> Image] : f[0] = image /\ After(f, m)}
<1>1. n \in Nat /\ \A i \in 1..n : ds[i] \in Delta
  OBVIOUS
<1> HIDE DEF n
<1>2. 0 \in T
  <2> DEFINE f == [i \in 0..0 |-> image]
  <2>1. f \in [0..0 -> Image] /\ f[0] = image /\ After(f, 0)
    OBVIOUS
  <2>2. 0 \in 0..n
    BY <1>1
  <2> HIDE DEF f
  <2>3. \E g \in [0..0 -> Image] : g[0] = image /\ After(g, 0)
    BY <2>1, Zenon
  <2> QED
    BY <2>2, <2>3
<1>3. ASSUME NEW m \in 0..(n - 1), m \in T
      PROVE  m + 1 \in T
  <2>1. PICK f \in [0..m -> Image] : f[0] = image /\ After(f, m)
    BY <1>3
  <2>2. m \in Nat /\ m + 1 \in 1..n /\ m + 1 \in 0..n /\ (m + 1) - 1 = m
    BY <1>1
  <2> DEFINE x == Value(f, m + 1)
             g == [i \in 0..(m + 1) |-> IF i = m + 1 THEN x ELSE f[i]]
  <2>3. x \in Image
    <3>1. f[m] \in Image
      BY <2>2
    <3>2. ApplyDelta(f[m], ds[m + 1]) \in Image
      BY <1>1, <2>2, ApplyDeltaType
    <3> QED
      BY <2>2, <3>1, <3>2
  <2> HIDE DEF x
  <2>4. g \in [0..(m + 1) -> Image]
    BY <2>2, <2>3
  <2>5. g[0] = image
    BY <2>1, <2>2
  <2>6. ASSUME NEW i \in 1..(m + 1)
        PROVE  g[i] = Value(g, i)
    <3>1. CASE i = m + 1
      <4>1. g[i] = x /\ g[i - 1] = f[i - 1]
        BY <2>2, <3>1
      <4> HIDE DEF g
      <4> QED
        BY <3>1, <4>1 DEF x
    <3>2. CASE i # m + 1
      <4>1. i \in 1..m /\ g[i] = f[i] /\ g[i - 1] = f[i - 1]
        BY <2>2, <3>2
      <4> HIDE DEF g
      <4> QED
        BY <2>1, <4>1
    <3> QED
      BY <3>1, <3>2
  <2> HIDE DEF g
  <2> QED
    BY <2>2, <2>4, <2>5, <2>6
<1>4. n \in T
  <2> HIDE DEF T
  <2>1. 0..n \subseteq T
    BY <1>1, <1>2, <1>3, UpTo
  <2> QED
    BY <1>1, <2>1
<1> QED
  BY <1>4 DEF n

\* Their images are images.
LEMMA SyncImagesType ==
  ASSUME NEW t, NEW image \in Image, NEW ds \in Seq(Delta)
  PROVE  /\ SyncImages(t, image, ds) \in Seq(Image)
         /\ Len(SyncImages(t, image, ds)) = Len(ds)
<1>0. PICK shown \in SUBSET (1..Len(ds)) : shown = Shown(t, ds)
  BY DEF Shown
<1> DEFINE n == Len(ds)
           after == CHOOSE f : f = [i \in 0..n |->
             IF i = 0 THEN image
             ELSE IF i \notin shown \/ (~ds[i].isKeyframe /\ f[i - 1] = None)
                  THEN f[i - 1] ELSE ApplyDelta(f[i - 1], ds[i])]
<1>1. n \in Nat /\ \A i \in 1..n : ds[i] \in Delta
  OBVIOUS
<1>2. after = [i \in 0..n |->
             IF i = 0 THEN image
             ELSE IF i \notin shown \/ (~ds[i].isKeyframe /\ after[i - 1] = None)
                  THEN after[i - 1] ELSE ApplyDelta(after[i - 1], ds[i])]
  <2>1. \E f : f = [i \in 0..n |->
             IF i = 0 THEN image
             ELSE IF i \notin shown \/ (~ds[i].isKeyframe /\ f[i - 1] = None)
                  THEN f[i - 1] ELSE ApplyDelta(f[i - 1], ds[i])]
    <3>1. PICK f \in [0..n -> Image] :
            /\ f[0] = image
            /\ \A i \in 1..n :
                 f[i] = IF i \notin shown \/ (~ds[i].isKeyframe /\ f[i - 1] = None)
                        THEN f[i - 1] ELSE ApplyDelta(f[i - 1], ds[i])
      BY SyncImagesExist
    <3> HIDE DEF n
    <3>2. f = [i \in 0..n |->
             IF i = 0 THEN image
             ELSE IF i \notin shown \/ (~ds[i].isKeyframe /\ f[i - 1] = None)
                  THEN f[i - 1] ELSE ApplyDelta(f[i - 1], ds[i])]
      BY <1>1, <3>1
    <3> QED
      BY <3>2
  <2> QED
    BY <2>1, Zenon
<1>3. SyncImages(t, image, ds) = [i \in 1..n |-> after[i]]
  BY <1>0 DEF SyncImages
<1> HIDE DEF after, n
<1> DEFINE T == {i \in 0..n : after[i] \in Image}
<1>4. 0 \in T
  BY <1>1, <1>2
<1>5. ASSUME NEW i \in 0..(n - 1), i \in T
      PROVE  i + 1 \in T
  <2>1. i + 1 \in 1..n /\ (i + 1) - 1 = i /\ i + 1 \in 0..n /\ i + 1 # 0
    BY <1>1
  <2>2. after[i + 1] \in {after[i], ApplyDelta(after[i], ds[i + 1])}
    BY <1>2, <2>1
  <2>3. ApplyDelta(after[i], ds[i + 1]) \in Image
    BY <1>1, <2>1, ApplyDeltaType
  <2> QED
    BY <1>5, <2>1, <2>2, <2>3
<1>6. 0..n \subseteq T
  <2> HIDE DEF T
  <2> QED
    BY <1>1, <1>4, <1>5, UpTo
<1>7. \A i \in 1..n : after[i] \in Image
  BY <1>1, <1>6
<1>8. SyncImages(t, image, ds) \in Seq(Image) /\ Len(SyncImages(t, image, ds)) = n
  BY <1>1, <1>3, <1>7
<1> QED
  BY <1>8 DEF n

\* A map of tiles.
TilesMap(ts) == DOMAIN ts \subseteq Keys /\ \A k \in DOMAIN ts : ts[k] \in Tile

\* What a worker answers has an image for each delta.
Answered == {a \in Answer : \A k \in Keys : Len(a.bitmaps[k]) = Len(a.deltas[k])}

\* decompressedId after the deltas of a transaction.
LEMMA DecompressedType ==
  ASSUME NEW t \in Tile, NEW ds \in Seq(Delta)
  PROVE  Decompressed(t, ds) \in Tile
<1>1. CASE ds = <<>>
  BY <1>1 DEF Decompressed
<1>2. CASE ds # <<>>
  <2> DEFINE d == ds[Len(ds)].ids[2]
  <2>1. ds[Len(ds)] \in Delta
    BY <1>2
  <2>2. d \in Nat
    BY <2>1 DEF Delta
  <2>3. Decompressed(t, ds) = [t EXCEPT !.decompressedId = d]
    BY <1>2 DEF Decompressed
  <2> HIDE DEF d
  <2> QED
    BY <2>2, <2>3 DEF Tile
<1> QED
  BY <1>1, <1>2

\* onWorkerEndTransaction, for every tile.
LEMMA AllDecompressedType ==
  ASSUME NEW ts, TilesMap(ts), NEW deltas \in [Keys -> Seq(Delta)]
  PROVE  TilesMap(AllDecompressed(ts, deltas))
<1>1. \A k \in DOMAIN ts : Decompressed(ts[k], deltas[k]) \in Tile
  BY DecompressedType DEF TilesMap
<1> QED
  BY <1>1 DEF TilesMap, AllDecompressed

\* The bitmaps a tile is left with are images.
LEMMA BitmapsOfType ==
  ASSUME NEW ts, NEW deltas \in [Keys -> Seq(Delta)], NEW images,
         \A k \in Keys \cap DOMAIN ts : /\ images[k] \in Seq(Image)
                                        /\ Len(images[k]) = Len(deltas[k])
  PROVE  BitmapsOf(ts, deltas, images) \in [Keys -> Image]
<1> DEFINE b == BitmapsOf(ts, deltas, images)
<1>0. None \in Image
  BY WireAssumption DEF None, Image, WireId
<1>1. ASSUME NEW k \in Keys
      PROVE  b[k] \in Image
  <2> DEFINE shown == Shown(ts[k], deltas[k])
             n == Len(deltas[k])
  <2>1. b[k] = IF k \notin DOMAIN ts THEN None
               ELSE IF shown = {} THEN None ELSE images[k][LastOf(shown)]
    BY DEF BitmapsOf
  <2>2. CASE k \notin DOMAIN ts \/ shown = {}
    BY <1>0, <2>1, <2>2
  <2>3. CASE k \in DOMAIN ts /\ shown # {}
    <3>1. n \in Nat /\ shown \in SUBSET (1..n)
      BY DEF Shown
    <3>2. n \in Nat /\ shown \in SUBSET (0..n)
      BY <3>1
    <3> HIDE DEF shown, n
    <3>3. \E i \in shown : \A j \in shown : j <= i
      BY <2>3, <3>2, Greatest
    <3>4. LastOf(shown) \in shown
      BY <3>3 DEF LastOf
    <3>5. LastOf(shown) \in 1..n
      BY <3>1, <3>4
    <3>6. images[k] \in Seq(Image) /\ Len(images[k]) = n
      BY <2>3 DEF n
    <3>7. images[k][LastOf(shown)] \in Image
      BY <3>5, <3>6
    <3> QED
      BY <2>1, <2>3, <3>7
  <2> QED
    BY <2>2, <2>3
<1>2. b = [k \in Keys |-> b[k]]
  BY DEF BitmapsOf
<1> HIDE DEF b
<1>3. b \in [Keys -> Image]
  BY <1>1, <1>2
<1> QED
  BY <1>3 DEF b

\* garbageCollect, and the limit on bitmaps.
LEMMA GarbageCollectType ==
  ASSUME NEW ts, TilesMap(ts), NEW fate
  PROVE  TilesMap(GarbageCollect(ts, fate))
<1> DEFINE g == GarbageCollect(ts, fate)
           Dropped(k) == [Reclaimed(ts[k]) EXCEPT !.rawDeltas = <<>>]
           Left(k) == CASE fate[k] = "drop" -> ForceKeyframe(Dropped(k), 0)
                        [] fate[k] = "evict" -> Reclaimed(ts[k])
                        [] OTHER -> ts[k]
<1>0. g = [k \in {x \in DOMAIN ts : fate[x] # "remove"} |-> Left(k)]
  BY Zenon DEF GarbageCollect
<1> HIDE DEF g
<1>1. DOMAIN g = {x \in DOMAIN ts : fate[x] # "remove"}
  BY <1>0
<1>2. ASSUME NEW k \in DOMAIN g
      PROVE  g[k] \in Tile
  <2>1. ts[k] \in Tile /\ k \in DOMAIN ts /\ fate[k] # "remove"
    BY <1>1 DEF TilesMap
  <2>2. Reclaimed(ts[k]) \in Tile
    BY <2>1, ReclaimedType
  <2>3. Dropped(k) \in Tile
    <3> DEFINE none == <<>>
    <3>1. none \in Seq(RawDelta)
      OBVIOUS
    <3> HIDE DEF none
    <3>2. \A r \in Tile : [r EXCEPT !.rawDeltas = none] \in Tile
      BY <3>1 DEF Tile
    <3> QED
      BY <2>2, <3>2 DEF none
  <2>4. ForceKeyframe(Dropped(k), 0) \in Tile
    BY <2>3, ForceKeyframeType, WireAssumption DEF WireId
  <2>5. g[k] = Left(k)
    <3> HIDE DEF Left
    <3> QED
      BY <1>0, <1>1
  <2> HIDE DEF Dropped
  <2>6. CASE fate[k] = "drop"
    BY <2>4, <2>5, <2>6
  <2>7. CASE fate[k] = "evict"
    BY <2>2, <2>5, <2>7
  <2>8. CASE fate[k] # "drop" /\ fate[k] # "evict"
    BY <2>1, <2>5, <2>8
  <2> QED
    BY <2>6, <2>7, <2>8
<1> QED
  BY <1>1, <1>2 DEF TilesMap, g

\* endTransactionHandleBitmaps.
LEMMA WithBitmapsType ==
  ASSUME NEW ts, TilesMap(ts), NEW bitmaps \in [Keys -> Image]
  PROVE  TilesMap(WithBitmaps(ts, bitmaps))
<1> DEFINE g == WithBitmaps(ts, bitmaps)
<1>1. DOMAIN g = DOMAIN ts
  BY DEF WithBitmaps
<1>2. ASSUME NEW k \in DOMAIN g
      PROVE  g[k] \in Tile
  <2> DEFINE t == [ts[k] EXCEPT !.image = bitmaps[k]]
  <2>1. ts[k] \in Tile /\ k \in Keys
    BY <1>1 DEF TilesMap
  <2>2. t \in Tile
    BY <2>1 DEF Tile
  <2>3. g[k] \in {ts[k], t, TileReady(t)}
    BY <1>1 DEF WithBitmaps
  <2> HIDE DEF t
  <2> QED
    BY <2>1, <2>2, <2>3, TileReadyType
<1> QED
  BY <1>1, <1>2 DEF TilesMap

\* The tiles that are displayed are the current ones.
LEMMA DistancesType ==
  ASSUME NEW ts, TilesMap(ts), NEW shown
  PROVE  /\ TilesMap(Distances(ts, shown))
         /\ DOMAIN Distances(ts, shown) = DOMAIN ts
<1>1. ASSUME NEW k \in DOMAIN ts
      PROVE  [ts[k] EXCEPT !.current = (k \in shown)] \in Tile
  <2> DEFINE c == (k \in shown)
  <2>1. c \in BOOLEAN /\ ts[k] \in Tile
    BY DEF TilesMap
  <2> HIDE DEF c
  <2>2. [ts[k] EXCEPT !.current = c] \in Tile
    BY <2>1 DEF Tile
  <2> QED
    BY <2>2 DEF c
<1> QED
  BY <1>1 DEF TilesMap, Distances

\* update: the tiles of the area are made current or created.
LEMMA UpdatedTilesType ==
  ASSUME NEW ts, TilesMap(ts), NEW shown, NEW area \in SUBSET Keys
  PROVE  TilesMap(UpdatedTiles(ts, shown, area))
<1> DEFINE missing == Missing(ts, area)
           old == Distances(ts, shown)
           g == UpdatedTiles(ts, shown, area)
           Value(k) == CASE k \notin DOMAIN ts -> NewTile(TRUE)
                         [] k \in area \ missing -> MakeTileCurrent(old[k])
                         [] OTHER -> old[k]
<1>0. g = [k \in DOMAIN ts \cup missing |-> Value(k)]
  BY Zenon DEF UpdatedTiles
<1>1. missing \in SUBSET Keys
  BY DEF Missing
<1>2. TilesMap(old) /\ DOMAIN old = DOMAIN ts
  BY DistancesType
<1> HIDE DEF missing, old, g
<1>3. ASSUME NEW k \in DOMAIN ts \cup missing
      PROVE  Value(k) \in Tile
  <2>1. CASE k \notin DOMAIN ts
    BY <2>1, NewTileType
  <2>2. CASE k \in DOMAIN ts
    <3>1. old[k] \in Tile
      BY <1>2, <2>2 DEF TilesMap
    <3>2. MakeTileCurrent(old[k]) \in Tile
      BY <3>1, MakeTileCurrentType
    <3>3. Value(k) \in {MakeTileCurrent(old[k]), old[k]}
      BY <2>2
    <3> QED
      BY <3>1, <3>2, <3>3
  <2> QED
    BY <2>1, <2>2
<1> HIDE DEF Value
<1>4. DOMAIN g \subseteq Keys /\ \A k \in DOMAIN g : g[k] \in Tile
  BY <1>0, <1>1, <1>3 DEF TilesMap
<1> QED
  BY <1>4 DEF TilesMap, g

\* The deltas of the tiles that are rehydrated.
LEMMA RehydratingType ==
  ASSUME pendingDeltas \in [Keys -> Seq(Delta)], NEW ts, NEW b \in BOOLEAN,
         NEW S, \A k \in S : ts[k] \in Tile /\ NeedsRehydration(ts[k])
  PROVE  Rehydrating(ts, S, b) \in [Keys -> Seq(Delta)]
<1> DEFINE Value(k) == IF k \in S
                       THEN Append(pendingDeltas[k], CompressedDelta(ts[k], b))
                       ELSE pendingDeltas[k]
<1>1. ASSUME NEW k \in Keys PROVE Value(k) \in Seq(Delta)
  <2>1. pendingDeltas[k] \in Seq(Delta)
    OBVIOUS
  <2>2. CASE k \in S
    <3> DEFINE c == CompressedDelta(ts[k], b)
    <3>1. c \in Delta
      BY <2>2, CompressedDeltaType
    <3> HIDE DEF c
    <3>2. Append(pendingDeltas[k], c) \in Seq(Delta)
      BY <2>1, <3>1
    <3> QED
      BY <2>2, <3>2 DEF c
  <2>3. CASE k \notin S
    BY <2>1, <2>3
  <2> QED
    BY <2>2, <2>3
<1>2. Rehydrating(ts, S, b) = [k \in Keys |-> Value(k)]
  BY Zenon DEF Rehydrating
<1> HIDE DEF Value
<1> QED
  BY <1>1, <1>2

\* invalidatetiles.
LEMMA InvalidateTileType ==
  ASSUME TilesMap(tiles), NEW k, NEW w \in WireId
  PROVE  TilesMap(InvalidateTile(k, w))
<1> DEFINE x == Invalidated(tiles[k], w)
           g == [tiles EXCEPT ![k] = x]
           h == [y \in DOMAIN tiles \ {k} |-> tiles[y]]
<1>1. InvalidateTile(k, w) \in {tiles, g, h}
  BY DEF InvalidateTile
<1>2. TilesMap(h)
  BY DEF TilesMap
<1>3. CASE k \notin DOMAIN tiles
  BY <1>3 DEF InvalidateTile
<1>4. CASE k \in DOMAIN tiles
  <2>1. tiles[k] \in Tile
    BY <1>4 DEF TilesMap
  <2>2. tiles[k].wireId \in WireId
    BY <2>1 DEF Tile
  <2>3. x \in Tile
    BY <2>1, <2>2, ForceKeyframeType DEF Invalidated
  <2> HIDE DEF x
  <2>4. DOMAIN g = DOMAIN tiles /\ \A y \in DOMAIN g : g[y] = IF y = k THEN x ELSE tiles[y]
    OBVIOUS
  <2>5. TilesMap(g)
    BY <2>3, <2>4 DEF TilesMap
  <2> QED
    BY <1>1, <1>2, <2>5
<1> QED
  BY <1>3, <1>4

\* redraw.
LEMMA RedrawnTilesType ==
  ASSUME NEW area \in SUBSET Keys
  PROVE  TilesMap(RedrawnTiles(area))
<1>1. NewTile(TRUE) \in Tile
  BY NewTileType
<1> QED
  BY <1>1 DEF TilesMap, RedrawnTiles

\* The images that are forgotten.
LEMMA ForgetImagesType ==
  ASSUME imageCache \in [Keys -> Image], NEW ts, NEW S
  PROVE  ForgetImages(ts, S) \in [Keys -> Image]
<1>1. None \in Image
  BY WireAssumption DEF None, Image, WireId
<1> QED
  BY <1>1 DEF ForgetImages

-----------------------------------------------------------------------------
(* The boxes of the workers.                                               *)

\* Posting a task to each of the workers B.
LEMMA PostAll ==
  ASSUME NEW boxes, NEW new, NEW B \in SUBSET Workers, IsFiniteSet(Posted(boxes)),
         \A w \in Workers :
           /\ Len(boxes[w]) \in Nat
           /\ Len(new[w]) = IF w \in B THEN Len(boxes[w]) + 1 ELSE Len(boxes[w])
  PROVE  /\ IsFiniteSet(Posted(new))
         /\ Cardinality(Posted(boxes)) \in Nat /\ Cardinality(B) \in Nat
         /\ Cardinality(Posted(new)) = Cardinality(Posted(boxes)) + Cardinality(B)
<1> DEFINE f == [w \in B |-> <<w, Len(boxes[w]) + 1>>]
           P == {f[w] : w \in B}
<1>1. ASSUME NEW w \in Workers
      PROVE  /\ Len(boxes[w]) \in Nat
             /\ w \in B => Len(new[w]) = Len(boxes[w]) + 1
             /\ w \notin B => Len(new[w]) = Len(boxes[w])
  OBVIOUS
<1>3. IsFiniteSet(B)
  BY WorkerAssumption, FS_Subset
<1>4. IsFiniteSet(P) /\ Cardinality(P) = Cardinality(B)
  <2>1. f \in [B -> P] /\ \A b \in P : \E w \in B : f[w] = b
    OBVIOUS
  <2>2. \A w, v \in B : f[w] = f[v] => w = v
    OBVIOUS
  <2> HIDE DEF f, P
  <2> QED
    BY <1>3, <2>1, <2>2, OneToOne
<1>5. ASSUME NEW w \in Workers, NEW i \in Nat
      PROVE  /\ <<w, i>> \in Posted(boxes) <=> i \in 1..Len(boxes[w])
             /\ <<w, i>> \in Posted(new) <=> i \in 1..Len(new[w])
             /\ <<w, i>> \in P <=> w \in B /\ i = Len(boxes[w]) + 1
  BY DEF Posted
<1>6. Posted(boxes) \subseteq Workers \X Nat /\ Posted(new) \subseteq Workers \X Nat
  BY DEF Posted
<1>7. P \subseteq Workers \X Nat
  BY <1>1
<1> HIDE DEF P
<1>8. ASSUME NEW w \in Workers, NEW i \in Nat
      PROVE  /\ <<w, i>> \in Posted(new) <=> <<w, i>> \in Posted(boxes) \/ <<w, i>> \in P
             /\ ~(<<w, i>> \in Posted(boxes) /\ <<w, i>> \in P)
  <2> DEFINE n == Len(boxes[w])
  <2>1. /\ n \in Nat
        /\ w \in B => Len(new[w]) = n + 1
        /\ w \notin B => Len(new[w]) = n
    BY <1>1
  <2>2. /\ <<w, i>> \in Posted(boxes) <=> i \in 1..n
        /\ <<w, i>> \in Posted(new) <=> i \in 1..Len(new[w])
        /\ <<w, i>> \in P <=> w \in B /\ i = n + 1
    BY <1>5
  <2> HIDE DEF n
  <2>3. CASE w \in B
    BY <2>1, <2>2, <2>3
  <2>4. CASE w \notin B
    BY <2>1, <2>2, <2>4
  <2> QED
    BY <2>3, <2>4
<1>9. \A p \in Workers \X Nat : \E w \in Workers, i \in Nat : p = <<w, i>>
  OBVIOUS
<1>10. \A p \in Workers \X Nat :
          /\ p \in Posted(new) <=> p \in Posted(boxes) \/ p \in P
          /\ ~(p \in Posted(boxes) /\ p \in P)
  <2> TAKE p \in Workers \X Nat
  <2>1. PICK w \in Workers, i \in Nat : p = <<w, i>>
    BY <1>9
  <2> QED
    BY <1>8, <2>1
<1>11. Posted(new) = Posted(boxes) \cup P /\ Posted(boxes) \cap P = {}
  BY <1>6, <1>7, <1>10
<1>12. /\ IsFiniteSet(Posted(boxes) \cup P)
       /\ Cardinality(Posted(boxes)) \in Nat /\ Cardinality(P) \in Nat
       /\ Cardinality(Posted(boxes) \cup P) = Cardinality(Posted(boxes)) + Cardinality(P)
  BY <1>4, <1>11, Together
<1> QED
  BY <1>4, <1>11, <1>12

\* A worker, or the main thread, takes the first.
LEMMA TakeOne ==
  ASSUME NEW boxes, NEW new, NEW w \in Workers, IsFiniteSet(Posted(boxes)),
         Len(boxes[w]) # 0,
         \A v \in Workers :
           /\ Len(boxes[v]) \in Nat
           /\ Len(new[v]) = IF v = w THEN Len(boxes[v]) - 1 ELSE Len(boxes[v])
  PROVE  /\ IsFiniteSet(Posted(new))
         /\ Cardinality(Posted(new)) \in Nat
         /\ Cardinality(Posted(boxes)) = Cardinality(Posted(new)) + 1
<1> DEFINE n == Len(boxes[w])
           p == <<w, n>>
<1>1. n \in Nat \ {0}
  OBVIOUS
<1>5. ASSUME NEW v \in Workers, NEW i \in Nat
      PROVE  <<v, i>> \in Posted(new) <=> <<v, i>> \in Posted(boxes) /\ <<v, i>> # p
  <2>1. /\ <<v, i>> \in Posted(boxes) <=> i \in 1..Len(boxes[v])
        /\ <<v, i>> \in Posted(new) <=> i \in 1..Len(new[v])
    BY DEF Posted
  <2>2. <<v, i>> = p <=> v = w /\ i = n
    OBVIOUS
  <2> HIDE DEF p
  <2>3. CASE v = w
    <3>1. Len(new[v]) = n - 1 /\ Len(boxes[v]) = n
      BY <2>3
    <3> HIDE DEF n
    <3> QED
      BY <1>1, <2>1, <2>2, <2>3, <3>1
  <2>4. CASE v # w
    BY <2>1, <2>2, <2>4
  <2> QED
    BY <2>3, <2>4
<1>6. Posted(boxes) \subseteq Workers \X Nat /\ Posted(new) \subseteq Workers \X Nat
  BY DEF Posted
<1>7. p \in Posted(boxes)
  BY <1>1 DEF Posted
<1> HIDE DEF p
<1>8. \A x \in Workers \X Nat : \E v \in Workers, i \in Nat : x = <<v, i>>
  OBVIOUS
<1>9. \A x \in Workers \X Nat : x \in Posted(new) <=> x \in Posted(boxes) /\ x # p
  <2> TAKE x \in Workers \X Nat
  <2>1. PICK v \in Workers, i \in Nat : x = <<v, i>>
    BY <1>8
  <2> QED
    BY <1>5, <2>1
<1>10. Posted(new) = Posted(boxes) \ {p}
  BY <1>6, <1>9
<1>11. /\ IsFiniteSet(Posted(new))
       /\ Cardinality(Posted(new)) = Cardinality(Posted(boxes)) - 1
  BY <1>7, <1>10, FS_RemoveElement
<1>12. Cardinality(Posted(new)) \in Nat /\ Cardinality(Posted(boxes)) \in Nat
  BY <1>11, FS_CardinalityType
<1> QED
  BY <1>11, <1>12

\* Nothing is posted when the workers are terminated.
LEMMA NonePosted ==
  ASSUME NEW boxes, boxes = [w \in Workers |-> <<>>]
  PROVE  IsFiniteSet(Posted(boxes)) /\ Cardinality(Posted(boxes)) = 0
<1>1. Posted(boxes) = {}
  BY DEF Posted
<1> QED
  BY <1>1, FS_EmptySet

-----------------------------------------------------------------------------
(* Transactions.                                                           *)

\* The state of decompression, on the main thread and in the workers.
WorkOK ==
    /\ cachedTiles \subseteq Keys
    /\ imageCache \in [Keys -> Image]
    /\ nPendingWorkerTasks \in Nat
    /\ workers \subseteq Workers
    /\ inbox \in [Workers -> Seq(Task)]
    /\ outbox \in [Workers -> Seq(Answered)]
    /\ workerImages \in [Workers -> [Keys -> Image]]
    /\ workerError \in BOOLEAN
    /\ bitmapPromises \in Seq([Keys -> Image])
    /\ TasksCounted

\* decompressPendingDeltas counts the tasks it posts.
LEMMA PostTasksWork ==
  ASSUME WorkOK, NEW deltas \in [Keys -> Seq(Delta)], PostTasks(deltas)
  PROVE  /\ inbox' \in [Workers -> Seq(Task)]
         /\ nPendingWorkerTasks' \in Nat
         /\ outbox' = outbox => TasksCounted'
<1> DEFINE busy == {w \in workers : PostTo(w, deltas) # NoDeltas}
           task(w) == [deltas |-> PostTo(w, deltas), cached |-> cachedTiles]
<1>1. /\ inbox' = [w \in Workers |-> IF w \in busy THEN Append(inbox[w], task(w))
                                                   ELSE inbox[w]]
      /\ nPendingWorkerTasks' = nPendingWorkerTasks + Cardinality(busy)
  BY Zenon DEF PostTasks
<1>2. busy \in SUBSET Workers
  BY DEF WorkOK
<1>3. ASSUME NEW w PROVE task(w) \in Task
  <2>1. PostTo(w, deltas) \in [Keys -> Seq(Delta)]
    <3>1. <<>> \in Seq(Delta)
      OBVIOUS
    <3> QED
      BY <3>1 DEF PostTo
  <2> QED
    BY <2>1 DEF Task, WorkOK
<1> HIDE DEF busy, task
<1>4. ASSUME NEW w \in Workers
      PROVE  /\ inbox'[w] \in Seq(Task)
             /\ Len(inbox[w]) \in Nat
             /\ Len(inbox'[w]) = IF w \in busy THEN Len(inbox[w]) + 1 ELSE Len(inbox[w])
  <2>1. inbox[w] \in Seq(Task)
    BY DEF WorkOK
  <2>2. inbox'[w] = IF w \in busy THEN Append(inbox[w], task(w)) ELSE inbox[w]
    BY <1>1
  <2>3. CASE w \in busy
    BY <1>3, <2>1, <2>2, <2>3, AppendItems
  <2>4. CASE w \notin busy
    BY <2>1, <2>2, <2>4
  <2> QED
    BY <2>3, <2>4
<1>5. inbox' \in [Workers -> Seq(Task)]
  BY <1>1, <1>4
<1>6. /\ IsFiniteSet(Posted(inbox)) /\ IsFiniteSet(Posted(outbox))
      /\ Cardinality(Posted(inbox)) + Cardinality(Posted(outbox))
           <= nPendingWorkerTasks
      /\ nPendingWorkerTasks \in Nat
  BY DEF WorkOK, TasksCounted
<1>7. /\ IsFiniteSet(Posted(inbox'))
      /\ Cardinality(Posted(inbox)) \in Nat /\ Cardinality(busy) \in Nat
      /\ Cardinality(Posted(inbox')) = Cardinality(Posted(inbox)) + Cardinality(busy)
  <2>1. \A w \in Workers :
           /\ Len(inbox[w]) \in Nat
           /\ Len(inbox'[w]) = IF w \in busy THEN Len(inbox[w]) + 1 ELSE Len(inbox[w])
    BY <1>4
  <2> QED
    BY <1>2, <1>6, <2>1, PostAll
<1>8. Cardinality(Posted(outbox)) \in Nat
  BY <1>6, FS_CardinalityType
<1>9. nPendingWorkerTasks' \in Nat
  BY <1>1, <1>6, <1>7
<1>10. Cardinality(Posted(inbox')) + Cardinality(Posted(outbox)) <= nPendingWorkerTasks'
  BY <1>1, <1>6, <1>7, <1>8
<1>11. ASSUME outbox' = outbox PROVE TasksCounted'
  <2>1. Posted(inbox)' = Posted(inbox') /\ Posted(outbox)' = Posted(outbox)
    BY <1>11 DEF Posted
  <2> QED
    BY <1>6, <1>7, <1>10, <2>1 DEF TasksCounted
<1> QED
  BY <1>5, <1>9, <1>11

\* The main thread decompresses.
LEMMA DecompressNowWork ==
  ASSUME NEW ts, TilesMap(ts), NEW deltas \in [Keys -> Seq(Delta)],
         NEW data \in [Keys -> Image], bitmapPromises \in Seq([Keys -> Image]),
         DecompressNow(ts, deltas, data)
  PROVE  /\ TilesMap(tiles)'
         /\ imageCache' \in [Keys -> Image]
         /\ bitmapPromises' \in Seq([Keys -> Image])
<1> DEFINE images == [k \in Keys |->
             IF k \in DOMAIN ts THEN SyncImages(ts[k], data[k], deltas[k]) ELSE <<>>]
           bitmaps == BitmapsOf(ts, deltas, images)
<1>1. /\ tiles' = AllDecompressed(ts, deltas)
      /\ imageCache' = [k \in Keys |-> IF images[k] = <<>> THEN data[k]
                                       ELSE images[k][Len(images[k])]]
      /\ bitmapPromises' = IF bitmaps = NoBitmaps THEN bitmapPromises
                           ELSE Append(bitmapPromises, bitmaps)
  BY Zenon DEF DecompressNow
<1>2. ASSUME NEW k \in Keys
      PROVE  /\ images[k] \in Seq(Image)
             /\ k \in DOMAIN ts => Len(images[k]) = Len(deltas[k])
  <2>1. data[k] \in Image /\ deltas[k] \in Seq(Delta)
    OBVIOUS
  <2>2. CASE k \in DOMAIN ts
    <3>1. /\ SyncImages(ts[k], data[k], deltas[k]) \in Seq(Image)
          /\ Len(SyncImages(ts[k], data[k], deltas[k])) = Len(deltas[k])
      BY <2>1, SyncImagesType
    <3> QED
      BY <2>2, <3>1
  <2>3. CASE k \notin DOMAIN ts
    BY <2>3
  <2> QED
    BY <2>2, <2>3
<1> HIDE DEF images
<1>3. bitmaps \in [Keys -> Image]
  BY <1>2, BitmapsOfType
<1> HIDE DEF bitmaps
<1>4. TilesMap(tiles')
  BY <1>1, AllDecompressedType
<1>5. ASSUME NEW k \in Keys
      PROVE  (IF images[k] = <<>> THEN data[k] ELSE images[k][Len(images[k])]) \in Image
  <2>1. images[k] \in Seq(Image) /\ data[k] \in Image
    BY <1>2
  <2> QED
    BY <2>1
<1>6. imageCache' \in [Keys -> Image]
  BY <1>1, <1>5
<1>7. bitmapPromises' \in Seq([Keys -> Image])
  <2> DEFINE I == [Keys -> Image]
  <2>1. bitmaps \in I /\ bitmapPromises \in Seq(I)
    BY <1>3
  <2> HIDE DEF I
  <2>2. Append(bitmapPromises, bitmaps) \in Seq(I)
    BY <2>1
  <2>3. bitmapPromises' \in Seq(I)
    BY <1>1, <2>1, <2>2
  <2> QED
    BY <2>3 DEF I
<1>8. TilesMap(tiles)'
  BY <1>4 DEF TilesMap
<1> QED
  BY <1>6, <1>7, <1>8

\* endTransaction.
LEMMA EndTransactionWork ==
  ASSUME WorkOK, NEW ts, TilesMap(ts), NEW deltas \in [Keys -> Seq(Delta)],
         NEW data \in [Keys -> Image], EndTransaction(ts, deltas, data)
  PROVE  TilesMap(tiles)' /\ WorkOK'
<1>0. UNCHANGED <<cachedTiles, workers, outbox, workerImages, workerError>>
  BY DEF EndTransaction
<1>1. /\ inbox' \in [Workers -> Seq(Task)]
      /\ nPendingWorkerTasks' \in Nat
      /\ TasksCounted'
  <2>1. CASE deltas # NoDeltas /\ workers # {}
    <3>1. PostTasks(deltas)
      BY <2>1 DEF EndTransaction
    <3> QED
      BY <1>0, <3>1, PostTasksWork
  <2>2. CASE ~(deltas # NoDeltas /\ workers # {})
    <3>1. UNCHANGED <<inbox, nPendingWorkerTasks>>
      BY <2>2 DEF EndTransaction
    <3> QED
      BY <1>0, <3>1 DEF WorkOK, TasksCounted, Posted
  <2> QED
    BY <2>1, <2>2
<1>2. /\ TilesMap(tiles)'
      /\ imageCache' \in [Keys -> Image]
      /\ bitmapPromises' \in Seq([Keys -> Image])
  <2>0. bitmapPromises \in Seq([Keys -> Image])
    BY DEF WorkOK
  <2>1. CASE deltas # NoDeltas /\ workers = {}
    <3>1. DecompressNow(ts, deltas, data)
      BY <2>1 DEF EndTransaction
    <3> QED
      BY <2>0, <3>1, DecompressNowWork
  <2>2. CASE ~(deltas # NoDeltas /\ workers = {})
    <3>1. tiles' = ts /\ imageCache' = data /\ UNCHANGED bitmapPromises
      BY <2>2 DEF EndTransaction
    <3> QED
      BY <2>0, <3>1 DEF TilesMap
  <2> QED
    BY <2>1, <2>2
<1> QED
  BY <1>0, <1>1, <1>2 DEF WorkOK

-----------------------------------------------------------------------------
(* Tiles on the fly.                                                       *)

\* The tiles that were sent with wireId w.
Of(w) == {m \in TileMsg : m.to = w}

\* Those in a queue.
LEMMA TilesCount ==
  ASSUME NEW q \in Seq(ServerMsg), NEW w
  PROVE  /\ Cardinality(TilesIn(q, w)) = Count(q, Of(w))
         /\ Count(q, Of(w)) \in Nat
<1>1. DOMAIN q = 1..Len(q) /\ \A i \in 1..Len(q) : q[i] \in ServerMsg
  OBVIOUS
<1>2. \A m \in ServerMsg : m.type = "tile" <=> m \in TileMsg
  BY DEF ServerMsg, TileMsg, InvalidateMsg, CanonicalMsg
<1>3. TilesIn(q, w) = Places(q, Of(w))
  BY <1>1, <1>2 DEF TilesIn, Places, Of
<1>4. Count(q, Of(w)) \in Nat
  BY CountType
<1> QED
  BY <1>3, <1>4 DEF Count

\* The places where a wireId stands in a list.
LEMMA PlacesCount ==
  ASSUME NEW S, NEW q \in Seq(S), NEW w
  PROVE  /\ PlacesOf(q, w) \in SUBSET (1..Len(q)) /\ IsFiniteSet(PlacesOf(q, w))
         /\ Cardinality(PlacesOf(q, w)) = Count(q, {w}) /\ Count(q, {w}) \in Nat
<1>1. DOMAIN q = 1..Len(q)
  OBVIOUS
<1>2. PlacesOf(q, w) = Places(q, {w})
  BY <1>1 DEF PlacesOf, Places
<1>3. IsFiniteSet(Places(q, {w})) /\ Count(q, {w}) \in Nat
  BY CountType
<1> QED
  BY <1>2, <1>3 DEF Count, PlacesOf

\* What a message acknowledges of the wireId w, and how often.
Acks(m, w) == IF m.type = "tileprocessed" THEN PlacesOf(m.wids, w) ELSE {}

Counts(m, w) == Cardinality(Acks(m, w))

\* A message that acknowledges nothing.
Silent(m) == m.type # "tileprocessed"

\* They are finitely many.
LEMMA CountsType ==
  ASSUME NEW m \in ClientMsg, NEW w
  PROVE  /\ Acks(m, w) \in SUBSET Nat /\ IsFiniteSet(Acks(m, w))
         /\ Counts(m, w) \in Nat
         /\ Silent(m) => Counts(m, w) = 0
<1>1. CASE m.type = "tileprocessed"
  <2>1. m.wids \in Seq(WireId)
    BY <1>1 DEF ClientMsg, TileCombineMsg, ProcessedMsg, VisibleAreaMsg
  <2>2. Acks(m, w) = PlacesOf(m.wids, w)
    BY <1>1 DEF Acks
  <2>3. Acks(m, w) \in SUBSET (1..Len(m.wids)) /\ IsFiniteSet(Acks(m, w))
    BY <2>1, <2>2, PlacesCount
  <2>4. Counts(m, w) \in Nat
    BY <2>3, FS_CardinalityType DEF Counts
  <2> QED
    BY <1>1, <2>3, <2>4 DEF Silent
<1>2. CASE m.type # "tileprocessed"
  <2>1. Acks(m, w) = {}
    BY <1>2 DEF Acks
  <2> QED
    BY <2>1, FS_EmptySet DEF Counts
<1> QED
  BY <1>1, <1>2

\* The acknowledgements in a queue, message by message and place by place.
LEMMA CountedPairs ==
  ASSUME NEW q \in Seq(ClientMsg), NEW w
  PROVE  /\ Counted(q, w) \subseteq Nat \X Nat
         /\ \A i, j \in Nat :
              <<i, j>> \in Counted(q, w) <=> i \in 1..Len(q) /\ j \in Acks(q[i], w)
<1>1. \A i \in 1..Len(q) : q[i] \in ClientMsg
  OBVIOUS
<1>2. \A i \in Acknowledging(q) : i \in 1..Len(q) /\ PlacesOf(q[i].wids, w) = Acks(q[i], w)
  BY DEF Acknowledging, Acks
<1>3. \A i \in 1..Len(q) : Acks(q[i], w) \in SUBSET Nat
  BY <1>1, CountsType
<1>4. \A i \in 1..Len(q) : Acks(q[i], w) # {} => i \in Acknowledging(q)
  BY DEF Acknowledging, Acks
<1>5. \A p : p \in Counted(q, w) <=>
               \E i \in Acknowledging(q) : p \in {i} \X PlacesOf(q[i].wids, w)
  BY DEF Counted
<1>6. \A p : p \in Counted(q, w) <=>
               \E i \in Acknowledging(q) : p \in {i} \X Acks(q[i], w)
  BY <1>2, <1>5
<1>7. Counted(q, w) \subseteq Nat \X Nat
  <2> SUFFICES ASSUME NEW p \in Counted(q, w) PROVE p \in Nat \X Nat
    OBVIOUS
  <2>1. PICK i \in Acknowledging(q) : p \in {i} \X Acks(q[i], w)
    BY <1>6
  <2>2. i \in Nat /\ Acks(q[i], w) \in SUBSET Nat
    BY <1>2, <1>3
  <2> QED
    BY <2>1, <2>2
<1>8. ASSUME NEW i \in Nat, NEW j \in Nat
      PROVE  <<i, j>> \in Counted(q, w) <=> i \in 1..Len(q) /\ j \in Acks(q[i], w)
  <2>1. ASSUME <<i, j>> \in Counted(q, w)
        PROVE  i \in 1..Len(q) /\ j \in Acks(q[i], w)
    <3>1. PICK x \in Acknowledging(q) : <<i, j>> \in {x} \X Acks(q[x], w)
      BY <1>6, <2>1
    <3>2. i = x /\ j \in Acks(q[x], w)
      BY <3>1
    <3> QED
      BY <1>2, <3>2
  <2>2. ASSUME i \in 1..Len(q), j \in Acks(q[i], w)
        PROVE  <<i, j>> \in Counted(q, w)
    <3>1. i \in Acknowledging(q)
      BY <1>4, <2>2
    <3>2. <<i, j>> \in {i} \X Acks(q[i], w)
      BY <2>2
    <3> QED
      BY <1>6, <3>1, <3>2
  <2> QED
    BY <2>1, <2>2
<1> QED
  BY <1>7, <1>8

\* The acknowledgements in one message, as pairs, are as many.
LEMMA CountedAt ==
  ASSUME NEW i \in Nat, NEW A, IsFiniteSet(A)
  PROVE  IsFiniteSet({i} \X A) /\ Cardinality({i} \X A) = Cardinality(A)
<1> DEFINE B == {i} \X A
           f == [j \in A |-> <<i, j>>]
<1>1. f \in [A -> B] /\ \A x, y \in A : f[x] = f[y] => x = y
  OBVIOUS
<1>2. \A b \in B : \E x \in A : f[x] = b
  OBVIOUS
<1> HIDE DEF B, f
<1>3. IsFiniteSet(B) /\ Cardinality(B) = Cardinality(A)
  BY <1>1, <1>2, OneToOne
<1> QED
  BY <1>3 DEF B

\* The acknowledgements in a queue are finitely many.
LEMMA CountedFinite ==
  ASSUME NEW q \in Seq(ClientMsg), NEW w
  PROVE  IsFiniteSet(Counted(q, w)) /\ Cardinality(Counted(q, w)) \in Nat
<1> DEFINE D == 1..Len(q)
           f == [i \in D |-> {i} \X Acks(q[i], w)]
           R == {f[i] : i \in D}
<1>1. Len(q) \in Nat /\ \A i \in D : q[i] \in ClientMsg /\ i \in Nat
  OBVIOUS
<1>2. IsFiniteSet(D)
  BY <1>1, FS_Interval
<1>3. \A i \in D : IsFiniteSet({i} \X Acks(q[i], w))
  <2> TAKE i \in D
  <2>1. IsFiniteSet(Acks(q[i], w)) /\ i \in Nat
    BY <1>1, CountsType
  <2> QED
    BY <2>1, CountedAt
<1>4. \A i \in D : f[i] = {i} \X Acks(q[i], w)
  OBVIOUS
<1>5. f \in [D -> R]
  OBVIOUS
<1>6. f \in Surjection(D, R)
  BY <1>5 DEF Surjection
<1> HIDE DEF f
<1>7. \A T \in R : IsFiniteSet(T)
  BY <1>3, <1>4
<1>8. ASSUME NEW p \in Counted(q, w) PROVE p \in UNION R
  <2>1. PICK i \in Nat, j \in Nat : p = <<i, j>>
    BY CountedPairs
  <2>2. i \in D /\ j \in Acks(q[i], w)
    BY <2>1, CountedPairs
  <2>3. p \in f[i]
    BY <1>4, <2>1, <2>2
  <2> QED
    BY <2>2, <2>3
<1> HIDE DEF D
<1>9. IsFiniteSet(R)
  <2> HIDE DEF R
  <2> QED
    BY <1>2, <1>6, FS_Surjection
<1> HIDE DEF R
<1>10. IsFiniteSet(UNION R)
  BY <1>7, <1>9, FS_UNION
<1>11. IsFiniteSet(Counted(q, w))
  BY <1>8, <1>10, FS_Subset
<1> QED
  BY <1>11, FS_CardinalityType

\* A message that is sent.
LEMMA CountedAppend ==
  ASSUME NEW q \in Seq(ClientMsg), NEW m \in ClientMsg, NEW w
  PROVE  Cardinality(Counted(Append(q, m), w)) = Cardinality(Counted(q, w)) + Counts(m, w)
<1> DEFINE r == Append(q, m)
           n == Len(q) + 1
           A == Acks(m, w)
           B == {n} \X A
           P == Counted(q, w)
           Q == Counted(r, w)
<1>1. /\ r \in Seq(ClientMsg) /\ Len(q) \in Nat /\ Len(r) = n /\ n \in Nat
      /\ \A i \in 1..Len(q) : r[i] = q[i]
      /\ r[n] = m
  BY AppendItems
<1>2. A \in SUBSET Nat /\ IsFiniteSet(A)
  BY CountsType
<1>3. IsFiniteSet(B) /\ Cardinality(B) = Counts(m, w)
  <2> HIDE DEF n
  <2> QED
    BY <1>1, <1>2, CountedAt DEF Counts
<1> HIDE DEF r
<1>4. /\ P \subseteq Nat \X Nat /\ Q \subseteq Nat \X Nat
      /\ \A i, j \in Nat : <<i, j>> \in P <=> i \in 1..Len(q) /\ j \in Acks(q[i], w)
      /\ \A i, j \in Nat : <<i, j>> \in Q <=> i \in 1..Len(r) /\ j \in Acks(r[i], w)
  BY <1>1, CountedPairs
<1>5. IsFiniteSet(P)
  BY CountedFinite
<1> HIDE DEF P, Q
<1>6. B \subseteq Nat \X Nat
  BY <1>1, <1>2
<1>7. ASSUME NEW i \in Nat, NEW j \in Nat
      PROVE  /\ <<i, j>> \in Q <=> <<i, j>> \in P \/ <<i, j>> \in B
             /\ ~(<<i, j>> \in P /\ <<i, j>> \in B)
  <2>1. <<i, j>> \in B <=> i = n /\ j \in Acks(m, w)
    OBVIOUS
  <2> HIDE DEF B
  <2>2. CASE i = n
    <3>1. i \in 1..Len(r) /\ i \notin 1..Len(q) /\ r[i] = m
      BY <1>1, <2>2
    <3> QED
      BY <1>4, <2>1, <2>2, <3>1
  <2>3. CASE i # n
    <3>1. i \in 1..Len(r) <=> i \in 1..Len(q)
      BY <1>1, <2>3
    <3>2. i \in 1..Len(q) => r[i] = q[i]
      BY <1>1
    <3> QED
      BY <1>4, <2>1, <2>3, <3>1, <3>2
  <2> QED
    BY <2>2, <2>3
<1> HIDE DEF B
<1>8. \A p \in Nat \X Nat : /\ p \in Q <=> p \in P \/ p \in B
                            /\ ~(p \in P /\ p \in B)
  <2> TAKE p \in Nat \X Nat
  <2>1. PICK i \in Nat, j \in Nat : p = <<i, j>>
    OBVIOUS
  <2> QED
    BY <1>7, <2>1
<1>9. Q = P \cup B /\ P \cap B = {}
  BY <1>4, <1>6, <1>8
<1>10. Cardinality(P \cup B) = Cardinality(P) + Cardinality(B)
  BY <1>3, <1>5, <1>9, Together
<1> QED
  BY <1>3, <1>9, <1>10 DEF r, P, Q

\* A message that is received.
LEMMA CountedTail ==
  ASSUME NEW q \in Seq(ClientMsg), q # <<>>, NEW w
  PROVE  Cardinality(Counted(q, w)) =
           Cardinality(Counted(Tail(q), w)) + Counts(Head(q), w)
<1> DEFINE r == Tail(q)
           m == Head(q)
           A == Acks(m, w)
           B == {1} \X A
           P == Counted(q, w)
           Q == Counted(r, w)
           C == {p \in P : p[1] # 1}
           f == [p \in C |-> <<p[1] - 1, p[2]>>]
<1>1. /\ r \in Seq(ClientMsg) /\ Len(q) \in Nat \ {0} /\ Len(r) = Len(q) - 1
      /\ \A i \in 1..Len(r) : r[i] = q[i + 1]
      /\ m = q[1] /\ m \in ClientMsg
  BY TailItems
<1>2. A \in SUBSET Nat /\ IsFiniteSet(A)
  BY <1>1, CountsType
<1>3. IsFiniteSet(B) /\ Cardinality(B) = Counts(m, w)
  BY <1>2, CountedAt DEF Counts
<1> HIDE DEF r, m
<1>4. /\ P \subseteq Nat \X Nat /\ Q \subseteq Nat \X Nat
      /\ \A i, j \in Nat : <<i, j>> \in P <=> i \in 1..Len(q) /\ j \in Acks(q[i], w)
      /\ \A i, j \in Nat : <<i, j>> \in Q <=> i \in 1..Len(r) /\ j \in Acks(r[i], w)
  BY <1>1, CountedPairs
<1>5. IsFiniteSet(P)
  BY CountedFinite
<1> HIDE DEF P, Q
<1>6. ASSUME NEW i \in Nat, NEW j \in Nat
      PROVE  <<i, j>> \in Q <=> <<i + 1, j>> \in P /\ i # 0
  <2>1. i + 1 \in Nat /\ (i \in 1..Len(r) <=> i + 1 \in 1..Len(q) /\ i # 0)
    BY <1>1
  <2>2. i \in 1..Len(r) => r[i] = q[i + 1]
    BY <1>1
  <2> QED
    BY <1>4, <2>1, <2>2
<1>7. ASSUME NEW j \in Nat
      PROVE  <<1, j>> \in P <=> <<1, j>> \in B
  BY <1>1, <1>4
<1>8. P = C \cup B /\ C \cap B = {}
  <2>1. ASSUME NEW p \in P, p \notin C PROVE p \in B
    <3>1. PICK j \in Nat : p = <<1, j>>
      BY <1>4, <2>1
    <3> QED
      BY <1>7, <2>1, <3>1
  <2>2. ASSUME NEW p \in B PROVE p \in P /\ p \notin C
    <3>1. PICK j \in Nat : p = <<1, j>>
      BY <1>2
    <3> QED
      BY <1>7, <2>2, <3>1
  <2> HIDE DEF B
  <2> QED
    BY <2>1, <2>2
<1>9. ASSUME NEW p \in C
      PROVE  \E i \in Nat \ {0}, j \in Nat :
                p = <<i + 1, j>> /\ f[p] = <<i, j>> /\ <<i, j>> \in Q
  <2>1. PICK i \in Nat, j \in Nat : p = <<i, j>>
    BY <1>4
  <2>2. i # 1 /\ i \in 1..Len(q) /\ <<i, j>> \in P
    BY <1>4, <2>1
  <2>3. i - 1 \in Nat \ {0} /\ (i - 1) + 1 = i
    BY <1>1, <2>2
  <2>4. <<i - 1, j>> \in Q
    BY <1>6, <2>2, <2>3
  <2>5. f[p] = <<i - 1, j>>
    BY <2>1
  <2> QED
    BY <2>1, <2>3, <2>4, <2>5
<1>10. ASSUME NEW b \in Q PROVE \E p \in C : f[p] = b
  <2>1. PICK i \in Nat, j \in Nat : b = <<i, j>>
    BY <1>4
  <2>2. <<i + 1, j>> \in P /\ i # 0
    BY <1>6, <2>1
  <2>3. <<i + 1, j>> \in C
    BY <2>2
  <2>4. f[<<i + 1, j>>] = <<i, j>>
    BY <2>3
  <2> QED
    BY <2>1, <2>3, <2>4
<1>11. f \in [C -> Q]
  <2>1. \A p \in C : f[p] \in Q
    BY <1>9
  <2> QED
    BY <2>1
<1>12. ASSUME NEW x \in C, NEW y \in C, f[x] = f[y] PROVE x = y
  <2>1. PICK i \in Nat \ {0}, j \in Nat : x = <<i + 1, j>> /\ f[x] = <<i, j>>
    BY <1>9
  <2>2. PICK a \in Nat \ {0}, b \in Nat : y = <<a + 1, b>> /\ f[y] = <<a, b>>
    BY <1>9
  <2> HIDE DEF f
  <2>3. i = a /\ j = b
    BY <1>12, <2>1, <2>2
  <2> QED
    BY <2>1, <2>2, <2>3
<1>13. IsFiniteSet(C)
  BY <1>5, FS_Subset
<1> HIDE DEF B, C, f
<1>14. Cardinality(Q) = Cardinality(C)
  BY <1>10, <1>11, <1>12, <1>13, OneToOne
<1>15. Cardinality(C \cup B) = Cardinality(C) + Cardinality(B)
  BY <1>3, <1>8, <1>13, Together
<1> QED
  BY <1>3, <1>8, <1>14, <1>15 DEF r, m, P, Q

-----------------------------------------------------------------------------
(* The inductive invariant.                                                *)

WireOK ==
    /\ toClient \in Seq(ServerMsg)
    /\ toServer \in Seq(ClientMsg)

ViewOK ==
    /\ view \subseteq Keys
    /\ TilesMap(tiles)
    /\ pendingDeltas \in [Keys -> Seq(Delta)]

DrawOK ==
    /\ pausedForCoherency \in BOOLEAN
    /\ dehydratedCurrentTiles \subseteq Keys
    /\ deferredDraw \in BOOLEAN

SlurpOK ==
    /\ slurpQueue \in Seq(TileMsg \cup CanonicalMsg)
    /\ slurpTimer \in BOOLEAN
    /\ slurpDuringTransaction \in BOOLEAN
    /\ inLayerTransaction \in BOOLEAN
    /\ emitting \in BOOLEAN

FetchOK ==
    /\ queuedProcessed \in Seq(WireId)
    /\ fetchKeyframeQueue \subseteq Keys
    /\ pendingTileCombineQueue \subseteq Keys

SpentOK == spent \in [Interference -> Nat]

\* What is decompressed fits the tiles, the tasks of the workers are counted,
\* and the tiles on the fly have their acknowledgements to come.
System ==
    /\ WireOK /\ ViewOK /\ DrawOK /\ SlurpOK /\ WorkOK /\ FetchOK
    /\ CacheTypeOK /\ SpentOK
    /\ OnFlyAccounted

TInv == System /\ newest \in [Keys -> WireId] /\ orphaned \subseteq Keys

\* The types are among it.
LEMMA TInvTypes ==
  ASSUME TInv
  PROVE  TypeOK
<1>1. outbox \in [Workers -> Seq(Answer)]
  <2>1. outbox \in [Workers -> Seq(Answered)]
    BY DEF TInv, System, WorkOK
  <2>2. ASSUME NEW w \in Workers PROVE outbox[w] \in Seq(Answer)
    <3>1. outbox[w] \in Seq(Answered) /\ Answered \subseteq Answer
      BY <2>1 DEF Answered
    <3> HIDE DEF TInv
    <3> QED
      BY <3>1
  <2> QED
    BY <2>1, <2>2
<1>2. ManagerTypeOK
  BY <1>1 DEF TInv, System, ViewOK, TilesMap, DrawOK, SlurpOK, WorkOK, FetchOK, ManagerTypeOK
<1> QED
  BY <1>2 DEF TInv, System, WireOK, SpentOK, TypeOK

\* The acknowledgements of each wireId that are on their way back, and those
\* that the browser owes for what it has processed or has on their way.
Acknowledged == [w \in WireId |-> Cardinality(Counted(toServer, w))]

Owed == [w \in WireId |-> Count(queuedProcessed, {w}) + Acknowledged[w]]

\* The tiles on the fly f against the tiles in the queues c and s and what is
\* owed otherwise, where t is the number of stalls.
Balanced(c, s, owed, f, t) ==
    \A w \in WireId :
      LET awaited == Count(c, Of(w)) + Count(s, Of(w)) + owed[w]
      IN  /\ Count(f, {w}) <= awaited
          /\ t = 0 => Count(f, {w}) = awaited

\* The slurp queue has messages of the server.
LEMMA SlurpQueueType ==
  ASSUME NEW s \in Seq(TileMsg \cup CanonicalMsg)
  PROVE  s \in Seq(ServerMsg)
<1> DEFINE S == TileMsg \cup CanonicalMsg
<1>1. s \in Seq(S) /\ S \subseteq ServerMsg
  BY DEF ServerMsg
<1> HIDE DEF S
<1> QED
  BY <1>1

\* All that is added up are numbers.
LEMMA Numbers ==
  ASSUME WireOK, SlurpOK, FetchOK, CacheTypeOK, NEW w \in WireId
  PROVE  /\ Count(toClient, Of(w)) \in Nat /\ Count(slurpQueue, Of(w)) \in Nat
         /\ Count(queuedProcessed, {w}) \in Nat /\ Acknowledged[w] \in Nat
         /\ Count(onFly, {w}) \in Nat
         /\ Owed[w] = Count(queuedProcessed, {w}) + Acknowledged[w] /\ Owed[w] \in Nat
         /\ Acknowledged[w] = Cardinality(Counted(toServer, w))
<1>1. /\ toClient \in Seq(ServerMsg) /\ slurpQueue \in Seq(ServerMsg)
      /\ queuedProcessed \in Seq(WireId) /\ onFly \in Seq(WireId)
      /\ toServer \in Seq(ClientMsg)
  BY SlurpQueueType DEF WireOK, SlurpOK, FetchOK, CacheTypeOK
<1>2. /\ Count(toClient, Of(w)) \in Nat /\ Count(slurpQueue, Of(w)) \in Nat
      /\ Count(queuedProcessed, {w}) \in Nat /\ Count(onFly, {w}) \in Nat
  BY <1>1, CountType
<1>3. Acknowledged[w] = Cardinality(Counted(toServer, w)) /\ Acknowledged[w] \in Nat
  BY <1>1, CountedFinite DEF Acknowledged
<1>4. Owed[w] = Count(queuedProcessed, {w}) + Acknowledged[w]
  BY DEF Owed
<1> QED
  BY <1>2, <1>3, <1>4

\* What OnFlyAccounted says of one wireId.
LEMMA OnFlyOf ==
  ASSUME NEW c \in Seq(ServerMsg), NEW s \in Seq(TileMsg \cup CanonicalMsg),
         NEW q \in Seq(WireId), NEW f \in Seq(WireId), NEW w \in WireId
  PROVE  /\ Cardinality(TilesIn(c, w)) = Count(c, Of(w))
         /\ Cardinality(TilesIn(s, w)) = Count(s, Of(w))
         /\ Cardinality(PlacesOf(q, w)) = Count(q, {w})
         /\ Cardinality(PlacesOf(f, w)) = Count(f, {w})
         /\ Count(c, Of(w)) \in Nat /\ Count(s, Of(w)) \in Nat /\ Count(q, {w}) \in Nat
<1>1. s \in Seq(ServerMsg)
  BY SlurpQueueType
<1> QED
  BY <1>1, TilesCount, PlacesCount

\* The tiles on the fly are accounted for if they are balanced.
LEMMA Balance ==
  ASSUME WireOK, SlurpOK, FetchOK, CacheTypeOK
  PROVE  OnFlyAccounted <=>
           Balanced(toClient, slurpQueue, Owed, onFly, spent["stalls"])
<1>1. /\ toClient \in Seq(ServerMsg) /\ slurpQueue \in Seq(TileMsg \cup CanonicalMsg)
      /\ queuedProcessed \in Seq(WireId) /\ onFly \in Seq(WireId)
  BY DEF WireOK, SlurpOK, FetchOK, CacheTypeOK
<1>2. ASSUME NEW w \in WireId
      PROVE  /\ Cardinality(PlacesOf(onFly, w)) = Count(onFly, {w})
             /\ Awaited(w) = Count(toClient, Of(w)) + Count(slurpQueue, Of(w)) + Owed[w]
  <2>1. /\ Cardinality(TilesIn(toClient, w)) = Count(toClient, Of(w))
        /\ Cardinality(TilesIn(slurpQueue, w)) = Count(slurpQueue, Of(w))
        /\ Cardinality(PlacesOf(queuedProcessed, w)) = Count(queuedProcessed, {w})
        /\ Cardinality(PlacesOf(onFly, w)) = Count(onFly, {w})
    BY <1>1, OnFlyOf
  <2>2. /\ Count(toClient, Of(w)) \in Nat /\ Count(slurpQueue, Of(w)) \in Nat
        /\ Count(queuedProcessed, {w}) \in Nat /\ Acknowledged[w] \in Nat
        /\ Owed[w] = Count(queuedProcessed, {w}) + Acknowledged[w]
        /\ Acknowledged[w] = Cardinality(Counted(toServer, w))
    BY Numbers
  <2>3. Awaited(w) = Count(toClient, Of(w)) + Count(slurpQueue, Of(w))
                       + Count(queuedProcessed, {w}) + Acknowledged[w]
    BY <2>1, <2>2, Zenon DEF Awaited
  <2> QED
    BY <2>1, <2>2, <2>3
<1> QED
  BY <1>2 DEF OnFlyAccounted, Balanced

\* So are they after a step.
LEMMA BalanceNext ==
  ASSUME WireOK', SlurpOK', FetchOK', CacheTypeOK',
         Balanced(toClient', slurpQueue', Owed', onFly', spent'["stalls"])
  PROVE  OnFlyAccounted'
<1>1. /\ toClient' \in Seq(ServerMsg) /\ slurpQueue' \in Seq(TileMsg \cup CanonicalMsg)
      /\ queuedProcessed' \in Seq(WireId) /\ onFly' \in Seq(WireId)
      /\ toServer' \in Seq(ClientMsg)
  BY DEF WireOK, SlurpOK, FetchOK, CacheTypeOK
<1>2. ASSUME NEW w \in WireId
      PROVE  /\ Cardinality(PlacesOf(onFly', w)) = Count(onFly', {w})
             /\ Awaited(w)' = Count(toClient', Of(w)) + Count(slurpQueue', Of(w)) + Owed'[w]
  <2>1. /\ Cardinality(TilesIn(toClient', w)) = Count(toClient', Of(w))
        /\ Cardinality(TilesIn(slurpQueue', w)) = Count(slurpQueue', Of(w))
        /\ Cardinality(PlacesOf(queuedProcessed', w)) = Count(queuedProcessed', {w})
        /\ Cardinality(PlacesOf(onFly', w)) = Count(onFly', {w})
        /\ Count(toClient', Of(w)) \in Nat /\ Count(slurpQueue', Of(w)) \in Nat
        /\ Count(queuedProcessed', {w}) \in Nat
    BY <1>1, OnFlyOf
  <2>2. Cardinality(Counted(toServer', w)) \in Nat
    BY <1>1, CountedFinite
  <2>3. Awaited(w)' = Cardinality(TilesIn(toClient', w)) + Cardinality(TilesIn(slurpQueue', w))
            + Cardinality(PlacesOf(queuedProcessed', w)) + Cardinality(Counted(toServer', w))
    BY DEF Awaited, TilesIn, PlacesOf, Counted, Acknowledging
  <2>4. Owed'[w] = Count(queuedProcessed', {w}) + Cardinality(Counted(toServer', w))
    <3>1. Owed' = [x \in WireId |-> Count(queuedProcessed', {x})
                                      + Cardinality(Counted(toServer', x))]
      BY DEF Owed, Acknowledged, Count, Places, Counted, Acknowledging, PlacesOf
    <3> QED
      BY <3>1
  <2> QED
    BY <2>1, <2>2, <2>3, <2>4
<1>3. ASSUME NEW w \in WireId
      PROVE  /\ Cardinality(PlacesOf(onFly', w)) <= Awaited(w)'
             /\ spent'["stalls"] = 0 => Cardinality(PlacesOf(onFly', w)) = Awaited(w)'
  BY <1>2 DEF Balanced
<1> QED
  BY <1>3 DEF OnFlyAccounted, PlacesOf, Awaited

\* A step spends a budget or none; the timeout does not forget its stalls.
SpendsOn == SpentOK' /\ (spent'["stalls"] = 0 => spent["stalls"] = 0)

\* A step that leaves the tiles alone.
LEMMA SameBalance ==
  ASSUME System, WireOK', SlurpOK', FetchOK', CacheTypeOK', SpendsOn,
         UNCHANGED <<toClient, slurpQueue, onFly>>, Owed' = Owed
  PROVE  OnFlyAccounted'
<1>1. Balanced(toClient, slurpQueue, Owed, onFly, spent["stalls"])
  BY Balance DEF System
<1>2. spent'["stalls"] = 0 => spent["stalls"] = 0
  BY DEF SpendsOn
<1>3. Balanced(toClient', slurpQueue', Owed', onFly', spent'["stalls"])
  BY <1>1, <1>2 DEF Balanced
<1> QED
  BY <1>3, BalanceNext

\* The browser's queue to the server with one more message.
LEMMA SentToServer ==
  ASSUME WireOK, NEW m \in ClientMsg, toServer' = Append(toServer, m)
  PROVE  /\ toServer' \in Seq(ClientMsg)
         /\ Acknowledged' = [w \in WireId |-> Acknowledged[w] + Counts(m, w)]
<1>1. toServer \in Seq(ClientMsg)
  BY DEF WireOK
<1>2. toServer' \in Seq(ClientMsg)
  BY <1>1
<1>3. Acknowledged' = [w \in WireId |-> Cardinality(Counted(Append(toServer, m), w))]
  BY DEF Acknowledged, Counted, Acknowledging, PlacesOf
<1>4. \A w \in WireId : Cardinality(Counted(Append(toServer, m), w))
                          = Acknowledged[w] + Counts(m, w)
  BY <1>1, CountedAppend DEF Acknowledged
<1> QED
  BY <1>2, <1>3, <1>4

\* The messages of the browser.
LEMMA BrowserMessages ==
  /\ \A q \in Seq(WireId) : /\ Tileprocessed(q) \in ClientMsg
                            /\ \A w \in WireId : Counts(Tileprocessed(q), w) = Count(q, {w})
  /\ \A S \in SUBSET Keys : /\ Clientvisiblearea(S) \in ClientMsg
                            /\ Silent(Clientvisiblearea(S))
  /\ \A S \in SUBSET Keys : \A old :
       (\A k \in S : old[k] \in WireId) =>
         Tilecombine(S, old) \in ClientMsg /\ Silent(Tilecombine(S, old))
<1>1. ASSUME NEW q \in Seq(WireId)
      PROVE  /\ Tileprocessed(q) \in ClientMsg
             /\ \A w \in WireId : Counts(Tileprocessed(q), w) = Count(q, {w})
  <2>1. Tileprocessed(q) \in ClientMsg
    BY DEF Tileprocessed, ClientMsg, ProcessedMsg
  <2>2. \A w \in WireId : Acks(Tileprocessed(q), w) = PlacesOf(q, w)
    BY DEF Tileprocessed, Acks
  <2>3. \A w \in WireId : Cardinality(PlacesOf(q, w)) = Count(q, {w})
    BY PlacesCount
  <2> QED
    BY <2>1, <2>2, <2>3 DEF Counts
<1>2. ASSUME NEW S \in SUBSET Keys
      PROVE  Clientvisiblearea(S) \in ClientMsg /\ Silent(Clientvisiblearea(S))
  BY DEF Clientvisiblearea, ClientMsg, VisibleAreaMsg, Silent
<1>3. ASSUME NEW S \in SUBSET Keys, NEW old, \A k \in S : old[k] \in WireId
      PROVE  Tilecombine(S, old) \in ClientMsg /\ Silent(Tilecombine(S, old))
  <2> DEFINE o == [k \in Keys |-> IF k \in S THEN old[k] ELSE 0]
  <2>1. 0 \in WireId
    BY WireAssumption DEF WireId
  <2>2. o \in [Keys -> WireId]
    BY <1>3, <2>1
  <2>3. Tilecombine(S, old) = [type |-> "tilecombine", keys |-> S, oldwid |-> o]
    BY Zenon DEF Tilecombine
  <2> HIDE DEF o
  <2> QED
    BY <2>2, <2>3 DEF ClientMsg, TileCombineMsg, Silent
<1> QED
  BY <1>1, <1>2, <1>3

\* The callback sends what was queued, no more and no less.
LEMMA CallbackKeeps ==
  ASSUME WireOK, SlurpOK, FetchOK, CacheTypeOK, NEW fetch \in SUBSET Keys,
         TransactionCallback(fetch)
  PROVE  /\ toServer' \in Seq(ClientMsg)
         /\ FetchOK'
         /\ slurpTimer' \in BOOLEAN /\ slurpDuringTransaction' \in BOOLEAN
         /\ inLayerTransaction' \in BOOLEAN
         /\ Owed' = Owed
<1>1. queuedProcessed \in Seq(WireId) /\ toServer \in Seq(ClientMsg)
  BY DEF FetchOK, WireOK
<1>2. \A w \in WireId : /\ Count(queuedProcessed, {w}) \in Nat /\ Acknowledged[w] \in Nat
                        /\ Owed[w] = Count(queuedProcessed, {w}) + Acknowledged[w]
  BY Numbers
<1>3. queuedProcessed' = <<>>
  BY DEF TransactionCallback
<1>4. /\ toServer' \in Seq(ClientMsg)
      /\ \A w \in WireId : Acknowledged'[w] = Owed[w]
  <2>1. CASE queuedProcessed = <<>>
    <3>1. toServer' = toServer
      BY <2>1 DEF TransactionCallback
    <3>2. Acknowledged' = Acknowledged
      BY <3>1 DEF Acknowledged, Counted, Acknowledging, PlacesOf
    <3>3. \A w \in WireId : Count(queuedProcessed, {w}) = 0
      BY <2>1, CountEmpty
    <3>4. ASSUME NEW w \in WireId PROVE Acknowledged[w] = Owed[w]
      <4>1. PICK a \in Nat : a = Acknowledged[w]
        BY <1>2
      <4>2. Owed[w] = 0 + a
        BY <1>2, <3>3, <4>1
      <4> QED
        BY <4>1, <4>2
    <3>5. \A w \in WireId : Acknowledged'[w] = Owed[w]
      BY <3>2, <3>4, Zenon
    <3> QED
      BY <1>1, <3>1, <3>5
  <2>2. CASE queuedProcessed # <<>>
    <3>1. toServer' = Append(toServer, Tileprocessed(queuedProcessed))
      BY <2>2 DEF TransactionCallback
    <3>2. /\ Tileprocessed(queuedProcessed) \in ClientMsg
          /\ \A w \in WireId :
               Counts(Tileprocessed(queuedProcessed), w) = Count(queuedProcessed, {w})
      BY <1>1, BrowserMessages
    <3> HIDE DEF Tileprocessed
    <3>3. /\ toServer' \in Seq(ClientMsg)
          /\ Acknowledged' = [w \in WireId |-> Acknowledged[w]
                                + Counts(Tileprocessed(queuedProcessed), w)]
      BY <3>1, <3>2, SentToServer
    <3>4. \A w \in WireId : Acknowledged'[w] = Acknowledged[w] + Count(queuedProcessed, {w})
      BY <3>2, <3>3
    <3>5. ASSUME NEW w \in WireId PROVE Acknowledged'[w] = Owed[w]
      <4>1. PICK a \in Nat, q \in Nat :
              a = Acknowledged[w] /\ q = Count(queuedProcessed, {w})
        BY <1>2
      <4>2. Owed[w] = q + a /\ Acknowledged'[w] = a + q
        BY <1>2, <3>4, <4>1
      <4> QED
        BY <4>2
    <3> QED
      BY <3>3, <3>5
  <2> QED
    BY <2>1, <2>2
<1>5. Owed' = Owed
  <2>1. Owed' = [w \in WireId |-> Count(<<>>, {w}) + Acknowledged'[w]]
    BY <1>3 DEF Owed, Count, Places
  <2>2. \A w \in WireId : Count(<<>>, {w}) + Acknowledged'[w] = Owed[w]
    BY <1>2, <1>4, CountEmpty
  <2>3. Owed = [w \in WireId |-> Owed[w]]
    BY DEF Owed
  <2> QED
    BY <2>1, <2>2, <2>3
<1>6. FetchOK'
  BY <1>3 DEF FetchOK, TransactionCallback
<1>7. /\ slurpTimer' \in BOOLEAN /\ slurpDuringTransaction' \in BOOLEAN
      /\ inLayerTransaction' \in BOOLEAN
  BY DEF SlurpOK, TransactionCallback
<1> QED
  BY <1>4, <1>5, <1>6, <1>7

\* endTransactionHandleBitmaps.
LEMMA HandleBitmapsKeeps ==
  ASSUME WireOK, SlurpOK, FetchOK, DrawOK, CacheTypeOK, imageCache \in [Keys -> Image],
         NEW ts, TilesMap(ts), NEW bitmaps \in [Keys -> Image], NEW n, NEW fate,
         HandleBitmaps(ts, bitmaps, n, fate)
  PROVE  /\ TilesMap(tiles)'
         /\ imageCache' \in [Keys -> Image]
         /\ toServer' \in Seq(ClientMsg)
         /\ FetchOK' /\ SlurpOK' /\ DrawOK'
         /\ UNCHANGED slurpQueue /\ Owed' = Owed
<1> DEFINE shown == WithBitmaps(ts, bitmaps)
           ready == VisibleTilesReady(shown)
           evicted == {k \in Keys : fate[k] # "keep"}
<1>1. /\ tiles' = GarbageCollect(shown, fate)
      /\ imageCache' = ForgetImages(shown, evicted)
      /\ pausedForCoherency' = (pausedForCoherency /\ ~ready)
      /\ deferredDraw' = (deferredDraw /\ ~ready)
      /\ IF n = 0 /\ inLayerTransaction
         THEN TransactionCallback({})
         ELSE UNCHANGED <<toServer, fetching, inLayerTransaction, slurpTimer,
                          slurpDuringTransaction>>
      /\ UNCHANGED <<dehydratedCurrentTiles, emitting, slurpQueue>>
  BY Zenon DEF HandleBitmaps
<1>2. TilesMap(shown)
  BY WithBitmapsType
<1> HIDE DEF shown, ready, evicted
<1>3. TilesMap(tiles')
  BY <1>1, <1>2, GarbageCollectType
<1>4. imageCache' \in [Keys -> Image]
  BY <1>1, ForgetImagesType
<1>5. DrawOK'
  BY <1>1 DEF DrawOK
<1>6. /\ toServer' \in Seq(ClientMsg)
      /\ FetchOK'
      /\ slurpTimer' \in BOOLEAN /\ slurpDuringTransaction' \in BOOLEAN
      /\ inLayerTransaction' \in BOOLEAN
      /\ Owed' = Owed
  <2>1. CASE n = 0 /\ inLayerTransaction
    <3>1. TransactionCallback({}) /\ {} \in SUBSET Keys
      BY <1>1, <2>1
    <3> QED
      BY <3>1, CallbackKeeps
  <2>2. CASE ~(n = 0 /\ inLayerTransaction)
    <3>1. UNCHANGED <<toServer, fetching, inLayerTransaction, slurpTimer,
                      slurpDuringTransaction>>
      BY <1>1, <2>2
    <3> QED
      BY <3>1 DEF WireOK, FetchOK, SlurpOK, Owed, Acknowledged, Counted,
                  Acknowledging, PlacesOf, Count, Places, fetching
  <2> QED
    BY <2>1, <2>2
<1>7. TilesMap(tiles)'
  BY <1>3 DEF TilesMap
<1>8. SlurpOK'
  BY <1>1, <1>6 DEF SlurpOK
<1> QED
  BY <1>1, <1>4, <1>5, <1>6, <1>7, <1>8

-----------------------------------------------------------------------------
(* coolwsd.                                                                *)

\* Keys that join the queue.
LEMMA EnqueueType ==
  ASSUME NEW queue \in Seq(Keys), NEW S \in SUBSET Keys
  PROVE  Enqueue(queue, S) \in Seq(Keys)
<1> DEFINE T == S \ Range(queue)
           n == Cardinality(T)
<1>1. T \in SUBSET Keys
  OBVIOUS
<1>2. IsFiniteSet(T)
  BY <1>1, WireAssumption, FS_Subset
<1> HIDE DEF T
<1>3. n \in Nat /\ ExistsBijection(1..n, T)
  BY <1>2, FS_CardinalityType
<1>4. \E f \in [1..n -> T] : IsInjective(f)
  BY <1>3 DEF ExistsBijection, Bijection, Injection
<1>5. SetToSeq(T) \in [1..n -> T]
  BY <1>4 DEF SetToSeq
<1> HIDE DEF n
<1>6. SetToSeq(T) \in Seq(Keys)
  BY <1>1, <1>3, <1>5
<1> HIDE DEF T
<1>7. queue \o SetToSeq(T) \in Seq(Keys)
  BY <1>6
<1> QED
  BY <1>7 DEF Enqueue, T

\* Every number up to the size of S is the rank of one of its members, and of
\* no other.
LEMMA Ranks ==
  ASSUME NEW n \in Nat, NEW S \in SUBSET (1..n)
  PROVE  /\ IsFiniteSet(S) /\ Cardinality(S) \in Nat
         /\ \A j \in 1..Cardinality(S) :
              \E i \in S : Cardinality({x \in S : x <= i}) = j
         /\ \A i \in S : Cardinality({x \in S : x <= i}) \in 1..Cardinality(S)
         /\ \A i, k \in S : Cardinality({x \in S : x <= i}) = Cardinality({x \in S : x <= k})
                              => i = k
<1> DEFINE Upto(i) == {x \in S : x <= i}
           c == Cardinality(S)
           rank == [i \in S |-> Cardinality(Upto(i))]
<1>1. IsFiniteSet(S) /\ c \in Nat
  <2>1. IsFiniteSet(1..n)
    BY FS_Interval
  <2>2. IsFiniteSet(S)
    BY <2>1, FS_Subset
  <2> QED
    BY <2>2, FS_CardinalityType
<1>2. ASSUME NEW i \in S
      PROVE  IsFiniteSet(Upto(i)) /\ Cardinality(Upto(i)) \in 1..c
  <2>1. Upto(i) \in SUBSET S /\ i \in Upto(i)
    OBVIOUS
  <2> HIDE DEF Upto
  <2>2. IsFiniteSet(Upto(i)) /\ Cardinality(Upto(i)) <= c
    BY <1>1, <2>1, FS_Subset
  <2>3. Cardinality(Upto(i)) \in Nat /\ Cardinality(Upto(i)) # 0
    BY <2>1, <2>2, FS_CardinalityType, FS_EmptySet
  <2> HIDE DEF c
  <2> QED
    BY <1>1, <2>2, <2>3
<1>3. ASSUME NEW i \in S, NEW k \in S, i < k
      PROVE  Cardinality(Upto(i)) # Cardinality(Upto(k))
  <2>0. \A x \in S : x \in Nat
    OBVIOUS
  <2>1. Upto(i) \in SUBSET Upto(k) /\ k \in Upto(k) /\ k \notin Upto(i)
    <3>1. \A x \in S : x <= i => x <= k
      BY <1>3, <2>0
    <3>2. k <= k /\ ~(k <= i)
      BY <1>3, <2>0
    <3> QED
      BY <3>1, <3>2
  <2>2. IsFiniteSet(Upto(k))
    BY <1>2
  <2> HIDE DEF Upto
  <2> QED
    BY <2>1, <2>2, FS_Subset
<1> HIDE DEF c
<1>4. rank \in [S -> 1..c]
  <2> HIDE DEF Upto
  <2> QED
    BY <1>2
<1>5. \A i, k \in S : rank[i] = rank[k] => i = k
  <2> TAKE i \in S, k \in S
  <2>1. i < k \/ k < i \/ i = k
    OBVIOUS
  <2> HIDE DEF Upto
  <2> QED
    BY <1>3, <2>1
<1>6. rank \in Injection(S, 1..c)
  <2> HIDE DEF rank
  <2> QED
    BY <1>4, <1>5 DEF Injection, IsInjective
<1>7. IsFiniteSet(1..c) /\ Cardinality(1..c) = c
  <2>1. 1 \in Int /\ c \in Int
    BY <1>1
  <2>2. IsFiniteSet(1..c) /\ Cardinality(1..c) = IF 1 > c THEN 0 ELSE c - 1 + 1
    BY <2>1, FS_Interval
  <2> QED
    BY <1>1, <2>2
<1>8. rank \in Surjection(S, 1..c)
  <2> HIDE DEF rank
  <2> QED
    BY <1>6, <1>7, FS_Injection DEF c
<1>9. \A j \in 1..c : \E i \in S : rank[i] = j
  <2> HIDE DEF rank
  <2> QED
    BY <1>8 DEF Surjection
<1> QED
  BY <1>1, <1>4, <1>5, <1>9 DEF c

\* What waits at some places of a queue.
LEMMA InTurnType ==
  ASSUME NEW T, NEW queue \in Seq(T), NEW S \in SUBSET (1..Len(queue))
  PROVE  /\ InTurn(queue, S) \in Seq(T)
         /\ Len(InTurn(queue, S)) = Cardinality(S)
<1> DEFINE c == Cardinality(S)
           Rank(i) == Cardinality({x \in S : x <= i})
           Place(j) == CHOOSE i \in S : Rank(i) = j
<1>1. Len(queue) \in Nat
  OBVIOUS
<1>2. /\ c \in Nat
      /\ \A j \in 1..c : \E i \in S : Rank(i) = j
  BY <1>1, Ranks
<1>3. ASSUME NEW j \in 1..c PROVE queue[Place(j)] \in T
  <2>1. Place(j) \in S
    <3> HIDE DEF Rank
    <3> QED
      BY <1>2
  <2>2. \A i \in S : queue[i] \in T
    BY <1>1
  <2> HIDE DEF Place
  <2> QED
    BY <2>1, <2>2
<1>4. InTurn(queue, S) = [j \in 1..c |-> queue[Place(j)]]
  BY Zenon DEF InTurn
<1> HIDE DEF c, Rank, Place
<1>5. InTurn(queue, S) \in Seq(T) /\ Len(InTurn(queue, S)) = c
  BY <1>2, <1>3, <1>4
<1> QED
  BY <1>5 DEF c

\* None of it is lost.
LEMMA InTurnCount ==
  ASSUME NEW T, NEW queue \in Seq(T), NEW S \in SUBSET (1..Len(queue)), NEW M
  PROVE  Count(InTurn(queue, S), M) = Cardinality({i \in S : queue[i] \in M})
<1> DEFINE c == Cardinality(S)
           Rank(i) == Cardinality({x \in S : x <= i})
           Place(j) == CHOOSE i \in S : Rank(i) = j
           A == Places(InTurn(queue, S), M)
           B == {i \in S : queue[i] \in M}
           f == [j \in A |-> Place(j)]
<1>1. Len(queue) \in Nat
  OBVIOUS
<1>2. /\ c \in Nat
      /\ \A j \in 1..c : \E i \in S : Rank(i) = j
      /\ \A i \in S : Rank(i) \in 1..c
      /\ \A i, k \in S : Rank(i) = Rank(k) => i = k
  BY <1>1, Ranks
<1>3. \A j \in 1..c : Place(j) \in S /\ Rank(Place(j)) = j
  <2> HIDE DEF Rank, c
  <2> QED
    BY <1>2
<1>4. InTurn(queue, S) = [j \in 1..c |-> queue[Place(j)]]
  BY Zenon DEF InTurn
<1>5. InTurn(queue, S) \in Seq(T)
  BY InTurnType
<1>6. IsFiniteSet(A)
  BY <1>5, CountType
<1> HIDE DEF c, Rank, Place
<1>7. A = {j \in 1..c : queue[Place(j)] \in M}
  BY <1>4 DEF Places
<1>8. \A j \in A : j \in 1..c /\ f[j] = Place(j) /\ Place(j) \in B
  BY <1>3, <1>7
<1>9. f \in [A -> B]
  BY <1>8
<1>10. \A x, y \in A : f[x] = f[y] => x = y
  BY <1>3, <1>8
<1>11. ASSUME NEW b \in B PROVE \E x \in A : f[x] = b
  <2>1. b \in S /\ queue[b] \in M
    OBVIOUS
  <2>2. Rank(b) \in 1..c
    BY <1>2, <2>1
  <2>3. Place(Rank(b)) = b
    BY <1>2, <1>3, <2>1, <2>2
  <2>4. Rank(b) \in A
    BY <1>7, <2>1, <2>2, <2>3
  <2> QED
    BY <1>8, <2>3, <2>4
<1> HIDE DEF A, B, f
<1>12. Cardinality(B) = Cardinality(A)
  BY <1>6, <1>9, <1>10, <1>11, OneToOne
<1> QED
  BY <1>12 DEF A, B, Count

\* onTileProcessed: each acknowledgement takes off one tile with its wireId,
\* if there is one.
LEMMA ProcessedErases ==
  ASSUME NEW flying \in Seq(WireId), NEW wids \in Seq(WireId), NEW w
  PROVE  /\ OnTileProcessed(flying, wids) \in Seq(WireId)
         /\ Count(OnTileProcessed(flying, wids), {w}) =
              IF Count(wids, {w}) > Count(flying, {w}) THEN 0
              ELSE Count(flying, {w}) - Count(wids, {w})
<1> DEFINE Rank(i) == Cardinality({j \in PlacesOf(flying, flying[i]) : j <= i})
           S == {i \in 1..Len(flying) : Rank(i) > Cardinality(PlacesOf(wids, flying[i]))}
           P == PlacesOf(flying, w)
           RankP(i) == Cardinality({j \in P : j <= i})
           B == {i \in S : flying[i] \in {w}}
           F == Cardinality(P)
           K == Cardinality(PlacesOf(wids, w))
           f == [i \in B |-> RankP(i)]
<1>1. OnTileProcessed(flying, wids) = InTurn(flying, S)
  BY Zenon DEF OnTileProcessed
<1>2. S \in SUBSET (1..Len(flying)) /\ Len(flying) \in Nat
  OBVIOUS
<1>3. F = Count(flying, {w}) /\ F \in Nat /\ P \in SUBSET (1..Len(flying))
  BY PlacesCount
<1>4. K = Count(wids, {w}) /\ K \in Nat
  BY PlacesCount
<1>5. /\ \A j \in 1..F : \E i \in P : RankP(i) = j
      /\ \A i \in P : RankP(i) \in 1..F
      /\ \A i, k \in P : RankP(i) = RankP(k) => i = k
  BY <1>2, <1>3, Ranks
<1>6. B = {i \in P : RankP(i) > K}
  <2>1. \A i \in 1..Len(flying) : flying[i] = w => Rank(i) = RankP(i)
    OBVIOUS
  <2>2. \A i : i \in P <=> i \in 1..Len(flying) /\ flying[i] = w
    BY DEF PlacesOf
  <2> HIDE DEF Rank, RankP, P
  <2>3. \A i : i \in B <=> /\ i \in 1..Len(flying) /\ flying[i] = w
                           /\ Rank(i) > Cardinality(PlacesOf(wids, w))
    OBVIOUS
  <2>4. \A i : i \in B <=> i \in P /\ RankP(i) > K
    BY <2>1, <2>2, <2>3
  <2> HIDE DEF B
  <2> QED
    BY <2>4
<1>7. InTurn(flying, S) \in Seq(WireId)
  BY <1>2, InTurnType
<1>8. Count(InTurn(flying, S), {w}) = Cardinality(B)
  <2> HIDE DEF S
  <2> QED
    BY <1>2, InTurnCount
<1> HIDE DEF S, B, P, RankP, F, K
<1>9. IsFiniteSet(B)
  <2>1. B \in SUBSET (1..Len(flying))
    BY <1>3, <1>6
  <2>2. IsFiniteSet(1..Len(flying))
    BY <1>2, FS_Interval
  <2> QED
    BY <2>1, <2>2, FS_Subset
<1> DEFINE R == (K + 1)..F
<1>10. f \in [B -> R] /\ \A i \in B : f[i] = RankP(i) /\ i \in P
  <2>1. \A i \in B : i \in P /\ RankP(i) \in 1..F /\ RankP(i) > K
    BY <1>5, <1>6
  <2>2. ASSUME NEW i \in B PROVE RankP(i) \in R
    <3>1. RankP(i) \in 1..F /\ RankP(i) > K
      BY <2>1
    <3> QED
      BY <1>3, <1>4, <3>1
  <2> QED
    BY <2>1, <2>2
<1>11. \A i, k \in B : f[i] = f[k] => i = k
  BY <1>5, <1>10
<1>12. ASSUME NEW j \in R PROVE \E i \in B : f[i] = j
  <2>1. j \in 1..F /\ j > K
    BY <1>3, <1>4
  <2>2. PICK i \in P : RankP(i) = j
    BY <1>5, <2>1
  <2>3. i \in B
    BY <1>6, <2>1, <2>2
  <2> QED
    BY <1>10, <2>2, <2>3
<1>13. Cardinality(R) = IF K + 1 > F THEN 0 ELSE F - (K + 1) + 1
  <2>1. K + 1 \in Int /\ F \in Int
    BY <1>3, <1>4
  <2> QED
    BY <2>1, FS_Interval
<1> HIDE DEF R, f
<1>14. Cardinality(R) = Cardinality(B)
  BY <1>9, <1>10, <1>11, <1>12, OneToOne
<1>15. Cardinality(B) = IF K > F THEN 0 ELSE F - K
  BY <1>3, <1>4, <1>13, <1>14
<1> QED
  BY <1>1, <1>3, <1>4, <1>7, <1>8, <1>15

\* removeOutdatedTilesOnFly: after a stall fewer tiles may be on the fly than
\* are awaited, but never more.
LEMMA Outdated ==
  ASSUME NEW c, NEW s, NEW owed, NEW flying \in Seq(WireId), NEW n \in Nat,
         NEW t, NEW u, Balanced(c, s, owed, flying, t),
         \A w \in WireId : Count(c, Of(w)) + Count(s, Of(w)) + owed[w] \in Nat,
         u = 0 => t = 0 /\ n = 0
  PROVE  /\ RemoveOutdatedTilesOnFly(flying, n) \in Seq(WireId)
         /\ Balanced(c, s, owed, RemoveOutdatedTilesOnFly(flying, n), u)
<1> DEFINE rest == RemoveOutdatedTilesOnFly(flying, n)
           Due(w) == Count(c, Of(w)) + Count(s, Of(w)) + owed[w]
<1>1. /\ n = 0 => rest = flying
      /\ \A w \in WireId : Count(rest, {w}) <= Count(flying, {w})
  BY CountRest DEF RemoveOutdatedTilesOnFly
<1>2. rest \in Seq(WireId)
  BY CountRest DEF RemoveOutdatedTilesOnFly
<1> HIDE DEF rest
<1>3. \A w \in WireId : Count(rest, {w}) \in Nat /\ Count(flying, {w}) \in Nat
  BY <1>2, CountType
<1>4. \A w \in WireId : Due(w) \in Nat /\ Count(flying, {w}) <= Due(w)
  BY DEF Balanced
<1>5. t = 0 => \A w \in WireId : Count(flying, {w}) = Due(w)
  BY DEF Balanced
<1>6. ASSUME NEW w \in WireId
      PROVE  /\ Count(rest, {w}) <= Due(w)
             /\ u = 0 => Count(rest, {w}) = Due(w)
  <2> HIDE DEF Due
  <2>1. PICK a \in Nat, b \in Nat, e \in Nat :
          a = Count(rest, {w}) /\ b = Count(flying, {w}) /\ e = Due(w)
    BY <1>3, <1>4
  <2>2. a <= b /\ b <= e
    BY <1>1, <1>4, <2>1
  <2>3. a <= e
    BY <2>2
  <2>4. ASSUME u = 0 PROVE a = e
    <3>1. t = 0 /\ n = 0
      BY <2>4
    <3>2. rest = flying /\ Count(flying, {w}) = Due(w)
      BY <1>1, <1>5, <3>1
    <3> QED
      BY <2>1, <3>2
  <2> QED
    BY <2>1, <2>3, <2>4
<1>7. Balanced(c, s, owed, rest, u)
  BY <1>6, Zenon DEF Balanced, Due
<1> QED
  BY <1>2, <1>7 DEF rest

\* sendTileNow.
LEMMA SendTileNowType ==
  ASSUME NEW k \in Keys, NEW d \in TileData, NEW last \in WireId
  PROVE  SendTileNow(k, d, last) \in TileMsg /\ SendTileNow(k, d, last).to = d.last
<1> DEFINE kf == (last < d.keyframe)
           from == IF kf THEN 0 ELSE last
<1>1. 0 \in WireId
  BY WireAssumption DEF WireId
<1>2. kf \in BOOLEAN /\ from \in WireId /\ d.last \in WireId
  BY <1>1 DEF TileData
<1>3. SendTileNow(k, d, last) =
        [type |-> "tile", key |-> k, isKeyframe |-> kf, from |-> from, to |-> d.last]
  BY Zenon DEF SendTileNow
<1> HIDE DEF kf, from
<1> QED
  BY <1>2, <1>3 DEF TileMsg

\* What sendRequestedTiles is called with.
SendInput(data, queue, fly, n, sent, subscribed, before) ==
    /\ data \in [Keys -> TileData] /\ queue \in Seq(Keys)
    /\ fly \in Seq(WireId) /\ n \in Nat /\ sent \in [Keys -> WireId]
    /\ subscribed \subseteq Keys /\ before \in Seq(ServerMsg)

\* As many tiles were sent as were put on the fly, of each wireId.
Sends(before, flying) ==
    \A w \in WireId : Count(toClient', Of(w)) + Count(flying, {w})
                        = Count(before, Of(w)) + Count(onFly', {w})

\* What sendTileNow sends is on the fly with the wireId of the cached tile.
LEMMA SentCount ==
  ASSUME NEW msgs \in Seq(ServerMsg), NEW sent \in Seq(WireId), Len(msgs) = Len(sent),
         \A i \in 1..Len(msgs) : msgs[i] \in TileMsg /\ msgs[i].to = sent[i],
         NEW w
  PROVE  Count(msgs, Of(w)) = Count(sent, {w})
<1>1. DOMAIN msgs = 1..Len(msgs) /\ DOMAIN sent = 1..Len(msgs)
  OBVIOUS
<1>2. \A i \in 1..Len(msgs) : msgs[i] \in Of(w) <=> sent[i] \in {w}
  BY DEF Of
<1>3. Places(msgs, Of(w)) = Places(sent, {w})
  BY <1>1, <1>2 DEF Places
<1> QED
  BY <1>3 DEF Count

\* sendRequestedTiles counts what it sends.
LEMMA SendKeeps ==
  ASSUME NEW data, NEW queue, NEW fly, NEW k, NEW sent, NEW subscribed, NEW before,
         SendInput(data, queue, fly, k, sent, subscribed, before),
         SendRequestedTiles(data, queue, fly, k, sent, subscribed, before)
  PROVE  /\ requested' \in Seq(Keys)
         /\ rendering' \subseteq Keys
         /\ onFly' \in Seq(WireId)
         /\ lastSent' \in [Keys -> WireId]
         /\ toClient' \in Seq(ServerMsg)
         /\ Sends(before, RemoveOutdatedTilesOnFly(fly, k))
<1>0. /\ data \in [Keys -> TileData] /\ queue \in Seq(Keys)
      /\ fly \in Seq(WireId) /\ k \in Nat /\ sent \in [Keys -> WireId]
      /\ subscribed \subseteq Keys /\ before \in Seq(ServerMsg)
  BY DEF SendInput
<1> USE <1>0
<1> DEFINE flying == RemoveOutdatedTilesOnFly(fly, k)
           taken == Taken(data, queue, flying)
           n == Cardinality(taken)
           places == {i \in taken : data[queue[i]].valid}
           out == InTurn(queue, places)
           wids == [i \in 1..Len(out) |-> data[out[i]].last]
           msgs == [i \in 1..Len(out) |->
                      SendTileNow(out[i], data[out[i]], sent[out[i]])]
<1>1. /\ requested' = SubSeq(queue, n + 1, Len(queue))
      /\ rendering' = subscribed \cup {x \in Keys : ~data[x].valid
                                                      /\ \E i \in taken : queue[i] = x}
      /\ onFly' = flying \o wids
      /\ lastSent' = [x \in Keys |-> IF x \in Range(out) THEN data[x].last ELSE sent[x]]
      /\ toClient' = before \o msgs
  BY Zenon DEF SendRequestedTiles
<1>2. taken \in SUBSET (1..Len(queue))
  BY DEF Taken
<1>3. Len(queue) \in Nat
  OBVIOUS
<1>4. flying \in Seq(WireId)
  BY CountRest DEF RemoveOutdatedTilesOnFly
<1> HIDE DEF flying, taken
<1>5. n \in Nat
  BY <1>2, <1>3, Ranks
<1>6. places \in SUBSET (1..Len(queue))
  BY <1>2
<1> HIDE DEF n, places
<1>7. out \in Seq(Keys)
  BY <1>6, InTurnType
<1> HIDE DEF out
<1>8. ASSUME NEW i \in 1..Len(out)
      PROVE  /\ data[out[i]].last \in WireId
             /\ SendTileNow(out[i], data[out[i]], sent[out[i]]) \in TileMsg
             /\ SendTileNow(out[i], data[out[i]], sent[out[i]]).to = data[out[i]].last
  <2>1. out[i] \in Keys
    BY <1>7
  <2>2. data[out[i]] \in TileData /\ sent[out[i]] \in WireId
    BY <2>1
  <2>3. data[out[i]].last \in WireId
    BY <2>2 DEF TileData
  <2> QED
    BY <2>1, <2>2, <2>3, SendTileNowType
<1>9. TileMsg \subseteq ServerMsg
  BY DEF ServerMsg
<1>10. Len(out) \in Nat
  BY <1>7
<1>11. /\ msgs \in Seq(ServerMsg) /\ Len(msgs) = Len(out)
       /\ wids \in Seq(WireId) /\ Len(wids) = Len(out)
       /\ \A i \in 1..Len(msgs) : msgs[i] \in TileMsg /\ msgs[i].to = wids[i]
  <2>1. msgs \in Seq(ServerMsg) /\ Len(msgs) = Len(out)
    BY <1>8, <1>9, <1>10
  <2>2. wids \in Seq(WireId) /\ Len(wids) = Len(out)
    BY <1>8, <1>10
  <2>3. \A i \in 1..Len(out) :
          /\ msgs[i] = SendTileNow(out[i], data[out[i]], sent[out[i]])
          /\ wids[i] = data[out[i]].last
    OBVIOUS
  <2> HIDE DEF msgs, wids
  <2>4. \A i \in 1..Len(out) : msgs[i] \in TileMsg /\ msgs[i].to = wids[i]
    BY <1>8, <2>3
  <2> QED
    BY <2>1, <2>2, <2>4
<1> HIDE DEF msgs, wids
<1>12. toClient' \in Seq(ServerMsg) /\ onFly' \in Seq(WireId)
  BY <1>1, <1>4, <1>11
<1>13. ASSUME NEW w \in WireId
       PROVE  Count(toClient', Of(w)) + Count(flying, {w})
                = Count(before, Of(w)) + Count(onFly', {w})
  <2>1. Count(msgs, Of(w)) = Count(wids, {w})
    BY <1>11, SentCount
  <2>2. Count(before \o msgs, Of(w)) = Count(before, Of(w)) + Count(msgs, Of(w))
    BY <1>11, CountConcat
  <2>3. Count(flying \o wids, {w}) = Count(flying, {w}) + Count(wids, {w})
    BY <1>4, <1>11, CountConcat
  <2>4. PICK a \in Nat, b \in Nat, c \in Nat :
          a = Count(before, Of(w)) /\ b = Count(flying, {w}) /\ c = Count(wids, {w})
    BY <1>4, <1>11, CountType
  <2>5. Count(toClient', Of(w)) = a + c /\ Count(onFly', {w}) = b + c
    BY <1>1, <2>1, <2>2, <2>3, <2>4
  <2> QED
    BY <2>4, <2>5
<1>14. Sends(before, flying)
  BY <1>13 DEF Sends
<1>15. requested' \in Seq(Keys)
  <2>1. \A i \in (n + 1)..Len(queue) : queue[i] \in Keys
    BY <1>3, <1>5
  <2>2. n + 1 \in Int /\ Len(queue) \in Int
    BY <1>3, <1>5
  <2> QED
    BY <1>1, <2>1, <2>2, SubSeqProperties
<1>16. rendering' \subseteq Keys
  BY <1>1
<1>17. lastSent' \in [Keys -> WireId]
  <2>1. \A x \in Keys : data[x].last \in WireId /\ sent[x] \in WireId
    BY DEF TileData
  <2> QED
    BY <1>1, <2>1
<1> QED
  BY <1>12, <1>14, <1>15, <1>16, <1>17 DEF flying

\* The steps of coolwsd and the Kit leave the browser alone.
LEMMA BrowserSame ==
  ASSUME System, UNCHANGED browser
  PROVE  /\ ViewOK' /\ DrawOK' /\ SlurpOK' /\ WorkOK' /\ FetchOK'
         /\ UNCHANGED slurpQueue /\ UNCHANGED queuedProcessed
<1>1. UNCHANGED <<tiles, view, pendingDeltas, drawing, slurping, working, fetching>>
  BY DEF browser
<1>2. ViewOK'
  BY <1>1 DEF System, ViewOK, TilesMap
<1>3. DrawOK'
  BY <1>1 DEF System, DrawOK, drawing
<1>4. SlurpOK' /\ UNCHANGED slurpQueue
  BY <1>1 DEF System, SlurpOK, slurping
<1>5. WorkOK'
  BY <1>1 DEF System, WorkOK, working, TasksCounted, Posted
<1>6. FetchOK' /\ UNCHANGED queuedProcessed
  BY <1>1 DEF System, FetchOK, fetching
<1> QED
  BY <1>2, <1>3, <1>4, <1>5, <1>6

\* The steps of the browser leave coolwsd alone.
LEMMA ServerSame ==
  ASSUME System, UNCHANGED tileCache
  PROVE  CacheTypeOK' /\ UNCHANGED onFly
BY DEF System, CacheTypeOK, tileCache

\* A memory limit, an edit or the like is met once more.
LEMMA SpendAllType ==
  ASSUME System, NEW S, SpendAll(S)
  PROVE  SpendsOn /\ ("stalls" \in S => spent'["stalls"] # 0)
<1>1. spent \in [Interference -> Nat]
  BY DEF System, SpentOK
<1>2. spent' = [i \in Interference |-> IF i \in S THEN spent[i] + 1 ELSE spent[i]]
  BY DEF SpendAll
<1>3. spent' \in [Interference -> Nat]
  BY <1>1, <1>2
<1>4. "stalls" \in Interference
  BY DEF Interference
<1>5. spent'["stalls"] = IF "stalls" \in S THEN spent["stalls"] + 1 ELSE spent["stalls"]
  BY <1>2, <1>4
<1>6. spent["stalls"] \in Nat
  BY <1>1, <1>4
<1> QED
  BY <1>3, <1>5, <1>6 DEF SpendsOn, SpentOK

LEMMA SpendType ==
  ASSUME System, NEW i, Spend(i)
  PROVE  SpendsOn
<1>1. SpendAll({i})
  BY DEF Spend
<1> QED
  BY <1>1, SpendAllType

\* The messages of coolwsd that are not tiles.
LEMMA ServerMessages ==
  /\ \A k \in Keys : \A w \in WireId :
       Invalidatetiles(k, w) \in ServerMsg /\ Invalidatetiles(k, w) \notin TileMsg
  /\ Canonicalidchange \in ServerMsg /\ Canonicalidchange \notin TileMsg
  /\ TileMsg \subseteq ServerMsg
<1>1. \A k \in Keys : \A w \in WireId :
       Invalidatetiles(k, w) \in ServerMsg /\ Invalidatetiles(k, w) \notin TileMsg
  BY DEF Invalidatetiles, ServerMsg, InvalidateMsg, TileMsg
<1>2. Canonicalidchange \in ServerMsg /\ Canonicalidchange \notin TileMsg
  BY DEF Canonicalidchange, ServerMsg, CanonicalMsg, TileMsg
<1>3. TileMsg \subseteq ServerMsg
  BY DEF ServerMsg
<1> QED
  BY <1>1, <1>2, <1>3

\* They do not count.
LEMMA NotATile ==
  ASSUME NEW q \in Seq(ServerMsg), NEW m \in ServerMsg, m \notin TileMsg
  PROVE  /\ Append(q, m) \in Seq(ServerMsg)
         /\ \A w \in WireId : Count(Append(q, m), Of(w)) = Count(q, Of(w))
<1>1. \A w \in WireId : m \notin Of(w)
  BY DEF Of
<1> QED
  BY <1>1, CountAppend, AppendItems

\* A step of coolwsd, that may take tiles off those on the fly and then sends
\* tiles after the messages "before".
LEMMA ServerStep ==
  ASSUME System, UNCHANGED browser, toServer' \in Seq(ClientMsg),
         toClient' \in Seq(ServerMsg), CacheTypeOK', SpentOK',
         NEW before \in Seq(ServerMsg), NEW flying \in Seq(WireId),
         Balanced(before, slurpQueue, Owed', flying, spent'["stalls"]),
         Sends(before, flying)
  PROVE  System'
<1>1. ViewOK' /\ DrawOK' /\ SlurpOK' /\ WorkOK' /\ FetchOK'
  BY BrowserSame
<1>2. WireOK'
  BY DEF WireOK
<1>3. slurpQueue' = slurpQueue /\ queuedProcessed' = queuedProcessed
  BY BrowserSame
<1>4. /\ toClient' \in Seq(ServerMsg) /\ slurpQueue \in Seq(ServerMsg)
      /\ onFly' \in Seq(WireId) /\ queuedProcessed' \in Seq(WireId)
  BY <1>1, SlurpQueueType DEF System, SlurpOK, FetchOK, CacheTypeOK
<1>5. ASSUME NEW w \in WireId
      PROVE  /\ Count(onFly', {w})
                  <= Count(toClient', Of(w)) + Count(slurpQueue', Of(w)) + Owed'[w]
             /\ spent'["stalls"] = 0 =>
                  Count(onFly', {w})
                     = Count(toClient', Of(w)) + Count(slurpQueue', Of(w)) + Owed'[w]
  <2>1. Owed'[w] \in Nat
    <3>1. Owed'[w] = Count(queuedProcessed', {w}) + Cardinality(Counted(toServer', w))
      <4>1. Owed' = [x \in WireId |-> Count(queuedProcessed', {x})
                                        + Cardinality(Counted(toServer', x))]
        BY DEF Owed, Acknowledged, Count, Places, Counted, Acknowledging, PlacesOf
      <4> QED
        BY <4>1
    <3>2. Cardinality(Counted(toServer', w)) \in Nat /\ Count(queuedProcessed', {w}) \in Nat
      BY <1>4, CountedFinite, CountType
    <3> QED
      BY <3>1, <3>2
  <2>2. PICK b \in Nat, t \in Nat, s \in Nat, f \in Nat, g \in Nat, o \in Nat :
          /\ b = Count(before, Of(w)) /\ t = Count(toClient', Of(w))
          /\ s = Count(slurpQueue, Of(w))
          /\ f = Count(flying, {w}) /\ g = Count(onFly', {w}) /\ o = Owed'[w]
    BY <1>4, <2>1, CountType
  <2>3. t + f = b + g
    BY <2>2 DEF Sends
  <2>4. f <= b + s + o /\ (spent'["stalls"] = 0 => f = b + s + o)
    BY <2>2 DEF Balanced
  <2>5. g <= t + s + o /\ (spent'["stalls"] = 0 => g = t + s + o)
    BY <2>3, <2>4
  <2> QED
    BY <1>3, <2>2, <2>5
<1>6. Balanced(toClient', slurpQueue', Owed', onFly', spent'["stalls"])
  BY <1>5, Zenon DEF Balanced
<1>7. OnFlyAccounted'
  BY <1>1, <1>2, <1>6, BalanceNext
<1> QED
  BY <1>1, <1>2, <1>7 DEF System

\* What a step that does not receive an acknowledgement starts from.
LEMMA StillBalanced ==
  ASSUME System, Owed' = Owed, SpendsOn
  PROVE  Balanced(toClient, slurpQueue, Owed', onFly, spent'["stalls"])
<1>1. Balanced(toClient, slurpQueue, Owed, onFly, spent["stalls"])
  BY Balance DEF System
<1>2. spent'["stalls"] = 0 => spent["stalls"] = 0
  BY DEF SpendsOn
<1> QED
  BY <1>1, <1>2 DEF Balanced

\* The same when n tiles are taken off.
LEMMA Outdates ==
  ASSUME System, NEW n \in Nat, SpendsOn, n # 0 => spent'["stalls"] # 0,
         NEW flying \in Seq(WireId), NEW before \in Seq(ServerMsg),
         NEW owed, \A w \in WireId : owed[w] \in Nat,
         Balanced(before, slurpQueue, owed, flying, spent["stalls"])
  PROVE  /\ RemoveOutdatedTilesOnFly(flying, n) \in Seq(WireId)
         /\ Balanced(before, slurpQueue, owed, RemoveOutdatedTilesOnFly(flying, n),
                     spent'["stalls"])
<1>1. slurpQueue \in Seq(ServerMsg)
  BY SlurpQueueType DEF System, SlurpOK
<1>2. \A w \in WireId : Count(before, Of(w)) + Count(slurpQueue, Of(w)) + owed[w] \in Nat
  BY <1>1, CountType
<1>3. spent'["stalls"] = 0 => spent["stalls"] = 0 /\ n = 0
  BY DEF SpendsOn
<1> QED
  BY <1>2, <1>3, Outdated

\* Nothing that stays is acknowledged.
LEMMA OwedSame ==
  ASSUME System, UNCHANGED queuedProcessed, UNCHANGED toServer
  PROVE  Owed' = Owed /\ \A w \in WireId : Owed[w] \in Nat
<1>1. Owed' = Owed
  BY DEF Owed, Acknowledged, Counted, Acknowledging, PlacesOf, Count, Places
<1> QED
  BY <1>1, Numbers DEF System

\* Edit.
LEMMA EditKeeps ==
  ASSUME System, Edit
  PROVE  System'
<1>1. PICK k \in Keys, n \in 0..Len(onFly) :
        /\ SpendAll({"edits"} \cup Stalls(n)) /\ HandleTileInvalidation(k, n)
        /\ UNCHANGED browser
  BY DEF Edit
<1> DEFINE data == [cache EXCEPT ![k].valid = FALSE]
           seen == {k} \cap visibleArea
           msg == Invalidatetiles(k, wid)
           before == Append(toClient, msg)
<1>2. /\ editWid' = [editWid EXCEPT ![k] = wid]
      /\ cache' = data
      /\ IF seen # {}
         THEN SendRequestedTiles(data, Enqueue(requested, seen), onFly, n, lastSent,
                                 rendering \cup seen, before)
         ELSE /\ n = 0
              /\ toClient' = before /\ UNCHANGED <<requested, rendering, onFly, lastSent>>
      /\ UNCHANGED <<toServer, wid, visibleArea>>
  BY <1>1 DEF HandleTileInvalidation
<1>3. /\ wid \in WireId /\ editWid \in [Keys -> WireId] /\ cache \in [Keys -> TileData]
      /\ lastSent \in [Keys -> WireId] /\ rendering \subseteq Keys
      /\ requested \in Seq(Keys) /\ onFly \in Seq(WireId) /\ visibleArea \subseteq Keys
      /\ n \in Nat
  BY DEF System, CacheTypeOK
<1>4. data \in [Keys -> TileData]
  <2>1. [cache[k] EXCEPT !.valid = FALSE] \in TileData
    BY <1>3 DEF TileData
  <2> QED
    BY <1>3, <2>1
<1>5. toClient \in Seq(ServerMsg) /\ toServer \in Seq(ClientMsg)
  BY DEF System, WireOK
<1>6. msg \in ServerMsg /\ msg \notin TileMsg
  BY <1>3, ServerMessages
<1> HIDE DEF data, msg
<1>7. before \in Seq(ServerMsg) /\ \A w \in WireId : Count(before, Of(w)) = Count(toClient, Of(w))
  BY <1>5, <1>6, NotATile
<1>8. SpendsOn /\ (n # 0 => spent'["stalls"] # 0)
  <2>1. n # 0 => "stalls" \in {"edits"} \cup Stalls(n)
    BY DEF Stalls
  <2> QED
    BY <1>1, <2>1, SpendAllType
<1> HIDE DEF before
<1>9. UNCHANGED queuedProcessed
  BY <1>1, BrowserSame
<1>10. Owed' = Owed /\ \A w \in WireId : Owed[w] \in Nat
  BY <1>2, <1>9, OwedSame
<1>11. Balanced(before, slurpQueue, Owed, onFly, spent["stalls"])
  <2>1. Balanced(toClient, slurpQueue, Owed, onFly, spent["stalls"])
    BY Balance DEF System
  <2> QED
    BY <1>7, <2>1 DEF Balanced
<1> DEFINE flying == RemoveOutdatedTilesOnFly(onFly, n)
<1>12. /\ flying \in Seq(WireId)
       /\ Balanced(before, slurpQueue, Owed', flying, spent'["stalls"])
  BY <1>3, <1>7, <1>8, <1>10, <1>11, Outdates
<1>13. /\ requested' \in Seq(Keys) /\ rendering' \subseteq Keys
       /\ onFly' \in Seq(WireId) /\ lastSent' \in [Keys -> WireId]
       /\ toClient' \in Seq(ServerMsg)
       /\ Sends(before, flying)
  <2>1. CASE seen # {}
    <3>1. SendRequestedTiles(data, Enqueue(requested, seen), onFly, n, lastSent,
                             rendering \cup seen, before)
      BY <1>2, <2>1
    <3>2. seen \in SUBSET Keys /\ rendering \cup seen \in SUBSET Keys
      BY <1>3
    <3> HIDE DEF seen
    <3>3. Enqueue(requested, seen) \in Seq(Keys)
      BY <1>3, <3>2, EnqueueType
    <3>4. SendInput(data, Enqueue(requested, seen), onFly, n, lastSent,
                    rendering \cup seen, before)
      BY <1>3, <1>4, <1>7, <3>2, <3>3 DEF SendInput
    <3> QED
      BY <3>1, <3>4, SendKeeps
  <2>2. CASE seen = {}
    <3>1. /\ n = 0
          /\ toClient' = before /\ UNCHANGED <<requested, rendering, onFly, lastSent>>
      BY <1>2, <2>2
    <3>2. flying = onFly
      BY <1>3, <3>1, CountRest DEF RemoveOutdatedTilesOnFly
    <3> HIDE DEF flying
    <3>3. Sends(before, flying)
      BY <3>1, <3>2 DEF Sends
    <3> QED
      BY <1>3, <1>7, <3>1, <3>3
  <2> QED
    BY <2>1, <2>2
<1> HIDE DEF flying
<1>14. CacheTypeOK'
  BY <1>2, <1>3, <1>4, <1>13 DEF CacheTypeOK
<1>15. SpentOK' /\ toServer' \in Seq(ClientMsg)
  BY <1>2, <1>5, <1>8 DEF SpendsOn
<1> QED
  BY <1>1, <1>7, <1>12, <1>13, <1>14, <1>15, ServerStep

\* The Kit announces a new canonical id.
LEMMA CanonicalIdChangeKeeps ==
  ASSUME System, CanonicalIdChange
  PROVE  System'
<1>1. /\ toClient' = Append(toClient, Canonicalidchange)
      /\ UNCHANGED <<toServer, browser, tileCache>> /\ Spend("redraws")
  BY DEF CanonicalIdChange
<1>2. /\ toClient \in Seq(ServerMsg) /\ toServer' \in Seq(ClientMsg)
      /\ onFly \in Seq(WireId)
  BY <1>1 DEF System, WireOK, CacheTypeOK
<1>3. Canonicalidchange \in ServerMsg /\ Canonicalidchange \notin TileMsg
  BY ServerMessages
<1>4. /\ toClient' \in Seq(ServerMsg)
      /\ \A w \in WireId : Count(toClient', Of(w)) = Count(toClient, Of(w))
  BY <1>1, <1>2, <1>3, NotATile
<1>5. SpendsOn
  BY <1>1, SpendType
<1>6. CacheTypeOK' /\ onFly' = onFly
  BY <1>1, ServerSame
<1>7. Owed' = Owed
  BY <1>1, OwedSame, BrowserSame
<1>8. Balanced(toClient, slurpQueue, Owed', onFly, spent'["stalls"])
  BY <1>5, <1>7, StillBalanced
<1>9. Sends(toClient, onFly)
  BY <1>4, <1>6 DEF Sends
<1>10. SpentOK'
  BY <1>5 DEF SpendsOn
<1> QED
  BY <1>1, <1>2, <1>4, <1>6, <1>8, <1>9, <1>10, ServerStep

\* The Kit renders.
LEMMA RenderKeeps ==
  ASSUME System, NEW k \in Keys, Render(k)
  PROVE  System'
<1>1. PICK isKeyframe \in BOOLEAN :
        /\ SaveTileAndNotify(k, isKeyframe) /\ UNCHANGED browser
        /\ IF isKeyframe /\ cache[k].keyframe # 0 THEN Spend("keyframes")
                                                ELSE UNCHANGED spent
  BY DEF Render
<1> DEFINE data == [keyframe |-> IF isKeyframe THEN wid + 1 ELSE cache[k].keyframe,
                    last |-> wid + 1, valid |-> TRUE]
           msg == SendTileNow(k, data, lastSent[k])
<1>2. /\ wid < MaxWid
      /\ wid' = wid + 1
      /\ cache' = [cache EXCEPT ![k] = data]
      /\ toClient' = Append(toClient, msg)
      /\ lastSent' = [lastSent EXCEPT ![k] = wid + 1]
      /\ onFly' = Append(onFly, wid + 1)
      /\ rendering' = rendering \ {k}
      /\ UNCHANGED <<toServer, editWid, requested, visibleArea>>
  BY <1>1 DEF SaveTileAndNotify
<1>3. /\ wid \in WireId /\ editWid \in [Keys -> WireId] /\ cache \in [Keys -> TileData]
      /\ lastSent \in [Keys -> WireId] /\ rendering \subseteq Keys
      /\ requested \in Seq(Keys) /\ onFly \in Seq(WireId) /\ visibleArea \subseteq Keys
      /\ toClient \in Seq(ServerMsg) /\ toServer \in Seq(ClientMsg)
  BY DEF System, CacheTypeOK, WireOK
<1>4. wid + 1 \in WireId
  BY <1>2, <1>3, WireAssumption DEF WireId
<1>5. data \in TileData /\ data.last = wid + 1
  BY <1>3, <1>4 DEF TileData
<1> HIDE DEF data
<1>6. msg \in TileMsg /\ msg \in ServerMsg /\ msg.to = wid + 1
  BY <1>3, <1>5, SendTileNowType, ServerMessages
<1> HIDE DEF msg
<1>7. onFly' \in Seq(WireId)
  BY <1>2, <1>3, <1>4
<1>8. CacheTypeOK'
  BY <1>2, <1>3, <1>4, <1>5, <1>7 DEF CacheTypeOK
<1>9. SpendsOn
  <2>1. CASE isKeyframe /\ cache[k].keyframe # 0
    BY <1>1, <2>1, SpendType
  <2>2. CASE ~(isKeyframe /\ cache[k].keyframe # 0)
    BY <1>1, <2>2 DEF System, SpentOK, SpendsOn
  <2> QED
    BY <2>1, <2>2
<1>10. toClient' \in Seq(ServerMsg) /\ toServer' \in Seq(ClientMsg)
  BY <1>2, <1>3, <1>6, AppendItems
<1>11. ASSUME NEW w \in WireId
       PROVE  Count(toClient', Of(w)) + Count(onFly, {w})
                = Count(toClient, Of(w)) + Count(onFly', {w})
  <2>1. msg \in Of(w) <=> w = wid + 1
    BY <1>6 DEF Of
  <2>2. /\ Count(toClient', Of(w)) =
             IF msg \in Of(w) THEN Count(toClient, Of(w)) + 1 ELSE Count(toClient, Of(w))
        /\ Count(onFly', {w}) =
             IF wid + 1 \in {w} THEN Count(onFly, {w}) + 1 ELSE Count(onFly, {w})
    BY <1>2, <1>3, <1>4, <1>6, CountAppend
  <2>3. Count(toClient, Of(w)) \in Nat /\ Count(onFly, {w}) \in Nat
    BY <1>3, CountType
  <2> QED
    BY <2>1, <2>2, <2>3
<1>12. Sends(toClient, onFly)
  BY <1>11 DEF Sends
<1>13. Owed' = Owed
  BY <1>1, <1>2, OwedSame, BrowserSame
<1>14. Balanced(toClient, slurpQueue, Owed', onFly, spent'["stalls"])
  BY <1>9, <1>13, StillBalanced
<1>15. SpentOK'
  BY <1>9 DEF SpendsOn
<1> QED
  BY <1>1, <1>3, <1>8, <1>10, <1>12, <1>14, <1>15, ServerStep

\* A message that coolwsd receives acknowledges what it acknowledged.
LEMMA HeadCounted ==
  ASSUME System, toServer # <<>>
  PROVE  /\ Head(toServer) \in ClientMsg
         /\ Tail(toServer) \in Seq(ClientMsg)
         /\ \A w \in WireId :
              /\ Counts(Head(toServer), w) \in Nat
              /\ Silent(Head(toServer)) => Counts(Head(toServer), w) = 0
              /\ Cardinality(Counted(Tail(toServer), w)) \in Nat
              /\ Acknowledged[w] = Cardinality(Counted(Tail(toServer), w))
                                     + Counts(Head(toServer), w)
<1>1. toServer \in Seq(ClientMsg)
  BY DEF System, WireOK
<1>2. Head(toServer) \in ClientMsg /\ Tail(toServer) \in Seq(ClientMsg)
  BY <1>1, TailItems
<1>3. ASSUME NEW w \in WireId
      PROVE  /\ Counts(Head(toServer), w) \in Nat
             /\ Silent(Head(toServer)) => Counts(Head(toServer), w) = 0
             /\ Cardinality(Counted(Tail(toServer), w)) \in Nat
             /\ Acknowledged[w] = Cardinality(Counted(Tail(toServer), w))
                                    + Counts(Head(toServer), w)
  <2>1. /\ Counts(Head(toServer), w) \in Nat
        /\ Silent(Head(toServer)) => Counts(Head(toServer), w) = 0
    BY <1>2, CountsType
  <2>2. Cardinality(Counted(Tail(toServer), w)) \in Nat
    BY <1>2, CountedFinite
  <2>3. Acknowledged[w] = Cardinality(Counted(Tail(toServer), w)) + Counts(Head(toServer), w)
    BY <1>1, CountedTail DEF Acknowledged
  <2> QED
    BY <2>1, <2>2, <2>3
<1> QED
  BY <1>2, <1>3

\* What is owed when it was received.
LEMMA Received ==
  ASSUME System, UNCHANGED browser, toServer # <<>>, toServer' = Tail(toServer)
  PROVE  \A w \in WireId :
           Owed'[w] \in Nat /\ Owed[w] = Owed'[w] + Counts(Head(toServer), w)
<1>1. queuedProcessed' = queuedProcessed
  BY BrowserSame
<1>2. Owed' = [w \in WireId |-> Count(queuedProcessed, {w})
                                  + Cardinality(Counted(Tail(toServer), w))]
  BY <1>1 DEF Owed, Acknowledged, Counted, Acknowledging, PlacesOf, Count, Places
<1> TAKE w \in WireId
<1>3. PICK q \in Nat, r \in Nat, c \in Nat :
        /\ q = Count(queuedProcessed, {w}) /\ r = Cardinality(Counted(Tail(toServer), w))
        /\ c = Counts(Head(toServer), w)
  BY HeadCounted, Numbers DEF System
<1>4. Owed'[w] = q + r
  BY <1>2, <1>3
<1>5. Acknowledged[w] = r + c
  BY <1>3, HeadCounted
<1>6. Owed[w] = q + (r + c)
  BY <1>3, <1>5, Numbers DEF System
<1> QED
  BY <1>3, <1>4, <1>6

\* A message that acknowledges nothing leaves what is owed.
LEMMA SilentReceived ==
  ASSUME System, UNCHANGED browser, toServer # <<>>, toServer' = Tail(toServer),
         Silent(Head(toServer)), NEW t, Balanced(toClient, slurpQueue, Owed, onFly, t)
  PROVE  Balanced(toClient, slurpQueue, Owed', onFly, t)
<1>1. \A w \in WireId : Owed'[w] = Owed[w]
  <2> TAKE w \in WireId
  <2>1. Owed'[w] \in Nat /\ Owed[w] = Owed'[w] + Counts(Head(toServer), w)
    BY Received
  <2>2. Counts(Head(toServer), w) = 0
    BY HeadCounted
  <2> QED
    BY <2>1, <2>2
<1> QED
  BY <1>1 DEF Balanced

\* tilecombine.
LEMMA RequestKeeps ==
  ASSUME System, Request
  PROVE  System'
<1> DEFINE m == Head(toServer)
           queue == Enqueue(requested, m.keys)
           sent == [k \in Keys |-> IF k \in m.keys /\ m.oldwid[k] = 0
                                   THEN 0 ELSE lastSent[k]]
           subscribed == rendering \cup {k \in m.keys : ~cache[k].valid}
<1>0. PICK n \in 0..Len(onFly) :
        HandleTileCombinedRequest(n) /\ SpendAll(Stalls(n)) /\ UNCHANGED browser
  BY DEF Request
<1>1. /\ toServer # <<>> /\ m.type = "tilecombine"
      /\ SendRequestedTiles(cache, queue, onFly, n, sent, subscribed, toClient)
      /\ toServer' = Tail(toServer)
      /\ UNCHANGED <<wid, editWid, cache, visibleArea>>
  BY <1>0 DEF HandleTileCombinedRequest
<1>2. m \in ClientMsg /\ Tail(toServer) \in Seq(ClientMsg)
  BY <1>1, HeadCounted
<1>3. Silent(m) /\ m.keys \in SUBSET Keys
  BY <1>1, <1>2 DEF Silent, ClientMsg, TileCombineMsg, ProcessedMsg, VisibleAreaMsg
<1>4. /\ wid \in WireId /\ editWid \in [Keys -> WireId] /\ cache \in [Keys -> TileData]
      /\ lastSent \in [Keys -> WireId] /\ rendering \subseteq Keys
      /\ requested \in Seq(Keys) /\ onFly \in Seq(WireId) /\ visibleArea \subseteq Keys
      /\ toClient \in Seq(ServerMsg) /\ n \in Nat
  BY DEF System, CacheTypeOK, WireOK
<1> HIDE DEF m
<1>5. queue \in Seq(Keys)
  BY <1>3, <1>4, EnqueueType
<1>6. sent \in [Keys -> WireId]
  <2>1. 0 \in WireId
    BY WireAssumption DEF WireId
  <2> QED
    BY <1>4, <2>1
<1>7. subscribed \subseteq Keys
  BY <1>3, <1>4
<1> HIDE DEF queue, sent, subscribed
<1> DEFINE flying == RemoveOutdatedTilesOnFly(onFly, n)
<1>8. SendInput(cache, queue, onFly, n, sent, subscribed, toClient)
  BY <1>4, <1>5, <1>6, <1>7 DEF SendInput
<1>9. /\ requested' \in Seq(Keys) /\ rendering' \subseteq Keys
      /\ onFly' \in Seq(WireId) /\ lastSent' \in [Keys -> WireId]
      /\ toClient' \in Seq(ServerMsg)
      /\ Sends(toClient, flying)
  BY <1>1, <1>8, SendKeeps
<1>10. SpendsOn /\ (n # 0 => spent'["stalls"] # 0)
  <2>1. n # 0 => "stalls" \in Stalls(n)
    BY DEF Stalls
  <2> QED
    BY <1>0, <2>1, SpendAllType
<1>11. Balanced(toClient, slurpQueue, Owed', onFly, spent["stalls"])
  <2>1. Balanced(toClient, slurpQueue, Owed, onFly, spent["stalls"])
    BY Balance DEF System
  <2> QED
    BY <1>0, <1>1, <1>3, <2>1, SilentReceived DEF m
<1>12. \A w \in WireId : Owed'[w] \in Nat
  BY <1>0, <1>1, Received
<1>13. /\ flying \in Seq(WireId)
       /\ Balanced(toClient, slurpQueue, Owed', flying, spent'["stalls"])
  BY <1>4, <1>10, <1>11, <1>12, Outdates
<1> HIDE DEF flying
<1>14. CacheTypeOK'
  BY <1>1, <1>4, <1>9 DEF CacheTypeOK
<1>15. SpentOK' /\ toServer' \in Seq(ClientMsg)
  BY <1>1, <1>2, <1>10 DEF SpendsOn
<1> QED
  BY <1>0, <1>4, <1>9, <1>13, <1>14, <1>15, ServerStep

\* tileprocessed.
LEMMA ProcessedKeeps ==
  ASSUME System, Processed
  PROVE  System'
<1> DEFINE m == Head(toServer)
           left == OnTileProcessed(onFly, m.wids)
<1>0. PICK n \in 0..Len(onFly) :
        HandleTileProcessed(n) /\ SpendAll(Stalls(n)) /\ UNCHANGED browser
  BY DEF Processed
<1>1. /\ toServer # <<>> /\ m.type = "tileprocessed"
      /\ SendRequestedTiles(cache, requested, left, n, lastSent, rendering, toClient)
      /\ toServer' = Tail(toServer)
      /\ UNCHANGED <<wid, editWid, cache, visibleArea>>
  BY <1>0 DEF HandleTileProcessed
<1>2. m \in ClientMsg /\ Tail(toServer) \in Seq(ClientMsg)
  BY <1>1, HeadCounted
<1>3. /\ wid \in WireId /\ editWid \in [Keys -> WireId] /\ cache \in [Keys -> TileData]
      /\ lastSent \in [Keys -> WireId] /\ rendering \subseteq Keys
      /\ requested \in Seq(Keys) /\ onFly \in Seq(WireId) /\ visibleArea \subseteq Keys
      /\ toClient \in Seq(ServerMsg) /\ n \in Nat
  BY DEF System, CacheTypeOK, WireOK
<1> HIDE DEF m
<1>4. m.wids \in Seq(WireId)
  BY <1>1, <1>2 DEF ClientMsg, TileCombineMsg, ProcessedMsg, VisibleAreaMsg
<1>5. ASSUME NEW w \in WireId
      PROVE  /\ Counts(m, w) = Count(m.wids, {w})
             /\ Count(left, {w}) = IF Count(m.wids, {w}) > Count(onFly, {w}) THEN 0
                                   ELSE Count(onFly, {w}) - Count(m.wids, {w})
  <2>1. Counts(m, w) = Cardinality(PlacesOf(m.wids, w))
    BY <1>1 DEF Counts, Acks
  <2>2. Counts(m, w) = Count(m.wids, {w})
    BY <1>4, <2>1, PlacesCount
  <2> QED
    BY <1>3, <1>4, <2>2, ProcessedErases
<1>6. left \in Seq(WireId)
  BY <1>3, <1>4, ProcessedErases
<1> HIDE DEF left
<1>7. \A w \in WireId : Owed'[w] \in Nat /\ Owed[w] = Owed'[w] + Counts(m, w)
  BY <1>0, <1>1, Received DEF m
<1>8. Balanced(toClient, slurpQueue, Owed', left, spent["stalls"])
  <2>1. Balanced(toClient, slurpQueue, Owed, onFly, spent["stalls"])
    BY Balance DEF System
  <2>2. slurpQueue \in Seq(ServerMsg)
    BY SlurpQueueType DEF System, SlurpOK
  <2>3. ASSUME NEW w \in WireId
        PROVE  /\ Count(left, {w}) <=
                    Count(toClient, Of(w)) + Count(slurpQueue, Of(w)) + Owed'[w]
               /\ spent["stalls"] = 0 =>
                    Count(left, {w})
                      = Count(toClient, Of(w)) + Count(slurpQueue, Of(w)) + Owed'[w]
    <3>1. PICK a \in Nat, s \in Nat, o \in Nat, c \in Nat, f \in Nat :
            /\ a = Count(toClient, Of(w)) /\ s = Count(slurpQueue, Of(w))
            /\ o = Owed'[w] /\ c = Count(m.wids, {w}) /\ f = Count(onFly, {w})
      BY <1>3, <1>4, <1>7, <2>2, CountType
    <3>2. Owed[w] = o + c
      BY <1>5, <1>7, <3>1
    <3>3. f <= a + s + (o + c) /\ (spent["stalls"] = 0 => f = a + s + (o + c))
      BY <2>1, <3>1, <3>2 DEF Balanced
    <3>4. Count(left, {w}) = IF c > f THEN 0 ELSE f - c
      BY <1>5, <3>1
    <3>5. PICK g : g = Count(left, {w})
      OBVIOUS
    <3>6. g <= a + s + o /\ (spent["stalls"] = 0 => g = a + s + o)
      BY <3>3, <3>4, <3>5
    <3> QED
      BY <3>1, <3>5, <3>6
  <2> QED
    BY <2>3, Zenon DEF Balanced
<1> DEFINE flying == RemoveOutdatedTilesOnFly(left, n)
<1>9. SendInput(cache, requested, left, n, lastSent, rendering, toClient)
  BY <1>3, <1>6 DEF SendInput
<1>10. /\ requested' \in Seq(Keys) /\ rendering' \subseteq Keys
       /\ onFly' \in Seq(WireId) /\ lastSent' \in [Keys -> WireId]
       /\ toClient' \in Seq(ServerMsg)
       /\ Sends(toClient, flying)
  BY <1>1, <1>9, SendKeeps
<1>11. SpendsOn /\ (n # 0 => spent'["stalls"] # 0)
  <2>1. n # 0 => "stalls" \in Stalls(n)
    BY DEF Stalls
  <2> QED
    BY <1>0, <2>1, SpendAllType
<1>12. /\ flying \in Seq(WireId)
       /\ Balanced(toClient, slurpQueue, Owed', flying, spent'["stalls"])
  BY <1>3, <1>6, <1>7, <1>8, <1>11, Outdates
<1> HIDE DEF flying
<1>13. CacheTypeOK'
  BY <1>1, <1>3, <1>10 DEF CacheTypeOK
<1>14. SpentOK' /\ toServer' \in Seq(ClientMsg)
  BY <1>1, <1>2, <1>11 DEF SpendsOn
<1> QED
  BY <1>0, <1>3, <1>10, <1>12, <1>13, <1>14, ServerStep

\* clientvisiblearea.
LEMMA VisibleAreaKeeps ==
  ASSUME System, VisibleArea
  PROVE  System'
<1>1. /\ toServer # <<>> /\ Head(toServer).type = "clientvisiblearea"
      /\ visibleArea' = Head(toServer).keys
      /\ toServer' = Tail(toServer)
      /\ UNCHANGED <<toClient, wid, editWid, cache, lastSent, rendering,
                     requested, onFly>>
      /\ UNCHANGED browser /\ UNCHANGED spent
  BY DEF VisibleArea, HandleClientVisibleArea
<1>2. Head(toServer) \in ClientMsg /\ Tail(toServer) \in Seq(ClientMsg)
  BY <1>1, HeadCounted
<1>3. Silent(Head(toServer)) /\ Head(toServer).keys \in SUBSET Keys
  BY <1>1, <1>2 DEF Silent, ClientMsg, TileCombineMsg, ProcessedMsg, VisibleAreaMsg
<1>4. CacheTypeOK'
  BY <1>1, <1>3 DEF System, CacheTypeOK
<1>5. /\ SpentOK' /\ toServer' \in Seq(ClientMsg)
      /\ toClient \in Seq(ServerMsg) /\ toClient' \in Seq(ServerMsg)
      /\ onFly \in Seq(WireId)
  BY <1>1, <1>2 DEF System, SpentOK, WireOK, CacheTypeOK
<1>6. Balanced(toClient, slurpQueue, Owed', onFly, spent'["stalls"])
  <2>1. Balanced(toClient, slurpQueue, Owed, onFly, spent'["stalls"])
    BY <1>1, Balance DEF System
  <2> QED
    BY <1>1, <1>3, <2>1, SilentReceived
<1>7. Sends(toClient, onFly)
  BY <1>1 DEF Sends
<1> QED
  BY <1>1, <1>4, <1>5, <1>6, <1>7, ServerStep

-----------------------------------------------------------------------------
(* The browser.                                                            *)

\* A step of the browser that receives no message and emits none.
LEMMA BrowserStep ==
  ASSUME System, UNCHANGED tileCache, UNCHANGED toClient, UNCHANGED slurpQueue,
         toServer' \in Seq(ClientMsg),
         Owed' = Owed, ViewOK', DrawOK', SlurpOK', WorkOK', FetchOK', SpendsOn
  PROVE  System'
<1>1. CacheTypeOK' /\ UNCHANGED onFly
  BY ServerSame
<1>2. WireOK'
  BY DEF System, WireOK
<1>3. OnFlyAccounted'
  BY <1>1, <1>2, SameBalance
<1> QED
  BY <1>1, <1>2, <1>3 DEF System, SpendsOn

\* Nothing is acknowledged by a step.
LEMMA AcknowledgesNothing ==
  ASSUME System, UNCHANGED queuedProcessed,
         toServer' # toServer =>
           \E m \in ClientMsg : Silent(m) /\ toServer' = Append(toServer, m)
  PROVE  /\ toServer' \in Seq(ClientMsg)
         /\ Owed' = Owed
<1>1. CASE toServer' = toServer
  BY <1>1, OwedSame DEF System, WireOK
<1>2. CASE toServer' # toServer
  <2>1. PICK m \in ClientMsg : Silent(m) /\ toServer' = Append(toServer, m)
    BY <1>2
  <2>2. WireOK
    BY DEF System
  <2>3. /\ toServer' \in Seq(ClientMsg)
        /\ Acknowledged' = [w \in WireId |-> Acknowledged[w] + Counts(m, w)]
    BY <2>1, <2>2, SentToServer
  <2>4. ASSUME NEW w \in WireId PROVE Acknowledged'[w] = Acknowledged[w]
    <3>1. Counts(m, w) = 0
      BY <2>1, CountsType
    <3>2. PICK a \in Nat : a = Acknowledged[w]
      BY Numbers DEF System
    <3>3. Acknowledged'[w] = a + 0
      BY <2>3, <3>1, <3>2
    <3> QED
      BY <3>2, <3>3
  <2>5. Owed' = [w \in WireId |-> Count(queuedProcessed, {w}) + Acknowledged'[w]]
    BY DEF Owed, Count, Places
  <2> QED
    BY <2>3, <2>4, <2>5 DEF Owed
<1> QED
  BY <1>1, <1>2

\* What a step leaves alone keeps its types.
LEMMA PartsSame ==
  ASSUME System
  PROVE  /\ UNCHANGED <<tiles, view, pendingDeltas>> => ViewOK'
         /\ UNCHANGED drawing => DrawOK'
         /\ UNCHANGED slurping => SlurpOK' /\ UNCHANGED slurpQueue
         /\ UNCHANGED working => WorkOK'
         /\ UNCHANGED fetching => FetchOK' /\ UNCHANGED queuedProcessed
         /\ UNCHANGED spent => SpendsOn
<1>1. UNCHANGED <<tiles, view, pendingDeltas>> => ViewOK'
  BY DEF System, ViewOK, TilesMap
<1>2. UNCHANGED drawing => DrawOK'
  BY DEF System, DrawOK, drawing
<1>3. UNCHANGED slurping => SlurpOK' /\ UNCHANGED slurpQueue
  BY DEF System, SlurpOK, slurping
<1>4. UNCHANGED working => WorkOK'
  BY DEF System, WorkOK, working, TasksCounted, Posted
<1>5. UNCHANGED fetching => FetchOK' /\ UNCHANGED queuedProcessed
  BY DEF System, FetchOK, fetching
<1>6. UNCHANGED spent => SpendsOn
  BY DEF System, SpentOK, SpendsOn
<1> QED
  BY <1>1, <1>2, <1>3, <1>4, <1>5, <1>6

\* update.
LEMMA ScrollKeeps ==
  ASSUME System, Scroll
  PROVE  System'
<1>1. PICK shown \in SUBSET Keys : \E area \in Areas(shown) :
        Spend("scrolls") /\ Update(shown, area) /\ UNCHANGED tileCache
  BY DEF Scroll
<1>2. PICK area \in Areas(shown) :
        Spend("scrolls") /\ Update(shown, area) /\ UNCHANGED tileCache
  BY <1>1
<1> DEFINE S == ToRehydrate(tiles, area)
           ts == UpdatedTiles(tiles, shown, area)
           deltas == Rehydrating(tiles, S, FALSE)
<1>3. /\ view' = shown
      /\ toServer' = IF shown = view THEN toServer
                     ELSE Append(toServer, Clientvisiblearea(shown))
      /\ pausedForCoherency' = (pausedForCoherency \/ S # {})
      /\ EndTransaction(ts, deltas, imageCache)
      /\ pendingTileCombineQueue' = pendingTileCombineQueue \cup Missing(tiles, area)
      /\ UNCHANGED <<toClient, pendingDeltas, dehydratedCurrentTiles, deferredDraw,
                     slurping, queuedProcessed, fetchKeyframeQueue>>
  BY <1>2 DEF Update
<1>4. area \in SUBSET Keys
  BY <1>2 DEF Areas
<1>5. /\ TilesMap(tiles) /\ pendingDeltas \in [Keys -> Seq(Delta)]
      /\ imageCache \in [Keys -> Image] /\ WorkOK
  BY DEF System, ViewOK, WorkOK
<1>6. TilesMap(ts)
  BY <1>4, <1>5, UpdatedTilesType
<1>7. \A k \in S : tiles[k] \in Tile /\ NeedsRehydration(tiles[k])
  BY <1>5 DEF ToRehydrate, Missing, TilesMap
<1>8. deltas \in [Keys -> Seq(Delta)]
  BY <1>5, <1>7, RehydratingType
<1> HIDE DEF ts, deltas, S
<1>9. TilesMap(tiles)' /\ WorkOK'
  BY <1>3, <1>5, <1>6, <1>8, EndTransactionWork
<1>10. ViewOK'
  BY <1>3, <1>5, <1>9 DEF ViewOK
<1>11. DrawOK'
  BY <1>3 DEF System, DrawOK
<1>12. FetchOK'
  BY <1>3, <1>4 DEF System, FetchOK, Missing
<1>13. SpendsOn
  BY <1>2, SpendType
<1>14. toServer' # toServer =>
         \E m \in ClientMsg : Silent(m) /\ toServer' = Append(toServer, m)
  BY <1>3, BrowserMessages
<1>15. /\ toServer' \in Seq(ClientMsg)
       /\ Owed' = Owed
  BY <1>3, <1>14, AcknowledgesNothing
<1>16. SlurpOK' /\ UNCHANGED slurpQueue
  BY <1>3, PartsSame
<1> QED
  BY <1>2, <1>3, <1>9, <1>10, <1>11, <1>12, <1>13, <1>15, <1>16, BrowserStep

\* preFetchTiles.
LEMMA PreFetchKeeps ==
  ASSUME System, PreFetch
  PROVE  System'
<1>1. PICK S \in SUBSET Keys \ {{}} :
        Spend("prefetches") /\ PreFetchTiles(S) /\ UNCHANGED tileCache
  BY DEF PreFetch
<1>2. /\ tiles' = [k \in DOMAIN tiles \cup S |->
                     IF k \in DOMAIN tiles THEN tiles[k] ELSE NewTile(k \in view)]
      /\ pendingTileCombineQueue' = pendingTileCombineQueue \cup S
      /\ UNCHANGED <<wire, view, pendingDeltas, drawing, slurping, working,
                     queuedProcessed, fetchKeyframeQueue>>
  BY <1>1 DEF PreFetchTiles
<1>3. TilesMap(tiles) /\ view \subseteq Keys /\ pendingDeltas \in [Keys -> Seq(Delta)]
  BY DEF System, ViewOK
<1>4. TilesMap(tiles)'
  <2>1. \A k : NewTile(k \in view) \in Tile
    <3> TAKE k
    <3> DEFINE c == (k \in view)
    <3>1. c \in BOOLEAN
      OBVIOUS
    <3> HIDE DEF c
    <3>2. NewTile(c) \in Tile
      BY <3>1, NewTileType
    <3> QED
      BY <3>2 DEF c
  <2>2. DOMAIN tiles' = DOMAIN tiles \cup S
    BY <1>2
  <2>3. ASSUME NEW k \in DOMAIN tiles' PROVE tiles'[k] \in Tile
    BY <1>2, <1>3, <2>1, <2>2 DEF TilesMap
  <2> QED
    BY <1>3, <2>2, <2>3 DEF TilesMap
<1>5. ViewOK'
  BY <1>2, <1>3, <1>4 DEF ViewOK
<1>6. FetchOK'
  BY <1>2 DEF System, FetchOK
<1>7. SpendsOn
  BY <1>1, SpendType
<1>8. UNCHANGED <<toClient, toServer>>
  BY <1>2 DEF wire
<1>9. /\ toServer' \in Seq(ClientMsg)
      /\ Owed' = Owed
  BY <1>2, <1>8, AcknowledgesNothing
<1>10. DrawOK' /\ SlurpOK' /\ UNCHANGED slurpQueue /\ WorkOK'
  BY <1>2, PartsSame
<1> QED
  BY <1>1, <1>5, <1>6, <1>7, <1>8, <1>9, <1>10, BrowserStep

\* _onDocumentBlur.
LEMMA BlurKeeps ==
  ASSUME System, Blur
  PROVE  System'
<1>1. PICK fate \in Fates(Distances(tiles, view)) :
        /\ Spend("blurs") /\ OnDocumentBlur(fate) /\ fate = KeepAll
        /\ UNCHANGED tileCache
  BY DEF Blur
<1> DEFINE near == Distances(tiles, view)
           pruned == GarbageCollect(near, fate)
<1>2. /\ tiles' = [k \in DOMAIN pruned |-> Reclaimed(pruned[k])]
      /\ imageCache' = ForgetImages(near, Keys)
      /\ dehydratedCurrentTiles' =
           dehydratedCurrentTiles \cup {k \in DOMAIN pruned : pruned[k].current}
      /\ deferredDraw' = (deferredDraw \/ dehydratedCurrentTiles' # {})
      /\ UNCHANGED <<wire, view, pendingDeltas, pausedForCoherency, slurping,
                     fetching, nPendingWorkerTasks, cachedTiles, workers,
                     inbox, outbox, workerImages, workerError, bitmapPromises>>
  BY <1>1 DEF OnDocumentBlur
<1>3. /\ TilesMap(tiles) /\ view \subseteq Keys /\ pendingDeltas \in [Keys -> Seq(Delta)]
      /\ imageCache \in [Keys -> Image]
  BY DEF System, ViewOK, WorkOK
<1>4. TilesMap(near)
  BY <1>3, DistancesType
<1> HIDE DEF near
<1>5. TilesMap(pruned)
  BY <1>4, GarbageCollectType
<1> HIDE DEF pruned
<1>6. TilesMap(tiles)'
  <2>1. \A k \in DOMAIN pruned : Reclaimed(pruned[k]) \in Tile
    BY <1>5, ReclaimedType DEF TilesMap
  <2> QED
    BY <1>2, <1>5, <2>1 DEF TilesMap
<1>7. ViewOK'
  BY <1>2, <1>3, <1>6 DEF ViewOK
<1>8. imageCache' \in [Keys -> Image]
  BY <1>2, <1>3, ForgetImagesType
<1>9. WorkOK'
  BY <1>2, <1>8 DEF System, WorkOK, TasksCounted, Posted
<1>10. DrawOK'
  BY <1>2, <1>5 DEF System, DrawOK, TilesMap
<1>11. SpendsOn
  BY <1>1, SpendType
<1>12. UNCHANGED <<toClient, toServer>>
  BY <1>2 DEF wire
<1>13. SlurpOK' /\ FetchOK' /\ UNCHANGED <<slurpQueue, queuedProcessed>>
  BY <1>2, PartsSame
<1>14. /\ toServer' \in Seq(ClientMsg)
       /\ Owed' = Owed
  BY <1>12, <1>13, AcknowledgesNothing
<1> QED
  BY <1>1, <1>7, <1>9, <1>10, <1>11, <1>12, <1>13, <1>14, BrowserStep

\* flushPendingTileCombineQueue.
LEMMA FlushKeeps ==
  ASSUME System, Flush
  PROVE  System'
<1>1. /\ FlushPendingTileCombineQueue /\ UNCHANGED tileCache /\ UNCHANGED spent
  BY DEF Flush
<1>2. PICK tooFast : LET added == pendingTileCombineQueue \ tooFast
         IN  /\ toServer' = IF added = {} THEN toServer
                  ELSE Append(toServer, Tilecombine(added,
                         [k \in added |-> IF k \in DOMAIN tiles
                                          THEN tiles[k].wireId ELSE 0]))
             /\ tiles' = [k \in DOMAIN tiles |->
                  [tiles[k] EXCEPT !.requested = @ \/ k \in added]]
  BY <1>1 DEF FlushPendingTileCombineQueue
<1> DEFINE added == pendingTileCombineQueue \ tooFast
           old == [k \in added |-> IF k \in DOMAIN tiles THEN tiles[k].wireId ELSE 0]
           Asked(k) == (tiles[k].requested \/ k \in added)
<1>3. /\ toServer' = IF added = {} THEN toServer
                     ELSE Append(toServer, Tilecombine(added, old))
      /\ tiles' = [k \in DOMAIN tiles |-> [tiles[k] EXCEPT !.requested = Asked(k)]]
  BY <1>2
<1>4. /\ pendingTileCombineQueue' = {}
      /\ UNCHANGED <<toClient, view, pendingDeltas, drawing, slurping, working,
                     queuedProcessed, fetchKeyframeQueue>>
  BY <1>1 DEF FlushPendingTileCombineQueue
<1>5. /\ TilesMap(tiles) /\ view \subseteq Keys /\ pendingDeltas \in [Keys -> Seq(Delta)]
      /\ pendingTileCombineQueue \subseteq Keys
  BY DEF System, ViewOK, FetchOK
<1>6. added \in SUBSET Keys
  BY <1>5
<1>7. \A k \in added : old[k] \in WireId
  <2>1. 0 \in WireId
    BY WireAssumption DEF WireId
  <2>2. \A k \in DOMAIN tiles : tiles[k].wireId \in WireId
    BY <1>5 DEF TilesMap, Tile
  <2> QED
    BY <2>1, <2>2
<1>8. \A k \in DOMAIN tiles : Asked(k) \in BOOLEAN
  BY <1>5 DEF TilesMap, Tile
<1> HIDE DEF Asked, added, old
<1>9. Tilecombine(added, old) \in ClientMsg /\ Silent(Tilecombine(added, old))
  BY <1>6, <1>7, BrowserMessages
<1>10. TilesMap(tiles)'
  <2>1. \A k \in DOMAIN tiles : [tiles[k] EXCEPT !.requested = Asked(k)] \in Tile
    BY <1>5, <1>8 DEF TilesMap, Tile
  <2> QED
    BY <1>3, <1>5, <2>1 DEF TilesMap
<1>11. ViewOK'
  BY <1>4, <1>5, <1>10 DEF ViewOK
<1>12. FetchOK'
  BY <1>4 DEF System, FetchOK
<1>13. toServer' # toServer =>
         \E m \in ClientMsg : Silent(m) /\ toServer' = Append(toServer, m)
  BY <1>3, <1>9
<1>14. /\ toServer' \in Seq(ClientMsg)
       /\ Owed' = Owed
  BY <1>4, <1>13, AcknowledgesNothing
<1>15. DrawOK' /\ SlurpOK' /\ UNCHANGED slurpQueue /\ WorkOK' /\ SpendsOn
  BY <1>1, <1>4, PartsSame
<1> QED
  BY <1>1, <1>4, <1>11, <1>12, <1>14, <1>15, BrowserStep

\* rehydrateCurrentTiles.
LEMMA RedrawKeeps ==
  ASSUME System, Redraw
  PROVE  System'
<1> DEFINE S == {k \in dehydratedCurrentTiles \cap DOMAIN tiles :
                   NeedsRehydration(tiles[k])}
           ts == [k \in DOMAIN tiles |-> IF k \in S THEN Rehydrated(tiles[k])
                                         ELSE tiles[k]]
           deltas == Rehydrating(tiles, S, FALSE)
<1>1. /\ deferredDraw' = FALSE
      /\ dehydratedCurrentTiles' = {}
      /\ pausedForCoherency' = (\E k \in S : tiles[k].current)
      /\ EndTransaction(ts, deltas, imageCache)
      /\ UNCHANGED <<wire, view, pendingDeltas, slurping, fetching>>
      /\ UNCHANGED tileCache /\ UNCHANGED spent
  BY DEF Redraw, RehydrateCurrentTiles
<1>2. /\ TilesMap(tiles) /\ pendingDeltas \in [Keys -> Seq(Delta)]
      /\ imageCache \in [Keys -> Image] /\ WorkOK /\ view \subseteq Keys
  BY DEF System, ViewOK, WorkOK
<1>3. \A k \in S : tiles[k] \in Tile /\ NeedsRehydration(tiles[k])
  BY <1>2 DEF TilesMap
<1>4. deltas \in [Keys -> Seq(Delta)]
  BY <1>2, <1>3, RehydratingType
<1>5. TilesMap(ts)
  <2> HIDE DEF S
  <2>1. \A k \in S : Rehydrated(tiles[k]) \in Tile
    BY <1>3, RehydratedType
  <2>2. DOMAIN ts = DOMAIN tiles
    OBVIOUS
  <2>3. \A k \in DOMAIN tiles : ts[k] \in Tile
    BY <1>2, <2>1 DEF TilesMap
  <2> HIDE DEF ts
  <2> QED
    BY <1>2, <2>2, <2>3 DEF TilesMap
<1> HIDE DEF ts, deltas, S
<1>6. TilesMap(tiles)' /\ WorkOK'
  BY <1>1, <1>2, <1>4, <1>5, EndTransactionWork
<1>7. ViewOK'
  BY <1>1, <1>2, <1>6 DEF ViewOK
<1>8. DrawOK'
  BY <1>1 DEF DrawOK
<1>9. UNCHANGED <<toClient, toServer>>
  BY <1>1 DEF wire
<1>10. SlurpOK' /\ FetchOK' /\ UNCHANGED <<slurpQueue, queuedProcessed>> /\ SpendsOn
  BY <1>1, PartsSame
<1>11. /\ toServer' \in Seq(ClientMsg)
       /\ Owed' = Owed
  BY <1>9, <1>10, AcknowledgesNothing
<1> QED
  BY <1>1, <1>6, <1>7, <1>8, <1>9, <1>10, <1>11, BrowserStep

\* The slurp timer.
LEMMA TimerKeeps ==
  ASSUME System, Timer
  PROVE  System'
<1>1. /\ UNCHANGED <<wire, tiles, view, pendingDeltas, drawing, working, fetching,
                     slurpQueue>>
      /\ UNCHANGED tileCache /\ UNCHANGED spent
  BY DEF Timer, SlurpTimer
<1>2. SlurpOK'
  <2>1. slurpTimer' = FALSE
    BY DEF Timer, SlurpTimer
  <2>2. \/ slurpDuringTransaction' = TRUE /\ UNCHANGED <<emitting, inLayerTransaction>>
        \/ emitting' = TRUE /\ inLayerTransaction' = TRUE
             /\ UNCHANGED slurpDuringTransaction
    BY DEF Timer, SlurpTimer
  <2> QED
    BY <1>1, <2>1, <2>2 DEF System, SlurpOK
<1>3. UNCHANGED <<toClient, toServer>>
  BY <1>1 DEF wire
<1>4. /\ ViewOK' /\ DrawOK' /\ WorkOK' /\ FetchOK' /\ UNCHANGED queuedProcessed
      /\ SpendsOn
  BY <1>1, PartsSame
<1>5. /\ toServer' \in Seq(ClientMsg)
      /\ Owed' = Owed
  BY <1>3, <1>4, AcknowledgesNothing
<1> QED
  BY <1>1, <1>2, <1>3, <1>4, <1>5, BrowserStep

\* The end of the emission.
LEMMA EmitEndKeeps ==
  ASSUME System, EmitEnd
  PROVE  System'
<1>1. /\ emitting' = FALSE
      /\ EndTransaction(tiles, pendingDeltas, imageCache)
      /\ pendingDeltas' = NoDeltas
      /\ IF pendingDeltas = NoDeltas
         THEN TransactionCallback({})
         ELSE UNCHANGED <<toServer, fetching, inLayerTransaction, slurpTimer,
                          slurpDuringTransaction>>
      /\ UNCHANGED <<toClient, view, drawing, slurpQueue>>
      /\ UNCHANGED tileCache /\ UNCHANGED spent
  BY DEF EmitEnd, EmitSlurpedEventsEnd
<1>2. /\ TilesMap(tiles) /\ pendingDeltas \in [Keys -> Seq(Delta)]
      /\ imageCache \in [Keys -> Image] /\ WorkOK /\ view \subseteq Keys
  BY DEF System, ViewOK, WorkOK
<1>3. TilesMap(tiles)' /\ WorkOK'
  BY <1>1, <1>2, EndTransactionWork
<1>4. ViewOK'
  <2>1. NoDeltas \in [Keys -> Seq(Delta)]
    BY DEF NoDeltas
  <2> QED
    BY <1>1, <1>2, <1>3, <2>1 DEF ViewOK
<1>5. /\ toServer' \in Seq(ClientMsg)
      /\ FetchOK'
      /\ slurpTimer' \in BOOLEAN /\ slurpDuringTransaction' \in BOOLEAN
      /\ inLayerTransaction' \in BOOLEAN
      /\ Owed' = Owed
  <2>1. CASE pendingDeltas = NoDeltas
    <3>1. TransactionCallback({}) /\ {} \in SUBSET Keys
      BY <1>1, <2>1
    <3>2. WireOK /\ SlurpOK /\ FetchOK /\ CacheTypeOK
      BY DEF System
    <3> QED
      BY <3>1, <3>2, CallbackKeeps
  <2>2. CASE pendingDeltas # NoDeltas
    <3>1. UNCHANGED <<toServer, fetching, inLayerTransaction, slurpTimer,
                      slurpDuringTransaction>>
      BY <1>1, <2>2
    <3>2. FetchOK' /\ UNCHANGED queuedProcessed
      BY <3>1, PartsSame
    <3>3. /\ toServer' \in Seq(ClientMsg)
          /\ Owed' = Owed
      BY <3>1, <3>2, AcknowledgesNothing
    <3> QED
      BY <3>1, <3>2, <3>3 DEF System, SlurpOK
  <2> QED
    BY <2>1, <2>2
<1>6. SlurpOK'
  BY <1>1, <1>5 DEF System, SlurpOK
<1>7. DrawOK' /\ SpendsOn
  BY <1>1, PartsSame
<1> QED
  BY <1>1, <1>3, <1>4, <1>5, <1>6, <1>7, BrowserStep

\* A message arrives.
LEMMA SlurpKeeps ==
  ASSUME System, Slurp
  PROVE  System'
<1> DEFINE m == Head(toClient)
           T == TileMsg \cup CanonicalMsg
<1>1. /\ toClient # <<>> /\ toClient' = Tail(toClient)
      /\ IF m.type = "invalidatetiles"
         THEN /\ tiles' = InvalidateTile(m.key, m.wid)
              /\ UNCHANGED <<slurpQueue, slurpTimer>>
         ELSE /\ slurpQueue' = Append(slurpQueue, m)
              /\ slurpTimer' = TRUE
              /\ UNCHANGED tiles
      /\ UNCHANGED <<toServer, view, pendingDeltas, drawing, working, fetching,
                     slurpDuringTransaction, inLayerTransaction, emitting>>
      /\ UNCHANGED tileCache /\ UNCHANGED spent
  BY DEF Slurp, SlurpMessage
<1>2. toClient \in Seq(ServerMsg) /\ slurpQueue \in Seq(T) /\ TilesMap(tiles)
  BY DEF System, WireOK, SlurpOK, ViewOK
<1>3. m \in ServerMsg /\ Tail(toClient) \in Seq(ServerMsg)
  BY <1>1, <1>2, TailItems
<1>4. ASSUME NEW w \in WireId
      PROVE  /\ Count(toClient, Of(w)) =
                  IF m \in Of(w) THEN Count(Tail(toClient), Of(w)) + 1
                  ELSE Count(Tail(toClient), Of(w))
             /\ Count(Tail(toClient), Of(w)) \in Nat /\ Count(slurpQueue, Of(w)) \in Nat
  <2> HIDE DEF T
  <2> QED
    BY <1>1, <1>2, <1>3, CountTail, CountType
<1> HIDE DEF m
<1>6. /\ slurpQueue' \in Seq(T) /\ slurpTimer' \in BOOLEAN /\ TilesMap(tiles)'
      /\ \A w \in WireId : Count(toClient', Of(w)) + Count(slurpQueue', Of(w))
                             = Count(toClient, Of(w)) + Count(slurpQueue, Of(w))
  <2>1. CASE m.type = "invalidatetiles"
    <3>1. m \in InvalidateMsg /\ m \notin TileMsg
      BY <1>3, <2>1 DEF ServerMsg, TileMsg, InvalidateMsg, CanonicalMsg
    <3>2. m.wid \in WireId
      BY <3>1 DEF InvalidateMsg
    <3>3. TilesMap(InvalidateTile(m.key, m.wid))
      BY <1>2, <3>2, InvalidateTileType
    <3>4. TilesMap(tiles)'
      BY <1>1, <2>1, <3>3 DEF TilesMap
    <3>5. slurpQueue' = slurpQueue /\ slurpTimer' = slurpTimer
      BY <1>1, <2>1
    <3>6. \A w \in WireId : Count(toClient', Of(w)) = Count(toClient, Of(w))
      BY <1>1, <1>4, <3>1 DEF Of
    <3> QED
      BY <1>2, <3>4, <3>5, <3>6 DEF System, SlurpOK
  <2>2. CASE m.type # "invalidatetiles"
    <3>1. m \in T
      BY <1>3, <2>2 DEF ServerMsg, InvalidateMsg
    <3>2. slurpQueue' = Append(slurpQueue, m) /\ slurpTimer' = TRUE /\ UNCHANGED tiles
      BY <1>1, <2>2
    <3> HIDE DEF T
    <3>3. slurpQueue' \in Seq(T)
      BY <1>2, <3>1, <3>2
    <3>4. ASSUME NEW w \in WireId
          PROVE  Count(toClient', Of(w)) + Count(slurpQueue', Of(w))
                   = Count(toClient, Of(w)) + Count(slurpQueue, Of(w))
      <4>1. Count(slurpQueue', Of(w)) =
              IF m \in Of(w) THEN Count(slurpQueue, Of(w)) + 1
              ELSE Count(slurpQueue, Of(w))
        BY <1>2, <3>1, <3>2, CountAppend
      <4>2. PICK a \in Nat, s \in Nat :
              a = Count(Tail(toClient), Of(w)) /\ s = Count(slurpQueue, Of(w))
        BY <1>4
      <4>3. Count(toClient', Of(w)) = a
        BY <1>1, <4>2
      <4>4. CASE m \in Of(w)
        <5>1. Count(slurpQueue', Of(w)) = s + 1 /\ Count(toClient, Of(w)) = a + 1
          BY <1>4, <4>1, <4>2, <4>4
        <5> QED
          BY <4>2, <4>3, <5>1
      <4>5. CASE m \notin Of(w)
        <5>1. Count(slurpQueue', Of(w)) = s /\ Count(toClient, Of(w)) = a
          BY <1>4, <4>1, <4>2, <4>5
        <5> QED
          BY <4>2, <4>3, <5>1
      <4> QED
        BY <4>4, <4>5
    <3>5. TilesMap(tiles)'
      BY <1>2, <3>2 DEF TilesMap
    <3> QED
      BY <3>2, <3>3, <3>4, <3>5
  <2> QED
    BY <2>1, <2>2
<1>7. SlurpOK'
  BY <1>1, <1>6 DEF System, SlurpOK
<1>8. ViewOK'
  BY <1>1, <1>6 DEF System, ViewOK
<1>9. DrawOK' /\ WorkOK' /\ FetchOK' /\ UNCHANGED queuedProcessed /\ SpendsOn
  BY <1>1, PartsSame
<1>10. Owed' = Owed /\ toServer' \in Seq(ClientMsg)
  BY <1>1, <1>9, AcknowledgesNothing
<1>11. WireOK'
  BY <1>1, <1>3, <1>10 DEF WireOK
<1>12. CacheTypeOK' /\ onFly' = onFly
  BY <1>1, ServerSame
<1>13. Balanced(toClient, slurpQueue, Owed', onFly, spent'["stalls"])
  BY <1>9, <1>10, StillBalanced
<1>14. Balanced(toClient', slurpQueue', Owed', onFly', spent'["stalls"])
  BY <1>6, <1>12, <1>13 DEF Balanced
<1>15. OnFlyAccounted'
  BY <1>7, <1>9, <1>11, <1>12, <1>14, BalanceNext
<1> QED
  BY <1>7, <1>8, <1>9, <1>11, <1>12, <1>15 DEF System, SpendsOn

\* A message that is emitted leaves the slurp queue; a tile waits for its
\* acknowledgement from then on.
LEMMA Emits ==
  ASSUME System, UNCHANGED tileCache, UNCHANGED wire,
         slurpQueue # <<>>, slurpQueue' = Tail(slurpQueue),
         queuedProcessed' = IF Head(slurpQueue) \in TileMsg
                            THEN Append(queuedProcessed, Head(slurpQueue).to)
                            ELSE queuedProcessed,
         UNCHANGED <<slurpTimer, slurpDuringTransaction, inLayerTransaction, emitting>>,
         ViewOK', DrawOK', WorkOK', FetchOK', SpendsOn
  PROVE  System'
<1> DEFINE T == TileMsg \cup CanonicalMsg
<1>1. slurpQueue \in Seq(T) /\ queuedProcessed \in Seq(WireId)
  BY DEF System, SlurpOK, FetchOK
<1> HIDE DEF T
<1>2. slurpQueue' \in Seq(T)
  BY <1>1, TailItems
<1>3. SlurpOK'
  BY <1>2 DEF System, SlurpOK, T
<1>4. UNCHANGED <<toClient, toServer>>
  BY DEF wire
<1>5. WireOK'
  BY <1>4 DEF System, WireOK
<1>6. CacheTypeOK' /\ onFly' = onFly
  BY ServerSame
<1>7. Acknowledged' = Acknowledged
  BY <1>4 DEF Acknowledged, Counted, Acknowledging, PlacesOf
<1>8. Head(slurpQueue) \in TileMsg => Head(slurpQueue).to \in WireId
  BY DEF TileMsg
<1>9. ASSUME NEW w \in WireId
      PROVE  Count(slurpQueue, Of(w)) + Owed[w] = Count(slurpQueue', Of(w)) + Owed'[w]
  <2>1. Count(slurpQueue, Of(w)) =
          IF Head(slurpQueue) \in Of(w) THEN Count(Tail(slurpQueue), Of(w)) + 1
          ELSE Count(Tail(slurpQueue), Of(w))
    BY <1>1, CountTail
  <2>2. Count(queuedProcessed', {w}) =
          IF Head(slurpQueue) \in Of(w) THEN Count(queuedProcessed, {w}) + 1
          ELSE Count(queuedProcessed, {w})
    <3>1. CASE Head(slurpQueue) \in TileMsg
      <4>1. queuedProcessed' = Append(queuedProcessed, Head(slurpQueue).to)
        BY <3>1
      <4>2. Head(slurpQueue).to \in {w} <=> Head(slurpQueue) \in Of(w)
        BY <3>1 DEF Of
      <4> QED
        BY <1>1, <1>8, <3>1, <4>1, <4>2, CountAppend
    <3>2. CASE Head(slurpQueue) \notin TileMsg
      BY <3>2 DEF Of
    <3> QED
      BY <3>1, <3>2
  <2>3. /\ Count(queuedProcessed, {w}) \in Nat /\ Acknowledged[w] \in Nat
        /\ Owed[w] = Count(queuedProcessed, {w}) + Acknowledged[w]
    BY Numbers DEF System
  <2>4. Owed'[w] = Count(queuedProcessed', {w}) + Acknowledged[w]
    <3>1. Owed' = [x \in WireId |-> Count(queuedProcessed', {x}) + Acknowledged[x]]
      BY <1>7 DEF Owed, Count, Places
    <3> QED
      BY <3>1
  <2>5. PICK a \in Nat, q \in Nat, r \in Nat :
          /\ a = Count(slurpQueue', Of(w)) /\ q = Count(queuedProcessed, {w})
          /\ r = Acknowledged[w]
    BY <1>2, <2>3, CountType
  <2>6. CASE Head(slurpQueue) \in Of(w)
    <3>1. Count(slurpQueue, Of(w)) = a + 1 /\ Owed[w] = q + r /\ Owed'[w] = (q + 1) + r
      BY <2>1, <2>2, <2>3, <2>4, <2>5, <2>6
    <3> QED
      BY <2>5, <3>1
  <2>7. CASE Head(slurpQueue) \notin Of(w)
    <3>1. Count(slurpQueue, Of(w)) = a /\ Owed[w] = q + r /\ Owed'[w] = q + r
      BY <2>1, <2>2, <2>3, <2>4, <2>5, <2>7
    <3> QED
      BY <2>5, <3>1
  <2> QED
    BY <2>6, <2>7
<1>10. ASSUME NEW w \in WireId
       PROVE  Count(toClient', Of(w)) + Count(slurpQueue', Of(w)) + Owed'[w]
                = Count(toClient, Of(w)) + Count(slurpQueue, Of(w)) + Owed[w]
  <2>1. Owed[w] \in Nat /\ Count(toClient, Of(w)) \in Nat /\ Count(slurpQueue, Of(w)) \in Nat
    BY Numbers DEF System
  <2>2. Count(slurpQueue', Of(w)) \in Nat
    BY <1>2, CountType
  <2>3. Owed'[w] \in Nat
    <3>1. Owed'[w] = Count(queuedProcessed', {w}) + Acknowledged[w]
      <4>1. Owed' = [x \in WireId |-> Count(queuedProcessed', {x}) + Acknowledged[x]]
        BY <1>7 DEF Owed, Count, Places
      <4> QED
        BY <4>1
    <3>2. queuedProcessed' \in Seq(WireId) /\ Acknowledged[w] \in Nat
      BY Numbers DEF System, FetchOK
    <3>3. Count(queuedProcessed', {w}) \in Nat
      BY <3>2, CountType
    <3>4. PICK q \in Nat, r \in Nat :
            q = Count(queuedProcessed', {w}) /\ r = Acknowledged[w]
      BY <3>2, <3>3
    <3>5. Owed'[w] = q + r
      BY <3>1, <3>4
    <3> QED
      BY <3>4, <3>5
  <2>4. PICK c \in Nat, a \in Nat, b \in Nat, o \in Nat, p \in Nat :
          /\ c = Count(toClient, Of(w)) /\ a = Count(slurpQueue, Of(w))
          /\ b = Count(slurpQueue', Of(w)) /\ o = Owed[w] /\ p = Owed'[w]
    BY <2>1, <2>2, <2>3
  <2>5. Count(toClient', Of(w)) = c
    BY <1>4, <2>4
  <2>6. a + o = b + p
    BY <1>9, <2>4
  <2>7. ASSUME NEW x \in Nat, NEW y \in Nat, NEW z \in Nat, NEW u \in Nat, NEW v \in Nat,
               y + z = u + v
        PROVE  x + u + v = x + y + z
    BY <2>7
  <2>8. c + b + p = c + a + o
    BY <2>6, <2>7
  <2> QED
    BY <2>4, <2>5, <2>8
<1>11. Balanced(toClient, slurpQueue, Owed, onFly, spent["stalls"])
  BY Balance DEF System
<1>12. spent'["stalls"] = 0 => spent["stalls"] = 0
  BY DEF SpendsOn
<1>13. Balanced(toClient', slurpQueue', Owed', onFly', spent'["stalls"])
  BY <1>6, <1>10, <1>11, <1>12 DEF Balanced
<1>14. OnFlyAccounted'
  BY <1>3, <1>5, <1>6, <1>13, BalanceNext
<1> QED
  BY <1>3, <1>5, <1>6, <1>14 DEF System, SpendsOn

\* The first of the messages that wait.
LEMMA HeadSlurped ==
  ASSUME System, slurpQueue # <<>>
  PROVE  /\ Head(slurpQueue).type = "tile" => Head(slurpQueue) \in TileMsg
         /\ Head(slurpQueue).type = "canonicalidchange" => Head(slurpQueue) \notin TileMsg
<1> DEFINE T == TileMsg \cup CanonicalMsg
           m == Head(slurpQueue)
<1>1. slurpQueue \in Seq(T)
  BY DEF System, SlurpOK
<1> HIDE DEF T
<1>2. m \in T
  BY <1>1, TailItems
<1> HIDE DEF m
<1>3. /\ m.type = "tile" => m \in TileMsg
      /\ m.type = "canonicalidchange" => m \notin TileMsg
  BY <1>2 DEF T, TileMsg, CanonicalMsg
<1> QED
  BY <1>3 DEF m

\* onTileMsg.
LEMMA EmitTileKeeps ==
  ASSUME System, EmitTile
  PROVE  System'
<1> DEFINE m == Head(slurpQueue)
           k == m.key
           t == IF k \in DOMAIN tiles THEN tiles[k] ELSE NewTile(k \in view)
           r == ReceivedTile(t, m)
           hydrate == r.current /\ NeedsRehydration(r)
           c == CompressedDelta(r, TRUE)
<1>1. /\ slurpQueue # <<>> /\ m.type = "tile"
      /\ tiles' = [x \in DOMAIN tiles \cup {k} |->
                     IF x # k THEN tiles[x] ELSE IF hydrate THEN Rehydrated(r) ELSE r]
      /\ pendingDeltas' = IF hydrate
           THEN [pendingDeltas EXCEPT ![k] = Append(@, c)] ELSE pendingDeltas
      /\ pausedForCoherency' = (pausedForCoherency \/ hydrate)
      /\ fetchKeyframeQueue' = IF ~m.isKeyframe /\ ~HasKeyframe(t)
           THEN fetchKeyframeQueue \cup {k} ELSE fetchKeyframeQueue
      /\ queuedProcessed' = Append(queuedProcessed, m.to)
      /\ slurpQueue' = Tail(slurpQueue)
      /\ UNCHANGED <<wire, view, dehydratedCurrentTiles, deferredDraw, working,
                     pendingTileCombineQueue, slurpTimer, slurpDuringTransaction,
                     inLayerTransaction, emitting>>
      /\ UNCHANGED tileCache /\ UNCHANGED spent
  BY DEF EmitTile, OnTileMsg, QueueAcknowledgement
<1>2. m \in TileMsg
  BY <1>1, HeadSlurped
<1>3. k \in Keys /\ m.to \in WireId
  BY <1>2 DEF TileMsg
<1>4. /\ TilesMap(tiles) /\ pendingDeltas \in [Keys -> Seq(Delta)]
      /\ view \subseteq Keys /\ queuedProcessed \in Seq(WireId)
  BY DEF System, ViewOK, FetchOK
<1> HIDE DEF m, k
<1>5. t \in Tile
  <2> DEFINE b == (k \in view)
  <2>1. b \in BOOLEAN
    OBVIOUS
  <2> HIDE DEF b
  <2>2. NewTile(b) \in Tile
    BY <2>1, NewTileType
  <2> QED
    BY <1>4, <2>2 DEF TilesMap, b
<1> HIDE DEF t
<1>6. r \in Tile
  BY <1>2, <1>5, ReceivedTileType
<1> HIDE DEF r
<1>7. hydrate \in BOOLEAN
  BY <1>6 DEF Tile
<1>8. hydrate => Rehydrated(r) \in Tile /\ c \in Delta
  BY <1>6, RehydratedType, CompressedDeltaType
<1> HIDE DEF c
<1>9. TilesMap(tiles)'
  <2> DEFINE x == IF hydrate THEN Rehydrated(r) ELSE r
  <2>1. x \in Tile
    BY <1>6, <1>8
  <2> HIDE DEF hydrate
  <2>2. /\ DOMAIN tiles' = DOMAIN tiles \cup {k}
        /\ \A y \in DOMAIN tiles' : tiles'[y] = IF y # k THEN tiles[y] ELSE x
    BY <1>1
  <2> HIDE DEF x
  <2> QED
    BY <1>3, <1>4, <2>1, <2>2 DEF TilesMap
<1>10. pendingDeltas' \in [Keys -> Seq(Delta)]
  <2>1. CASE hydrate
    <3>1. c \in Delta /\ pendingDeltas[k] \in Seq(Delta)
      BY <1>3, <1>4, <1>8, <2>1
    <3>2. Append(pendingDeltas[k], c) \in Seq(Delta)
      BY <3>1
    <3>3. pendingDeltas' = [pendingDeltas EXCEPT ![k] = Append(pendingDeltas[k], c)]
      BY <1>1, <2>1
    <3> HIDE DEF hydrate
    <3> QED
      BY <1>4, <3>2, <3>3
  <2>2. CASE ~hydrate
    BY <1>1, <1>4, <2>2
  <2> QED
    BY <2>1, <2>2
<1> HIDE DEF hydrate
<1>11. ViewOK'
  BY <1>1, <1>4, <1>9, <1>10 DEF ViewOK
<1>12. DrawOK'
  BY <1>1, <1>7 DEF System, DrawOK
<1>13. FetchOK'
  <2>1. queuedProcessed' \in Seq(WireId)
    BY <1>1, <1>3, <1>4
  <2> QED
    BY <1>1, <1>3, <2>1 DEF System, FetchOK
<1>14. WorkOK' /\ SpendsOn
  BY <1>1, PartsSame
<1>15. queuedProcessed' = IF Head(slurpQueue) \in TileMsg
                          THEN Append(queuedProcessed, Head(slurpQueue).to)
                          ELSE queuedProcessed
  BY <1>1, <1>2 DEF m
<1> QED
  BY <1>1, <1>11, <1>12, <1>13, <1>14, <1>15, Emits

\* canonicalidchange.
LEMMA EmitCanonicalKeeps ==
  ASSUME System, EmitCanonical
  PROVE  System'
<1>1. PICK area \in Areas(view) : OnCanonicalIdChange(area)
  BY DEF EmitCanonical
<1>2. /\ slurpQueue # <<>> /\ Head(slurpQueue).type = "canonicalidchange"
      /\ tiles' = RedrawnTiles(area)
      /\ imageCache' = ForgetImages(tiles, Keys)
      /\ pendingTileCombineQueue' = pendingTileCombineQueue \cup area
      /\ slurpQueue' = Tail(slurpQueue)
      /\ UNCHANGED <<wire, view, pendingDeltas, drawing, queuedProcessed,
                     fetchKeyframeQueue, slurpTimer, slurpDuringTransaction,
                     inLayerTransaction, emitting, nPendingWorkerTasks,
                     cachedTiles, workers, inbox, outbox, workerImages,
                     workerError, bitmapPromises>>
  BY <1>1 DEF OnCanonicalIdChange
<1>3. UNCHANGED tileCache /\ UNCHANGED spent
  BY DEF EmitCanonical
<1>4. /\ view \subseteq Keys /\ pendingDeltas \in [Keys -> Seq(Delta)]
      /\ imageCache \in [Keys -> Image]
  BY DEF System, ViewOK, WorkOK
<1>5. area \in SUBSET Keys
  BY <1>1, <1>4 DEF Areas
<1>6. TilesMap(RedrawnTiles(area)) /\ imageCache' \in [Keys -> Image]
  BY <1>2, <1>4, <1>5, RedrawnTilesType, ForgetImagesType
<1>7. TilesMap(tiles)'
  BY <1>2, <1>6 DEF TilesMap
<1>8. ViewOK'
  BY <1>2, <1>4, <1>7 DEF ViewOK
<1>9. WorkOK'
  BY <1>2, <1>6 DEF System, WorkOK, TasksCounted, Posted
<1>10. FetchOK'
  BY <1>2, <1>5 DEF System, FetchOK
<1>11. DrawOK' /\ SpendsOn
  BY <1>2, <1>3, PartsSame
<1>12. queuedProcessed' = IF Head(slurpQueue) \in TileMsg
                          THEN Append(queuedProcessed, Head(slurpQueue).to)
                          ELSE queuedProcessed
  BY <1>2, HeadSlurped
<1> QED
  BY <1>2, <1>3, <1>8, <1>9, <1>10, <1>11, <1>12, Emits

\* A limit on memory may be met.
LEMMA ReclaimingType ==
  ASSUME System, NEW fate, Reclaiming(fate)
  PROVE  SpendsOn
<1>1. CASE fate = KeepAll
  BY <1>1 DEF Reclaiming, System, SpentOK, SpendsOn
<1>2. CASE fate # KeepAll
  BY <1>2, SpendType DEF Reclaiming
<1> QED
  BY <1>1, <1>2

\* onWorkerEndTransaction.
LEMMA AnswerKeeps ==
  ASSUME System, NEW w \in Workers, AnswerOf(w)
  PROVE  System'
<1>1. PICK fate \in [Keys -> Fate] :
        OnWorkerEndTransaction(w, fate) /\ Reclaiming(fate) /\ UNCHANGED tileCache
  BY DEF AnswerOf
<1> DEFINE a == Head(outbox[w])
           left == nPendingWorkerTasks - 1
           decompressed == AllDecompressed(tiles, a.deltas)
           bitmaps == BitmapsOf(tiles, a.deltas, a.bitmaps)
<1>2. /\ w \in workers /\ outbox[w] # <<>>
      /\ outbox' = [outbox EXCEPT ![w] = Tail(@)]
      /\ nPendingWorkerTasks' = left
      /\ cachedTiles' = cachedTiles \cup {k \in Keys : bitmaps[k] # None}
      /\ IF bitmaps # NoBitmaps
         THEN HandleBitmaps(decompressed, bitmaps, left, fate)
         ELSE /\ fate = KeepAll
              /\ tiles' = decompressed
              /\ UNCHANGED <<toServer, fetching, drawing, slurping, imageCache>>
      /\ UNCHANGED <<toClient, view, pendingDeltas, workers, inbox, workerImages,
                     workerError, bitmapPromises>>
  BY <1>1 DEF OnWorkerEndTransaction
<1>3. /\ TilesMap(tiles) /\ WireOK /\ SlurpOK /\ FetchOK /\ DrawOK /\ CacheTypeOK
      /\ imageCache \in [Keys -> Image] /\ outbox \in [Workers -> Seq(Answered)]
      /\ nPendingWorkerTasks \in Nat
  BY DEF System, ViewOK, WorkOK
<1>4. outbox[w] \in Seq(Answered)
  BY <1>3
<1>5. a \in Answered
  BY <1>2, <1>4, TailItems
<1> HIDE DEF a
<1>6. /\ a.deltas \in [Keys -> Seq(Delta)] /\ a.bitmaps \in [Keys -> Seq(Image)]
      /\ \A k \in Keys : Len(a.bitmaps[k]) = Len(a.deltas[k])
  BY <1>5 DEF Answered, Answer
<1>7. TilesMap(decompressed)
  BY <1>3, <1>6, AllDecompressedType
<1>8. bitmaps \in [Keys -> Image]
  <2>1. \A k \in Keys \cap DOMAIN tiles : /\ a.bitmaps[k] \in Seq(Image)
                                          /\ Len(a.bitmaps[k]) = Len(a.deltas[k])
    BY <1>6
  <2> QED
    BY <1>6, <2>1, BitmapsOfType
<1> HIDE DEF decompressed, bitmaps
<1>9. /\ TilesMap(tiles)' /\ imageCache' \in [Keys -> Image]
      /\ toServer' \in Seq(ClientMsg)
      /\ FetchOK' /\ SlurpOK' /\ DrawOK'
      /\ UNCHANGED slurpQueue /\ Owed' = Owed
  <2>1. CASE bitmaps # NoBitmaps
    <3>1. HandleBitmaps(decompressed, bitmaps, left, fate)
      BY <1>2, <2>1
    <3> HIDE DEF left
    <3> QED
      BY <1>3, <1>7, <1>8, <3>1, HandleBitmapsKeeps
  <2>2. CASE bitmaps = NoBitmaps
    <3>1. /\ tiles' = decompressed
          /\ UNCHANGED <<toServer, fetching, drawing, slurping, imageCache>>
      BY <1>2, <2>2
    <3>2. TilesMap(tiles)' /\ imageCache' \in [Keys -> Image]
      BY <1>3, <1>7, <3>1 DEF TilesMap
    <3>3. FetchOK' /\ SlurpOK' /\ DrawOK' /\ UNCHANGED <<slurpQueue, queuedProcessed>>
      BY <3>1, PartsSame
    <3>4. /\ toServer' \in Seq(ClientMsg)
          /\ Owed' = Owed
      BY <3>1, <3>3, AcknowledgesNothing
    <3> QED
      BY <3>2, <3>3, <3>4
  <2> QED
    BY <2>1, <2>2
<1>10. /\ outbox' \in [Workers -> Seq(Answered)]
       /\ \A v \in Workers :
            /\ Len(outbox[v]) \in Nat
            /\ Len(outbox'[v]) = IF v = w THEN Len(outbox[v]) - 1 ELSE Len(outbox[v])
       /\ Len(outbox[w]) # 0
  <2>1. /\ Tail(outbox[w]) \in Seq(Answered) /\ Len(Tail(outbox[w])) = Len(outbox[w]) - 1
        /\ Len(outbox[w]) \in Nat \ {0}
    BY <1>2, <1>4, TailItems
  <2>2. \A v \in Workers : outbox'[v] = IF v = w THEN Tail(outbox[w]) ELSE outbox[v]
    BY <1>2, <1>3
  <2>3. outbox' \in [Workers -> Seq(Answered)]
    BY <1>2, <1>3, <2>1
  <2> QED
    BY <1>3, <2>1, <2>2, <2>3
<1>11. nPendingWorkerTasks' \in Nat /\ TasksCounted'
  <2>1. /\ IsFiniteSet(Posted(inbox)) /\ IsFiniteSet(Posted(outbox))
        /\ Cardinality(Posted(inbox)) + Cardinality(Posted(outbox))
             <= nPendingWorkerTasks
    BY DEF System, WorkOK, TasksCounted
  <2>2. /\ IsFiniteSet(Posted(outbox'))
        /\ Cardinality(Posted(outbox')) \in Nat
        /\ Cardinality(Posted(outbox)) = Cardinality(Posted(outbox')) + 1
    BY <1>10, <2>1, TakeOne
  <2>3. Cardinality(Posted(inbox)) \in Nat
    BY <2>1, FS_CardinalityType
  <2>4. PICK i \in Nat, o \in Nat : /\ i = Cardinality(Posted(inbox))
                                    /\ o = Cardinality(Posted(outbox'))
    BY <2>2, <2>3
  <2>5. i + (o + 1) <= nPendingWorkerTasks
    BY <2>1, <2>2, <2>4
  <2>6. left \in Nat /\ i + o <= left
    BY <1>3, <2>5
  <2>7. Posted(inbox)' = Posted(inbox) /\ Posted(outbox)' = Posted(outbox')
    BY <1>2 DEF Posted
  <2> QED
    BY <1>2, <2>1, <2>2, <2>4, <2>6, <2>7 DEF TasksCounted
<1>12. WorkOK'
  BY <1>2, <1>9, <1>10, <1>11 DEF System, WorkOK
<1>13. ViewOK'
  BY <1>2, <1>9 DEF System, ViewOK
<1>14. SpendsOn
  BY <1>1, ReclaimingType
<1> QED
  BY <1>1, <1>2, <1>9, <1>12, <1>13, <1>14, BrowserStep

\* The promises of createImageBitmap resolve.
LEMMA PromiseKeeps ==
  ASSUME System, Promise
  PROVE  System'
<1>1. PICK fate \in [Keys -> Fate] :
        BitmapsResolve(fate) /\ Reclaiming(fate) /\ UNCHANGED tileCache
  BY DEF Promise
<1> DEFINE bitmaps == Head(bitmapPromises)
           I == [Keys -> Image]
<1>2. /\ bitmapPromises # <<>> /\ bitmapPromises' = Tail(bitmapPromises)
      /\ HandleBitmaps(tiles, bitmaps, nPendingWorkerTasks, fate)
      /\ UNCHANGED <<toClient, view, pendingDeltas, nPendingWorkerTasks,
                     cachedTiles, workers, inbox, outbox, workerImages, workerError>>
  BY <1>1 DEF BitmapsResolve
<1>3. /\ TilesMap(tiles) /\ WireOK /\ SlurpOK /\ FetchOK /\ DrawOK /\ CacheTypeOK
      /\ imageCache \in [Keys -> Image] /\ bitmapPromises \in Seq(I)
  BY DEF System, ViewOK, WorkOK
<1> HIDE DEF I
<1>4. bitmaps \in I /\ bitmapPromises' \in Seq(I)
  BY <1>2, <1>3, TailItems
<1> HIDE DEF bitmaps
<1>5. /\ TilesMap(tiles)' /\ imageCache' \in [Keys -> Image]
      /\ toServer' \in Seq(ClientMsg)
      /\ FetchOK' /\ SlurpOK' /\ DrawOK'
      /\ UNCHANGED slurpQueue /\ Owed' = Owed
  <2>1. bitmaps \in [Keys -> Image]
    BY <1>4 DEF I
  <2> QED
    BY <1>2, <1>3, <2>1, HandleBitmapsKeeps
<1>6. WorkOK'
  BY <1>2, <1>4, <1>5 DEF System, WorkOK, TasksCounted, Posted, I
<1>7. ViewOK'
  BY <1>2, <1>5 DEF System, ViewOK
<1>8. SpendsOn
  BY <1>1, ReclaimingType
<1> QED
  BY <1>1, <1>2, <1>5, <1>6, <1>7, <1>8, BrowserStep

\* onWorkerError.
LEMMA WorkersFailKeeps ==
  ASSUME System, WorkersFail
  PROVE  System'
<1>1. PICK area \in Areas(view) : OnWorkerError(area)
  BY DEF WorkersFail
<1>2. /\ workerError' = FALSE
      /\ workers' = {}
      /\ inbox' = [w \in Workers |-> <<>>]
      /\ outbox' = [w \in Workers |-> <<>>]
      /\ nPendingWorkerTasks' = 0
      /\ IF inLayerTransaction
         THEN TransactionCallback(area)
         ELSE /\ pendingTileCombineQueue' = pendingTileCombineQueue \cup area
              /\ UNCHANGED <<toServer, queuedProcessed, fetchKeyframeQueue,
                             inLayerTransaction, slurpTimer,
                             slurpDuringTransaction>>
      /\ tiles' = RedrawnTiles(area)
      /\ imageCache' = ForgetImages(tiles, Keys)
      /\ pendingDeltas' = NoDeltas
      /\ UNCHANGED <<toClient, view, drawing, slurpQueue, emitting, cachedTiles,
                     workerImages, bitmapPromises>>
  BY <1>1 DEF OnWorkerError
<1>3. UNCHANGED tileCache /\ UNCHANGED spent
  BY DEF WorkersFail
<1>4. /\ view \subseteq Keys /\ imageCache \in [Keys -> Image]
      /\ WireOK /\ SlurpOK /\ FetchOK /\ CacheTypeOK
  BY DEF System, ViewOK, WorkOK
<1>5. area \in SUBSET Keys
  BY <1>1, <1>4 DEF Areas
<1>6. TilesMap(RedrawnTiles(area)) /\ imageCache' \in [Keys -> Image]
  BY <1>2, <1>4, <1>5, RedrawnTilesType, ForgetImagesType
<1>7. ViewOK'
  <2>1. NoDeltas \in [Keys -> Seq(Delta)]
    BY DEF NoDeltas
  <2>2. TilesMap(tiles)'
    BY <1>2, <1>6 DEF TilesMap
  <2> QED
    BY <1>2, <1>4, <2>1, <2>2 DEF ViewOK
<1>8. TasksCounted'
  <2>1. /\ IsFiniteSet(Posted(inbox')) /\ Cardinality(Posted(inbox')) = 0
        /\ IsFiniteSet(Posted(outbox')) /\ Cardinality(Posted(outbox')) = 0
    BY <1>2, NonePosted
  <2>2. Posted(inbox)' = Posted(inbox') /\ Posted(outbox)' = Posted(outbox')
    BY DEF Posted
  <2>3. Cardinality(Posted(inbox')) + Cardinality(Posted(outbox')) <= 0
    BY <2>1
  <2> QED
    BY <1>2, <2>1, <2>2, <2>3 DEF TasksCounted
<1>9. WorkOK'
  <2>1. /\ inbox' \in [Workers -> Seq(Task)]
        /\ outbox' \in [Workers -> Seq(Answered)]
    BY <1>2
  <2> QED
    BY <1>2, <1>6, <1>8, <2>1 DEF System, WorkOK
<1>10. /\ toServer' \in Seq(ClientMsg)
       /\ FetchOK'
       /\ slurpTimer' \in BOOLEAN /\ slurpDuringTransaction' \in BOOLEAN
       /\ inLayerTransaction' \in BOOLEAN
       /\ Owed' = Owed
  <2>1. CASE inLayerTransaction
    <3>1. TransactionCallback(area)
      BY <1>2, <2>1
    <3> QED
      BY <1>4, <1>5, <3>1, CallbackKeeps
  <2>2. CASE ~inLayerTransaction
    <3>1. /\ pendingTileCombineQueue' = pendingTileCombineQueue \cup area
          /\ UNCHANGED <<toServer, queuedProcessed, fetchKeyframeQueue,
                         inLayerTransaction, slurpTimer, slurpDuringTransaction>>
      BY <1>2, <2>2
    <3>2. /\ toServer' \in Seq(ClientMsg)
          /\ Owed' = Owed
      BY <3>1, AcknowledgesNothing
    <3> QED
      BY <1>4, <1>5, <3>1, <3>2 DEF FetchOK, SlurpOK
  <2> QED
    BY <2>1, <2>2
<1>11. SlurpOK'
  BY <1>2, <1>10 DEF System, SlurpOK
<1>12. DrawOK' /\ SpendsOn
  BY <1>2, <1>3, PartsSame
<1> QED
  BY <1>2, <1>3, <1>7, <1>9, <1>10, <1>11, <1>12, BrowserStep

\* A worker handles a task.
LEMMA WorkerKeeps ==
  ASSUME System, NEW w \in Workers, WorkerStep(w)
  PROVE  System'
<1> DEFINE task == Head(inbox[w])
           kept == Kept(w, task)
           bitmaps == [k \in Keys |-> Images(kept[k], task.deltas[k])]
           images == [k \in Keys |-> IF bitmaps[k] = <<>> THEN kept[k]
                                     ELSE bitmaps[k][Len(bitmaps[k])]]
           answer == [deltas |-> task.deltas, bitmaps |-> bitmaps]
<1>1. /\ inbox[w] # <<>>
      /\ inbox' = [inbox EXCEPT ![w] = Tail(@)]
      /\ \/ /\ \E partial \in [Keys -> Image] :
                 workerImages' = [workerImages EXCEPT ![w] = partial]
            /\ workerError' = TRUE
            /\ outbox' = outbox
         \/ /\ workerImages' = [workerImages EXCEPT ![w] = images]
            /\ outbox' = [outbox EXCEPT ![w] = Append(@, answer)]
            /\ workerError' = workerError
      /\ UNCHANGED <<wire, tiles, view, pendingDeltas, drawing, slurping, fetching,
                     nPendingWorkerTasks, cachedTiles, imageCache, workers,
                     bitmapPromises>>
      /\ UNCHANGED tileCache /\ UNCHANGED spent
  BY DEF WorkerStep, WorkerMessage
<1>2. /\ inbox \in [Workers -> Seq(Task)] /\ outbox \in [Workers -> Seq(Answered)]
      /\ workerImages \in [Workers -> [Keys -> Image]] /\ nPendingWorkerTasks \in Nat
      /\ workerError \in BOOLEAN
  BY DEF System, WorkOK
<1>3. inbox[w] \in Seq(Task) /\ outbox[w] \in Seq(Answered)
  BY <1>2
<1>4. task \in Task
  BY <1>1, <1>3, TailItems
<1> HIDE DEF task
<1>5. task.deltas \in [Keys -> Seq(Delta)]
  BY <1>4 DEF Task
<1>6. kept \in [Keys -> Image]
  <2>1. None \in Image
    BY WireAssumption DEF None, Image, WireId
  <2> QED
    BY <1>2, <2>1 DEF Kept
<1> HIDE DEF kept
<1>7. ASSUME NEW k \in Keys
      PROVE  bitmaps[k] \in Seq(Image) /\ Len(bitmaps[k]) = Len(task.deltas[k])
  <2>1. kept[k] \in Image /\ task.deltas[k] \in Seq(Delta)
    BY <1>5, <1>6
  <2>2. /\ Images(kept[k], task.deltas[k]) \in Seq(Image)
        /\ Len(Images(kept[k], task.deltas[k])) = Len(task.deltas[k])
    BY <2>1, ImagesType
  <2> QED
    BY <2>2
<1>8. bitmaps \in [Keys -> Seq(Image)]
  BY <1>7
<1> HIDE DEF bitmaps
<1>9. images \in [Keys -> Image]
  <2>1. ASSUME NEW k \in Keys
        PROVE  (IF bitmaps[k] = <<>> THEN kept[k] ELSE bitmaps[k][Len(bitmaps[k])]) \in Image
    <3>1. bitmaps[k] \in Seq(Image) /\ kept[k] \in Image
      BY <1>6, <1>7
    <3> QED
      BY <3>1
  <2> QED
    BY <2>1
<1> HIDE DEF images
<1>10. answer \in Answered
  BY <1>5, <1>7, <1>8 DEF Answered, Answer
<1> HIDE DEF answer
<1>11. /\ inbox' \in [Workers -> Seq(Task)]
       /\ \A v \in Workers :
            /\ Len(inbox[v]) \in Nat
            /\ Len(inbox'[v]) = IF v = w THEN Len(inbox[v]) - 1 ELSE Len(inbox[v])
       /\ Len(inbox[w]) # 0
  <2>1. /\ Tail(inbox[w]) \in Seq(Task) /\ Len(Tail(inbox[w])) = Len(inbox[w]) - 1
        /\ Len(inbox[w]) \in Nat \ {0}
    BY <1>1, <1>3, TailItems
  <2>2. \A v \in Workers : inbox'[v] = IF v = w THEN Tail(inbox[w]) ELSE inbox[v]
    BY <1>1, <1>2
  <2>3. inbox' \in [Workers -> Seq(Task)]
    BY <1>1, <1>2, <2>1
  <2> QED
    BY <1>2, <2>1, <2>2, <2>3
<1>12. /\ IsFiniteSet(Posted(inbox)) /\ IsFiniteSet(Posted(outbox))
       /\ Cardinality(Posted(inbox)) + Cardinality(Posted(outbox))
            <= nPendingWorkerTasks
  BY DEF System, WorkOK, TasksCounted
<1>13. /\ IsFiniteSet(Posted(inbox')) /\ Cardinality(Posted(inbox')) \in Nat
       /\ Cardinality(Posted(inbox)) = Cardinality(Posted(inbox')) + 1
  BY <1>11, <1>12, TakeOne
<1>14. /\ outbox' \in [Workers -> Seq(Answered)]
       /\ IsFiniteSet(Posted(outbox'))
       /\ Cardinality(Posted(outbox')) \in Nat /\ Cardinality(Posted(outbox)) \in Nat
       /\ Cardinality(Posted(outbox')) <= Cardinality(Posted(outbox)) + 1
  <2>1. CASE outbox' = outbox
    BY <1>2, <1>12, <2>1, FS_CardinalityType
  <2>2. CASE outbox' = [outbox EXCEPT ![w] = Append(@, answer)]
    <3> DEFINE B == {w}
    <3>1. /\ Append(outbox[w], answer) \in Seq(Answered)
          /\ Len(Append(outbox[w], answer)) = Len(outbox[w]) + 1
      BY <1>3, <1>10, AppendItems
    <3>2. \A v \in Workers :
            outbox'[v] = IF v = w THEN Append(outbox[w], answer) ELSE outbox[v]
      BY <1>2, <2>2
    <3>3. outbox' \in [Workers -> Seq(Answered)]
      BY <1>2, <2>2, <3>1
    <3>4. B \in SUBSET Workers /\ Cardinality(B) = 1
      BY FS_Singleton
    <3>5. \A v \in Workers :
            /\ Len(outbox[v]) \in Nat
            /\ Len(outbox'[v]) = IF v \in B THEN Len(outbox[v]) + 1 ELSE Len(outbox[v])
      <4> TAKE v \in Workers
      <4>1. Len(outbox[v]) \in Nat
        <5>1. outbox[v] \in Seq(Answered)
          BY <1>2
        <5> QED
          BY <5>1
      <4>2. CASE v = w
        BY <3>1, <3>2, <4>1, <4>2
      <4>3. CASE v # w
        <5>1. outbox'[v] = outbox[v] /\ v \notin B
          BY <3>2, <4>3
        <5> QED
          BY <4>1, <5>1
      <4> QED
        BY <4>2, <4>3
    <3> HIDE DEF B
    <3>6. /\ IsFiniteSet(Posted(outbox'))
          /\ Cardinality(Posted(outbox)) \in Nat
          /\ Cardinality(Posted(outbox')) = Cardinality(Posted(outbox)) + Cardinality(B)
      BY <1>12, <3>4, <3>5, PostAll
    <3> QED
      BY <3>3, <3>4, <3>6
  <2> QED
    BY <1>1, <2>1, <2>2
<1>15. TasksCounted'
  <2>1. Posted(inbox)' = Posted(inbox') /\ Posted(outbox)' = Posted(outbox')
    BY DEF Posted
  <2>2. Cardinality(Posted(inbox')) + Cardinality(Posted(outbox')) <= nPendingWorkerTasks
    BY <1>2, <1>12, <1>13, <1>14
  <2> QED
    BY <1>1, <1>13, <1>14, <2>1, <2>2 DEF TasksCounted
<1>16. workerImages' \in [Workers -> [Keys -> Image]] /\ workerError' \in BOOLEAN
  BY <1>1, <1>2, <1>9
<1>17. WorkOK'
  BY <1>1, <1>11, <1>14, <1>15, <1>16 DEF System, WorkOK
<1>18. UNCHANGED <<toClient, toServer>>
  BY <1>1 DEF wire
<1>19. /\ ViewOK' /\ DrawOK' /\ SlurpOK' /\ FetchOK'
       /\ UNCHANGED <<slurpQueue, queuedProcessed>> /\ SpendsOn
  BY <1>1, PartsSame
<1>20. /\ toServer' \in Seq(ClientMsg)
       /\ Owed' = Owed
  BY <1>18, <1>19, AcknowledgesNothing
<1> QED
  BY <1>1, <1>17, <1>18, <1>19, <1>20, BrowserStep

-----------------------------------------------------------------------------
(* The theorems.                                                           *)

\* The pipeline starts with the request for the first view and nothing sent.
LEMMA InitSystem ==
  ASSUME Init
  PROVE  TInv
<1>1. 0 \in WireId /\ 0 \in Image
  BY WireAssumption DEF WireId, Image
<1>2. view = FirstView /\ view \in SUBSET Keys
  BY WorkerAssumption DEF Init, ManagerInit
<1>3. WireOK /\ \A w \in WireId : Cardinality(Counted(toServer, w)) = 0
  <2> DEFINE m == Clientvisiblearea(view)
  <2>1. m \in ClientMsg /\ Silent(m)
    BY <1>2, BrowserMessages
  <2> HIDE DEF m
  <2>2. <<>> \in Seq(ClientMsg) /\ \A w \in WireId : Cardinality(Counted(<<>>, w)) = 0
    <3>1. Acknowledging(<<>>) = {}
      BY DEF Acknowledging
    <3>2. \A w \in WireId : Counted(<<>>, w) = {}
      BY <3>1 DEF Counted
    <3> QED
      BY <3>2, FS_EmptySet
  <2>3. \A w \in WireId : Cardinality(Counted(Append(<<>>, m), w)) = 0
    <3> TAKE w \in WireId
    <3>1. Cardinality(Counted(Append(<<>>, m), w))
            = Cardinality(Counted(<<>>, w)) + Counts(m, w)
      BY <2>1, <2>2, CountedAppend
    <3>2. Counts(m, w) = 0
      BY <2>1, CountsType
    <3> QED
      BY <2>2, <3>1, <3>2
  <2>4. toServer = Append(<<>>, m) /\ toServer \in Seq(ClientMsg)
    BY <2>1 DEF Init, m
  <2>5. toClient \in Seq(ServerMsg)
    BY DEF Init
  <2> QED
    BY <2>3, <2>4, <2>5 DEF WireOK
<1>4. ViewOK
  <2>1. NewTile(TRUE) \in Tile
    BY NewTileType
  <2>2. tiles = [k \in view |-> NewTile(TRUE)]
    BY DEF Init, ManagerInit
  <2>3. TilesMap(tiles)
    BY <1>2, <2>1, <2>2 DEF TilesMap
  <2>4. pendingDeltas \in [Keys -> Seq(Delta)]
    BY DEF Init, ManagerInit, NoDeltas
  <2> QED
    BY <1>2, <2>3, <2>4 DEF ViewOK
<1>5. DrawOK
  BY DEF Init, ManagerInit, DrawOK
<1>6. SlurpOK /\ slurpQueue = <<>>
  <2> DEFINE S == TileMsg \cup CanonicalMsg
  <2> HIDE DEF S
  <2>1. slurpQueue = <<>> /\ <<>> \in Seq(S)
    BY DEF Init, ManagerInit
  <2>2. /\ slurpTimer = FALSE /\ slurpDuringTransaction = FALSE
        /\ inLayerTransaction = FALSE /\ emitting = FALSE
    BY DEF Init, ManagerInit
  <2> QED
    BY <2>1, <2>2, Zenon DEF SlurpOK, S
<1>7. FetchOK /\ queuedProcessed = <<>>
  BY <1>2 DEF Init, ManagerInit, FetchOK
<1>8. WorkOK
  <2>1. NoBitmaps \in [Keys -> Image]
    BY <1>1 DEF NoBitmaps, None
  <2>2. /\ cachedTiles = {} /\ imageCache = NoBitmaps /\ nPendingWorkerTasks = 0
        /\ workers = Workers /\ inbox = [w \in Workers |-> <<>>]
        /\ outbox = [w \in Workers |-> <<>>]
        /\ workerImages = [w \in Workers |-> NoBitmaps]
        /\ workerError = FALSE /\ bitmapPromises = <<>>
    BY DEF Init, ManagerInit
  <2>3. /\ IsFiniteSet(Posted(inbox)) /\ Cardinality(Posted(inbox)) = 0
        /\ IsFiniteSet(Posted(outbox)) /\ Cardinality(Posted(outbox)) = 0
    BY <2>2, NonePosted
  <2>4. TasksCounted
    BY <2>2, <2>3 DEF TasksCounted
  <2>5. /\ inbox \in [Workers -> Seq(Task)] /\ outbox \in [Workers -> Seq(Answered)]
        /\ bitmapPromises \in Seq([Keys -> Image])
    BY <2>2
  <2>6. workerImages \in [Workers -> [Keys -> Image]]
    BY <2>1, <2>2
  <2> QED
    BY <2>1, <2>2, <2>4, <2>5, <2>6 DEF WorkOK
<1>9. CacheTypeOK /\ onFly = <<>>
  <2>1. NoTileData \in TileData
    BY <1>1 DEF NoTileData, TileData
  <2> QED
    BY <1>1, <2>1 DEF Init, CacheInit, CacheTypeOK
<1>10. SpentOK
  BY DEF Init, SpentOK
<1>11. OnFlyAccounted
  <2>1. toClient = <<>>
    BY DEF Init
  <2>2. ASSUME NEW w \in WireId
        PROVE  Cardinality(PlacesOf(onFly, w)) = 0 /\ Awaited(w) = 0
    <3>1. TilesIn(toClient, w) = {} /\ TilesIn(slurpQueue, w) = {}
      BY <1>6, <2>1 DEF TilesIn
    <3>2. PlacesOf(queuedProcessed, w) = {} /\ PlacesOf(onFly, w) = {}
      BY <1>7, <1>9 DEF PlacesOf
    <3> QED
      BY <1>3, <3>1, <3>2, FS_EmptySet DEF Awaited
  <2> QED
    BY <2>2 DEF OnFlyAccounted
<1>12. newest \in [Keys -> WireId] /\ orphaned \subseteq Keys
  BY <1>1 DEF Init, None
<1> QED
  BY <1>3, <1>4, <1>5, <1>6, <1>7, <1>8, <1>9, <1>10, <1>11, <1>12 DEF TInv, System

\* A step of the users, the browser, the workers, coolwsd or the Kit.
LEMMA StepKeeps ==
  ASSUME System, Step
  PROVE  System'
<1>1. CASE Edit
  BY <1>1, EditKeeps
<1>2. CASE CanonicalIdChange
  BY <1>2, CanonicalIdChangeKeeps
<1>3. CASE Scroll
  BY <1>3, ScrollKeeps
<1>4. CASE PreFetch
  BY <1>4, PreFetchKeeps
<1>5. CASE Blur
  BY <1>5, BlurKeeps
<1>6. CASE MainThread
  <2>1. CASE Flush
    BY <2>1, FlushKeeps
  <2>2. CASE Redraw
    BY <2>2, RedrawKeeps
  <2>3. CASE Slurp
    BY <2>3, SlurpKeeps
  <2>4. CASE Timer
    BY <2>4, TimerKeeps
  <2>5. CASE EmitTile
    BY <2>5, EmitTileKeeps
  <2>6. CASE EmitCanonical
    BY <2>6, EmitCanonicalKeeps
  <2>7. CASE EmitEnd
    BY <2>7, EmitEndKeeps
  <2>8. CASE \E w \in Workers : AnswerOf(w)
    BY <2>8, AnswerKeeps
  <2>9. CASE Promise
    BY <2>9, PromiseKeeps
  <2>10. CASE WorkersFail
    BY <2>10, WorkersFailKeeps
  <2> QED
    BY <1>6, <2>1, <2>2, <2>3, <2>4, <2>5, <2>6, <2>7, <2>8, <2>9, <2>10 DEF MainThread
<1>7. CASE Coolwsd
  BY <1>7, RequestKeeps, ProcessedKeeps, VisibleAreaKeeps DEF Coolwsd
<1>8. CASE \E w \in Workers : WorkerStep(w)
  BY <1>8, WorkerKeeps
<1>9. CASE \E k \in Keys : Render(k)
  BY <1>9, RenderKeeps
<1> QED
  BY <1>1, <1>2, <1>3, <1>4, <1>5, <1>6, <1>7, <1>8, <1>9 DEF Step, Progress

\* The newest rendering shown is a rendering.
LEMMA NewestType ==
  ASSUME newest \in [Keys -> WireId], TilesMap(tiles')
  PROVE  [k \in Keys |-> Newest(k, tiles')] \in [Keys -> WireId]
<1>1. ASSUME NEW k \in Keys
      PROVE  Newest(k, tiles') \in WireId
  <2>1. CASE k \in DOMAIN tiles' /\ tiles'[k].image > newest[k]
    <3>1. tiles'[k] \in Tile
      BY <2>1 DEF TilesMap
    <3>2. tiles'[k].image \in Image
      BY <3>1 DEF Tile
    <3>3. newest[k] \in 0..MaxWid
      BY DEF WireId
    <3>4. tiles'[k].image \in WireId
      BY <2>1, <3>2, <3>3, WireAssumption DEF Image, Broken, WireId
    <3> QED
      BY <2>1, <3>4 DEF Newest
  <2>2. CASE ~(k \in DOMAIN tiles' /\ tiles'[k].image > newest[k])
    BY <2>2 DEF Newest
  <2> QED
    BY <2>1, <2>2
<1> QED
  BY <1>1

\* Every step keeps the invariant.
LEMMA TInvKept ==
  ASSUME TInv, [Next]_vars
  PROVE  TInv'
<1>1. CASE Next
  <2>1. System'
    BY <1>1, StepKeeps DEF TInv, Next
  <2>2. TilesMap(tiles')
    BY <2>1 DEF System, ViewOK, TilesMap
  <2>3. newest' \in [Keys -> WireId]
    BY <1>1, <2>2, NewestType DEF TInv, Next
  <2>4. orphaned' \subseteq Keys
    BY <1>1 DEF TInv, Next, Orphans
  <2> QED
    BY <2>1, <2>3, <2>4 DEF TInv
<1>2. CASE UNCHANGED vars
  <2>1. UNCHANGED <<wire, browser, tileCache, spent, newest, orphaned>>
    BY <1>2 DEF vars, system
  <2>2. System
    BY DEF TInv
  <2>3. ViewOK' /\ DrawOK' /\ SlurpOK' /\ WorkOK' /\ FetchOK' /\ SpendsOn
    BY <2>1, <2>2, BrowserSame, PartsSame
  <2>4. UNCHANGED <<toClient, toServer, slurpQueue, queuedProcessed>>
    BY <2>1, <2>2, BrowserSame DEF wire
  <2>5. /\ toServer' \in Seq(ClientMsg)
        /\ Owed' = Owed
    BY <2>2, <2>4, AcknowledgesNothing
  <2>6. System'
    BY <2>1, <2>2, <2>3, <2>4, <2>5, BrowserStep
  <2> QED
    BY <2>1, <2>6 DEF TInv
<1> QED
  BY <1>1, <1>2

\* The types of the wire, of the browser, its workers and of coolwsd: a tile
\* is never found without its raw deltas, an answer of a worker has an image
\* for each delta, and the tasks of the workers are never counted below zero.
THEOREM TileTypes == Spec => []TypeOK
<1>1. Init => TInv
  BY InitSystem
<1>2. TInv /\ [Next]_vars => TInv'
  BY TInvKept
<1>3. TInv => TypeOK
  BY TInvTypes
<1> QED
  BY <1>1, <1>2, <1>3, PTL DEF Spec

\* Every tile on the fly of ClientSession has an acknowledgement of its own to
\* come, whatever the browser drops, collects or redraws in the meantime; and as
\* long as the timeout of removeOutdatedTilesOnFly took none off, every
\* acknowledgement to come is of a tile on the fly.
THEOREM TilesAccounted == Spec => []OnFlyAccounted
<1>1. Init => TInv
  BY InitSystem
<1>2. TInv /\ [Next]_vars => TInv'
  BY TInvKept
<1>3. TInv => OnFlyAccounted
  BY DEF TInv, System
<1> QED
  BY <1>1, <1>2, <1>3, PTL DEF Spec
=============================================================================

------------------------------ MODULE TileWire ------------------------------
(***************************************************************************)
(* What the browser's TileManager and coolwsd's TileCache say to each      *)
(* other over one session's WebSocket: two reliable ordered channels.      *)
(*                                                                         *)
(* A tile is known by its key (position, zoom, part and mode).  A wireId   *)
(* is the number the Kit gives to each rendering, so it also stands for    *)
(* what was rendered: the pixels that rendering to drew.  A keyframe holds *)
(* those pixels, a delta turns the pixels of rendering from into those of  *)
(* rendering to.                                                           *)
(***************************************************************************)
EXTENDS Integers, Sequences, FiniteSets

CONSTANTS
    Keys,     \* the tiles of the document
    MaxWid    \* bound on the number of renderings

ASSUME WireAssumption == IsFiniteSet(Keys) /\ MaxWid \in Nat

WireId == 0..MaxWid

VARIABLES
    toClient,    \* messages of coolwsd on their way to the browser
    toServer     \* messages of the browser on their way to coolwsd

wire == <<toClient, toServer>>

TileMsg == [type : {"tile"}, key : Keys, isKeyframe : BOOLEAN,
            from : WireId, to : WireId]
InvalidateMsg == [type : {"invalidatetiles"}, key : Keys, wid : WireId]
CanonicalMsg == [type : {"canonicalidchange"}]
ServerMsg == TileMsg \cup InvalidateMsg \cup CanonicalMsg

TileCombineMsg == [type : {"tilecombine"}, keys : SUBSET Keys,
                   oldwid : [Keys -> WireId]]
ProcessedMsg == [type : {"tileprocessed"}, wids : Seq(WireId)]
VisibleAreaMsg == [type : {"clientvisiblearea"}, keys : SUBSET Keys]
ClientMsg == TileCombineMsg \cup ProcessedMsg \cup VisibleAreaMsg

Invalidatetiles(k, w) == [type |-> "invalidatetiles", key |-> k, wid |-> w]
Canonicalidchange == [type |-> "canonicalidchange"]
Tilecombine(S, old) ==
    [type |-> "tilecombine", keys |-> S,
     oldwid |-> [k \in Keys |-> IF k \in S THEN old[k] ELSE 0]]
Tileprocessed(wids) == [type |-> "tileprocessed", wids |-> wids]
Clientvisiblearea(S) == [type |-> "clientvisiblearea", keys |-> S]
=============================================================================

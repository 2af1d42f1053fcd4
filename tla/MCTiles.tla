------------------------------- MODULE MCTiles -------------------------------
(***************************************************************************)
(* Instances of the tile pipeline small enough for TLC.  One worker, since *)
(* tiles share nothing but the transaction they arrive in; a limit of one  *)
(* tile on the fly, so that requests do wait.                              *)
(***************************************************************************)
EXTENDS TilePipeline

CONSTANTS keyA, keyB, wkr

OneWorker == [k \in Keys |-> wkr]

NoInterference == [i \in Interference |-> 0]

\* A visible tile is edited, invalidated and redrawn, and loses its bitmap; the
\* server waits too long for acknowledgements.
VisibleBudget ==
    [NoInterference EXCEPT !["edits"] = 2, !["blurs"] = 1, !["redraws"] = 1,
                           !["stalls"] = 1]

\* A tile is prefetched, collected and scrolled into view; its worker fails.
HiddenBudget ==
    [NoInterference EXCEPT !["edits"] = 2, !["prefetches"] = 2, !["scrolls"] = 1,
                           !["reclaims"] = 1, !["keyframes"] = 1]

\* A visible and a prefetched tile, edited.
SettleBudget ==
    [NoInterference EXCEPT !["edits"] = 2, !["prefetches"] = 1]

\* What is enough for one disagreement.
RedrawBudget == [NoInterference EXCEPT !["edits"] = 1, !["redraws"] = 1]
=============================================================================

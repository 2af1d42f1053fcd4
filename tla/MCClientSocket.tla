--------------------------- MODULE MCClientSocket ---------------------------
(***************************************************************************)
(* Instances of the client's connection small enough for TLC.  A behaviour *)
(* meets a few kinds of interference, in every combination and order.  The *)
(* queue holds one message and an unloading document is tried twice, so    *)
(* that both limits are met.                                               *)
(***************************************************************************)
EXTENDS ClientSocket

\* Inputs, lost and refused connections and idle documents may come twice.
ReconnectBudget ==
    [i \in Interference |->
       IF i \in {"inputs", "losses", "unloadings", "idles"} THEN 2 ELSE 1]

\* What is enough for one disagreement.
IdleBudget == [i \in Interference |-> IF i = "idles" THEN 1 ELSE 0]
=============================================================================

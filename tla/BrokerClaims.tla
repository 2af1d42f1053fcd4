---------------------------- MODULE BrokerClaims ----------------------------
(***************************************************************************)
(* What comments and assertions of the broker say of it, where the model   *)
(* of the code does otherwise.                                             *)
(***************************************************************************)
EXTENDS BrokerHistory

\* removeSession, of the last session: "Don't destroy just yet, wait until
\* save and upload are done."  So a document that is unloaded, without an
\* alarm, for want of clients has the result of its last save.
UnloadWaitsForSave ==
    (/\ broker.phase = "done" /\ ~broker.dataLoss
     /\ seen \subseteq {"savingAtExit"})
      => storage = edits
=============================================================================

-------------------------- MODULE MCDocumentBroker --------------------------
(***************************************************************************)
(* Instances of the broker small enough for TLC.  A budget names what the  *)
(* clients may ask for and what may go wrong; everything else is 0.        *)
(***************************************************************************)
EXTENDS BrokerClaims

NoInput == [i \in Input |-> 0]

\* Two clients come, edit, save and go; a connection to the host may fail, and
\* the document may be idle.
SessionBudget ==
    [NoInput EXCEPT !["joins"] = 1, !["leaves"] = 2, !["edits"] = 1,
                    !["saves"] = 1, !["idles"] = 1, !["uploadFaults"] = 1]

\* One client's edits meet a host that fails in every way, twice, while the
\* document may be closed.
UploadBudget ==
    [NoInput EXCEPT !["leaves"] = 1, !["edits"] = 2, !["uploadFaults"] = 2,
                    !["infoFaults"] = 1, !["closes"] = 1]

\* Renames and exports race with saves and uploads.
RenameBudget ==
    [NoInput EXCEPT !["leaves"] = 1, !["edits"] = 2, !["renames"] = 1,
                    !["saveAs"] = 1, !["forced"] = 1]

\* The Kit fails to save or dies while the document is used or left; timeouts
\* race with the answers they wait for.
KitBudget ==
    [NoInput EXCEPT !["leaves"] = 1, !["edits"] = 2, !["saveFaults"] = 1,
                    !["crashes"] = 1, !["timeouts"] = 1]

\* Clients come and go, the document is closed, and as many connections fail as
\* limit_store_failures allows.
UnloadBudget ==
    [NoInput EXCEPT !["joins"] = 1, !["leaves"] = 2, !["edits"] = 1,
                    !["closes"] = 1, !["uploadFaults"] = 2]

\* What is enough for one disagreement.
TwoEditsBudget == [NoInput EXCEPT !["leaves"] = 1, !["edits"] = 2, !["saves"] = 1]
=============================================================================

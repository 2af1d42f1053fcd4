---------------------------- MODULE DocumentStore ----------------------------
(***************************************************************************)
(* What a document session promises its users, whatever happens between    *)
(* the browser, the Kit and the host: the Storage never goes back to an    *)
(* older version, it never holds a version that nobody wrote, and a        *)
(* session that ends without an alarm has every edit in the Storage.       *)
(***************************************************************************)
EXTENDS Naturals

VARIABLES latest,   \* the edits accepted so far
          stored,   \* the edits in the Storage
          session   \* "open", "closed", or "alarmed": closed with an alarm

storeVars == <<latest, stored, session>>

StoreInit == latest = 0 /\ stored = 0 /\ session = "open"

\* A client's edit is accepted.
Accept ==
    /\ session = "open"
    /\ latest' = latest + 1
    /\ UNCHANGED <<stored, session>>

\* A newer version reaches the Storage.
Store ==
    /\ session = "open"
    /\ stored' \in stored..latest
    /\ UNCHANGED <<latest, session>>

Close ==
    /\ session = "open"
    /\ session' = IF stored = latest THEN "closed" ELSE "alarmed"
    /\ UNCHANGED <<latest, stored>>

\* The alarm may also be a false one.
Alarm ==
    /\ session = "open"
    /\ session' = "alarmed"
    /\ UNCHANGED <<latest, stored>>

StoreNext == Accept \/ Store \/ Close \/ Alarm

StoreSpec == StoreInit /\ [][StoreNext]_storeVars
=============================================================================

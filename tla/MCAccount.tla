----------------------------- MODULE MCAccount ------------------------------
(***************************************************************************)
(* The browser's side of AccountState, for model checking. A behaviour is  *)
(* about one of two meetings, which the initial state chooses. In one a    *)
(* fetch and a payload of the bridge land in any order, with capture times *)
(* of their own. In the other a payload is ingested, invalidated or dumped *)
(* and a watchdog reuses a block, while an editor resets the account.      *)
(***************************************************************************)
EXTENDS AccountState

VARIABLE part      \* which of the two: "ingest" or "dump"

AccountInit == part \in {"ingest", "dump"} /\ Init

\* No reset, and no error.
IngestMoves ==
    /\ part = "ingest"
    /\ (\E p \in Fetchers : Fetch(p)) \/ (\E p \in Bridges : Ingest(p))
    /\ UNCHANGED <<part, fails>>

\* No fetch, and all payloads are captured at the same time.
DumpMoves ==
    /\ part = "dump"
    /\ \/ \E p \in Bridges : Ingest(p)
       \/ \E p \in Watchdogs : Watch(p)
       \/ \E p \in Editors : Edit(p)
    /\ UNCHANGED <<part, clock>>

AccountNext == IngestMoves \/ DumpMoves

=============================================================================

----------------------------- MODULE UsageStore -----------------------------
(***************************************************************************)
(* The usage records that codex_usage keeps per account, and the pure      *)
(* decisions state.py, scheduler.py and bridge.py take about them.         *)
(*                                                                         *)
(* The three files of one account are current/<id>.json,                   *)
(* snapshots/<id>.json and debug/<id>-last-ingest.json.  A record keeps    *)
(* only what the decisions look at: when it was captured, the generation   *)
(* it is tagged with, which backend produced it, whether it carries an     *)
(* error, and where its contents come from.  Contents are modelled by      *)
(* their origins: the reset epoch in which they were fetched and the       *)
(* version of the account configuration that was used to fetch them.       *)
(***************************************************************************)
EXTENDS Naturals

CONSTANTS NoFile,       \* a file that does not exist
          NoTag         \* AccountUsage.state_generation is None

Cached == {"snap", "cur"}            \* files read back by _load_usage
Files  == Cached \cup {"dbg"}

Authenticated == {"direct", "app-server", "fallback"}
Backends      == Authenticated \cup {"browser"}

Origin == [ep : Nat, cv : Nat]

\* limits: the usage windows and pools; aux: usage_resets, the backend
\* identity and the auth timestamps.  ok: status is not ERROR;
\* inv: cache_invalidated.  NoTag is a state_generation of None.
Usage == [cap : Nat, tag : Nat \cup {NoTag}, limits : SUBSET Origin,
          aux : SUBSET Origin, ok : BOOLEAN, inv : BOOLEAN, be : Backends]

\* _backend_capture_priority: a configured authenticated backend beats the
\* direct fallback of app-server, which beats the browser.
BackendCapturePriority(u) ==
  CASE u.be = "browser"  -> 0
    [] u.be = "fallback" -> 1
    [] OTHER             -> 2

\* backend_provenance_matches, for records whose provenance is complete: an
\* app-server account and its proven direct fallback may be merged.
ProvenanceMatches(u, v) ==
  u.be = v.be \/ {u.be, v.be} = {"app-server", "fallback"}

\* _equal_capture_prefers_existing, for two captures of the same instant.
EqualCapturePrefersExisting(existing, incoming) ==
  /\ existing.cap = incoming.cap
  /\ \/ BackendCapturePriority(existing) > BackendCapturePriority(incoming)
     \/ /\ BackendCapturePriority(existing) = BackendCapturePriority(incoming)
        /\ ~ProvenanceMatches(existing, incoming)

\* _authoritative_empty_limits: this record says there are no limits.
AuthoritativeEmptyLimits(u) ==
  u.limits = {} /\ (u.inv \/ u.be \in Authenticated)

\* _usage_after_state_generation_failure: the windows and pools are dropped,
\* everything else of the fetched record is kept and no generation is set.
UsageAfterStateGenerationFailure(u) ==
  [cap |-> u.cap, tag |-> NoTag, limits |-> {}, aux |-> u.aux, ok |-> FALSE,
   inv |-> TRUE, be |-> u.be]

\* The ERROR record _fetch_one builds when fetching raises.
FailedFetch(be, t) ==
  [cap |-> t, tag |-> NoTag, limits |-> {}, aux |-> {}, ok |-> FALSE,
   inv |-> TRUE, be |-> be]

\* _invalidate_cached_usage on behalf of a browser account, tagged with the
\* given generation: windows and identity go, the reset counters and timestamps
\* stay.
InvalidateCachedUsage(u, gen) ==
  [cap |-> u.cap, tag |-> gen, limits |-> {}, aux |-> u.aux, ok |-> TRUE,
   inv |-> TRUE, be |-> "browser"]

\* _load_usage: a record tagged with another generation is not there.
LoadUsage(content, gen) ==
  IF content # NoFile /\ content.tag = gen THEN content ELSE NoFile

\* What merging the last success into an incoming record may yield: windows
\* missing from the new record are restored from the old one.
MergedLimits(u, existing) ==
  IF /\ existing # NoFile
     /\ ProvenanceMatches(existing, u)
     /\ ~AuthoritativeEmptyLimits(u)
  THEN {u.limits, u.limits \cup existing.limits}
  ELSE {u.limits}

\* Mutants of SaveUsage: the record's generation is not compared, or the
\* capture times are not.
SaveUsageOfAnyGeneration(old, u, gen, preserve) ==
  {[u EXCEPT !.tag = gen]}

SaveUsageInAnyOrder(old, u, gen, preserve) ==
  IF u.tag # NoTag /\ u.tag # gen THEN {old} ELSE {[u EXCEPT !.tag = gen]}

\* _save_usage: the set of contents a file may have after saving u over old.
\* A record of another generation is dropped, an untagged one adopts the
\* current generation, and an older capture never replaces a newer one.
SaveUsage(old, u, gen, preserve) ==
  LET existing == LoadUsage(old, gen)
      limits   == IF preserve THEN MergedLimits(u, existing) ELSE {u.limits}
  IN  IF \/ u.tag # NoTag /\ u.tag # gen
         \/ /\ existing # NoFile
            /\ \/ existing.cap > u.cap
               \/ EqualCapturePrefersExisting(existing, u)
      THEN {old}
      ELSE {[u EXCEPT !.tag = gen, !.limits = l] : l \in limits}

\* _newest_known_usage: the more recent of snapshot and current.
NewestKnownUsage(snapshot, current) ==
  IF snapshot = NoFile THEN current
  ELSE IF current = NoFile \/ snapshot.cap > current.cap THEN snapshot
  ELSE current

\* _browser_payload_is_covered_by_authenticated_state for one known record.
CoveredBy(known, u, window) ==
  /\ known # NoFile
  /\ known.be \in Authenticated
  /\ known.ok
  /\ known.cap <= u.cap
  /\ u.cap <= known.cap + window
=============================================================================

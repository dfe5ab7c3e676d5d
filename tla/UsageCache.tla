----------------------------- MODULE UsageCache -----------------------------
(***************************************************************************)
(* What the usage state of one account promises to whoever takes the lock: *)
(* two cached records, each only ever replaced by a record that is not     *)
(* older and whose limits were fetched since the last reset, and a reset   *)
(* that happens at once or not at all (a failed one may lose records, but  *)
(* never shows one in part or brings one back).  AccountState implements   *)
(* it with three files, a generation number and a rename transaction.      *)
(***************************************************************************)
EXTENDS UsageStore

VARIABLES view,     \* the record _load_usage returns for each cached file
          since     \* the reset the account lives after, 0 before the first

cacheVars == <<view, since>>

FetchedSince(u, e) == \A o \in u.limits : o.ep = e

CacheInit ==
  /\ view = [f \in Cached |-> NoFile]
  /\ since = 0

Save(f) ==
  /\ view'[f] # NoFile
  /\ FetchedSince(view'[f], since)
  /\ view[f] # NoFile => view'[f].cap >= view[f].cap
  /\ view' = [view EXCEPT ![f] = view'[f]]
  /\ UNCHANGED since

Reset ==
  /\ view' = [f \in Cached |-> NoFile]
  /\ since' > since

Lose ==
  /\ \E kept \in SUBSET Cached :
       view' = [f \in Cached |-> IF f \in kept THEN view[f] ELSE NoFile]
  /\ UNCHANGED since

CacheNext == (\E f \in Cached : Save(f)) \/ Reset \/ Lose

CacheSpec == CacheInit /\ [][CacheNext]_cacheVars
=============================================================================

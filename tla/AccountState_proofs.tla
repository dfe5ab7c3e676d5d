------------------------- MODULE AccountState_proofs -------------------------
(***************************************************************************)
(* Proofs about AccountState for every number of processes, resets, crashes*)
(* and I/O errors.                                                         *)
(***************************************************************************)
EXTENDS AccountState, TLAPS

-----------------------------------------------------------------------------
\* The pure decisions of UsageStore.

\* _load_usage returns the content of the file or nothing, and only content
\* of the generation it was asked for.
LEMMA LoadUsageResult ==
  ASSUME NEW c \in Contents, NEW g
  PROVE  /\ LoadUsage(c, g) \in Contents
         /\ LoadUsage(c, g) # NoFile =>
              LoadUsage(c, g) = c /\ c \in Usage /\ c.tag = g
  BY DEF LoadUsage, Contents

\* _newest_known_usage returns one of its two arguments.
LEMMA NewestKnownUsageResult ==
  ASSUME NEW s, NEW c
  PROVE  NewestKnownUsage(s, c) \in {s, c}
  BY DEF NewestKnownUsage

\* _save_usage keeps the old content, or stores the record under the current
\* generation: the record was untagged or of that generation, is not older than
\* what a load returned before, and its limits are its own and those.
LEMMA SaveUsageResult ==
  ASSUME NEW old \in Contents, NEW u \in Usage, NEW g \in Nat,
         NEW preserve \in BOOLEAN, NEW c \in SaveUsage(old, u, g, preserve)
  PROVE  /\ c \in Contents
         /\ c # old =>
              /\ c \in Usage
              /\ c.tag = g
              /\ u.tag \in {NoTag, g}
              /\ LoadUsage(old, g) # NoFile => c.cap >= old.cap
              /\ \/ c.limits = u.limits
                 \/ /\ LoadUsage(old, g) # NoFile
                    /\ c.limits = u.limits \cup old.limits
<1> DEFINE existing == LoadUsage(old, g)
<1>1. existing \in Contents /\ (existing # NoFile => existing = old /\ old \in Usage)
  BY LoadUsageResult
<1>2. CASE c = old
  BY <1>2
<1>3. CASE c # old
  <2>1. /\ u.tag = NoTag \/ u.tag = g
        /\ existing # NoFile => ~(existing.cap > u.cap)
        /\ \E l \in (IF preserve THEN MergedLimits(u, existing) ELSE {u.limits}) :
             c = [u EXCEPT !.tag = g, !.limits = l]
    BY <1>3 DEF SaveUsage
  <2>2. PICK l \in (IF preserve THEN MergedLimits(u, existing) ELSE {u.limits}) :
          c = [u EXCEPT !.tag = g, !.limits = l]
    BY <2>1
  <2>3. \/ l = u.limits
        \/ existing # NoFile /\ l = u.limits \cup existing.limits
    BY <2>2 DEF MergedLimits
  <2>4. l \in SUBSET Origin
    BY <2>3, <1>1 DEF Usage
  <2>5. c \in Usage /\ c.tag = g /\ c.cap = u.cap /\ c.limits = l
    BY <2>2, <2>4 DEF Usage
  <2>6. existing # NoFile => c.cap >= old.cap
    BY <2>1, <2>5, <1>1 DEF Usage
  <2> QED
    BY <2>1, <2>3, <2>5, <2>6, <1>1 DEF Contents
<1> QED
  BY <1>2, <1>3

\* What the constructors of records return.
LEMMA GenerationFailureType ==
  ASSUME NEW u \in Usage
  PROVE  UsageAfterStateGenerationFailure(u) \in Usage
  BY DEF UsageAfterStateGenerationFailure, Usage

\* The record a rejected browser payload leaves behind.
LEMMA InvalidatedType ==
  ASSUME NEW u \in Usage, NEW g \in Nat
  PROVE  InvalidateCachedUsage(u, g) \in Usage
  BY DEF InvalidateCachedUsage, Usage, Backends

\* The record of a fetch that raised.
LEMMA FailedFetchType ==
  ASSUME NEW t \in Nat, NEW be \in Backends
  PROVE  FailedFetch(be, t) \in Usage
  BY DEF FailedFetch, Usage

-----------------------------------------------------------------------------
\* Types

\* A save leaves contents in the file it writes and nothing else changes.
LEMMA WriteType ==
  ASSUME TypeOK, NEW f \in Cached, NEW u \in Usage, NEW preserve \in BOOLEAN,
         Write(f, u, preserve)
  PROVE  file' \in [Files -> Contents] /\ UNCHANGED <<gen, epoch, epochs>>
<1>1. PICK content \in SaveUsage(file[f], u, gen, preserve) :
        file' = [file EXCEPT ![f] = content]
  BY DEF Write
<1>2. file[f] \in Contents /\ gen \in Nat /\ file \in [Files -> Contents]
  BY DEF TypeOK, Files
<1>3. content \in Contents
  BY <1>2, SaveUsageResult
<1> QED
  BY <1>1, <1>2, <1>3 DEF Write

\* Every step of a fetcher keeps the types.
LEMMA FetchTypes ==
  ASSUME TypeOK, InHand, NEW p \in Fetchers, Fetch(p)
  PROVE  TypeOK' /\ InHand'
<1> USE DEF TypeOK, InHand, Goto, Set, store, txn, locals
<1>a. p \in Procs
  BY DEF Procs
<1>b. NoFile \in Contents /\ 0 \in Nat
  BY DEF Contents
<1>c. pc[p] \in {"check", "stabilize", "lock", "save_current",
                 "save_snapshot"} => usage[p] \in Usage
  BY <1>a DEF Contents
<1>d. "idle" \in Labels /\ pc[p] \in Labels
  BY <1>a DEF Labels
<1>1. CASE FetchStart(p)
  BY <1>a, <1>1 DEF FetchStart, Labels, Known
<1>2. CASE FetchReadGeneration(p)
  <2>1. CASE Goto(p, "gen", "fetch") /\ UNCHANGED usage
    BY <1>a, <1>2, <2>1 DEF FetchReadGeneration, Return, Labels, Known
  <2>2. CASE Return(p, "gen")
    BY <1>a, <1>b, <1>d, <1>2, <2>2 DEF FetchReadGeneration, Return, Known
  <2> QED
    BY <1>2, <2>1, <2>2 DEF FetchReadGeneration
<1>3. CASE FetchOne(p)
  <2>1. clock' \in Nat
    BY <1>3 DEF FetchOne
  <2>2. PICK be \in FetchBackends :
          \/ usage' = Set(usage, p, FailedFetch(be, clock'))
          \/ \E limits \in {{}, Provenance(p)} :
               usage' = Set(usage, p,
                 [cap |-> clock', tag |-> NoTag, limits |-> limits,
                  aux |-> Provenance(p), ok |-> TRUE, inv |-> FALSE,
                  be |-> be])
    BY <1>3 DEF FetchOne
  <2>3. Provenance(p) \in SUBSET Origin /\ {} \in SUBSET Origin
    BY <1>a DEF Provenance, Origin
  <2>4. be \in Backends
    BY BackendsAssumption
  <2>5. PICK u \in Usage : usage' = [usage EXCEPT ![p] = u]
    <3>1. CASE usage' = Set(usage, p, FailedFetch(be, clock'))
      BY <2>1, <2>4, <3>1, FailedFetchType
    <3>2. CASE usage' # Set(usage, p, FailedFetch(be, clock'))
      <4>1. PICK limits \in {{}, Provenance(p)} :
               usage' = Set(usage, p,
                 [cap |-> clock', tag |-> NoTag, limits |-> limits,
                  aux |-> Provenance(p), ok |-> TRUE, inv |-> FALSE,
                  be |-> be])
        BY <2>2, <3>2
      <4>2. [cap |-> clock', tag |-> NoTag, limits |-> limits,
             aux |-> Provenance(p), ok |-> TRUE, inv |-> FALSE,
             be |-> be] \in Usage
        BY <2>1, <2>3, <2>4 DEF Usage
      <4> QED
        BY <4>1, <4>2
    <3> QED
      BY <3>1, <3>2
  <2> QED
    BY <1>a, <1>3, <2>1, <2>5, FilesAssumption
    DEF FetchOne, Labels, Known, Contents
<1>4. CASE FetchCheckGeneration(p)
  <2>1. usage[p] \in Usage
    BY <1>c, <1>4 DEF FetchCheckGeneration
  <2>2. [usage[p] EXCEPT !.tag = g0[p]] \in Usage
    BY <1>a, <2>1 DEF Usage
  <2>3. PICK u \in Usage : usage' = [usage EXCEPT ![p] = u]
    BY <1>4, <2>1, <2>2, GenerationFailureType DEF FetchCheckGeneration
  <2> QED
    BY <1>a, <1>4, <2>3, FilesAssumption
    DEF FetchCheckGeneration, Labels, Known, Contents
<1>5. CASE FetchStabilize(p)
  <2> DEFINE previous == LoadUsage(file["snap"], gen)
  <2>1. usage[p] \in Usage
    BY <1>c, <1>5 DEF FetchStabilize
  <2>2. previous \in Contents
    BY LoadUsageResult DEF Files, Cached
  <2>3. previous # NoFile =>
          [usage[p] EXCEPT !.limits = @ \cup previous.limits] \in Usage
    BY <2>1, <2>2 DEF Usage, Contents
  <2>4. PICK u \in Usage : usage' = [usage EXCEPT ![p] = u]
    <3>1. CASE UNCHANGED usage
      BY <1>a, <2>1, <3>1
    <3>2. CASE ~ UNCHANGED usage
      BY <1>5, <2>3, <3>2 DEF FetchStabilize
    <3> QED
      BY <3>1, <3>2
  <2> QED
    BY <1>a, <1>5, <2>4, FilesAssumption
    DEF FetchStabilize, Labels, Known, Contents
<1>6. CASE FetchLock(p)
  <2>1. CASE Goto(p, "lock", "save_current") /\ UNCHANGED locals
    BY <1>a, <1>6, <2>1 DEF FetchLock, Labels, Known
  <2>2. CASE Return(p, "lock")
    BY <1>a, <1>b, <1>d, <1>6, <2>2 DEF FetchLock, Return, Known
  <2> QED
    BY <1>6, <2>1, <2>2 DEF FetchLock
<1>7. CASE FetchSaveCurrent(p)
  <2>1. usage[p] \in Usage
    BY <1>c, <1>7 DEF FetchSaveCurrent
  <2>2. CASE Write("cur", usage[p], FALSE) /\ UNCHANGED fails
    <3>1. file' \in [Files -> Contents] /\ UNCHANGED <<gen, epoch, epochs>>
      BY <2>1, <2>2, WriteType DEF Cached
    <3> QED
      BY <1>a, <1>7, <2>2, <3>1
      DEF FetchSaveCurrent, Labels, Known
  <2>3. CASE Fault /\ UNCHANGED store
    <3>1. fails' \in Nat
      BY <2>3 DEF Fault
    <3> QED
      BY <1>a, <1>7, <2>3, <3>1 DEF FetchSaveCurrent, Labels, Known
  <2> QED
    BY <1>7, <2>2, <2>3 DEF FetchSaveCurrent
<1>8. CASE FetchSaveSnapshot(p)
  <2>0. fails \in Nat /\ (Fault => fails' \in Nat)
    BY DEF Fault
  <2>1. usage[p] \in Usage
    BY <1>c, <1>8 DEF FetchSaveSnapshot
  <2>2. CASE Write("snap", usage[p], TRUE) /\ UNCHANGED fails
    <3>1. file' \in [Files -> Contents] /\ UNCHANGED <<gen, epoch, epochs>>
      BY <2>1, <2>2, WriteType DEF Cached
    <3> QED
      BY <1>a, <1>8, <2>2, <3>1
      DEF FetchSaveSnapshot, Labels, Known
  <2>3. CASE UNCHANGED store /\ fails' \in Nat
    BY <1>a, <1>8, <2>3 DEF FetchSaveSnapshot, Labels, Known
  <2> QED
    BY <1>8, <2>0, <2>2, <2>3 DEF FetchSaveSnapshot
<1>9. CASE FetchUnlock(p)
  <2>1. CASE Goto(p, "unlock", "gen") /\ UNCHANGED <<acct, seen, seenCur>>
             /\ usage' = Set(usage, p, NoFile) /\ g0' = Set(g0, p, 0)
    BY <1>a, <1>b, <1>9, <2>1 DEF FetchUnlock, Labels, Known
  <2>2. CASE Return(p, "unlock")
    BY <1>a, <1>b, <1>d, <1>9, <2>2 DEF FetchUnlock, Return, Known
  <2> QED
    BY <1>9, <2>1, <2>2 DEF FetchUnlock
<1> QED
  BY <1>1, <1>2, <1>3, <1>4, <1>5, <1>6, <1>7, <1>8, <1>9 DEF Fetch

\* Every step of the browser bridge keeps the types.
LEMMA IngestTypes ==
  ASSUME TypeOK, InHand, NEW p \in Bridges, Ingest(p)
  PROVE  TypeOK' /\ InHand'
<1> USE DEF TypeOK, InHand, Goto, Set, store, txn, locals
<1>a. p \in Procs
  BY DEF Procs
<1>b. NoFile \in Contents /\ 0 \in Nat
  BY DEF Contents
<1>c. pc[p] \in {"load_snapshot", "load_current", "decide", "invalidate",
                 "ingest_snapshot", "ingest_current", "debug"}
        => usage[p] \in Usage
  BY <1>a DEF Contents
<1>d. "idle" \in Labels /\ pc[p] \in Labels
  BY <1>a DEF Labels
<1>0. CASE BridgeAuthorize(p)
  BY <1>a, <1>0 DEF BridgeAuthorize, Labels, Known
<1>1. CASE BridgeReceive(p) /\ Goto(p, "receive", "load_snapshot")
  <2>0. PICK t \in 0..clock', limits \in {{}, Provenance(p)} :
          usage' = Set(usage, p,
            [cap |-> t, tag |-> gen, limits |-> limits, aux |-> Provenance(p),
             ok |-> TRUE, inv |-> FALSE, be |-> "browser"])
    BY <1>a, <1>1 DEF BridgeReceive, Return
  <2> DEFINE u == [cap |-> t, tag |-> gen, limits |-> limits,
                   aux |-> Provenance(p), ok |-> TRUE, inv |-> FALSE,
                   be |-> "browser"]
  <2>1. g0' = Set(g0, p, gen) /\ UNCHANGED <<acct, seen, seenCur>>
        /\ clock' \in 0..MaxClock
    BY <1>a, <1>1 DEF BridgeReceive, Return
  <2>2. clock' \in Nat /\ t \in Nat
    BY <2>1, BoundsAssumption
  <2>3. Provenance(p) \in SUBSET Origin /\ limits \in SUBSET Origin
    BY <1>a DEF Origin, Provenance
  <2>4. u \in Usage /\ usage' = [usage EXCEPT ![p] = u]
    BY <2>0, <2>2, <2>3 DEF Usage, Backends
  <2> HIDE DEF u
  <2> QED
    BY <1>a, <1>1, <2>1, <2>2, <2>4, FilesAssumption
    DEF BridgeReceive, Labels, Known, Contents
<1>r. CASE BridgeReceive(p) /\ ~Goto(p, "receive", "load_snapshot")
  <2>1. Return(p, "receive")
    BY <1>r DEF BridgeReceive
  <2> QED
    BY <1>a, <1>b, <1>d, <1>r, <2>1 DEF BridgeReceive, Return, Known
<1>2. CASE BridgeLoadSnapshot(p)
  <2>1. LoadUsage(file["snap"], gen) \in Contents
    BY LoadUsageResult DEF Files, Cached
  <2> QED
    BY <1>a, <1>2, <2>1 DEF BridgeLoadSnapshot, Labels, Known
<1>3. CASE BridgeLoadCurrent(p)
  <2>1. LoadUsage(file["cur"], gen) \in Contents
    BY LoadUsageResult DEF Files, Cached
  <2> QED
    BY <1>a, <1>3, <2>1 DEF BridgeLoadCurrent, Labels, Known
<1>4. CASE BridgeDecide(p)
  <2>1. CASE Goto(p, "decide", "ingest_snapshot") /\ UNCHANGED locals
    BY <1>a, <1>4, <2>1 DEF BridgeDecide, Labels, Known
  <2>2. CASE Return(p, "decide")
    BY <1>a, <1>b, <1>d, <1>4, <2>2 DEF BridgeDecide, Return, Known
  <2>3. CASE Goto(p, "decide", "invalidate") /\ UNCHANGED locals
             /\ Known(p) # NoFile
    BY <1>a, <1>4, <2>3 DEF BridgeDecide, Labels, Known
  <2> QED
    BY <1>4, <2>1, <2>2, <2>3 DEF BridgeDecide
<1>5. CASE BridgeInvalidate(p)
  <2>1. Known(p) \in Usage
    BY <1>a, <1>5, NewestKnownUsageResult DEF BridgeInvalidate, Known, Contents
  <2>2. InvalidateCachedUsage(Known(p), gen) \in Usage
    BY <2>1, InvalidatedType
  <2> QED
    BY <1>a, <1>5, <2>2, FilesAssumption
    DEF BridgeInvalidate, Labels, Known, Contents
<1>6. CASE BridgeSaveSnapshot(p)
  <2>0. fails \in Nat /\ (Fault => fails' \in Nat)
    BY DEF Fault
  <2>1. CASE Goto(p, "ingest_snapshot", "ingest_current")
             /\ Write("snap", usage[p], TRUE) /\ UNCHANGED <<locals, fails>>
    <3>1. file' \in [Files -> Contents] /\ UNCHANGED <<gen, epoch, epochs>>
      BY <1>c, <2>1, WriteType DEF Cached
    <3> QED
      BY <1>a, <1>6, <2>1, <3>1 DEF BridgeSaveSnapshot, Labels, Known
  <2>2. CASE Return(p, "ingest_snapshot") /\ fails' \in Nat /\ UNCHANGED store
    BY <1>a, <1>b, <1>d, <1>6, <2>2 DEF BridgeSaveSnapshot, Return, Known
  <2> QED
    BY <1>6, <2>0, <2>1, <2>2 DEF BridgeSaveSnapshot
<1>7. CASE BridgeSaveCurrent(p)
  <2>0. fails \in Nat /\ (Fault => fails' \in Nat)
    BY DEF Fault
  <2>1. CASE Goto(p, "ingest_current", "debug")
             /\ Write("cur", usage[p], FALSE) /\ UNCHANGED <<locals, fails>>
    <3>1. file' \in [Files -> Contents] /\ UNCHANGED <<gen, epoch, epochs>>
      BY <1>c, <2>1, WriteType DEF Cached
    <3> QED
      BY <1>a, <1>7, <2>1, <3>1 DEF BridgeSaveCurrent, Labels, Known
  <2>2. CASE Return(p, "ingest_current") /\ fails' \in Nat /\ UNCHANGED store
    BY <1>a, <1>b, <1>d, <1>7, <2>2 DEF BridgeSaveCurrent, Return, Known
  <2> QED
    BY <1>7, <2>0, <2>1, <2>2 DEF BridgeSaveCurrent
<1>8. CASE BridgeDebug(p)
  <2>1. usage[p] \in Contents
    BY <1>a
  <2>2. file' \in [Files -> Contents] /\ UNCHANGED <<gen, epoch, epochs>>
    BY <1>8, <2>1 DEF BridgeDebug
  <2> QED
    BY <1>a, <1>b, <1>d, <1>8, <2>2 DEF BridgeDebug, Return, Known
<1> QED
  BY <1>0, <1>1, <1>r, <1>2, <1>3, <1>4, <1>5, <1>6, <1>7, <1>8 DEF Ingest

\* Every step of the watchdog keeps the types.
LEMMA WatchTypes ==
  ASSUME TypeOK, InHand, NEW p \in Watchdogs, Watch(p)
  PROVE  TypeOK' /\ InHand'
<1> USE DEF TypeOK, InHand, Goto, Set, store, txn, locals
<1>a. p \in Procs
  BY DEF Procs
<1>b. NoFile \in Contents /\ 0 \in Nat
  BY DEF Contents
<1>d. "idle" \in Labels /\ pc[p] \in Labels
  BY <1>a DEF Labels
<1>1. CASE WatchdogLoad(p)
  <2>1. LoadUsage(file["snap"], gen) \in Contents
    BY LoadUsageResult DEF Files, Cached
  <2> QED
    BY <1>a, <1>1, <2>1 DEF WatchdogLoad, Labels, Known
<1>2. CASE WatchdogTag(p)
  <2>1. CASE Goto(p, "tag_block", "check_block") /\ g0' = Set(g0, p, gen)
             /\ UNCHANGED <<acct, usage, seen, seenCur>>
    BY <1>a, <1>2, <2>1 DEF WatchdogTag, Labels, Known
  <2>2. CASE Return(p, "tag_block")
    BY <1>a, <1>b, <1>d, <1>2, <2>2 DEF WatchdogTag, Return, Known
  <2> QED
    BY <1>2, <2>1, <2>2 DEF WatchdogTag
<1>3. CASE WatchdogCheck(p)
  <2>1. CASE Goto(p, "check_block", "show_block") /\ UNCHANGED locals
    BY <1>a, <1>3, <2>1 DEF WatchdogCheck, Labels, Known
  <2>2. CASE Return(p, "check_block")
    BY <1>a, <1>b, <1>d, <1>3, <2>2 DEF WatchdogCheck, Return, Known
  <2> QED
    BY <1>3, <2>1, <2>2 DEF WatchdogCheck
<1>4. CASE WatchdogShow(p)
  BY <1>a, <1>b, <1>d, <1>4 DEF WatchdogShow, Return, Known
<1> QED
  BY <1>1, <1>2, <1>3, <1>4 DEF Watch

\* Every step of an editor keeps the types.
LEMMA EditTypes ==
  ASSUME TypeOK, InHand, NEW p \in Editors, Edit(p)
  PROVE  TypeOK' /\ InHand'
<1> USE DEF TypeOK, InHand, Goto, Set, store, txn, locals
<1>a. p \in Procs
  BY DEF Procs
<1>b. /\ NoFile \in Contents /\ 0 \in Nat
      /\ NoFiles \in [Files -> Contents]
  BY DEF Contents, NoFiles
<1>d. "idle" \in Labels /\ pc[p] \in Labels
  BY <1>a DEF Labels
<1>e. fails \in Nat /\ (Fault => fails' \in Nat)
  BY DEF Fault
<1>1. CASE EditBegin(p)
  <2>1. PICK target \in {0, versions + 1} \cap 0..MaxVersion :
          acct' = Set(acct, p, target)
    BY <1>1 DEF EditBegin
  <2>2. target \in Nat
    BY <2>1
  <2> QED
    BY <1>a, <1>b, <1>1, <2>1, <2>2 DEF EditBegin, Labels, Known
<1>2. CASE EditSaveConfig(p)
  <2>1. acct[p] \in Nat
    BY <1>a
  <2> QED
    BY <1>a, <1>2, <2>1 DEF EditSaveConfig, Labels, Known
<1>3. ASSUME NEW f \in Files, NEW from, NEW to \in {"stage_cur", "stage_dbg", "bump"},
             StageFile(p, f, from, to)
      PROVE  TypeOK' /\ InHand'
  <2>1. CASE Goto(p, from, "undo_gen") /\ Fault
             /\ UNCHANGED <<holder, cfg, versions, store, clock, locals, txn, crashes>>
    BY <1>a, <1>e, <2>1 DEF Labels, Known
  <2>2. CASE Goto(p, from, to)
             /\ UNCHANGED <<holder, cfg, versions, gen, clock, locals, unlinked,
                    genBefore, cfgBefore, fails, crashes, epoch, epochs,
                    epochBefore, filesBefore, rollbackFailed>>
             /\ IF file[f] = NoFile
                THEN UNCHANGED <<file, bak, moved>>
                ELSE /\ file' = [file EXCEPT ![f] = NoFile]
                     /\ bak' = [bak EXCEPT ![f] = file[f]]
                     /\ moved' = moved \cup {f}
    <3>1. /\ file' \in [Files -> Contents] /\ bak' \in [Files -> Contents]
          /\ moved' \subseteq Files /\ unlinked' \subseteq moved'
      BY <1>b, <2>2
    <3>2. pc' \in [Procs -> Labels]
      BY <1>a, <2>2 DEF Labels
    <3> QED
      BY <1>a, <2>2, <3>1, <3>2 DEF Known
  <2> QED
    BY <1>3, <2>1, <2>2 DEF StageFile
<1>4. CASE Stage(p)
  BY <1>3, <1>4 DEF Stage, Files, Cached
<1>5. CASE BumpGeneration(p)
  <2>1. CASE Goto(p, "bump", "commit") /\ gen' = gen + 1
             /\ epoch' = epochs + 1 /\ epochs' = epochs + 1
             /\ UNCHANGED <<file, fails>>
    BY <1>a, <1>5, <2>1 DEF BumpGeneration, Labels, Known
  <2>2. CASE Goto(p, "bump", "undo_gen") /\ fails' \in Nat /\ UNCHANGED store
    BY <1>a, <1>5, <2>2 DEF BumpGeneration, Labels, Known
  <2> QED
    BY <1>5, <1>e, <2>1, <2>2 DEF BumpGeneration
<1>6. CASE CommitUnlink(p)
  <2>1. CASE Goto(p, "commit", "commit")
             /\ UNCHANGED <<moved, genBefore, cfgBefore, epochBefore,
                            filesBefore, rollbackFailed, fails>>
    <3>1. PICK f \in moved \ unlinked :
            bak' = [bak EXCEPT ![f] = NoFile] /\ unlinked' = unlinked \cup {f}
      BY <1>a, <1>6, <2>1 DEF CommitUnlink
    <3>2. /\ bak' \in [Files -> Contents]
          /\ moved' \subseteq Files /\ unlinked' \subseteq moved'
      <4>1. f \in Files /\ f \in moved
        BY <3>1
      <4>2. bak' \in [Files -> Contents]
        BY <1>b, <3>1, <4>1
      <4>3. moved' = moved
        BY <2>1
      <4> QED
        BY <3>1, <4>1, <4>2, <4>3
    <3>3. pc' \in [Procs -> Labels]
      BY <1>a, <2>1 DEF Labels
    <3> QED
      BY <1>a, <1>6, <2>1, <3>2, <3>3 DEF CommitUnlink, Known
  <2>2. CASE Goto(p, "commit", "undo_gen") /\ fails' \in Nat /\ UNCHANGED txn
    BY <1>a, <1>6, <2>2 DEF CommitUnlink, Labels, Known
  <2> QED
    BY <1>6, <1>e, <2>1, <2>2 DEF CommitUnlink
<1>7. CASE CommitDone(p)
  BY <1>a, <1>7 DEF CommitDone, Labels, Known
<1>8. CASE UndoGeneration(p)
  <2>1. gen' \in Nat /\ epoch' \in Nat /\ epochs' \in Nat /\ fails' \in Nat
        /\ rollbackFailed' \in BOOLEAN /\ file' \in [Files -> Contents]
    BY <1>8, <1>e DEF UndoGeneration
  <2> QED
    BY <1>a, <1>8, <2>1 DEF UndoGeneration, Labels, Known
<1>9. ASSUME NEW f \in Files, NEW from,
             NEW to \in {"undo_cur", "undo_snap", "undo_config"},
             UndoFile(p, f, from, to)
      PROVE  TypeOK' /\ InHand'
  <2>1. file' \in [Files -> Contents] /\ bak' \in [Files -> Contents]
        /\ rollbackFailed' \in BOOLEAN /\ fails' \in Nat
    BY <1>9, <1>b, <1>e DEF UndoFile
  <2>2. pc' \in [Procs -> Labels]
    BY <1>a, <1>9 DEF UndoFile, Labels
  <2> QED
    BY <1>a, <1>9, <2>1, <2>2 DEF UndoFile, Known
<1>10. CASE Undo(p)
  BY <1>9, <1>10 DEF Undo, Files, Cached
<1>11. CASE UndoConfig(p)
  <2>1. cfg' \in Nat /\ rollbackFailed' \in BOOLEAN /\ fails' \in Nat
    BY <1>11, <1>e DEF UndoConfig
  <2> QED
    BY <1>a, <1>11, <2>1 DEF UndoConfig, Labels, Known
<1>12. CASE EditEnd(p)
  BY <1>a, <1>b, <1>d, <1>12 DEF EditEnd, ForgetTransaction, Return, Known
<1> QED
  BY <1>1, <1>2, <1>4, <1>5, <1>6, <1>7, <1>8, <1>10, <1>11, <1>12 DEF Edit

\* A crash keeps the types.
LEMMA CrashTypes ==
  ASSUME TypeOK, InHand, NEW p \in Procs, Crash(p)
  PROVE  TypeOK' /\ InHand'
<1> USE DEF TypeOK, InHand, Goto, store, txn
<1>b. /\ NoFile \in Contents /\ 0 \in Nat
      /\ NoFiles \in [Files -> Contents]
  BY DEF Contents, NoFiles
<1>d. "idle" \in Labels
  BY DEF Labels
<1> QED
  BY <1>b, <1>d DEF Crash, ForgetTransaction, Return, Known

\* TypeOK is an invariant, together with what it needs to be inductive.
THEOREM TypesPreserved ==
  ASSUME TypeOK, InHand, [Next]_vars
  PROVE  TypeOK' /\ InHand'
<1>1. CASE Next
  BY <1>1, FetchTypes, IngestTypes, WatchTypes, EditTypes, CrashTypes DEF Next
<1>2. CASE UNCHANGED vars
  BY <1>2 DEF vars, TypeOK, InHand, Known
<1> QED
  BY <1>1, <1>2

\* In the initial state nobody has anything.
LEMMA TypesInit == Init => TypeOK /\ InHand
<1> SUFFICES ASSUME Init PROVE TypeOK /\ InHand
  OBVIOUS
<1>1. NoFile \in Contents /\ NoFiles \in [Files -> Contents] /\ "idle" \in Labels
  BY DEF Contents, NoFiles, Labels
<1>2. TypeOK
  BY <1>1 DEF Init, TypeOK
<1>3. InHand
  BY DEF Init, InHand
<1> QED
  BY <1>2, <1>3

\* TypeOK holds of every reachable state.
THEOREM TypeCorrect == Spec => []TypeOK
<1>1. TypeOK /\ InHand /\ [Next]_vars => (TypeOK /\ InHand)'
  BY TypesPreserved
<1> QED
  BY <1>1, TypesInit, PTL DEF Spec

-----------------------------------------------------------------------------
\* The lock

\* What a step of p does to the lock: it keeps, takes or releases it.
LEMMA LockStep ==
  ASSUME TypeOK, LockInv, NEW p \in Procs, NEW to,
         pc' = [pc EXCEPT ![p] = to],
         \/ UNCHANGED holder /\ (pc[p] \in HeldLabels <=> to \in HeldLabels)
         \/ holder = NoProc /\ holder' = p /\ to \in HeldLabels
         \/ holder = p /\ holder' = NoProc /\ to \notin HeldLabels
  PROVE  LockInv'
  BY ProcsAssumption DEF TypeOK, LockInv

\* A step of p outside the transaction neither starts nor ends one.
LEMMA OutsideStep ==
  ASSUME TypeOK, LockInv, NEW p \in Procs, NEW to,
         pc' = [pc EXCEPT ![p] = to],
         pc[p] \notin TransactionLabels, to \notin TransactionLabels,
         \/ UNCHANGED holder
         \/ holder = NoProc /\ holder' = p
         \/ holder = p /\ holder' = NoProc
  PROVE  InTransaction' <=> InTransaction
  BY ProcsAssumption DEF TypeOK, LockInv, InTransaction

\* Steps of fetchers, bridges and watchdogs leave the transaction alone.
LEMMA OrdinaryStep ==
  ASSUME TypeOK, LockInv, NEW p \in Procs, Fetch(p) \/ Ingest(p) \/ Watch(p)
  PROVE  /\ LockInv'
         /\ InTransaction' <=> InTransaction
         /\ UNCHANGED <<gen, epoch, epochs, txn>>
<1>1. ASSUME NEW from, NEW to,
             from \notin HeldLabels, to \notin HeldLabels,
             Goto(p, from, to), UNCHANGED holder
      PROVE  LockInv' /\ (InTransaction' <=> InTransaction)
  BY <1>1, LockStep, OutsideStep DEF Goto, HeldLabels
<1>2. ASSUME NEW from, NEW to,
             from \notin TransactionLabels, to \notin TransactionLabels,
             from \in HeldLabels, to \in HeldLabels,
             Goto(p, from, to), UNCHANGED holder
      PROVE  LockInv' /\ (InTransaction' <=> InTransaction)
  BY <1>2, LockStep, OutsideStep DEF Goto
<1>3. CASE Fetch(p)
  <2>0. UNCHANGED <<gen, epoch, epochs, txn>>
    BY <1>3 DEF Fetch, FetchStart, FetchReadGeneration, FetchOne,
        FetchCheckGeneration, FetchStabilize, FetchLock, FetchSaveCurrent,
        FetchSaveSnapshot, FetchUnlock, Write, store
  <2>1. CASE FetchLock(p)
    <3>1. CASE Goto(p, "lock", "save_current") /\ holder = NoProc /\ holder' = p
      <4>1. "save_current" \in HeldLabels \ TransactionLabels
            /\ "lock" \notin HeldLabels
        BY DEF HeldLabels, TransactionLabels
      <4> QED
        BY <2>0, <3>1, <4>1, LockStep, OutsideStep DEF Goto, HeldLabels
    <3>2. CASE Goto(p, "lock", "idle") /\ UNCHANGED holder
      BY <1>1, <2>0, <3>2 DEF HeldLabels, TransactionLabels
    <3> QED
      BY <2>1, <3>1, <3>2 DEF FetchLock, Return, LockFree
  <2>2. CASE FetchUnlock(p)
    <3>1. ASSUME NEW to \in {"idle", "gen"}, Goto(p, "unlock", to)
          PROVE  LockInv' /\ (InTransaction' <=> InTransaction)
      <4>1. to \notin HeldLabels /\ to \notin TransactionLabels
            /\ "unlock" \notin TransactionLabels
        BY DEF HeldLabels, TransactionLabels
      <4>2. holder = p /\ holder' = NoProc
        BY <2>2 DEF FetchUnlock
      <4> QED
        BY <3>1, <4>1, <4>2, LockStep, OutsideStep DEF Goto
    <3> QED
      BY <2>0, <2>2, <3>1 DEF FetchUnlock, Return
  <2>3. CASE FetchSaveCurrent(p)
    <3>1. UNCHANGED holder
          /\ \E to \in {"save_snapshot", "unlock"} : Goto(p, "save_current", to)
      BY <2>3 DEF FetchSaveCurrent
    <3>2. {"save_current", "save_snapshot", "unlock"}
            \subseteq HeldLabels \ TransactionLabels
      BY DEF HeldLabels, TransactionLabels
    <3> QED
      BY <1>2, <2>0, <3>1, <3>2
  <2>4. CASE FetchSaveSnapshot(p)
    <3>1. UNCHANGED holder /\ Goto(p, "save_snapshot", "unlock")
      BY <2>4 DEF FetchSaveSnapshot
    <3>2. {"save_snapshot", "unlock"} \subseteq HeldLabels \ TransactionLabels
      BY DEF HeldLabels, TransactionLabels
    <3> QED
      BY <1>2, <2>0, <3>1, <3>2
  <2>5. CASE FetchStart(p) \/ FetchReadGeneration(p) \/ FetchOne(p)
             \/ FetchCheckGeneration(p) \/ FetchStabilize(p)
    <3>1. UNCHANGED holder
          /\ \E from, to \in {"idle", "gen", "fetch", "check", "stabilize", "lock"} :
               Goto(p, from, to)
      BY <2>5
      DEF FetchStart, FetchReadGeneration, FetchOne, FetchCheckGeneration,
          FetchStabilize, Return
    <3>2. {"idle", "gen", "fetch", "check", "stabilize", "lock"} \cap HeldLabels = {}
      BY DEF HeldLabels, TransactionLabels
    <3> QED
      BY <1>1, <2>0, <3>1, <3>2
  <2> QED
    BY <1>3, <2>1, <2>2, <2>3, <2>4, <2>5 DEF Fetch
<1>4. CASE Ingest(p)
  <2>1. UNCHANGED <<gen, epoch, epochs, txn>>
    BY <1>4 DEF Ingest, BridgeAuthorize, BridgeReceive,
        BridgeLoadSnapshot, BridgeLoadCurrent,
        BridgeDecide, BridgeInvalidate, BridgeSaveSnapshot, BridgeSaveCurrent,
        BridgeDebug, Write, store
  <2> QED
    BY <1>1, <1>4, <2>1
    DEF Ingest, BridgeAuthorize, BridgeReceive,
        BridgeLoadSnapshot, BridgeLoadCurrent,
        BridgeDecide, BridgeInvalidate, BridgeSaveSnapshot, BridgeSaveCurrent,
        BridgeDebug, Return, HeldLabels, TransactionLabels
<1>5. CASE Watch(p)
  <2>1. UNCHANGED <<gen, epoch, epochs, txn>>
    BY <1>5 DEF Watch, WatchdogLoad, WatchdogTag, WatchdogCheck, WatchdogShow,
        store
  <2> QED
    BY <1>1, <1>5, <2>1
    DEF Watch, WatchdogLoad, WatchdogTag, WatchdogCheck, WatchdogShow,
        Return, HeldLabels, TransactionLabels
<1> QED
  BY <1>3, <1>4, <1>5

-----------------------------------------------------------------------------
\* The reset transaction

\* The account settles in a step: it stays where it was, or moves to a later
\* generation and a later epoch.
Settles ==
  /\ \/ SettledGen' = SettledGen /\ SettledEpoch' = SettledEpoch
     \/ SettledGen' > SettledGen /\ SettledEpoch' > SettledEpoch
  /\ \A f \in Files : SettledFiles'[f] \in {SettledFiles[f], NoFile}

\* A step inside the transaction keeps the lock and what it started from.
LEMMA InsideStep ==
  ASSUME TypeOK, LockInv, NEW p \in Procs, NEW from, NEW to,
         Goto(p, from, to), UNCHANGED holder,
         from \in TransactionLabels, to \in TransactionLabels,
         UNCHANGED <<genBefore, epochBefore, filesBefore>>
  PROVE  LockInv' /\ InTransaction /\ InTransaction' /\ Settles
<1>1. pc[p] \in HeldLabels /\ to \in HeldLabels /\ pc' = [pc EXCEPT ![p] = to]
  BY DEF Goto, HeldLabels
<1>2. LockInv'
  BY <1>1, LockStep
<1>3. InTransaction
  BY <1>1 DEF Goto, LockInv, InTransaction
<1>4. InTransaction'
  BY <1>1, <1>2 DEF LockInv, InTransaction, TypeOK
<1> QED
  BY <1>2, <1>3, <1>4 DEF Settles, SettledGen, SettledEpoch, SettledFiles

\* Leaving the transaction, by its end or by a crash, settles what it did.
LEMMA LeavingStep ==
  ASSUME TypeOK, LockInv, TransactionInv, NEW p \in Procs,
         pc' = [pc EXCEPT ![p] = "idle"],
         holder = p, holder' = NoProc,
         UNCHANGED <<gen, file, epoch, epochs>>
  PROVE  LockInv' /\ TransactionInv' /\ Settles
<1>1. "idle" \notin HeldLabels
  BY DEF HeldLabels, TransactionLabels
<1>2. LockInv'
  BY <1>1, LockStep
<1>3. ~InTransaction'
  BY ProcsAssumption DEF InTransaction
<1>4. TransactionInv'
  BY <1>3 DEF TransactionInv
<1>5. Settles
  BY <1>3 DEF Settles, SettledGen, SettledEpoch, SettledFiles, TransactionInv,
     TypeOK
<1> QED
  BY <1>2, <1>4, <1>5

\* A crash that does not hold the lock changes nothing of this.
LEMMA CrashSettles ==
  ASSUME TypeOK, LockInv, TransactionInv, NEW p \in Procs, Crash(p)
  PROVE  LockInv' /\ TransactionInv' /\ Settles
<1>1. pc' = [pc EXCEPT ![p] = "idle"] /\ UNCHANGED <<gen, file, epoch, epochs>>
  BY DEF Crash, Return, Goto, store
<1>2. CASE holder = p
  BY <1>1, <1>2, LeavingStep DEF Crash
<1>3. CASE holder # p
  <2>1. UNCHANGED <<holder, genBefore, epochBefore, filesBefore, bak>>
    BY <1>3 DEF Crash
  <2>2. "idle" \notin HeldLabels /\ "idle" \notin TransactionLabels
    BY DEF HeldLabels, TransactionLabels
  <2>3. pc[p] \notin HeldLabels /\ pc[p] \notin TransactionLabels
    BY <1>3 DEF LockInv, HeldLabels
  <2>4. LockInv' /\ (InTransaction' <=> InTransaction)
    BY <1>1, <2>1, <2>2, <2>3, LockStep, OutsideStep
  <2>5. TransactionInv'
    BY <1>1, <2>1, <2>4 DEF TransactionInv
  <2> QED
    BY <1>1, <2>1, <2>4, <2>5
    DEF Settles, SettledGen, SettledEpoch, SettledFiles
<1> QED
  BY <1>2, <1>3

\* The steps of the editor: the transaction starts from the settled state, moves
\* files aside and back, and settles when it ends.
LEMMA EditSettles ==
  ASSUME TypeOK, LockInv, TransactionInv, NEW p \in Editors, Edit(p)
  PROVE  LockInv' /\ TransactionInv' /\ Settles
<1>a. p \in Procs
  BY DEF Procs
<1>t. TransactionLabels =
        {"save_config", "stage_snap", "stage_cur", "stage_dbg", "bump", "commit",
         "committed", "undo_gen", "undo_dbg", "undo_cur", "undo_snap",
         "undo_config", "rolled_back"}
  BY DEF TransactionLabels
<1>n. /\ gen \in Nat /\ epoch \in Nat /\ epochs \in Nat
      /\ genBefore \in Nat /\ epochBefore \in Nat
      /\ file \in [Files -> Contents] /\ bak \in [Files -> Contents]
  BY DEF TypeOK
<1> DEFINE Moved ==
      /\ UNCHANGED <<genBefore, epochBefore, filesBefore, holder>>
      /\ \A f \in Files : /\ file'[f] \in {file[f], bak[f], NoFile}
                         /\ bak'[f] \in {file[f], bak[f], NoFile}
<1>i. ASSUME NEW from \in TransactionLabels, NEW to \in TransactionLabels,
             Goto(p, from, to), Moved,
             \/ UNCHANGED <<gen, epoch, epochs>>
             \/ gen' = gen + 1 /\ epoch' = epochs + 1 /\ epochs' = epochs + 1
             \/ gen' = genBefore /\ epoch' = epochBefore /\ UNCHANGED epochs
      PROVE  LockInv' /\ TransactionInv' /\ Settles
  <2>1. LockInv' /\ InTransaction /\ InTransaction' /\ Settles
    BY <1>a, <1>i, InsideStep
  <2>2. /\ epoch' <= epochs' /\ epochBefore' <= epochs'
        /\ \/ gen' = genBefore' /\ epoch' = epochBefore'
           \/ gen' > genBefore' /\ epoch' > epochBefore'
    BY <1>i, <1>n, <2>1 DEF TransactionInv
  <2>3. \A f \in Files : /\ file'[f] \in {filesBefore'[f], NoFile}
                        /\ bak'[f] \in {filesBefore'[f], NoFile}
    BY <1>i, <2>1 DEF TransactionInv
  <2> QED
    BY <2>1, <2>2, <2>3 DEF TransactionInv
<1>1. CASE EditBegin(p)
  <2>1. ~InTransaction
    BY <1>1, ProcsAssumption DEF EditBegin, LockFree, InTransaction
  <2>2. LockInv'
    BY <1>a, <1>1, <1>t, LockStep DEF EditBegin, Goto, LockFree, HeldLabels
  <2>3. InTransaction'
    BY <1>a, <1>1, <1>t DEF EditBegin, Goto, InTransaction, TypeOK
  <2>4. /\ UNCHANGED <<gen, file, epoch, epochs>>
        /\ genBefore' = gen /\ epochBefore' = epoch /\ filesBefore' = file
        /\ bak' = NoFiles
    BY <1>1 DEF EditBegin, store
  <2>5. TransactionInv'
    BY <2>3, <2>4 DEF TransactionInv, NoFiles
  <2> QED
    BY <2>1, <2>2, <2>3, <2>4, <2>5
    DEF Settles, SettledGen, SettledEpoch, SettledFiles
<1>2. CASE EditSaveConfig(p)
  <2>1. Goto(p, "save_config", "stage_snap") /\ Moved /\ UNCHANGED <<gen, epoch, epochs>>
    BY <1>2 DEF EditSaveConfig, store, txn
  <2> QED
    BY <1>i, <1>t, <2>1
<1>3. ASSUME NEW f \in Files, NEW from \in TransactionLabels,
             NEW to \in TransactionLabels, StageFile(p, f, from, to)
      PROVE  LockInv' /\ TransactionInv' /\ Settles
  <2>1. Moved /\ UNCHANGED <<gen, epoch, epochs>>
    BY <1>3, <1>n DEF StageFile, store, txn
  <2>2. Goto(p, from, to) \/ Goto(p, from, "undo_gen")
    BY <1>3 DEF StageFile
  <2> QED
    BY <1>i, <1>t, <2>1, <2>2
<1>4. CASE Stage(p)
  <2>1. {"snap", "cur", "dbg"} \subseteq Files
    BY DEF Files, Cached
  <2> QED
    BY <1>3, <1>4, <1>t, <2>1 DEF Stage
<1>5. CASE BumpGeneration(p)
  <2>1. Moved
    BY <1>5 DEF BumpGeneration, store, txn
  <2>2. CASE Goto(p, "bump", "commit") /\ gen' = gen + 1
             /\ epoch' = epochs + 1 /\ epochs' = epochs + 1
    BY <1>i, <1>t, <2>1, <2>2
  <2>3. CASE Goto(p, "bump", "undo_gen") /\ UNCHANGED <<gen, epoch, epochs>>
    BY <1>i, <1>t, <2>1, <2>3
  <2> QED
    BY <1>5, <2>2, <2>3 DEF BumpGeneration, store
<1>6. CASE CommitUnlink(p)
  <2>1. Moved /\ UNCHANGED <<gen, epoch, epochs>>
    BY <1>6, <1>n DEF CommitUnlink, store, txn
  <2>2. Goto(p, "commit", "commit") \/ Goto(p, "commit", "undo_gen")
    BY <1>6 DEF CommitUnlink
  <2> QED
    BY <1>i, <1>t, <2>1, <2>2
<1>7. CASE CommitDone(p)
  <2>1. Goto(p, "commit", "committed") /\ Moved /\ UNCHANGED <<gen, epoch, epochs>>
    BY <1>7 DEF CommitDone, store, txn
  <2> QED
    BY <1>i, <1>t, <2>1
<1>8. CASE UndoGeneration(p)
  <2>1. Goto(p, "undo_gen", "undo_dbg") /\ Moved
    BY <1>8 DEF UndoGeneration, store
  <2>2. \/ UNCHANGED <<gen, epoch, epochs>>
        \/ gen' = genBefore /\ epoch' = epochBefore /\ UNCHANGED epochs
    BY <1>8 DEF UndoGeneration, store
  <2> QED
    BY <1>i, <1>t, <2>1, <2>2
<1>9. ASSUME NEW f \in Files, NEW from \in TransactionLabels,
             NEW to \in TransactionLabels, UndoFile(p, f, from, to)
      PROVE  LockInv' /\ TransactionInv' /\ Settles
  <2>1. Goto(p, from, to) /\ Moved /\ UNCHANGED <<gen, epoch, epochs>>
    BY <1>9, <1>n DEF UndoFile
  <2> QED
    BY <1>i, <2>1
<1>10. CASE Undo(p)
  <2>1. {"snap", "cur", "dbg"} \subseteq Files
    BY DEF Files, Cached
  <2> QED
    BY <1>9, <1>10, <1>t, <2>1 DEF Undo
<1>11. CASE UndoConfig(p)
  <2>1. Goto(p, "undo_config", "rolled_back") /\ Moved
        /\ UNCHANGED <<gen, epoch, epochs>>
    BY <1>11 DEF UndoConfig, store
  <2> QED
    BY <1>i, <1>t, <2>1
<1>12. CASE EditEnd(p)
  <2>1. pc' = [pc EXCEPT ![p] = "idle"] /\ holder' = NoProc
        /\ UNCHANGED <<gen, file, epoch, epochs>>
    BY <1>12 DEF EditEnd, Return, Goto, store
  <2>2. holder = p
    BY <1>a, <1>12, <1>t DEF EditEnd, Return, Goto, LockInv, HeldLabels
  <2> QED
    BY <1>a, <2>1, <2>2, LeavingStep
<1> QED
  BY <1>1, <1>2, <1>4, <1>5, <1>6, <1>7, <1>8, <1>10, <1>11, <1>12 DEF Edit

-----------------------------------------------------------------------------
\* The generation fence

\* Limits once fenced stay fenced while the account settles.
LEMMA FencedStays ==
  ASSUME Settles, NEW limits, NEW tag \in Nat, Fenced(limits, tag),
         SettledGen \in Nat, SettledGen' \in Nat
  PROVE  /\ tag <= SettledGen'
         /\ tag = SettledGen' => \A o \in limits : o.ep = SettledEpoch'
  BY DEF Settles, Fenced

\* SettledGen is a number.
LEMMA SettledType ==
  ASSUME TypeOK
  PROVE  SettledGen \in Nat /\ SettledEpoch \in Nat
         /\ SettledFiles \in [Files -> Contents]
  BY DEF TypeOK, SettledGen, SettledEpoch, SettledFiles

\* A process that does nothing stays fenced.
LEMMA HandStays ==
  ASSUME TypeOK, TypeOK', Settles, NEW q \in Procs, HandFenced(q),
         pc'[q] = pc[q], g0'[q] = g0[q], usage'[q] = usage[q]
  PROVE  HandFenced(q)'
<1>0. SettledGen \in Nat /\ SettledGen' \in Nat /\ g0[q] \in Nat
  BY SettledType DEF TypeOK, SettledGen
<1>1. SettledGen <= SettledGen'
  BY <1>0 DEF Settles
<1>2. usage[q] # NoFile => usage[q].tag \in Nat \cup {NoTag}
  BY DEF TypeOK, Contents, Usage
<1>3. pc[q] \in {"fetch", "check"} => g0[q] <= SettledGen'
  BY <1>0, <1>1 DEF HandFenced
<1>5. CASE usage[q] = NoFile
  BY <1>3, <1>5 DEF HandFenced
<1>6. CASE usage[q] # NoFile
  <2>1. CASE pc[q] = "check"
    BY <1>0, <1>3, <1>6, <2>1, FencedStays DEF HandFenced, Fenced
  <2>2. CASE pc[q] # "check" /\ usage[q].tag = NoTag
    BY <1>3, <1>6, <2>2 DEF HandFenced
  <2>3. CASE pc[q] # "check" /\ usage[q].tag # NoTag
    BY <1>0, <1>2, <1>3, <1>6, <2>3, FencedStays DEF HandFenced, Fenced
  <2> QED
    BY <2>1, <2>2, <2>3
<1> QED
  BY <1>5, <1>6

\* Files that are only moved or lost stay fenced.
LEMMA FilesStay ==
  ASSUME TypeOK, TypeOK', Settles, FileFence
  PROVE  FileFence'
<1> SUFFICES ASSUME NEW f \in Cached, SettledFiles'[f] # NoFile
             PROVE  /\ SettledFiles'[f].tag \in Nat
                    /\ Fenced(SettledFiles[f].limits, SettledFiles[f].tag)'
  BY DEF FileFence
<1>1. SettledFiles'[f] = SettledFiles[f]
  BY DEF Settles, Files
<1>2. SettledFiles[f].tag \in Nat /\ Fenced(SettledFiles[f].limits, SettledFiles[f].tag)
  BY <1>1 DEF FileFence
<1>3. SettledGen \in Nat /\ SettledGen' \in Nat
  BY SettledType DEF TypeOK, SettledGen
<1>4. LET l == SettledFiles[f].limits
          t == SettledFiles[f].tag
      IN  t <= SettledGen' /\ (t = SettledGen' => \A o \in l : o.ep = SettledEpoch')
  BY <1>2, <1>3, FencedStays
<1> QED
  BY <1>1, <1>2, <1>4 DEF Fenced

\* A save outside the transaction keeps the files fenced if the record is.
LEMMA WriteFenced ==
  ASSUME TypeOK, FileFence, ~InTransaction, ~InTransaction',
         NEW f \in Cached, NEW u \in Usage, NEW preserve \in BOOLEAN,
         Write(f, u, preserve),
         IF u.tag = NoTag THEN u.limits = {} ELSE Fenced(u.limits, u.tag)
  PROVE  FileFence'
<1>1. PICK c \in SaveUsage(file[f], u, gen, preserve) :
        file' = [file EXCEPT ![f] = c]
  BY DEF Write
<1>2. UNCHANGED <<gen, epoch>>
  BY DEF Write
<1>3. file \in [Files -> Contents] /\ f \in Files /\ gen \in Nat
  BY DEF TypeOK, Files
<1>4. SettledGen = gen /\ SettledEpoch = epoch /\ SettledFiles = file
  BY DEF SettledGen, SettledEpoch, SettledFiles
<1>5. SettledGen' = gen /\ SettledEpoch' = epoch /\ SettledFiles' = file'
  BY <1>2 DEF SettledGen, SettledEpoch, SettledFiles
<1>6. ASSUME c # file[f]
      PROVE  c.tag = gen /\ \A o \in c.limits : o.ep = epoch
  <2>1. /\ c.tag = gen /\ u.tag \in {NoTag, gen}
        /\ \/ c.limits = u.limits
           \/ /\ LoadUsage(file[f], gen) # NoFile
              /\ c.limits = u.limits \cup file[f].limits
    BY <1>3, <1>6, SaveUsageResult
  <2>2. \A o \in u.limits : o.ep = epoch
    BY <1>4, <2>1 DEF Fenced
  <2>3. LoadUsage(file[f], gen) # NoFile => \A o \in file[f].limits : o.ep = epoch
    BY <1>3, <1>4, LoadUsageResult DEF FileFence, Fenced, LoadUsage
  <2> QED
    BY <2>1, <2>2, <2>3
<1> SUFFICES ASSUME NEW h \in Cached, file'[h] # NoFile
             PROVE  /\ file'[h].tag \in Nat
                    /\ file'[h].tag <= gen
                    /\ file'[h].tag = gen => \A o \in file'[h].limits : o.ep = epoch
  BY <1>5 DEF FileFence, Fenced
<1>7. CASE h = f /\ c # file[f]
  BY <1>1, <1>3, <1>6, <1>7
<1>8. CASE file'[h] = file[h]
  BY <1>4, <1>8 DEF FileFence, Fenced
<1> QED
  BY <1>1, <1>3, <1>7, <1>8 DEF Files

\* The hands of fetchers, bridges and watchdogs: what p picks up is fenced, what
\* the others hold stays fenced.
LEMMA HandStep ==
  ASSUME TypeOK, TypeOK', Settles, HandFence, NEW p \in Procs,
         \A q \in Procs \ {p} :
            pc'[q] = pc[q] /\ g0'[q] = g0[q] /\ usage'[q] = usage[q],
         HandFenced(p)'
  PROVE  HandFence'
<1>1. ASSUME NEW q \in Procs \ {p} PROVE HandFenced(q)'
  BY <1>1, HandStays DEF HandFence
<1> QED
  BY <1>1 DEF HandFence

\* A step of p that ends its run leaves it with nothing.
LEMMA ReturnFenced ==
  ASSUME TypeOK, NEW p \in Procs, NEW from, Return(p, from)
  PROVE  /\ HandFenced(p)'
         /\ \A q \in Procs \ {p} :
              pc'[q] = pc[q] /\ g0'[q] = g0[q] /\ usage'[q] = usage[q]
  BY DEF TypeOK, Return, Goto, HandFenced

\* Ordinary steps do not move what is settled, outside the writes to a file.
LEMMA OrdinarySettles ==
  ASSUME TypeOK, LockInv, NEW p \in Procs, Fetch(p) \/ Ingest(p) \/ Watch(p)
  PROVE  /\ SettledGen' = SettledGen /\ SettledEpoch' = SettledEpoch
         /\ UNCHANGED file => SettledFiles' = SettledFiles
  BY OrdinaryStep
  DEF txn, SettledGen, SettledEpoch, SettledFiles

\* Steps of a fetcher keep the fence.
LEMMA FetchFenced ==
  ASSUME Inductive, TypeOK', NEW p \in Fetchers, Fetch(p)
  PROVE  FileFence' /\ HandFence'
<1>a. p \in Procs
  BY DEF Procs
<1>b. /\ TypeOK /\ LockInv /\ InHand /\ FileFence /\ HandFence /\ TransactionInv
      /\ HandFenced(p)
  BY <1>a DEF Inductive, HandFence
<1>c. /\ LockInv' /\ (InTransaction' <=> InTransaction)
      /\ SettledGen' = SettledGen /\ SettledEpoch' = SettledEpoch
      /\ UNCHANGED file => SettledFiles' = SettledFiles
  BY <1>a, <1>b, OrdinaryStep, OrdinarySettles
<1>d. /\ SettledGen \in Nat /\ SettledEpoch \in Nat
      /\ g0 \in [Procs -> Nat] /\ usage \in [Procs -> Contents]
      /\ pc \in [Procs -> Labels] /\ gen \in Nat
      /\ file \in [Files -> Contents]
  BY <1>b, SettledType DEF TypeOK
<1>e. LockFree => ~InTransaction
  BY ProcsAssumption DEF LockFree, InTransaction
<1>f. ~InTransaction => gen = SettledGen /\ epoch = SettledEpoch
                         /\ file = SettledFiles
  BY DEF SettledGen, SettledEpoch, SettledFiles
<1>g. \A q \in Procs \ {p} :
         pc'[q] = pc[q] /\ g0'[q] = g0[q] /\ usage'[q] = usage[q]
  BY <1>a, <1>d
  DEF Fetch, FetchStart, FetchReadGeneration, FetchOne, FetchCheckGeneration,
      FetchStabilize, FetchLock, FetchSaveCurrent, FetchSaveSnapshot,
      FetchUnlock, Return, Goto, Set, locals
<1>u. pc[p] \in {"check", "stabilize", "lock", "save_current", "save_snapshot"}
        => usage[p] \in Usage
  BY <1>a, <1>b, <1>d DEF InHand, Contents
<1>h. ASSUME HandFenced(p)' PROVE HandFence'
  <2>1. ASSUME NEW q \in Procs \ {p} PROVE HandFenced(q)'
    BY <1>b, <1>c, <1>g, <2>1 DEF HandFence, HandFenced, Fenced
  <2> QED
    BY <1>h, <2>1 DEF HandFence
<1>w. UNCHANGED file => FileFence'
  BY <1>b, <1>c DEF FileFence, Fenced
<1>1. CASE FetchStart(p)
  <2>1. UNCHANGED <<file, g0, usage>> /\ pc'[p] = "gen" /\ pc[p] = "idle"
    BY <1>a, <1>d, <1>1 DEF FetchStart, Goto, store
  <2> QED
    BY <1>b, <1>c, <1>h, <1>w, <2>1 DEF HandFenced, Fenced
<1>2. CASE FetchReadGeneration(p)
  <2>1. CASE Goto(p, "gen", "fetch") /\ LockFree /\ g0' = Set(g0, p, gen)
             /\ UNCHANGED <<file, usage>>
    BY <1>a, <1>b, <1>c, <1>d, <1>e, <1>f, <1>h, <1>w, <2>1
    DEF HandFenced, Fenced, Goto, Set
  <2>2. CASE Return(p, "gen") /\ UNCHANGED file
    BY <1>a, <1>b, <1>h, <1>w, <2>2, ReturnFenced
  <2> QED
    BY <1>2, <2>1, <2>2 DEF FetchReadGeneration, store
<1>3. CASE FetchOne(p)
  <2>1. PICK be \in FetchBackends :
          \/ usage' = Set(usage, p, FailedFetch(be, clock'))
          \/ LockFree /\ \E limits \in {{}, Provenance(p)} :
               usage' = Set(usage, p,
                 [cap |-> clock', tag |-> NoTag, limits |-> limits,
                  aux |-> Provenance(p), ok |-> TRUE, inv |-> FALSE,
                  be |-> be])
    BY <1>3 DEF FetchOne
  <2>2. /\ usage'[p].tag = NoTag
        /\ \A o \in usage'[p].limits : o.ep = SettledEpoch
    <3>1. CASE usage' = Set(usage, p, FailedFetch(be, clock'))
      BY <1>a, <1>d, <3>1 DEF Set, FailedFetch
    <3>2. CASE usage' # Set(usage, p, FailedFetch(be, clock'))
      <4>1. epoch = SettledEpoch
        BY <1>e, <1>f, <2>1, <3>2
      <4>2. PICK limits \in {{}, Provenance(p)} :
               usage' = Set(usage, p,
                 [cap |-> clock', tag |-> NoTag, limits |-> limits,
                  aux |-> Provenance(p), ok |-> TRUE, inv |-> FALSE,
                  be |-> be])
        BY <2>1, <3>2
      <4> QED
        BY <1>a, <1>d, <4>1, <4>2 DEF Set, Provenance
    <3> QED
      BY <3>1, <3>2
  <2>3. /\ pc[p] = "fetch" /\ pc'[p] = "check" /\ UNCHANGED <<g0, file>>
        /\ g0[p] <= SettledGen
    BY <1>a, <1>b, <1>d, <1>3 DEF FetchOne, Goto, store, HandFenced
  <2>4. HandFenced(p)'
    BY <1>c, <2>2, <2>3 DEF HandFenced, Fenced
  <2> QED
    BY <1>h, <1>w, <2>3, <2>4
<1>4. CASE FetchCheckGeneration(p)
  <2>1. pc[p] = "check" /\ pc'[p] # "check" /\ pc'[p] # "fetch"
        /\ UNCHANGED <<g0, file>> /\ usage[p] \in Usage
        /\ Fenced(usage[p].limits, g0[p])
    BY <1>a, <1>b, <1>d, <1>u, <1>4, FilesAssumption
    DEF FetchCheckGeneration, Goto, store, HandFenced
  <2>2. \/ usage' = [usage EXCEPT ![p] = [usage[p] EXCEPT !.tag = g0[p]]]
        \/ /\ usage' = [usage EXCEPT ![p] = UsageAfterStateGenerationFailure(usage[p])]
           /\ pc'[p] = "lock"
    BY <1>a, <1>d, <1>4 DEF FetchCheckGeneration, Goto, Set
  <2>3. CASE usage' = [usage EXCEPT ![p] = [usage[p] EXCEPT !.tag = g0[p]]]
    <3>1. usage'[p].tag = g0[p] /\ usage'[p].limits = usage[p].limits
          /\ g0[p] # NoTag
      BY <1>a, <1>d, <2>1, <2>3, FilesAssumption DEF Usage
    <3> QED
      BY <1>c, <1>h, <1>w, <2>1, <3>1 DEF HandFenced, Fenced
  <2>4. CASE usage' = [usage EXCEPT ![p] = UsageAfterStateGenerationFailure(usage[p])]
             /\ pc'[p] = "lock"
    <3>1. usage'[p].tag = NoTag /\ usage'[p].limits = {}
      BY <1>a, <1>d, <2>4 DEF UsageAfterStateGenerationFailure
    <3> QED
      BY <1>h, <1>w, <2>1, <2>4, <3>1 DEF HandFenced
  <2> QED
    BY <2>2, <2>3, <2>4
<1>5. CASE FetchStabilize(p)
  <2> DEFINE previous == LoadUsage(file["snap"], gen)
  <2>1. pc[p] = "stabilize" /\ pc'[p] = "lock" /\ UNCHANGED <<g0, file>>
        /\ usage[p] \in Usage
    BY <1>a, <1>d, <1>u, <1>5 DEF FetchStabilize, Goto, store
  <2>2. CASE UNCHANGED usage
    BY <1>b, <1>c, <1>h, <1>w, <2>1, <2>2 DEF HandFenced, Fenced
  <2>3. CASE ~ UNCHANGED usage
    <3>1. /\ previous # NoFile /\ usage[p].ok
          /\ usage' = [usage EXCEPT ![p] =
                        [usage[p] EXCEPT !.limits = @ \cup previous.limits]]
      BY <1>5, <2>3 DEF FetchStabilize, Set
    <3>2. usage'[p].tag = usage[p].tag
          /\ usage'[p].limits = usage[p].limits \cup previous.limits
      BY <1>a, <1>d, <2>1, <3>1 DEF Usage
    <3>3. previous = file["snap"] /\ previous.tag = gen
      BY <3>1 DEF LoadUsage
    <3>4. gen = SettledGen /\ \A o \in previous.limits : o.ep = SettledEpoch
      <4>1. SettledFiles["snap"] = file["snap"] /\ gen >= SettledGen
        BY <1>b, <1>d, <1>f, <3>1, <3>3
        DEF SettledFiles, SettledGen, TransactionInv, Files, Cached, TypeOK
      <4>2. /\ SettledFiles["snap"].tag \in Nat
            /\ Fenced(SettledFiles["snap"].limits, SettledFiles["snap"].tag)
        BY <1>b, <3>1, <3>3, <4>1 DEF FileFence, Cached
      <4> QED
        BY <1>d, <3>3, <4>1, <4>2 DEF Fenced
    <3>5. usage[p].tag # NoTag /\ Fenced(usage[p].limits, usage[p].tag)
      BY <1>b, <2>1, FilesAssumption DEF HandFenced
    <3>6. HandFenced(p)'
      BY <1>c, <2>1, <3>2, <3>4, <3>5 DEF HandFenced, Fenced
    <3> QED
      BY <1>h, <1>w, <2>1, <3>6
  <2> QED
    BY <2>2, <2>3
<1>6. CASE FetchLock(p)
  <2>1. CASE Goto(p, "lock", "save_current") /\ UNCHANGED <<g0, usage, file>>
    BY <1>a, <1>b, <1>c, <1>d, <1>h, <1>w, <2>1 DEF HandFenced, Fenced, Goto
  <2>2. CASE Return(p, "lock") /\ UNCHANGED file
    BY <1>a, <1>b, <1>h, <1>w, <2>2, ReturnFenced
  <2> QED
    BY <1>6, <2>1, <2>2 DEF FetchLock, store, locals
<1>s. ASSUME NEW from \in {"save_current", "save_snapshot"}, pc[p] = from, holder = p
      PROVE  /\ ~InTransaction /\ usage[p] \in Usage
             /\ IF usage[p].tag = NoTag THEN usage[p].limits = {}
                ELSE Fenced(usage[p].limits, usage[p].tag)
  <2>1. ~InTransaction
    BY <1>s DEF InTransaction, TransactionLabels
  <2> QED
    BY <1>b, <1>s, <1>u, <2>1, FilesAssumption DEF HandFenced
<1>7. CASE FetchSaveCurrent(p)
  <2>1. pc[p] = "save_current" /\ pc'[p] \in {"save_snapshot", "unlock"}
        /\ UNCHANGED <<g0, usage>> /\ holder = p
    BY <1>a, <1>d, <1>7 DEF FetchSaveCurrent, Goto, locals
  <2>2. FileFence'
    <3>1. CASE Write("cur", usage[p], FALSE)
      BY <1>b, <1>c, <1>s, <2>1, <3>1, WriteFenced DEF Cached
    <3>2. CASE UNCHANGED store
      BY <1>w, <3>2 DEF store
    <3> QED
      BY <1>7, <3>1, <3>2 DEF FetchSaveCurrent
  <2>3. HandFenced(p)'
    BY <1>b, <1>c, <2>1 DEF HandFenced, Fenced
  <2> QED
    BY <1>h, <2>2, <2>3
<1>8. CASE FetchSaveSnapshot(p)
  <2>1. pc[p] = "save_snapshot" /\ pc'[p] = "unlock"
        /\ UNCHANGED <<g0, usage>> /\ holder = p
    BY <1>a, <1>d, <1>8 DEF FetchSaveSnapshot, Goto, locals
  <2>2. FileFence'
    <3>1. CASE Write("snap", usage[p], TRUE)
      BY <1>b, <1>c, <1>s, <2>1, <3>1, WriteFenced DEF Cached
    <3>2. CASE UNCHANGED store
      BY <1>w, <3>2 DEF store
    <3> QED
      BY <1>8, <3>1, <3>2 DEF FetchSaveSnapshot, store
  <2>3. HandFenced(p)'
    BY <1>b, <1>c, <2>1 DEF HandFenced, Fenced
  <2> QED
    BY <1>h, <2>2, <2>3
<1>9. CASE FetchUnlock(p)
  <2>1. CASE Return(p, "unlock") /\ UNCHANGED file
    BY <1>a, <1>b, <1>h, <1>w, <2>1, ReturnFenced
  <2>2. CASE Goto(p, "unlock", "gen") /\ usage' = Set(usage, p, NoFile)
             /\ UNCHANGED file
    BY <1>a, <1>d, <1>h, <1>w, <2>2 DEF HandFenced, Goto, Set
  <2> QED
    BY <1>9, <2>1, <2>2 DEF FetchUnlock, store
<1> QED
  BY <1>1, <1>2, <1>3, <1>4, <1>5, <1>6, <1>7, <1>8, <1>9 DEF Fetch

\* Steps of the bridge keep the fence.
LEMMA IngestFenced ==
  ASSUME Inductive, TypeOK', NEW p \in Bridges, Ingest(p)
  PROVE  FileFence' /\ HandFence'
<1>a. p \in Procs
  BY DEF Procs
<1>b. /\ TypeOK /\ LockInv /\ InHand /\ FileFence /\ HandFence /\ TransactionInv
      /\ HandFenced(p)
  BY <1>a DEF Inductive, HandFence
<1>c. /\ LockInv' /\ (InTransaction' <=> InTransaction)
      /\ SettledGen' = SettledGen /\ SettledEpoch' = SettledEpoch
      /\ UNCHANGED file => SettledFiles' = SettledFiles
      /\ UNCHANGED <<gen, epoch, filesBefore>>
  BY <1>a, <1>b, OrdinaryStep, OrdinarySettles DEF txn
<1>d. /\ SettledGen \in Nat /\ SettledEpoch \in Nat
      /\ g0 \in [Procs -> Nat] /\ usage \in [Procs -> Contents]
      /\ pc \in [Procs -> Labels] /\ gen \in Nat
      /\ file \in [Files -> Contents]
  BY <1>b, SettledType DEF TypeOK
<1>e. LockFree => ~InTransaction
  BY ProcsAssumption DEF LockFree, InTransaction
<1>f. ~InTransaction => gen = SettledGen /\ epoch = SettledEpoch
                         /\ file = SettledFiles
  BY DEF SettledGen, SettledEpoch, SettledFiles
<1>g. \A q \in Procs \ {p} :
         pc'[q] = pc[q] /\ g0'[q] = g0[q] /\ usage'[q] = usage[q]
  BY <1>a, <1>d
  DEF Ingest, BridgeAuthorize, BridgeReceive,
        BridgeLoadSnapshot, BridgeLoadCurrent,
      BridgeDecide, BridgeInvalidate, BridgeSaveSnapshot, BridgeSaveCurrent,
      BridgeDebug, Return, Goto, Set, locals
<1>u. pc[p] \in {"load_snapshot", "load_current", "decide", "invalidate",
                 "ingest_snapshot", "ingest_current", "debug"}
        => usage[p] \in Usage
  BY <1>a, <1>b, <1>d DEF InHand, Contents
<1>h. ASSUME HandFenced(p)' PROVE HandFence'
  <2>1. ASSUME NEW q \in Procs \ {p} PROVE HandFenced(q)'
    BY <1>b, <1>c, <1>g, <2>1 DEF HandFence, HandFenced, Fenced
  <2> QED
    BY <1>h, <2>1 DEF HandFence
<1>w. UNCHANGED file => FileFence'
  BY <1>b, <1>c DEF FileFence, Fenced
\* A step that keeps the record and stays outside the fetch labels.
<1>k. ASSUME NEW from, NEW to, Goto(p, from, to), from \notin {"check"},
             to \notin {"fetch", "check", "stabilize"}, UNCHANGED <<g0, usage>>
      PROVE  HandFence'
  <2>1. pc[p] = from /\ pc'[p] = to
    BY <1>a, <1>d, <1>k DEF Goto
  <2>2. HandFenced(p)'
    BY <1>b, <1>c, <1>k, <2>1 DEF HandFenced, Fenced
  <2> QED
    BY <1>h, <2>2
\* A step that picks up a record of the settled generation.
<1>p. ASSUME NEW from, NEW to \in {"load_snapshot", "ingest_snapshot"}, NEW u,
             Goto(p, from, to), usage' = [usage EXCEPT ![p] = u], LockFree,
             u.tag = gen, \A o \in u.limits : o.ep = epoch
      PROVE  HandFence'
  <2>1. pc'[p] = to /\ usage'[p] = u /\ u.tag # NoTag
    BY <1>a, <1>d, <1>p, FilesAssumption DEF Goto
  <2>2. HandFenced(p)'
    BY <1>c, <1>d, <1>e, <1>f, <1>p, <2>1 DEF HandFenced, Fenced
  <2> QED
    BY <1>h, <2>2
<1>s. ASSUME NEW from \in {"ingest_snapshot", "ingest_current"}, pc[p] = from,
             LockFree
      PROVE  /\ ~InTransaction /\ usage[p] \in Usage
             /\ IF usage[p].tag = NoTag THEN usage[p].limits = {}
                ELSE Fenced(usage[p].limits, usage[p].tag)
  BY <1>b, <1>e, <1>s, <1>u, FilesAssumption DEF HandFenced
<1>0. CASE BridgeAuthorize(p)
  BY <1>0, <1>k, <1>w DEF BridgeAuthorize, store
<1>1. CASE BridgeReceive(p) /\ Goto(p, "receive", "load_snapshot")
  <2>0. PICK t \in 0..clock', limits \in {{}, Provenance(p)} :
          usage' = Set(usage, p,
            [cap |-> t, tag |-> gen, limits |-> limits, aux |-> Provenance(p),
             ok |-> TRUE, inv |-> FALSE, be |-> "browser"])
    BY <1>a, <1>d, <1>1 DEF BridgeReceive, Return, Goto
  <2> DEFINE u == [cap |-> t, tag |-> gen, limits |-> limits,
                   aux |-> Provenance(p), ok |-> TRUE, inv |-> FALSE,
                   be |-> "browser"]
  <2>2. usage' = [usage EXCEPT ![p] = u] /\ u.tag = gen
        /\ \A o \in u.limits : o.ep = epoch
    BY <2>0 DEF Set, Provenance
  <2>3. Goto(p, "receive", "load_snapshot") /\ LockFree /\ UNCHANGED file
    BY <1>a, <1>d, <1>1 DEF BridgeReceive, store, Return, Goto
  <2> HIDE DEF u
  <2> QED
    BY <1>p, <1>w, <2>2, <2>3
<1>r. CASE BridgeReceive(p) /\ ~Goto(p, "receive", "load_snapshot")
  <2>1. Return(p, "receive") /\ UNCHANGED file
    BY <1>r DEF BridgeReceive, store
  <2> QED
    BY <1>a, <1>b, <1>h, <1>w, <2>1, ReturnFenced
<1>2. CASE BridgeLoadSnapshot(p)
  BY <1>2, <1>k, <1>w DEF BridgeLoadSnapshot, store
<1>3. CASE BridgeLoadCurrent(p)
  BY <1>3, <1>k, <1>w DEF BridgeLoadCurrent, store
<1>4. CASE BridgeDecide(p)
  <2>1. UNCHANGED file
    BY <1>4 DEF BridgeDecide, store
  <2>2. CASE Return(p, "decide")
    BY <1>a, <1>b, <1>h, <1>w, <2>1, <2>2, ReturnFenced
  <2>3. CASE ~Return(p, "decide")
    <3>1. UNCHANGED <<g0, usage>>
          /\ \E to \in {"ingest_snapshot", "invalidate"} : Goto(p, "decide", to)
      BY <1>4, <2>3 DEF BridgeDecide, locals
    <3> QED
      BY <1>k, <1>w, <2>1, <3>1
  <2> QED
    BY <2>2, <2>3
<1>5. CASE BridgeInvalidate(p)
  <2>1. InvalidateCachedUsage(Known(p), gen).tag = gen
        /\ InvalidateCachedUsage(Known(p), gen).limits = {}
    BY DEF InvalidateCachedUsage
  <2>2. Goto(p, "invalidate", "ingest_snapshot") /\ LockFree /\ UNCHANGED file
        /\ usage' = [usage EXCEPT ![p] = InvalidateCachedUsage(Known(p), gen)]
    BY <1>5 DEF BridgeInvalidate, store, Set
  <2> QED
    BY <1>p, <1>w, <2>1, <2>2
<1>6. CASE BridgeSaveSnapshot(p)
  <2>1. pc[p] = "ingest_snapshot" /\ LockFree
    BY <1>6 DEF BridgeSaveSnapshot, Return, Goto
  <2>2. CASE Goto(p, "ingest_snapshot", "ingest_current")
             /\ Write("snap", usage[p], TRUE) /\ UNCHANGED <<g0, usage>>
    <3>1. FileFence'
      BY <1>b, <1>c, <1>s, <2>1, <2>2, WriteFenced DEF Cached
    <3> QED
      BY <1>k, <2>2, <3>1
  <2>3. CASE Return(p, "ingest_snapshot") /\ UNCHANGED file
    BY <1>a, <1>b, <1>h, <1>w, <2>3, ReturnFenced
  <2> QED
    BY <1>6, <2>2, <2>3 DEF BridgeSaveSnapshot, store, locals
<1>7. CASE BridgeSaveCurrent(p)
  <2>1. pc[p] = "ingest_current" /\ LockFree
    BY <1>7 DEF BridgeSaveCurrent, Return, Goto
  <2>2. CASE Goto(p, "ingest_current", "debug")
             /\ Write("cur", usage[p], FALSE) /\ UNCHANGED <<g0, usage>>
    <3>1. FileFence'
      BY <1>b, <1>c, <1>s, <2>1, <2>2, WriteFenced DEF Cached
    <3> QED
      BY <1>k, <2>2, <3>1
  <2>3. CASE Return(p, "ingest_current") /\ UNCHANGED file
    BY <1>a, <1>b, <1>h, <1>w, <2>3, ReturnFenced
  <2> QED
    BY <1>7, <2>2, <2>3 DEF BridgeSaveCurrent, store, locals
<1>8. CASE BridgeDebug(p)
  <2>1. HandFence'
    BY <1>a, <1>b, <1>h, <1>8, ReturnFenced DEF BridgeDebug
  <2>2. \A f \in Cached : SettledFiles'[f] = SettledFiles[f]
    BY <1>c, <1>d, <1>8 DEF BridgeDebug, store, SettledFiles, Cached, Files
  <2>3. FileFence'
    BY <1>b, <1>c, <2>2 DEF FileFence, Fenced
  <2> QED
    BY <2>1, <2>3
<1> QED
  BY <1>0, <1>1, <1>r, <1>2, <1>3, <1>4, <1>5, <1>6, <1>7, <1>8 DEF Ingest

\* Steps of the watchdog keep the fence: it never holds a record of its own.
LEMMA WatchFenced ==
  ASSUME Inductive, TypeOK', NEW p \in Watchdogs, Watch(p)
  PROVE  FileFence' /\ HandFence'
<1>a. p \in Procs
  BY DEF Procs
<1>b. /\ TypeOK /\ LockInv /\ FileFence /\ HandFence /\ HandFenced(p)
      /\ pc \in [Procs -> Labels] /\ g0 \in [Procs -> Nat]
      /\ usage \in [Procs -> Contents]
  BY <1>a DEF Inductive, HandFence, TypeOK
<1>c. UNCHANGED file
  BY DEF Watch, WatchdogLoad, WatchdogTag, WatchdogCheck, WatchdogShow, store
<1>d. /\ SettledGen' = SettledGen /\ SettledEpoch' = SettledEpoch
      /\ SettledFiles' = SettledFiles
  BY <1>a, <1>b, <1>c, OrdinarySettles
<1>e. FileFence'
  BY <1>b, <1>d DEF FileFence, Fenced
<1>f. \A q \in Procs \ {p} :
         pc'[q] = pc[q] /\ g0'[q] = g0[q] /\ usage'[q] = usage[q]
  BY <1>a, <1>b
  DEF Watch, WatchdogLoad, WatchdogTag, WatchdogCheck, WatchdogShow, Return,
      Goto, Set, locals
<1>i. \/ \E from \in {"tag_block", "check_block", "show_block"} : Return(p, from)
      \/ /\ \E from, to \in {"idle", "tag_block", "check_block", "show_block"} :
              Goto(p, from, to)
         /\ UNCHANGED usage
  <2>1. CASE WatchdogLoad(p)
    BY <2>1 DEF WatchdogLoad
  <2>2. CASE WatchdogTag(p)
    BY <2>2 DEF WatchdogTag
  <2>3. CASE WatchdogCheck(p)
    BY <2>3 DEF WatchdogCheck, locals
  <2>4. CASE WatchdogShow(p)
    BY <2>4 DEF WatchdogShow
  <2> QED
    BY <2>1, <2>2, <2>3, <2>4 DEF Watch
<1>g. HandFenced(p)'
  <2>1. CASE \E from \in {"tag_block", "check_block", "show_block"} : Return(p, from)
    BY <1>a, <1>b, <2>1, ReturnFenced
  <2>2. CASE /\ \E from, to \in {"idle", "tag_block", "check_block", "show_block"} :
                 Goto(p, from, to)
             /\ UNCHANGED usage
    BY <1>a, <1>b, <1>d, <2>2 DEF HandFenced, Fenced, Goto
  <2> QED
    BY <1>i, <2>1, <2>2
<1>h. ASSUME NEW q \in Procs \ {p} PROVE HandFenced(q)'
  BY <1>b, <1>d, <1>f, <1>h DEF HandFence, HandFenced, Fenced
<1> QED
  BY <1>e, <1>g, <1>h DEF HandFence

\* Steps of an editor and crashes keep the fence, as the account settles.
LEMMA SettlingFenced ==
  ASSUME Inductive, TypeOK', NEW p \in Procs, Settles,
         (p \in Editors /\ Edit(p)) \/ Crash(p)
  PROVE  FileFence' /\ HandFence'
<1>b. /\ TypeOK /\ FileFence /\ HandFence /\ HandFenced(p)
      /\ pc \in [Procs -> Labels]
  BY DEF Inductive, HandFence, TypeOK
<1>1. FileFence'
  BY <1>b, FilesStay
<1>2. CASE \E from : Return(p, from)
  <2>1. /\ HandFenced(p)'
        /\ \A q \in Procs \ {p} :
             pc'[q] = pc[q] /\ g0'[q] = g0[q] /\ usage'[q] = usage[q]
    BY <1>b, <1>2, ReturnFenced
  <2> QED
    BY <1>b, <1>1, <2>1, HandStep
<1>3. CASE p \in Editors /\ Edit(p) /\ ~ \E from : Return(p, from)
  <2>1. /\ UNCHANGED <<g0, usage>>
        /\ pc[p] # "check" /\ pc'[p] \notin {"fetch", "check", "stabilize"}
        /\ \A q \in Procs \ {p} : pc'[q] = pc[q]
    BY <1>b, <1>3
    DEF Edit, EditBegin, EditSaveConfig, Stage, StageFile, BumpGeneration,
        CommitUnlink, CommitDone, UndoGeneration, Undo, UndoFile, UndoConfig,
        EditEnd, Goto, locals
  <2>2. SettledGen \in Nat /\ SettledGen' \in Nat
    BY <1>b, SettledType DEF TypeOK, SettledGen
  <2>3. usage[p] # NoFile => usage[p].tag \in Nat \cup {NoTag}
    BY <1>b DEF TypeOK, Contents, Usage
  <2>4. HandFenced(p)'
    BY <1>b, <2>1, <2>2, <2>3, FencedStays DEF HandFenced, Fenced
  <2> QED
    BY <1>b, <1>1, <2>1, <2>4, HandStep
<1> QED
  BY <1>1, <1>2, <1>3 DEF Crash

\* Inductive is preserved by every step.
THEOREM InductivePreserved ==
  ASSUME Inductive, [Next]_vars
  PROVE  Inductive'
<1>a. TypeOK /\ LockInv /\ InHand /\ FileFence /\ HandFence /\ TransactionInv
  BY DEF Inductive
<1>b. TypeOK' /\ InHand'
  BY <1>a, TypesPreserved
<1>1. CASE UNCHANGED vars
  BY <1>a, <1>b, <1>1
  DEF Inductive, vars, LockInv, FileFence, HandFence, HandFenced, Fenced,
      TransactionInv, InTransaction, SettledGen, SettledEpoch, SettledFiles
<1>2. ASSUME NEW p \in Procs, Fetch(p) \/ Ingest(p) \/ Watch(p)
      PROVE  LockInv' /\ TransactionInv'
  <2>1. /\ LockInv' /\ (InTransaction' <=> InTransaction)
        /\ UNCHANGED <<gen, epoch, epochs, txn>>
    BY <1>a, <1>2, OrdinaryStep
  <2>2. InTransaction => UNCHANGED file
    BY <1>a, <1>2, ProcsAssumption
    DEF Fetch, FetchStart, FetchReadGeneration, FetchOne, FetchCheckGeneration,
        FetchStabilize, FetchLock, FetchSaveCurrent, FetchSaveSnapshot,
        FetchUnlock, Ingest, BridgeAuthorize, BridgeReceive, BridgeLoadSnapshot,
        BridgeLoadCurrent, BridgeDecide, BridgeInvalidate, BridgeSaveSnapshot,
        BridgeSaveCurrent, BridgeDebug, Watch, WatchdogLoad, WatchdogTag,
        WatchdogCheck, WatchdogShow, store, LockFree, InTransaction, Goto,
        TransactionLabels
  <2> QED
    BY <1>a, <2>1, <2>2 DEF TransactionInv, txn
<1>3. CASE \E p \in Fetchers : Fetch(p)
  BY <1>b, <1>2, <1>3, FetchFenced DEF Inductive, Procs
<1>4. CASE \E p \in Bridges : Ingest(p)
  BY <1>b, <1>2, <1>4, IngestFenced DEF Inductive, Procs
<1>5. CASE \E p \in Watchdogs : Watch(p)
  BY <1>b, <1>2, <1>5, WatchFenced DEF Inductive, Procs
<1>6. CASE \E p \in Editors : Edit(p)
  BY <1>a, <1>b, <1>6, EditSettles, SettlingFenced DEF Inductive, Procs
<1>7. CASE \E p \in Procs : Crash(p)
  BY <1>a, <1>b, <1>7, CrashSettles, SettlingFenced DEF Inductive
<1> QED
  BY <1>1, <1>3, <1>4, <1>5, <1>6, <1>7 DEF Next

\* The initial state is fenced.
LEMMA InductiveInit == Init => Inductive
<1> SUFFICES ASSUME Init PROVE Inductive
  OBVIOUS
<1>1. TypeOK /\ InHand
  BY TypesInit
<1>2. ~InTransaction
  BY ProcsAssumption DEF Init, InTransaction
<1>3. LockInv
  BY ProcsAssumption DEF Init, LockInv, HeldLabels, TransactionLabels
<1>4. FileFence
  BY <1>2 DEF Init, FileFence, SettledFiles, NoFiles, Files
<1>5. HandFence
  BY <1>2 DEF Init, HandFence, HandFenced
<1>6. TransactionInv
  BY <1>2 DEF Init, TransactionInv
<1> QED
  BY <1>1, <1>3, <1>4, <1>5, <1>6 DEF Inductive

\* Inductive holds of every reachable state.
THEOREM InductiveCorrect == Spec => []Inductive
<1>1. Inductive /\ [Next]_vars => Inductive'
  BY InductivePreserved
<1> QED
  BY <1>1, InductiveInit, PTL DEF Spec

\* What a reader sees under the generation of the moment was fetched after the
\* last reset.
LEMMA InductiveFences == Inductive => GenerationFence
<1> SUFFICES ASSUME Inductive, NEW f \in Cached, LoadUsage(file[f], gen) # NoFile
             PROVE  FromEpoch(file[f], epoch)
  BY DEF GenerationFence
<1>1. TypeOK /\ FileFence /\ TransactionInv
  BY DEF Inductive
<1>2. file[f] # NoFile /\ file[f].tag = gen /\ f \in Files
  BY DEF LoadUsage, Files
<1>3. SettledFiles[f] = file[f]
  BY <1>1, <1>2 DEF SettledFiles, TransactionInv
<1>4. Fenced(file[f].limits, gen)
  BY <1>1, <1>2, <1>3 DEF FileFence
<1>5. gen = SettledGen /\ epoch = SettledEpoch
  BY <1>1, <1>4 DEF TypeOK, Fenced, SettledGen, SettledEpoch, TransactionInv
<1> QED
  BY <1>4, <1>5 DEF Fenced, FromEpoch

\* The generation fence holds whatever the number of fetchers, bridges and
\* resets, and wherever they crash or fail.
THEOREM GenerationFenceCorrect == Spec => []GenerationFence
  BY InductiveCorrect, InductiveFences, PTL

-----------------------------------------------------------------------------
\* AccountState implements UsageCache

\* Entries of a view are loads.
LEMMA ViewEntry ==
  ASSUME NEW files, NEW g, NEW f \in Cached
  PROVE  View(files, g)[f] = LoadUsage(files[f], g)
  BY DEF View

\* A step that settles is a stutter, a loss or a reset of the cache.
LEMMA SettlingImplements ==
  ASSUME Inductive, TypeOK', Settles
  PROVE  Cache!CacheNext \/ UNCHANGED Cache!cacheVars
<1> DEFINE V == View(SettledFiles, SettledGen)
<1>1. /\ SettledGen \in Nat /\ SettledGen' \in Nat
      /\ SettledEpoch \in Nat /\ SettledEpoch' \in Nat
  BY SettledType DEF Inductive, TypeOK, SettledGen, SettledEpoch
<1>2. \A f \in Cached : SettledFiles'[f] \in {SettledFiles[f], NoFile}
  BY DEF Settles, Files
<1>3. CASE SettledGen' = SettledGen /\ SettledEpoch' = SettledEpoch
  <2> DEFINE kept == {f \in Cached : SettledFiles'[f] = SettledFiles[f]}
  <2>1. V' = [f \in Cached |-> IF f \in kept THEN V[f] ELSE NoFile]
    BY <1>2, <1>3 DEF View, LoadUsage
  <2>2. Cache!Lose
    BY <1>3, <2>1 DEF Cache!Lose, Cache!Cached, Cached
  <2> QED
    BY <2>2 DEF Cache!CacheNext
<1>4. CASE SettledGen' > SettledGen /\ SettledEpoch' > SettledEpoch
  <2>1. ASSUME NEW f \in Cached PROVE LoadUsage(SettledFiles'[f], SettledGen') = NoFile
    <3>1. SettledFiles[f] # NoFile => SettledFiles[f].tag \in Nat
                                      /\ SettledFiles[f].tag <= SettledGen
      BY DEF Inductive, FileFence, Fenced
    <3> QED
      BY <1>1, <1>2, <1>4, <3>1 DEF LoadUsage
  <2>2. V' = [f \in Cached |-> NoFile]
    BY <2>1 DEF View
  <2>3. Cache!Reset
    BY <1>4, <2>2 DEF Cache!Reset, Cache!Cached, Cached
  <2> QED
    BY <2>3 DEF Cache!CacheNext
<1> QED
  BY <1>3, <1>4 DEF Settles

\* A save is a Save of the cache, or changes nothing in it.
LEMMA WriteImplements ==
  ASSUME Inductive, Inductive', ~InTransaction, ~InTransaction',
         NEW f \in Cached, NEW u \in Usage, NEW preserve \in BOOLEAN,
         Write(f, u, preserve)
  PROVE  Cache!CacheNext \/ UNCHANGED Cache!cacheVars
<1>1. PICK c \in SaveUsage(file[f], u, gen, preserve) :
        file' = [file EXCEPT ![f] = c]
  BY DEF Write
<1>2. UNCHANGED <<gen, epoch>>
  BY DEF Write
<1>3. file \in [Files -> Contents] /\ f \in Files /\ gen \in Nat
  BY DEF Inductive, TypeOK, Files
<1>4. SettledGen = gen /\ SettledEpoch = epoch /\ SettledFiles = file
  BY DEF SettledGen, SettledEpoch, SettledFiles
<1>5. SettledGen' = gen /\ SettledEpoch' = epoch /\ SettledFiles' = file'
  BY <1>2 DEF SettledGen, SettledEpoch, SettledFiles
<1>6. CASE c = file[f]
  <2>1. file' = file
    BY <1>1, <1>3, <1>6
  <2> QED
    BY <1>4, <1>5, <2>1 DEF Cache!cacheVars
<1>7. CASE c # file[f]
  <2> DEFINE V == View(SettledFiles, SettledGen)
  <2>1. /\ c \in Usage /\ c.tag = gen /\ c # NoFile
        /\ LoadUsage(file[f], gen) # NoFile => c.cap >= file[f].cap
    BY <1>3, <1>7, SaveUsageResult, FilesAssumption
  <2>2. V'[f] = c
    BY <1>1, <1>3, <1>5, <2>1 DEF View, LoadUsage
  <2>3. V' = [V EXCEPT ![f] = V'[f]]
    <3>1. \A x \in Cached : x # f => file'[x] = file[x]
      BY <1>1, <1>3 DEF Files
    <3>2. /\ V = [x \in Cached |-> LoadUsage(file[x], gen)]
          /\ V' = [x \in Cached |-> LoadUsage(file'[x], gen)]
      BY <1>4, <1>5 DEF View
    <3>3. \A x \in Cached : x # f => V'[x] = V[x]
      BY <3>1, <3>2
    <3> HIDE DEF V
    <3> QED
      BY <3>2, <3>3
  <2>4. \A o \in c.limits : o.ep = epoch
    <3>1. file'[f] = c
      BY <1>1, <1>3
    <3> QED
      BY <1>5, <2>1, <3>1 DEF Inductive, FileFence, Fenced
  <2>5. V[f] # NoFile => V[f] = file[f] /\ LoadUsage(file[f], gen) # NoFile
    BY <1>4, ViewEntry DEF LoadUsage
  <2>6. /\ V'[f] # NoFile
        /\ Cache!FetchedSince(V'[f], SettledEpoch)
        /\ V[f] # NoFile => V'[f].cap >= V[f].cap
    BY <1>4, <2>1, <2>2, <2>4, <2>5 DEF Cache!FetchedSince
  <2>7. Cache!Save(f)
    BY <1>4, <1>5, <2>3, <2>6 DEF Cache!Save
  <2> QED
    BY <2>7 DEF Cache!CacheNext, Cache!Cached, Cached
<1> QED
  BY <1>6, <1>7

\* Fetchers, bridges and watchdogs save a record under the lock, or leave the
\* cached files alone.
LEMMA OrdinaryShape ==
  ASSUME TypeOK, LockInv, InHand, NEW p \in Procs,
         Fetch(p) \/ Ingest(p) \/ Watch(p)
  PROVE  \/ /\ ~InTransaction /\ usage[p] \in Usage
            /\ \E f \in Cached, preserve \in BOOLEAN : Write(f, usage[p], preserve)
         \/ \A f \in Cached : file'[f] = file[f]
<1>u. pc[p] \in {"save_current", "save_snapshot", "ingest_snapshot",
                 "ingest_current"} => usage[p] \in Usage
  BY DEF InHand, TypeOK, Contents
<1>e. LockFree => ~InTransaction
  BY ProcsAssumption DEF LockFree, InTransaction
<1>s. pc[p] \in {"save_current", "save_snapshot"} /\ holder = p => ~InTransaction
  BY DEF InTransaction, TransactionLabels
<1>1. CASE UNCHANGED file
  BY <1>1
<1>2. CASE FetchSaveCurrent(p)
  BY <1>1, <1>2, <1>u, <1>s DEF FetchSaveCurrent, Goto, store, Cached
<1>3. CASE FetchSaveSnapshot(p)
  BY <1>1, <1>3, <1>u, <1>s DEF FetchSaveSnapshot, Goto, store, Cached
<1>4. CASE BridgeSaveSnapshot(p)
  BY <1>1, <1>4, <1>u, <1>e DEF BridgeSaveSnapshot, Goto, store, Cached
<1>5. CASE BridgeSaveCurrent(p)
  BY <1>1, <1>5, <1>u, <1>e DEF BridgeSaveCurrent, Goto, store, Cached
<1>6. CASE BridgeDebug(p)
  BY <1>6 DEF BridgeDebug, store, Cached, Files, TypeOK
<1>7. CASE FetchSaveCurrent(p) \/ FetchSaveSnapshot(p) \/ BridgeSaveSnapshot(p)
           \/ BridgeSaveCurrent(p) \/ BridgeDebug(p) \/ UNCHANGED file
  BY <1>1, <1>2, <1>3, <1>4, <1>5, <1>6, <1>7
<1> QED
  BY <1>7
  DEF Fetch, FetchStart, FetchReadGeneration, FetchOne, FetchCheckGeneration,
      FetchStabilize, FetchLock, FetchUnlock, Ingest, BridgeAuthorize, BridgeReceive,
      BridgeLoadSnapshot, BridgeLoadCurrent, BridgeDecide, BridgeInvalidate,
      Watch, WatchdogLoad, WatchdogTag, WatchdogCheck, WatchdogShow, store

\* Every step of AccountState is a step of UsageCache or a stutter.
THEOREM StepImplements ==
  ASSUME Inductive, [Next]_vars
  PROVE  Cache!CacheNext \/ UNCHANGED Cache!cacheVars
<1>a. Inductive' /\ TypeOK' /\ TypeOK /\ LockInv /\ InHand /\ TransactionInv
  BY InductivePreserved DEF Inductive
<1>1. CASE UNCHANGED vars
  BY <1>1 DEF vars, Cache!cacheVars, View, SettledFiles, SettledGen,
     SettledEpoch, InTransaction
<1>2. ASSUME NEW p \in Procs, Fetch(p) \/ Ingest(p) \/ Watch(p)
      PROVE  Cache!CacheNext \/ UNCHANGED Cache!cacheVars
  <2>1. /\ InTransaction' <=> InTransaction
        /\ UNCHANGED filesBefore
        /\ SettledGen' = SettledGen /\ SettledEpoch' = SettledEpoch
    BY <1>a, <1>2, OrdinaryStep, OrdinarySettles DEF txn
  <2>2. CASE /\ ~InTransaction /\ usage[p] \in Usage
             /\ \E f \in Cached, preserve \in BOOLEAN :
                  Write(f, usage[p], preserve)
    BY <1>a, <2>1, <2>2, WriteImplements
  <2>3. CASE \A f \in Cached : file'[f] = file[f]
    <3>1. \A f \in Cached : SettledFiles'[f] = SettledFiles[f]
      BY <2>1, <2>3 DEF SettledFiles
    <3> QED
      BY <2>1, <3>1 DEF Cache!cacheVars, View
  <2> QED
    BY <1>a, <1>2, <2>2, <2>3, OrdinaryShape
<1>3. CASE \E p \in Fetchers \cup Bridges \cup Watchdogs :
             Fetch(p) \/ Ingest(p) \/ Watch(p)
  BY <1>2, <1>3 DEF Procs
<1>4. CASE \E p \in Editors : Edit(p)
  BY <1>a, <1>4, EditSettles, SettlingImplements
<1>5. CASE \E p \in Procs : Crash(p)
  BY <1>a, <1>5, CrashSettles, SettlingImplements
<1> QED
  BY <1>1, <1>3, <1>4, <1>5 DEF Next

\* The initial state shows an empty cache.
LEMMA InitImplements == Init => Cache!CacheInit
<1> SUFFICES ASSUME Init PROVE Cache!CacheInit
  OBVIOUS
<1>1. ~InTransaction
  BY ProcsAssumption DEF Init, InTransaction
<1>2. SettledFiles = NoFiles /\ SettledEpoch = 0
  BY <1>1 DEF Init, SettledFiles, SettledEpoch
<1>3. View(SettledFiles, SettledGen) = [f \in Cached |-> NoFile]
  BY <1>2 DEF View, LoadUsage, NoFiles, Files
<1> QED
  BY <1>2, <1>3 DEF Cache!CacheInit, Cache!Cached, Cached

\* The account state implements the abstract cache.
THEOREM AccountStateImplementsUsageCache == Spec => ImplementsUsageCache
<1>1. Inductive /\ [Next]_vars => [Cache!CacheNext]_(Cache!cacheVars)
  BY StepImplements
<1> QED
  BY <1>1, InitImplements, InductiveCorrect, PTL
  DEF Spec, ImplementsUsageCache, Cache!CacheSpec
-----------------------------------------------------------------------------
\* Captures never go back

\* Backend priorities are numbers, and only the backend decides.
LEMMA PriorityType ==
  ASSUME NEW u \in Usage
  PROVE  /\ BackendCapturePriority(u) \in Nat
         /\ \A v \in Usage : v.be = u.be =>
              BackendCapturePriority(v) = BackendCapturePriority(u)
  BY DEF BackendCapturePriority

\* _save_usage puts nothing in the place of what a load returned but a later
\* capture, or one of the same instant from a backend that is trusted as much.
LEMMA SaveUsageKeepsCapture ==
  ASSUME NEW old \in Contents, NEW u \in Usage, NEW g \in Nat,
         NEW preserve \in BOOLEAN, NEW c \in SaveUsage(old, u, g, preserve),
         LoadUsage(old, g) # NoFile
  PROVE  \/ c.cap > old.cap
         \/ /\ c.cap = old.cap
            /\ BackendCapturePriority(c) >= BackendCapturePriority(old)
<1>1. LoadUsage(old, g) = old /\ old \in Usage
  BY LoadUsageResult
<1>2. CASE c = old
  BY <1>1, <1>2, PriorityType DEF Usage
<1>3. CASE c # old
  <2>1. /\ ~(old.cap > u.cap) /\ ~EqualCapturePrefersExisting(old, u)
        /\ \E l \in (IF preserve THEN MergedLimits(u, old) ELSE {u.limits}) :
             c = [u EXCEPT !.tag = g, !.limits = l]
    BY <1>1, <1>3 DEF SaveUsage
  <2>2. c \in Usage
    BY <1>3, SaveUsageResult
  <2>3. c.cap = u.cap /\ c.be = u.be
    BY <2>1 DEF Usage
  <2>4. BackendCapturePriority(c) = BackendCapturePriority(u)
    BY <2>2, <2>3, PriorityType
  <2> QED
    BY <1>1, <2>1, <2>3, <2>4, PriorityType DEF EqualCapturePrefersExisting, Usage
<1> QED
  BY <1>2, <1>3

\* A file that stays, appears or disappears shows no older capture.
LEMMA CaptureOfUnchanged ==
  ASSUME TypeOK, NEW f \in Cached, NEW g,
         file'[f] = file[f] \/ file[f] = NoFile \/ file'[f] = NoFile,
         LoadUsage(file[f], gen) # NoFile, LoadUsage(file'[f], g) # NoFile
  PROVE  LET old == LoadUsage(file[f], gen)
             new == LoadUsage(file'[f], g)
         IN  /\ new.cap = old.cap
             /\ BackendCapturePriority(new) >= BackendCapturePriority(old)
<1>1. file[f] \in Contents
  BY DEF TypeOK, Files
<1>2. /\ LoadUsage(file[f], gen) = file[f] /\ file[f] \in Usage
      /\ LoadUsage(file'[f], g) = file'[f] /\ file'[f] # NoFile
  BY <1>1, LoadUsageResult DEF LoadUsage
<1>3. file'[f] = file[f]
  BY <1>2, FilesAssumption
<1> QED
  BY <1>2, <1>3, PriorityType

\* Every step keeps the captures that a reader of the same generation sees.
LEMMA StepKeepsCaptures ==
  ASSUME Inductive, [Next]_vars
  PROVE  CaptureStands
<1>a. TypeOK /\ LockInv /\ InHand /\ file \in [Files -> Contents] /\ gen \in Nat
  BY DEF Inductive, TypeOK
<1>1. SUFFICES ASSUME NEW f \in Cached,
                      ~(\/ file'[f] = file[f] \/ file[f] = NoFile
                        \/ file'[f] = NoFile),
                      LoadUsage(file[f], gen) # NoFile,
                      LoadUsage(file'[f], gen') # NoFile
               PROVE  LET old == LoadUsage(file[f], gen)
                          new == LoadUsage(file'[f], gen')
                      IN  \/ new.cap > old.cap
                          \/ /\ new.cap = old.cap
                             /\ BackendCapturePriority(new)
                                  >= BackendCapturePriority(old)
  BY <1>a, CaptureOfUnchanged DEF CaptureStands
<1>f. f \in Files
  BY DEF Files
<1>2. ASSUME NEW p \in Procs, Fetch(p) \/ Ingest(p) \/ Watch(p)
      PROVE  LET old == LoadUsage(file[f], gen)
                 new == LoadUsage(file'[f], gen')
             IN  \/ new.cap > old.cap
                 \/ /\ new.cap = old.cap
                    /\ BackendCapturePriority(new) >= BackendCapturePriority(old)
  <2>1. PICK h \in Cached, preserve \in BOOLEAN :
          usage[p] \in Usage /\ Write(h, usage[p], preserve)
    BY <1>a, <1>1, <1>2, OrdinaryShape
  <2>2. PICK c \in SaveUsage(file[h], usage[p], gen, preserve) :
          file' = [file EXCEPT ![h] = c]
    BY <2>1 DEF Write
  <2>3. h = f /\ file'[f] = c /\ gen' = gen
    BY <1>a, <1>f, <1>1, <2>1, <2>2 DEF Write
  <2>4. LoadUsage(file[f], gen) = file[f] /\ LoadUsage(file'[f], gen') = c
    BY <1>a, <1>f, <1>1, <1>2, <2>3 DEF LoadUsage
  <2> QED
    BY <1>a, <1>f, <1>1, <2>1, <2>2, <2>3, <2>4, SaveUsageKeepsCapture
<1>3. ~ \E p \in Editors : Edit(p)
  <2>1. ASSUME NEW p, NEW h, NEW from, NEW to, UndoFile(p, h, from, to)
        PROVE  FALSE
    BY <1>a, <1>f, <1>1, <2>1 DEF UndoFile
  <2>2. ASSUME NEW p, NEW h, NEW from, NEW to, StageFile(p, h, from, to)
        PROVE  FALSE
    BY <1>a, <1>f, <1>1, <2>2 DEF StageFile, store
  <2> QED
    BY <1>1, <2>1, <2>2
    DEF Edit, EditBegin, EditSaveConfig, Stage, BumpGeneration, CommitUnlink,
        CommitDone, UndoGeneration, Undo, UndoConfig, EditEnd, store
<1>4. ~ \E p \in Procs : Crash(p)
  BY <1>1 DEF Crash, store
<1>5. ~UNCHANGED vars
  BY <1>1 DEF vars
<1>6. \E p \in Procs : Fetch(p) \/ Ingest(p) \/ Watch(p)
  BY <1>3, <1>4, <1>5 DEF Next, Procs
<1> QED
  BY <1>2, <1>6

\* Whatever the order in which fetches and payloads land, a reader of one
\* generation never sees a file go back.
THEOREM CaptureNeverRegressesCorrect == Spec => CaptureNeverRegresses
<1>1. Inductive /\ [Next]_vars => [CaptureStands]_vars
  BY StepKeepsCaptures
<1> QED
  BY <1>1, InductiveCorrect, PTL DEF Spec, CaptureNeverRegresses

-----------------------------------------------------------------------------
\* A reset is all or nothing

\* Who is at a place of the transaction holds the lock.
LEMMA TransactionHolder ==
  ASSUME LockInv, NEW p \in Procs, pc[p] \in TransactionLabels
  PROVE  holder = p /\ InTransaction
  BY DEF LockInv, HeldLabels, InTransaction

\* Fetchers, bridges and watchdogs are never at a place of the transaction, and
\* leave the files and the configuration alone while somebody is.
LEMMA OrdinaryLeaves ==
  ASSUME TypeOK, LockInv, NEW p \in Procs, Fetch(p) \/ Ingest(p) \/ Watch(p)
  PROVE  /\ pc'[p] \notin TransactionLabels
         /\ \A q \in Procs \ {p} : pc'[q] = pc[q] /\ acct'[q] = acct[q]
         /\ InTransaction => UNCHANGED file
         /\ UNCHANGED <<cfg, rollbackFailed>>
<1>1. InTransaction => UNCHANGED file
  BY ProcsAssumption
  DEF Fetch, FetchStart, FetchReadGeneration, FetchOne, FetchCheckGeneration,
      FetchStabilize, FetchLock, FetchSaveCurrent, FetchSaveSnapshot,
      FetchUnlock, Ingest, BridgeAuthorize, BridgeReceive, BridgeLoadSnapshot,
      BridgeLoadCurrent, BridgeDecide, BridgeInvalidate, BridgeSaveSnapshot,
      BridgeSaveCurrent, BridgeDebug, Watch, WatchdogLoad, WatchdogTag,
      WatchdogCheck, WatchdogShow, store, LockFree, InTransaction, Goto,
      TransactionLabels
<1>2. pc'[p] \notin TransactionLabels
  BY DEF Fetch, FetchStart, FetchReadGeneration, FetchOne, FetchCheckGeneration,
      FetchStabilize, FetchLock, FetchSaveCurrent, FetchSaveSnapshot,
      FetchUnlock, Ingest, BridgeAuthorize, BridgeReceive, BridgeLoadSnapshot,
      BridgeLoadCurrent, BridgeDecide, BridgeInvalidate, BridgeSaveSnapshot,
      BridgeSaveCurrent, BridgeDebug, Watch, WatchdogLoad, WatchdogTag,
      WatchdogCheck, WatchdogShow, Goto, Return, TransactionLabels, TypeOK
<1>3. \A q \in Procs \ {p} : pc'[q] = pc[q] /\ acct'[q] = acct[q]
  BY DEF Fetch, FetchStart, FetchReadGeneration, FetchOne, FetchCheckGeneration,
      FetchStabilize, FetchLock, FetchSaveCurrent, FetchSaveSnapshot,
      FetchUnlock, Ingest, BridgeAuthorize, BridgeReceive, BridgeLoadSnapshot,
      BridgeLoadCurrent, BridgeDecide, BridgeInvalidate, BridgeSaveSnapshot,
      BridgeSaveCurrent, BridgeDebug, Watch, WatchdogLoad, WatchdogTag,
      WatchdogCheck, WatchdogShow, Goto, Return, Set, locals, TypeOK
<1>4. UNCHANGED <<cfg, rollbackFailed>>
  BY DEF Fetch, FetchStart, FetchReadGeneration, FetchOne, FetchCheckGeneration,
      FetchStabilize, FetchLock, FetchSaveCurrent, FetchSaveSnapshot,
      FetchUnlock, Ingest, BridgeAuthorize, BridgeReceive, BridgeLoadSnapshot,
      BridgeLoadCurrent, BridgeDecide, BridgeInvalidate, BridgeSaveSnapshot,
      BridgeSaveCurrent, BridgeDebug, Watch, WatchdogLoad, WatchdogTag,
      WatchdogCheck, WatchdogShow, txn
<1> QED
  BY <1>1, <1>2, <1>3, <1>4

\* A process whose transaction nobody touches stays in its place.
LEMMA PlaceStays ==
  ASSUME NEW q \in Procs, InPlace(q), pc'[q] = pc[q], acct'[q] = acct[q],
         UNCHANGED <<file, bak, moved, unlinked, filesBefore, gen, genBefore,
                     cfg, cfgBefore, rollbackFailed>>
  PROVE  InPlace(q)'
  BY DEF InPlace, FilesPlaced, Restoring, Erasing, Untouched, Aside, Erased, Back

\* Their steps keep the transaction where it is.
LEMMA OrdinaryInPlace ==
  ASSUME TypeOK, LockInv, ResetInv, NEW p \in Procs,
         Fetch(p) \/ Ingest(p) \/ Watch(p)
  PROVE  ResetInv'
<1>1. /\ InTransaction' <=> InTransaction
      /\ UNCHANGED <<gen, txn>>
  BY OrdinaryStep
<1>2. ASSUME NEW q \in Procs, pc'[q] \in TransactionLabels PROVE InPlace(q)'
  <2>1. q # p /\ pc'[q] = pc[q] /\ acct'[q] = acct[q]
    BY <1>2, OrdinaryLeaves
  <2>2. InPlace(q) /\ InTransaction
    BY <1>2, <2>1, TransactionHolder DEF ResetInv
  <2> QED
    BY <1>1, <2>1, <2>2, OrdinaryLeaves, PlaceStays DEF txn
<1> QED
  BY <1>1, <1>2 DEF ResetInv, txn

\* So does a crash, unless it ends the transaction.
LEMMA CrashInPlace ==
  ASSUME TypeOK, LockInv, TransactionInv, ResetInv, NEW p \in Procs, Crash(p)
  PROVE  ResetInv'
<1>1. /\ LockInv'
      /\ pc' = [pc EXCEPT ![p] = "idle"] /\ acct' = [acct EXCEPT ![p] = 0]
      /\ UNCHANGED <<file, gen, cfg, rollbackFailed>>
  BY CrashSettles DEF Crash, Return, Goto, store
<1>2. CASE holder = p
  <2>1. moved' = {} /\ holder' = NoProc
    BY <1>2 DEF Crash, ForgetTransaction
  <2>2. \A q \in Procs : pc'[q] \notin TransactionLabels
    BY <1>1, <2>1, ProcsAssumption DEF LockInv, HeldLabels
  <2> QED
    BY <2>1, <2>2 DEF ResetInv
<1>3. CASE holder # p
  <2>1. UNCHANGED <<holder, bak, moved, unlinked, genBefore, cfgBefore,
                    filesBefore>>
    BY <1>3 DEF Crash
  <2>2. ASSUME NEW q \in Procs, pc'[q] \in TransactionLabels
        PROVE  InPlace(q)' /\ InTransaction /\ InTransaction'
    <3>1. q # p /\ pc'[q] = pc[q] /\ acct'[q] = acct[q]
      BY <1>1, <2>2 DEF TypeOK, TransactionLabels
    <3>2. InPlace(q) /\ holder = q /\ InTransaction
      BY <2>2, <3>1, TransactionHolder DEF ResetInv
    <3>3. InTransaction'
      BY <2>1, <2>2, <3>2 DEF InTransaction
    <3> QED
      BY <1>1, <2>1, <3>1, <3>2, <3>3, PlaceStays
  <2>3. InTransaction => InTransaction'
    <3>1. ASSUME NEW q \in Procs, holder = q, pc[q] \in TransactionLabels
          PROVE  pc'[q] \in TransactionLabels
      BY <1>1, <1>3, <3>1 DEF TypeOK
    <3> QED
      BY <2>2, <3>1 DEF InTransaction
  <2> QED
    BY <2>1, <2>2, <2>3 DEF ResetInv
<1> QED
  BY <1>2, <1>3

\* Only the holder's place is to be shown.
LEMMA HolderInPlace ==
  ASSUME LockInv', NEW p \in Procs, holder' \in {p, NoProc},
         IF pc'[p] \in TransactionLabels THEN InPlace(p)' ELSE moved' = {}
  PROVE  ResetInv'
<1>1. \A q \in Procs : pc'[q] \in TransactionLabels => q = p
  BY ProcsAssumption DEF LockInv, HeldLabels
<1>2. pc'[p] \in TransactionLabels => InTransaction'
  BY DEF LockInv, HeldLabels, InTransaction
<1> QED
  BY <1>1, <1>2 DEF ResetInv

\* The labels, for the provers that compare strings.
LEMMA PlaceLabels ==
  /\ FromDone = {"committed"}
  /\ FromCommit = {"commit", "committed"}
  /\ FromBump = {"bump", "commit", "committed"}
  /\ FromDebug = {"stage_dbg", "bump", "commit", "committed"}
  /\ FromCurrent = {"stage_cur", "stage_dbg", "bump", "commit", "committed"}
  /\ FromSnapshot = {"stage_snap", "stage_cur", "stage_dbg", "bump", "commit",
                     "committed"}
  /\ Restored = {"rolled_back"}
  /\ SnapshotBack = {"undo_config", "rolled_back"}
  /\ CurrentBack = {"undo_snap", "undo_config", "rolled_back"}
  /\ DebugBack = {"undo_cur", "undo_snap", "undo_config", "rolled_back"}
  /\ GenBack = {"undo_dbg", "undo_cur", "undo_snap", "undo_config",
                "rolled_back"}
  /\ Undoing = {"undo_gen", "undo_dbg", "undo_cur", "undo_snap", "undo_config",
                "rolled_back"}
  BY DEF FromDone, FromCommit, FromBump, FromDebug, FromCurrent, FromSnapshot,
     Restored, SnapshotBack, CurrentBack, DebugBack, GenBack, Undoing

\* What a file can be during the transaction stays so when nothing moves.
LEMMA PlacedStays ==
  ASSUME NEW p, FilesPlaced(p), pc[p] \in Undoing => pc'[p] \in Undoing,
         UNCHANGED <<file, bak, moved, unlinked, filesBefore>>
  PROVE  FilesPlaced(p)'
  BY DEF FilesPlaced, Untouched, Aside, Erased, Back

\* The transaction begins with every file in its place.
LEMMA BeginInPlace ==
  ASSUME TypeOK, NEW p \in Procs, EditBegin(p)
  PROVE  InPlace(p)'
<1>1. /\ pc'[p] = "save_config" /\ genBefore' = gen /\ gen' = gen
      /\ moved' = {} /\ unlinked' = {} /\ bak' = NoFiles
      /\ filesBefore' = file /\ file' = file
  BY DEF EditBegin, Goto, TypeOK, store
<1>2. FilesPlaced(p)'
  BY <1>1 DEF FilesPlaced, Untouched, NoFiles
<1>3. Erasing(p)'
  BY <1>1, PlaceLabels DEF Erasing
<1> QED
  BY <1>1, <1>2, <1>3, PlaceLabels DEF InPlace

\* A file that is staged is moved aside, or was not there; an error starts
\* the rollback.
LEMMA StageInPlace ==
  ASSUME TypeOK, NEW p \in Procs, InPlace(p), Stage(p)
  PROVE  InPlace(p)'
<1>1. file \in [Files -> Contents] /\ bak \in [Files -> Contents]
      /\ pc \in [Procs -> Labels]
  BY DEF TypeOK
<1>2. ASSUME NEW f \in Files, NEW from \in {"stage_snap", "stage_cur", "stage_dbg"},
             NEW to \in {"stage_cur", "stage_dbg", "bump"},
             StageFile(p, f, from, to),
             Erasing(p),
             <<f, from, to>> \in {<<"snap", "stage_snap", "stage_cur">>,
                                 <<"cur", "stage_cur", "stage_dbg">>,
                                 <<"dbg", "stage_dbg", "bump">>}
      PROVE  InPlace(p)'
  <2>1. FilesPlaced(p) /\ Erasing(p) /\ pc[p] = from
    BY <1>2, PlaceLabels DEF InPlace, StageFile, Goto
  <2>2. CASE Goto(p, from, to)
    <3>1. /\ pc'[p] = to
          /\ UNCHANGED <<gen, genBefore, cfg, acct, unlinked, filesBefore,
                         rollbackFailed>>
      BY <1>1, <1>2, <2>2 DEF StageFile, Goto, store, locals, txn
    <3>2. CASE file[f] = NoFile /\ UNCHANGED <<file, bak, moved>>
      <4>1. FilesPlaced(p)'
        BY <2>1, <3>1, <3>2, PlacedStays, PlaceLabels
      <4>2. Erasing(p)'
        BY <1>2, <2>1, <3>1, <3>2, PlaceLabels DEF Erasing
      <4> QED
        BY <3>1, <4>1, <4>2, PlaceLabels DEF InPlace
    <3>3. CASE /\ file[f] # NoFile
               /\ file' = [file EXCEPT ![f] = NoFile]
               /\ bak' = [bak EXCEPT ![f] = file[f]]
               /\ moved' = moved \cup {f}
      <4>1. Untouched(f)
        BY <2>1, <3>3, PlaceLabels DEF FilesPlaced, Untouched, Aside, Erased
      <4>2. unlinked \subseteq moved
        BY DEF TypeOK
      <4>3. Aside(f)'
        BY <1>1, <3>1, <3>3, <4>1, <4>2 DEF Untouched, Aside
      <4>4. ASSUME NEW h \in Files, h # f
            PROVE  Untouched(h)' \/ Aside(h)' \/ Erased(h)'
        BY <1>1, <2>1, <3>1, <3>3, <4>4, PlaceLabels
        DEF FilesPlaced, Untouched, Aside, Erased
      <4>5. FilesPlaced(p)'
        BY <4>3, <4>4 DEF FilesPlaced
      <4>6. \A h \in Files : file'[h] = IF h = f THEN NoFile ELSE file[h]
        BY <1>1, <3>3
      <4>7. Erasing(p)'
        BY <1>2, <2>1, <3>1, <4>6, PlaceLabels DEF Erasing, Files, Cached
      <4> QED
        BY <3>1, <4>5, <4>7, PlaceLabels DEF InPlace
    <3> QED
      BY <1>1, <1>2, <2>2, <3>2, <3>3 DEF StageFile, Goto, store, txn
  <2>3. CASE Goto(p, from, "undo_gen") /\ UNCHANGED <<store, txn>>
    <3>1. pc'[p] = "undo_gen" /\ gen' = gen /\ genBefore' = genBefore
          /\ gen = genBefore
      BY <1>1, <2>1, <2>3, PlaceLabels DEF Goto, store, txn, Erasing
    <3>2. FilesPlaced(p)'
      BY <2>1, <2>3, <3>1, PlacedStays, PlaceLabels DEF store, txn
    <3>3. Restoring(p)'
      BY <3>1, PlaceLabels DEF Restoring
    <3> QED
      BY <3>1, <3>2, <3>3, PlaceLabels DEF InPlace
  <2> QED
    BY <1>2, <2>2, <2>3 DEF StageFile
<1>3. Erasing(p)
  BY PlaceLabels DEF Stage, StageFile, Goto, InPlace
<1>4. {"snap", "cur", "dbg"} \subseteq Files
  BY DEF Files, Cached
<1> QED
  BY <1>2, <1>3, <1>4 DEF Stage

\* Saving the changed configuration, incrementing the generation and
\* committing keep it, or turn to the rollback.
LEMMA AdvanceInPlace ==
  ASSUME TypeOK, NEW p \in Procs, InPlace(p),
         \/ EditSaveConfig(p) \/ BumpGeneration(p)
         \/ CommitUnlink(p) \/ CommitDone(p)
  PROVE  InPlace(p)'
<1>1. file \in [Files -> Contents] /\ bak \in [Files -> Contents]
      /\ pc \in [Procs -> Labels] /\ unlinked \subseteq moved
  BY DEF TypeOK
<1>2. FilesPlaced(p) /\ Erasing(p)
  BY PlaceLabels
  DEF InPlace, EditSaveConfig, BumpGeneration, CommitUnlink, CommitDone, Goto
<1>3. CASE EditSaveConfig(p)
  <2>1. /\ pc[p] = "save_config" /\ pc'[p] = "stage_snap"
        /\ cfg' = acct[p] /\ acct' = acct
        /\ UNCHANGED <<gen, genBefore, file, bak, moved, unlinked, filesBefore>>
    BY <1>1, <1>3 DEF EditSaveConfig, Goto, store, locals, txn
  <2>2. FilesPlaced(p)'
    BY <1>2, <2>1, PlacedStays, PlaceLabels
  <2>3. Erasing(p)'
    BY <1>2, <2>1, PlaceLabels DEF Erasing
  <2> QED
    BY <2>1, <2>2, <2>3, PlaceLabels DEF InPlace
<1>4. CASE BumpGeneration(p)
  <2>1. /\ pc[p] = "bump"
        /\ UNCHANGED <<file, cfg, acct, bak, moved, unlinked, filesBefore,
                       genBefore, rollbackFailed>>
    BY <1>4 DEF BumpGeneration, Goto, store, locals, txn
  <2>2. FilesPlaced(p)'
    BY <1>2, <2>1, PlacedStays, PlaceLabels
  <2>3. CASE pc'[p] = "commit" /\ gen' = gen + 1
    <3>1. Erasing(p)'
      BY <1>2, <2>1, <2>3, PlaceLabels DEF Erasing
    <3> QED
      BY <2>2, <2>3, <3>1, PlaceLabels DEF InPlace
  <2>4. CASE pc'[p] = "undo_gen" /\ gen' = gen
    <3>1. Restoring(p)'
      BY <1>2, <2>1, <2>4, PlaceLabels DEF Erasing, Restoring
    <3> QED
      BY <2>2, <2>4, <3>1, PlaceLabels DEF InPlace
  <2> QED
    BY <1>1, <1>4, <2>3, <2>4 DEF BumpGeneration, Goto, store
<1>5. CASE CommitUnlink(p)
  <2>1. /\ pc[p] = "commit"
        /\ UNCHANGED <<file, cfg, acct, gen, moved, filesBefore, genBefore,
                       rollbackFailed>>
    BY <1>5 DEF CommitUnlink, Goto, store, locals, txn
  <2>2. CASE /\ pc'[p] = "commit"
             /\ \E f \in moved \ unlinked :
                  /\ bak' = [bak EXCEPT ![f] = NoFile]
                  /\ unlinked' = unlinked \cup {f}
    <3>1. PICK f \in moved \ unlinked : /\ bak' = [bak EXCEPT ![f] = NoFile]
                                        /\ unlinked' = unlinked \cup {f}
      BY <2>2
    <3>2. f \in Files /\ moved \subseteq Files
      BY <3>1 DEF TypeOK
    <3>3. Aside(f)
      BY <1>2, <2>1, <3>1, <3>2, PlaceLabels
      DEF FilesPlaced, Untouched, Erased, Back
    <3>4. Erased(f)'
      BY <1>1, <2>1, <3>1, <3>2, <3>3 DEF Aside, Erased
    <3>5. ASSUME NEW h \in Files, h # f
          PROVE  Untouched(h)' \/ Aside(h)' \/ Erased(h)'
      BY <1>1, <1>2, <2>1, <3>1, <3>5, PlaceLabels
      DEF FilesPlaced, Untouched, Aside, Erased
    <3>6. FilesPlaced(p)'
      BY <3>4, <3>5 DEF FilesPlaced
    <3>7. Erasing(p)'
      BY <1>2, <2>1, <2>2, PlaceLabels DEF Erasing
    <3> QED
      BY <2>2, <3>6, <3>7, PlaceLabels DEF InPlace
  <2>3. CASE pc'[p] = "undo_gen" /\ UNCHANGED <<bak, unlinked>>
    <3>1. FilesPlaced(p)'
      BY <1>2, <2>1, <2>3, PlacedStays, PlaceLabels
    <3>2. Restoring(p)'
      BY <1>2, <2>1, <2>3, PlaceLabels DEF Erasing, Restoring
    <3> QED
      BY <2>3, <3>1, <3>2, PlaceLabels DEF InPlace
  <2> QED
    BY <1>1, <1>5, <2>2, <2>3 DEF CommitUnlink, Goto, txn
<1>6. CASE CommitDone(p)
  <2>1. /\ pc[p] = "commit" /\ pc'[p] = "committed" /\ moved = unlinked
        /\ UNCHANGED <<file, cfg, acct, gen, bak, moved, unlinked, filesBefore,
                       genBefore>>
    BY <1>1, <1>6 DEF CommitDone, Goto, store, locals, txn
  <2>2. FilesPlaced(p)'
    BY <1>2, <2>1, PlacedStays, PlaceLabels
  <2>3. Erasing(p)'
    BY <1>2, <2>1, PlaceLabels DEF Erasing
  <2> QED
    BY <2>1, <2>2, <2>3, PlaceLabels DEF InPlace
<1> QED
  BY <1>3, <1>4, <1>5, <1>6

\* A file that a rollback returns to its path is as it was; if it cannot be,
\* the rollback has failed.
LEMMA UndoFileInPlace ==
  ASSUME TypeOK, NEW p \in Procs, InPlace(p), NEW f \in Files,
         NEW from \in Labels, NEW to \in Labels, UndoFile(p, f, from, to),
         <<f, from, to>> \in {<<"dbg", "undo_dbg", "undo_cur">>,
                             <<"cur", "undo_cur", "undo_snap">>,
                             <<"snap", "undo_snap", "undo_config">>}
  PROVE  InPlace(p)'
<1>1. file \in [Files -> Contents] /\ bak \in [Files -> Contents]
      /\ pc \in [Procs -> Labels] /\ unlinked \subseteq moved
  BY DEF TypeOK
<1>2. /\ pc[p] = from /\ pc'[p] = to
      /\ UNCHANGED <<gen, genBefore, moved, unlinked, filesBefore>>
  BY <1>1 DEF UndoFile, Goto
<1>3. pc[p] \in Undoing /\ pc'[p] \in Undoing
  BY <1>2, PlaceLabels
<1>4. FilesPlaced(p) /\ Restoring(p)
  BY <1>3 DEF InPlace
<1>5. \A h \in Files \ {f} : file'[h] = file[h] /\ bak'[h] = bak[h]
  BY <1>1 DEF UndoFile
<1>6. /\ file'[f] \in {file[f], filesBefore[f]}
      /\ Untouched(f)' \/ Aside(f)' \/ Erased(f)' \/ Back(f)'
  BY <1>1, <1>2, <1>4
  DEF UndoFile, FilesPlaced, Untouched, Aside, Erased, Back
<1>7. FilesPlaced(p)'
  BY <1>2, <1>3, <1>4, <1>5, <1>6
  DEF FilesPlaced, Untouched, Aside, Erased, Back
<1>8. ~rollbackFailed' => ~rollbackFailed /\ file'[f] = filesBefore[f]
  BY <1>1, <1>4 DEF UndoFile, FilesPlaced, Untouched, Aside, Erased, Back
<1>9. Restoring(p)'
  BY <1>2, <1>4, <1>5, <1>8, PlaceLabels DEF Restoring, Files, Cached
<1> QED
  BY <1>3, <1>7, <1>9 DEF InPlace

\* So are the generation and the configuration.
LEMMA RollbackInPlace ==
  ASSUME TypeOK, NEW p \in Procs, InPlace(p),
         UndoGeneration(p) \/ Undo(p) \/ UndoConfig(p)
  PROVE  InPlace(p)'
<1>1. pc \in [Procs -> Labels]
  BY DEF TypeOK
<1>2. CASE UndoGeneration(p)
  <2>1. /\ pc[p] = "undo_gen" /\ pc'[p] = "undo_dbg"
        /\ UNCHANGED <<genBefore, file, bak, moved, unlinked, filesBefore>>
        /\ ~rollbackFailed' => gen' = genBefore
    BY <1>1, <1>2 DEF UndoGeneration, Goto, store
  <2>2. FilesPlaced(p)'
    BY <2>1, PlacedStays, PlaceLabels DEF InPlace
  <2>3. Restoring(p)'
    BY <2>1, PlaceLabels DEF Restoring
  <2> QED
    BY <2>1, <2>2, <2>3, PlaceLabels DEF InPlace
<1>3. CASE Undo(p)
  <2>1. {"snap", "cur", "dbg"} \subseteq Files
    BY DEF Files, Cached
  <2>2. {"undo_dbg", "undo_cur", "undo_snap", "undo_config"} \subseteq Labels
    BY DEF Labels
  <2> QED
    BY <1>3, <2>1, <2>2, UndoFileInPlace DEF Undo
<1>4. CASE UndoConfig(p)
  <2>1. /\ pc[p] = "undo_config" /\ pc'[p] = "rolled_back"
        /\ UNCHANGED <<gen, genBefore, cfgBefore, file, bak, moved, unlinked,
                       filesBefore>>
        /\ ~rollbackFailed' => ~rollbackFailed /\ cfg' = cfgBefore
    BY <1>1, <1>4 DEF UndoConfig, Goto, store
  <2>2. FilesPlaced(p) /\ Restoring(p)
    BY <2>1, PlaceLabels DEF InPlace
  <2>3. FilesPlaced(p)'
    BY <2>1, <2>2, PlacedStays, PlaceLabels
  <2>4. Restoring(p)'
    BY <2>1, <2>2, PlaceLabels DEF Restoring
  <2> QED
    BY <2>1, <2>3, <2>4, PlaceLabels DEF InPlace
<1> QED
  BY <1>2, <1>3, <1>4

\* The end of a transaction forgets what it moved.
LEMMA EndInPlace ==
  ASSUME TypeOK, NEW p \in Procs, EditEnd(p)
  PROVE  pc'[p] = "idle" /\ moved' = {}
  BY DEF EditEnd, Return, Goto, ForgetTransaction, TypeOK

\* Every step of an edit keeps its transaction in place.
LEMMA EditInPlace ==
  ASSUME TypeOK, LockInv, TransactionInv, ResetInv, NEW p \in Editors, Edit(p)
  PROVE  ResetInv'
<1>a. p \in Procs
  BY DEF Procs
<1>1. LockInv'
  BY EditSettles
<1>2. CASE EditBegin(p)
  <2>1. holder' = p /\ InPlace(p)' /\ pc'[p] = "save_config"
    BY <1>a, <1>2, BeginInPlace DEF EditBegin, Goto, TypeOK
  <2> QED
    BY <1>a, <1>1, <2>1, HolderInPlace DEF TransactionLabels
<1>3. CASE EditEnd(p)
  <2>1. holder' = NoProc /\ pc'[p] = "idle" /\ moved' = {}
    BY <1>a, <1>3, EndInPlace DEF EditEnd
  <2> QED
    BY <1>a, <1>1, <2>1, HolderInPlace DEF TransactionLabels
<1>4. CASE \/ EditSaveConfig(p) \/ Stage(p) \/ BumpGeneration(p)
           \/ CommitUnlink(p) \/ CommitDone(p)
           \/ UndoGeneration(p) \/ Undo(p) \/ UndoConfig(p)
  <2>1. /\ pc[p] \in TransactionLabels /\ pc'[p] \in TransactionLabels
        /\ UNCHANGED holder
    BY <1>a, <1>4
    DEF EditSaveConfig, Stage, StageFile, BumpGeneration, CommitUnlink,
        CommitDone, UndoGeneration, Undo, UndoFile, UndoConfig, Goto,
        TransactionLabels, TypeOK
  <2>2. holder = p /\ InPlace(p)
    BY <1>a, <2>1, TransactionHolder DEF ResetInv
  <2>3. InPlace(p)'
    BY <1>a, <1>4, <2>2, StageInPlace, AdvanceInPlace, RollbackInPlace
  <2> QED
    BY <1>a, <1>1, <2>1, <2>2, <2>3, HolderInPlace
<1> QED
  BY <1>2, <1>3, <1>4 DEF Edit

\* ResetInv is preserved by every step.
LEMMA ResetInvPreserved ==
  ASSUME Inductive, ResetInv, [Next]_vars
  PROVE  ResetInv'
<1>1. TypeOK /\ LockInv /\ TransactionInv
  BY DEF Inductive
<1>2. CASE UNCHANGED vars
  BY <1>2
  DEF vars, ResetInv, InTransaction, InPlace, FilesPlaced, Restoring, Erasing,
      Untouched, Aside, Erased, Back
<1>3. CASE \E p \in Procs : Fetch(p) \/ Ingest(p) \/ Watch(p)
  BY <1>1, <1>3, OrdinaryInPlace
<1>4. CASE \E p \in Editors : Edit(p)
  BY <1>1, <1>4, EditInPlace
<1>5. CASE \E p \in Procs : Crash(p)
  BY <1>1, <1>5, CrashInPlace
<1> QED
  BY <1>2, <1>3, <1>4, <1>5 DEF Next, Procs

\* ResetInv holds of every reachable state.
THEOREM ResetInvCorrect == Spec => []ResetInv
<1>1. Init => ResetInv
  BY ProcsAssumption DEF Init, ResetInv, TransactionLabels
<1>2. Inductive /\ ResetInv /\ [Next]_vars => ResetInv'
  BY ResetInvPreserved
<1> QED
  BY <1>1, <1>2, InductiveCorrect, PTL DEF Spec

\* A reset in place has erased everything when it ends, or put all of it back.
LEMMA ResetInvAllOrNothing ==
  Inductive /\ ResetInv => ResetIsAllOrNothing
<1> SUFFICES ASSUME Inductive, ResetInv PROVE ResetIsAllOrNothing
  OBVIOUS
<1>1. TypeOK /\ LockInv /\ Files = {"cur", "snap", "dbg"}
  BY DEF Inductive, Files, Cached
<1>2. file \in [Files -> Contents] /\ bak \in [Files -> Contents]
      /\ filesBefore \in [Files -> Contents]
      /\ moved \subseteq Files /\ unlinked \subseteq moved
  BY <1>1 DEF TypeOK
<1>3. ResetErases
  <2> SUFFICES ASSUME NEW p \in Editors, pc[p] = "committed"
               PROVE  /\ file = NoFiles /\ bak = NoFiles
                      /\ gen = genBefore + 1 /\ cfg = acct[p]
    BY DEF ResetErases
  <2>1. FilesPlaced(p) /\ Erasing(p)
    BY PlaceLabels DEF ResetInv, InPlace, Procs, TransactionLabels
  <2>2. \A f \in Files : file[f] = NoFile
    BY <1>1, <2>1, PlaceLabels DEF Erasing
  <2>3. moved = unlinked /\ gen = genBefore + 1 /\ cfg = acct[p]
    BY <2>1, PlaceLabels DEF Erasing
  <2>4. \A f \in Files : bak[f] = NoFile
    BY <2>1, <2>3, PlaceLabels
    DEF FilesPlaced, Untouched, Aside, Erased, Back
  <2> QED
    BY <1>2, <2>2, <2>3, <2>4 DEF NoFiles
<1>4. RollbackRestores
  <2> SUFFICES ASSUME NEW p \in Editors, pc[p] = "rolled_back", ~rollbackFailed
               PROVE  /\ gen = genBefore /\ cfg = cfgBefore
                      /\ file = filesBefore
    BY DEF RollbackRestores
  <2>1. Restoring(p)
    BY PlaceLabels DEF ResetInv, InPlace, Procs, TransactionLabels
  <2>2. /\ gen = genBefore /\ cfg = cfgBefore
        /\ \A f \in Files : file[f] = filesBefore[f]
    BY <1>1, <2>1, PlaceLabels DEF Restoring
  <2> QED
    BY <1>2, <2>2
<1>5. StagedPathStaysFree
  <2> SUFFICES ASSUME NEW f \in moved, bak[f] # NoFile PROVE file[f] = NoFile
    BY DEF StagedPathStaysFree
  <2>1. PICK p \in Procs : pc[p] \in TransactionLabels
    BY DEF ResetInv, InTransaction
  <2>2. FilesPlaced(p)
    BY <2>1 DEF ResetInv, InPlace
  <2> QED
    BY <1>2, <2>2 DEF FilesPlaced, Untouched, Aside, Erased, Back
<1> QED
  BY <1>3, <1>4, <1>5 DEF ResetIsAllOrNothing

\* A reset erases everything or changes nothing, whatever fails in it and
\* whoever crashes, for any number of editors, fetchers and bridges.
THEOREM ResetIsAllOrNothingCorrect == Spec => []ResetIsAllOrNothing
  BY InductiveCorrect, ResetInvCorrect, ResetInvAllOrNothing, PTL

-----------------------------------------------------------------------------
\* The debug dump

\* A dump that is still there during a transaction is the one from before it,
\* and the account has not left its epoch, unless a rollback failed.
LEMMA DumpInTransaction ==
  ASSUME Inductive, ResetInv, InTransaction,
         file["dbg"] # NoFile, ~rollbackFailed
  PROVE  file["dbg"] = filesBefore["dbg"] /\ epoch = epochBefore
<1>1. TypeOK /\ TransactionInv /\ "dbg" \in Files
  BY DEF Inductive, Files
<1>2. PICK p \in Procs : pc[p] \in TransactionLabels
  BY DEF InTransaction
<1>3. InPlace(p)
  BY <1>2 DEF ResetInv
<1>4. gen = genBefore
  <2>1. CASE pc[p] \in Undoing
    BY <1>3, <2>1, PlaceLabels DEF InPlace, Restoring
  <2>2. CASE pc[p] \notin Undoing
    BY <1>3, <2>2, PlaceLabels DEF InPlace, Erasing
  <2> QED
    BY <2>1, <2>2
<1> QED
  BY <1>1, <1>4 DEF TypeOK, TransactionInv

\* What a step of an edit, or a crash, leaves behind is of the settled epoch.
LEMMA SettlingDump ==
  ASSUME Inductive, ResetInv, DebugSettled, LockInv', NEW p \in Procs,
         (p \in Editors /\ Edit(p)) \/ Crash(p)
  PROVE  DebugSettled'
<1>1. TypeOK /\ LockInv /\ pc \in [Procs -> Labels]
  BY DEF Inductive, TypeOK
<1>2. CASE EditBegin(p)
  <2>1. ~InTransaction
    BY <1>2, ProcsAssumption DEF EditBegin, LockFree, InTransaction
  <2>2. pc'[p] \in TransactionLabels /\ holder' = p
    BY <1>1, <1>2 DEF EditBegin, Goto, TransactionLabels
  <2>3. InTransaction'
    BY <2>2 DEF InTransaction
  <2>4. filesBefore' = file /\ epochBefore' = epoch
        /\ rollbackFailed' = rollbackFailed
    BY <1>2 DEF EditBegin
  <2> QED
    BY <2>1, <2>3, <2>4 DEF DebugSettled, SettledFiles, SettledEpoch
<1>3. CASE \/ EditSaveConfig(p) \/ Stage(p) \/ BumpGeneration(p)
           \/ CommitUnlink(p) \/ CommitDone(p)
           \/ UndoGeneration(p) \/ Undo(p) \/ UndoConfig(p)
  <2>1. /\ pc[p] \in TransactionLabels /\ pc'[p] \in TransactionLabels
        /\ UNCHANGED <<filesBefore, epochBefore>>
        /\ rollbackFailed => rollbackFailed'
    BY <1>1, <1>3
    DEF EditSaveConfig, Stage, StageFile, BumpGeneration, CommitUnlink,
        CommitDone, UndoGeneration, Undo, UndoFile, UndoConfig, Goto,
        TransactionLabels, txn
  <2>2. InTransaction
    BY <1>1, <2>1, TransactionHolder
  <2>3. InTransaction'
    BY <2>1 DEF LockInv, HeldLabels, InTransaction
  <2> QED
    BY <2>1, <2>2, <2>3 DEF DebugSettled, SettledFiles, SettledEpoch
<1>4. CASE \/ EditEnd(p)
           \/ Crash(p) /\ holder = p
  <2>1. /\ holder' = NoProc
        /\ UNCHANGED <<file, epoch, rollbackFailed>>
    BY <1>4 DEF EditEnd, Crash, store
  <2>2. ~InTransaction'
    BY <2>1, ProcsAssumption DEF InTransaction
  <2>3. CASE InTransaction
    BY <2>1, <2>2, <2>3, DumpInTransaction
    DEF DebugSettled, SettledFiles, SettledEpoch
  <2>4. CASE ~InTransaction
    BY <2>1, <2>2, <2>4 DEF DebugSettled, SettledFiles, SettledEpoch
  <2> QED
    BY <2>3, <2>4
<1>5. CASE Crash(p) /\ holder # p
  <2>1. /\ pc' = [pc EXCEPT ![p] = "idle"]
        /\ UNCHANGED <<holder, file, epoch, epochBefore, filesBefore,
                       rollbackFailed>>
    BY <1>5 DEF Crash, Return, Goto, store
  <2>2. InTransaction' <=> InTransaction
    BY <1>1, <1>5, <2>1 DEF InTransaction, TransactionLabels
  <2> QED
    BY <2>1, <2>2 DEF DebugSettled, SettledFiles, SettledEpoch
<1> QED
  BY <1>2, <1>3, <1>4, <1>5 DEF Edit

\* Fetches, payloads and watchdogs put no dump of another epoch in its place.
LEMMA OrdinaryDump ==
  ASSUME Inductive, DebugSettled, NEW p \in Procs,
         Fetch(p) \/ Ingest(p) \/ Watch(p)
  PROVE  DebugSettled'
<1>1. TypeOK /\ LockInv /\ HandFence /\ InHand
  BY DEF Inductive
<1>2. /\ InTransaction' <=> InTransaction
      /\ UNCHANGED <<filesBefore, rollbackFailed>>
      /\ SettledEpoch' = SettledEpoch
  BY <1>1, OrdinaryStep, OrdinarySettles DEF txn
<1>3. CASE ~BridgeDebug(p)
  <2>1. "dbg" \notin Cached
    BY DEF Cached
  <2>2. ASSUME NEW f \in Cached, NEW u, NEW preserve, Write(f, u, preserve)
        PROVE  file'["dbg"] = file["dbg"]
    BY <1>1, <2>1, <2>2 DEF Write, TypeOK
  <2>3. Fetch(p) => file'["dbg"] = file["dbg"]
    BY <2>2
    DEF Fetch, FetchStart, FetchReadGeneration, FetchOne, FetchCheckGeneration,
        FetchStabilize, FetchLock, FetchSaveCurrent, FetchSaveSnapshot,
        FetchUnlock, store, Cached
  <2>4. Ingest(p) => file'["dbg"] = file["dbg"]
    BY <1>3, <2>2
    DEF Ingest, BridgeAuthorize, BridgeReceive,
        BridgeLoadSnapshot, BridgeLoadCurrent,
        BridgeDecide, BridgeInvalidate, BridgeSaveSnapshot, BridgeSaveCurrent,
        store, Cached
  <2>5. Watch(p) => file'["dbg"] = file["dbg"]
    BY DEF Watch, WatchdogLoad, WatchdogTag, WatchdogCheck, WatchdogShow,
           store
  <2>6. file'["dbg"] = file["dbg"]
    BY <2>3, <2>4, <2>5
  <2> QED
    BY <1>2, <2>6 DEF DebugSettled, SettledFiles
<1>4. CASE BridgeDebug(p)
  <2>1. CASE UNCHANGED file
    BY <1>2, <2>1 DEF DebugSettled, SettledFiles
  <2>2. CASE /\ LockFree /\ usage[p].tag = gen
             /\ file' = [file EXCEPT !["dbg"] = usage[p]]
    <3>1. ~InTransaction
      BY <2>2, ProcsAssumption DEF LockFree, InTransaction
    <3>2. file'["dbg"] = usage[p] /\ gen \in Nat
      BY <1>1, <2>2 DEF TypeOK, Files
    <3>3. usage[p] # NoFile /\ pc[p] = "debug"
      BY <1>1, <1>4 DEF BridgeDebug, Return, Goto, InHand
    <3>4. \A o \in usage[p].limits : o.ep = epoch
      BY <1>1, <2>2, <3>1, <3>3
      DEF HandFence, HandFenced, Fenced, SettledGen, SettledEpoch
    <3> QED
      BY <1>2, <3>1, <3>2, <3>4 DEF DebugSettled, SettledFiles, SettledEpoch
  <2> QED
    BY <1>4, <2>1, <2>2 DEF BridgeDebug, store
<1> QED
  BY <1>3, <1>4

\* DebugSettled holds of every reachable state.
THEOREM DebugSettledCorrect == Spec => []DebugSettled
<1>1. Init => DebugSettled
  BY ProcsAssumption
  DEF Init, DebugSettled, SettledFiles, InTransaction, NoFiles, Files
<1>2. Inductive /\ Inductive' /\ ResetInv /\ DebugSettled /\ [Next]_vars
        => DebugSettled'
  <2> SUFFICES ASSUME Inductive, Inductive', ResetInv, DebugSettled, [Next]_vars
               PROVE  DebugSettled'
    OBVIOUS
  <2>1. CASE UNCHANGED vars
    BY <2>1
    DEF vars, DebugSettled, SettledFiles, SettledEpoch, InTransaction
  <2>2. CASE \E p \in Procs : Fetch(p) \/ Ingest(p) \/ Watch(p)
    BY <2>2, OrdinaryDump
  <2>3. CASE \E p \in Editors : Edit(p)
    BY <2>3, SettlingDump DEF Inductive, Procs
  <2>4. CASE \E p \in Procs : Crash(p)
    BY <2>4, SettlingDump DEF Inductive
  <2> QED
    BY <2>1, <2>2, <2>3, <2>4 DEF Next, Procs
<1> QED
  BY <1>1, <1>2, InductiveCorrect, ResetInvCorrect, PTL DEF Spec

\* After a reset neither a cached file nor a debug dump shows what was captured
\* before it.
THEOREM ResetFenceCorrect == Spec => []ResetFence
<1>1. Inductive /\ ResetInv /\ DebugSettled => DebugFence
  <2> SUFFICES ASSUME Inductive, ResetInv, DebugSettled,
                      file["dbg"] # NoFile, ~rollbackFailed
               PROVE  FromEpoch(file["dbg"], epoch)
    BY DEF DebugFence
  <2>1. CASE InTransaction
    BY <2>1, DumpInTransaction
    DEF DebugSettled, SettledFiles, SettledEpoch, FromEpoch
  <2>2. CASE ~InTransaction
    BY <2>2 DEF DebugSettled, SettledFiles, SettledEpoch, FromEpoch
  <2> QED
    BY <2>1, <2>2
<1>2. GenerationFence /\ DebugFence => ResetFence
  BY DEF ResetFence
<1> QED
  BY <1>1, <1>2, GenerationFenceCorrect, InductiveCorrect, ResetInvCorrect,
     DebugSettledCorrect, PTL
=============================================================================

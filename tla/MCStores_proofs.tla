--------------------------- MODULE MCStores_proofs ---------------------------
(***************************************************************************)
(* The inductive invariants of the parts that keep files: each holds at    *)
(* first, is preserved by every step, and implies what MCSystem checks of  *)
(* its part. The lemmas are about steps, for all values of the constants   *)
(* that the assumptions of MCStores allow.                                 *)
(***************************************************************************)
EXTENDS MCStores, FiniteSetTheorems, WellFoundedInduction, TLAPS

-----------------------------------------------------------------------------
(***************************************************************************)
(* Private files.                                                          *)
(***************************************************************************)
LEMMA WriteInvInit == Write!WriteConstants /\ Write!Init => Write!WriteInv
  BY DEF Write!WriteConstants, Write!Init, Write!Nothing, Write!WriteInv,
     Write!DirectoryOK, Write!Directory, Write!Contents, Write!Engaged,
     Write!CopyHasTarget, Write!NotYet, Write!CopyIsOld, Write!InPlace, Write!Form,
     Write!OldOrNew, Write!ReportIsTrue

LEMMA WriteInvPreserved ==
  ASSUME Write!WriteConstants, Write!WriteInv, [Write!Next]_(Write!vars)
  PROVE  Write!WriteInv'
<1> USE DEF Write!WriteConstants, Write!WriteInv, Write!DirectoryOK, Write!Directory,
        Write!Contents, Write!Engaged, Write!CopyHasTarget, Write!NotYet,
        Write!CopyIsOld, Write!InPlace, Write!Form, Write!OldOrNew,
        Write!ReportIsTrue, Write!Change, Write!Synced, Write!Untouched, Write!Goto,
        Write!End, Write!writeVars
<1>1. ASSUME NEW t \in Texts, NEW c \in BOOLEAN, Write!Begin(t, c)
      PROVE  Write!WriteInv'
  BY <1>1 DEF Write!Begin
<1>2. CASE Write!RestoreStale
  BY <1>2 DEF Write!RestoreStale
<1>3. CASE Write!SyncRestored
  BY <1>3 DEF Write!SyncRestored
<1>4. CASE Write!RecoverNothing
  BY <1>4 DEF Write!RecoverNothing
<1>5. CASE Write!CheckTarget
  BY <1>5 DEF Write!CheckTarget
<1>6. CASE Write!DropStale
  BY <1>6 DEF Write!DropStale
<1>7. CASE Write!SyncStale
  BY <1>7 DEF Write!SyncStale
<1>8. CASE Write!WriteTemporary
  BY <1>8 DEF Write!WriteTemporary
<1>9. CASE Write!CopyBegin
  BY <1>9 DEF Write!CopyBegin
<1>10. CASE Write!CopyEnd
  BY <1>10 DEF Write!CopyEnd
<1>11. CASE Write!SyncBeforeReplace
  BY <1>11 DEF Write!SyncBeforeReplace
<1>12. CASE Write!Replace
  BY <1>12 DEF Write!Replace
<1>13. CASE Write!SyncPublished
  BY <1>13 DEF Write!SyncPublished
<1>14. CASE Write!DropRollback
  BY <1>14 DEF Write!DropRollback
<1>15. CASE Write!UndoPublish
  <2> DEFINE undone == [target |-> v1.rollback, rollback |-> NoText, linked |-> v1.linked]
  <2>1. CASE UNCHANGED <<v1, v2>> /\ v3' = "undoFailed"
    BY <1>15, <2>1 DEF Write!UndoPublish
  <2>2. CASE v1' = undone /\ v2' = v2 \cup {undone} /\ v3' = "undoSync"
    <3>1. undone \in Write!Directory /\ (~v9 => undone.target = v6)
      BY <1>15 DEF Write!UndoPublish
    <3>2. UNCHANGED <<v8, v9, v4, v5, v6, v7>> /\ v3 = "undo"
      BY <1>15, <2>2 DEF Write!UndoPublish
    <3> QED
      BY <2>2, <3>1, <3>2
  <2> QED
    BY <1>15, <2>1, <2>2 DEF Write!UndoPublish
<1>16. CASE Write!SyncUndone
  BY <1>16 DEF Write!SyncUndone
<1>17. CASE Write!UndoFailed
  BY <1>17 DEF Write!UndoFailed
<1>18. CASE Write!Cleanup
  BY <1>18 DEF Write!Cleanup
<1>19. CASE Write!Link
  BY <1>19 DEF Write!Link
<1>20. CASE Write!UnlinkTemporary
  BY <1>20 DEF Write!UnlinkTemporary
<1>21. CASE Write!UndoLink
  BY <1>21 DEF Write!UndoLink
<1>22. CASE Write!SyncLinked
  BY <1>22 DEF Write!SyncLinked
<1>23. CASE Write!Remove
  BY <1>23 DEF Write!Remove
<1>24. CASE Write!Crash
  BY <1>24 DEF Write!Crash, Write!Forget
<1>25. CASE Write!PowerLoss
  BY <1>25 DEF Write!PowerLoss
<1>26. CASE UNCHANGED Write!vars
  BY <1>26 DEF Write!vars
<1> HIDE DEF Write!WriteInv
<1> QED
  BY <1>1, <1>2, <1>3, <1>4, <1>5, <1>6, <1>7, <1>8, <1>9, <1>10, <1>11, <1>12, <1>13,
     <1>14, <1>15, <1>16, <1>17, <1>18, <1>19, <1>20, <1>21, <1>22, <1>23, <1>24,
     <1>25, <1>26 DEF Write!Next

LEMMA WriteInvAtomic == Write!WriteInv => Write!OldOrNew /\ Write!ReportIsTrue
  BY DEF Write!WriteInv

-----------------------------------------------------------------------------
(***************************************************************************)
(* The source of the account pool.                                         *)
(***************************************************************************)
\* The source that belongs to an authority, and when there is none.
LEMMA PoolSourceOf ==
  ASSUME Pool!PoolConstants, NEW a \in Pool!Authority
  PROVE  Pool!SourceOf(a) \in Pool!Sources
         /\ (Pool!SourceOf(a) = NoSource <=> a = Pool!Unconfigured)
  BY DEF Pool!PoolConstants, Pool!SourceOf, Pool!Authority, Pool!Sources,
     Pool!Unconfigured

\* The markers tell what they are of, and are not absent.
LEMMA PoolMarkerKinds ==
  ASSUME Pool!PoolConstants
  PROVE  /\ NoSource \notin Pool!Publications /\ NoSource \notin Pool!Invalidations
         /\ Pool!Publications \cap Pool!Invalidations = {}
         /\ \A m \in Pool!Publications : m.operation = "publish"
                                    /\ m.authority
                                       \in Pool!Authority \ {Pool!Unconfigured}
         /\ \A m \in Pool!Invalidations : m.operation = "invalidate"
                                     /\ m.old.authority # Pool!Unconfigured
                                     /\ m.new.authority = Pool!Unconfigured
  BY DEF Pool!PoolConstants, Pool!Publications, Pool!Invalidations

\* What an operation writes is a marker.
LEMMA PoolMarkersOf ==
  ASSUME Pool!PoolConstants, NEW o \in [old : Pool!Config, new : Pool!Config]
  PROVE  /\ o.new.authority # Pool!Unconfigured
            => Pool!PublishOf(o) \in Pool!Publications
         /\ Pool!PublishOf(o).authority = o.new.authority
         /\ o.old.authority # Pool!Unconfigured /\ o.new.authority = Pool!Unconfigured
              => Pool!InvalidateOf(o) \in Pool!Invalidations
  BY DEF Pool!PoolConstants, Pool!PublishOf, Pool!InvalidateOf, Pool!Publications,
     Pool!Invalidations, Pool!Config, Pool!Authority, Pool!Unconfigured

\* Publishing starts from the configuration of the moment.
LEMMA PoolSaveOwner ==
  ASSUME Pool!PoolConstants, Pool!PoolInv, NEW r \in Records, Pool!SaveOwner(r)
  PROVE  Pool!PoolInv'
<1>1. /\ v1 \in Pool!Config /\ v1.authority \in Pool!Authority
      /\ v1.set \in AccountSets
      /\ UNCHANGED <<v1, v2, v3, v7, v8, v6, v9, v10>>
      /\ v4 = "idle" /\ v4' = "save"
  BY DEF Pool!PoolInv, Pool!TypeOK, Pool!Config, Pool!SaveOwner, Pool!Starts,
     Pool!files, Pool!reader
<1> DEFINE a == [gen |-> v1.authority.gen + 1, records |-> r, set |-> v1.set]
           c == [v1 EXCEPT !.authority = a]
<1>2. v5' = [old |-> v1, new |-> c] /\ v1.authority.gen < MaxGeneration
  BY DEF Pool!SaveOwner, Pool!Starts
<1>3. v1.authority.gen \in 0 .. MaxGeneration
  BY <1>1 DEF Pool!Authority, Pool!Unconfigured, Pool!PoolConstants
<1>4. a \in Pool!Authority /\ a # Pool!Unconfigured /\ a.set = v1.set
  BY <1>1, <1>2, <1>3 DEF Pool!Authority, Pool!Unconfigured, Pool!PoolConstants
<1>5. c \in Pool!Config /\ c.authority = a /\ c.set = v1.set
  BY <1>1, <1>4 DEF Pool!Config
<1> HIDE DEF a, c
<1>6. v5' \in [old : Pool!Config, new : Pool!Config]
      /\ v5'.old = v1 /\ v5'.new = c
  BY <1>1, <1>2, <1>5
<1>7. Pool!Consistent(v1)' /\ Pool!Consistent(v5.old)' /\ Pool!Consistent(v5.new)'
  BY <1>1, <1>4, <1>5, <1>6 DEF Pool!PoolInv, Pool!Consistent
<1>8. Pool!TypeOK' /\ Pool!MarkerCovers'
  BY <1>1 DEF Pool!PoolInv, Pool!TypeOK, Pool!MarkerCovers, Pool!Agrees
<1>9. Pool!PublishKnows' /\ Pool!ChangeKnows' /\ Pool!RecoveryKnows'
  BY <1>1, <1>4, <1>5, <1>6 DEF Pool!PublishKnows, Pool!ChangeKnows,
     Pool!RecoveryKnows
<1>10. Pool!CaptureHolds'
  BY <1>1 DEF Pool!PoolInv, Pool!CaptureHolds, Pool!Locking
<1> QED
  BY <1>6, <1>7, <1>8, <1>9, <1>10 DEF Pool!PoolInv

\* Its later steps.
LEMMA PoolSaves ==
  ASSUME Pool!PoolConstants, Pool!PoolInv,
         \/ Pool!SaveLocks \/ Pool!SaveMarks \/ Pool!SaveConfig
         \/ Pool!SaveSource \/ Pool!SaveUndoes \/ Pool!SaveEnds
  PROVE  Pool!PoolInv'
<1>1. /\ Pool!TypeOK /\ v5 \in [old : Pool!Config, new : Pool!Config]
      /\ Pool!Consistent(v1) /\ Pool!Consistent(v5.old) /\ Pool!Consistent(v5.new)
      /\ Pool!MarkerCovers /\ Pool!PublishKnows /\ Pool!ChangeKnows
         /\ Pool!RecoveryKnows
      /\ Pool!CaptureHolds
  BY DEF Pool!PoolInv
<1>2. /\ v5.old \in Pool!Config /\ v5.new \in Pool!Config
      /\ v5.old.authority \in Pool!Authority /\ v5.new.authority \in Pool!Authority
  BY <1>1 DEF Pool!Config
<1>3. /\ UNCHANGED <<v5, v7, v8, v6>>
      /\ v4 # "idle"
  BY DEF Pool!SaveLocks, Pool!SaveMarks, Pool!SaveConfig, Pool!SaveSource,
     Pool!SaveUndoes, Pool!SaveEnds, Pool!Enter, Pool!Goto, Pool!WriteMarker,
     Pool!reader
<1>4. Pool!TypeOK'
  BY <1>1, <1>2, <1>3, PoolSourceOf
  DEF Pool!SaveLocks, Pool!SaveMarks, Pool!SaveConfig, Pool!SaveSource, Pool!SaveUndoes, Pool!SaveEnds,
      Pool!Enter, Pool!Goto, Pool!WriteMarker, Pool!WriteConfig, Pool!WriteSource, Pool!RemovePending, Pool!files,
      Pool!Fails, Pool!Works, Pool!TypeOK, Pool!PoolConstants
<1>5. Pool!Consistent(v1)' /\ Pool!Consistent(v5.old)' /\ Pool!Consistent(v5.new)'
  BY <1>1, <1>3
  DEF Pool!SaveLocks, Pool!SaveMarks, Pool!SaveConfig, Pool!SaveSource, Pool!SaveUndoes, Pool!SaveEnds,
      Pool!Enter, Pool!Goto, Pool!WriteMarker, Pool!WriteConfig, Pool!WriteSource, Pool!RemovePending, Pool!files,
      Pool!Consistent
<1>6. Pool!CaptureHolds'
  BY <1>1, <1>3
  DEF Pool!SaveLocks, Pool!SaveMarks, Pool!SaveConfig, Pool!SaveSource, Pool!SaveUndoes, Pool!SaveEnds,
      Pool!Enter, Pool!Goto, Pool!WriteMarker, Pool!WriteConfig, Pool!WriteSource, Pool!RemovePending, Pool!files,
      Pool!CaptureHolds, Pool!Locking
<1>m. v5.new.authority # Pool!Unconfigured =>
        Pool!PublishOf(v5) \in Pool!Publications
        /\ Pool!PublishOf(v5).authority = v5.new.authority
  BY <1>1, PoolMarkersOf
<1>7. Pool!MarkerCovers'
  <2>1. CASE Pool!SaveLocks
    BY <1>1, <2>1 DEF Pool!SaveLocks, Pool!Enter, Pool!Goto, Pool!files,
       Pool!MarkerCovers, Pool!Agrees
  <2>2. CASE Pool!SaveMarks
    BY <1>1, <1>m, <2>2, PoolMarkerKinds
    DEF Pool!SaveMarks, Pool!WriteMarker, Pool!Goto, Pool!MarkerCovers, Pool!PublishKnows, Pool!Agrees, Pool!PublishOf
  <2>3. CASE Pool!SaveConfig \/ Pool!SaveSource \/ Pool!SaveUndoes
    BY <1>1, <1>m, <2>3, PoolMarkerKinds
    DEF Pool!SaveConfig, Pool!SaveSource, Pool!SaveUndoes, Pool!WriteConfig, Pool!WriteSource, Pool!files,
        Pool!MarkerCovers, Pool!PublishKnows, Pool!Agrees
  <2>4. CASE Pool!SaveEnds
    BY <1>1, <2>4, PoolMarkerKinds
    DEF Pool!SaveEnds, Pool!RemovePending, Pool!files, Pool!MarkerCovers, Pool!PublishKnows, Pool!Agrees
  <2> QED
    BY <2>1, <2>2, <2>3, <2>4
<1>8. Pool!PublishKnows' /\ Pool!ChangeKnows' /\ Pool!RecoveryKnows'
  BY <1>1, <1>2, <1>3, PoolMarkerKinds
  DEF Pool!SaveLocks, Pool!SaveMarks, Pool!SaveConfig, Pool!SaveSource, Pool!SaveUndoes, Pool!SaveEnds,
      Pool!Enter, Pool!Goto, Pool!WriteMarker, Pool!WriteConfig, Pool!WriteSource, Pool!RemovePending, Pool!files,
      Pool!MarkerCovers, Pool!PublishKnows, Pool!ChangeKnows, Pool!RecoveryKnows, Pool!Agrees, Pool!PublishOf
<1> QED
  BY <1>1, <1>3, <1>4, <1>5, <1>6, <1>7, <1>8 DEF Pool!PoolInv

\* A change of the accounts withdraws the authority.
LEMMA PoolChangeAccounts ==
  ASSUME Pool!PoolConstants, Pool!PoolInv, NEW s \in AccountSets,
         Pool!ChangeAccounts(s)
  PROVE  Pool!PoolInv'
<1>1. /\ v1 \in Pool!Config /\ v1.authority \in Pool!Authority
      /\ UNCHANGED <<v1, v2, v3, v7, v8, v6, v9, v10>>
      /\ v4 = "idle"
      /\ v4' = IF v1.authority = Pool!Unconfigured THEN "e-config" ELSE "edit"
  BY DEF Pool!PoolInv, Pool!TypeOK, Pool!Config, Pool!ChangeAccounts, Pool!Starts,
     Pool!files, Pool!reader
<1> DEFINE c == [v1 EXCEPT !.set = s, !.authority = Pool!Unconfigured]
<1>2. v5' = [old |-> v1, new |-> c]
  BY DEF Pool!ChangeAccounts, Pool!Starts
<1>3. c \in Pool!Config /\ c.authority = Pool!Unconfigured
  BY <1>1 DEF Pool!Config, Pool!Authority
<1> HIDE DEF c
<1>4. v5' \in [old : Pool!Config, new : Pool!Config]
      /\ v5'.old = v1 /\ v5'.new = c
  BY <1>1, <1>2, <1>3
<1>5. Pool!Consistent(v1)' /\ Pool!Consistent(v5.old)' /\ Pool!Consistent(v5.new)'
  BY <1>1, <1>3, <1>4 DEF Pool!PoolInv, Pool!Consistent
<1>6. Pool!TypeOK' /\ Pool!MarkerCovers'
  BY <1>1 DEF Pool!PoolInv, Pool!TypeOK, Pool!MarkerCovers, Pool!Agrees
<1>7. Pool!PublishKnows' /\ Pool!ChangeKnows' /\ Pool!RecoveryKnows'
  BY <1>1, <1>3, <1>4 DEF Pool!PublishKnows, Pool!ChangeKnows, Pool!RecoveryKnows
<1>8. Pool!CaptureHolds'
  BY <1>1 DEF Pool!PoolInv, Pool!CaptureHolds, Pool!Locking
<1> QED
  BY <1>4, <1>5, <1>6, <1>7, <1>8 DEF Pool!PoolInv

\* Its later steps.
LEMMA PoolEdits ==
  ASSUME Pool!PoolConstants, Pool!PoolInv,
         \/ Pool!EditLocks \/ Pool!EditMarks \/ Pool!EditConfig \/ Pool!EditState
            \/ Pool!EditUndoes
         \/ Pool!FinishLocks \/ Pool!FinishChecks \/ Pool!FinishSource
            \/ Pool!FinishEnds
  PROVE  Pool!PoolInv'
<1>1. /\ Pool!TypeOK /\ v5 \in [old : Pool!Config, new : Pool!Config]
      /\ Pool!Consistent(v1) /\ Pool!Consistent(v5.old) /\ Pool!Consistent(v5.new)
      /\ Pool!MarkerCovers /\ Pool!PublishKnows /\ Pool!ChangeKnows
         /\ Pool!RecoveryKnows
      /\ Pool!CaptureHolds
  BY DEF Pool!PoolInv
<1>2. /\ v5.old \in Pool!Config /\ v5.new \in Pool!Config
      /\ v5.old.authority \in Pool!Authority /\ v5.new.authority \in Pool!Authority
  BY <1>1 DEF Pool!Config
<1>3. UNCHANGED <<v5, v7, v8, v6>> /\ v4 # "idle"
  BY DEF Pool!EditLocks, Pool!EditMarks, Pool!EditConfig, Pool!EditState,
     Pool!EditUndoes, Pool!FinishLocks, Pool!FinishChecks, Pool!FinishSource,
     Pool!FinishEnds, Pool!Enter, Pool!Goto, Pool!WriteMarker, Pool!reader
<1>4. Pool!TypeOK'
  BY <1>1, <1>2, <1>3
  DEF Pool!EditLocks, Pool!EditMarks, Pool!EditConfig, Pool!EditState, Pool!EditUndoes, Pool!FinishLocks,
      Pool!FinishChecks, Pool!FinishSource, Pool!FinishEnds, Pool!Enter, Pool!Goto, Pool!WriteMarker,
      Pool!WriteConfig, Pool!WriteSource, Pool!RemovePending, Pool!files, Pool!Fails, Pool!Works, Pool!TypeOK,
      Pool!PoolConstants, Pool!Sources
<1>5. Pool!Consistent(v1)' /\ Pool!Consistent(v5.old)' /\ Pool!Consistent(v5.new)'
  BY <1>1, <1>3
  DEF Pool!EditLocks, Pool!EditMarks, Pool!EditConfig, Pool!EditState, Pool!EditUndoes, Pool!FinishLocks,
      Pool!FinishChecks, Pool!FinishSource, Pool!FinishEnds, Pool!Enter, Pool!Goto, Pool!WriteMarker,
      Pool!WriteConfig, Pool!WriteSource, Pool!RemovePending, Pool!files, Pool!Consistent
<1>6. Pool!CaptureHolds'
  BY <1>1, <1>3
  DEF Pool!EditLocks, Pool!EditMarks, Pool!EditConfig, Pool!EditState, Pool!EditUndoes, Pool!FinishLocks,
      Pool!FinishChecks, Pool!FinishSource, Pool!FinishEnds, Pool!Enter, Pool!Goto, Pool!WriteMarker,
      Pool!WriteConfig, Pool!WriteSource, Pool!RemovePending, Pool!files, Pool!CaptureHolds, Pool!Locking
<1>m. v5.old.authority # Pool!Unconfigured /\ v5.new.authority = Pool!Unconfigured
        => Pool!InvalidateOf(v5) \in Pool!Invalidations
  BY <1>1, PoolMarkersOf
<1>s. Pool!SourceOf(Pool!Unconfigured) = NoSource
  BY DEF Pool!SourceOf
<1>7. Pool!MarkerCovers'
  <2>1. CASE Pool!EditLocks \/ Pool!EditState \/ Pool!FinishLocks \/ Pool!FinishChecks
    BY <1>1, <2>1
    DEF Pool!EditLocks, Pool!EditState, Pool!FinishLocks, Pool!FinishChecks, Pool!Enter, Pool!Goto, Pool!files,
        Pool!MarkerCovers, Pool!Agrees
  <2>2. CASE Pool!EditMarks
    BY <1>1, <1>m, <2>2, PoolMarkerKinds
    DEF Pool!EditMarks, Pool!WriteMarker, Pool!Goto, Pool!MarkerCovers, Pool!ChangeKnows, Pool!Agrees,
        Pool!InvalidateOf
  <2>3. CASE Pool!EditConfig
    BY <1>1, <1>m, <2>3, PoolMarkerKinds
    DEF Pool!EditConfig, Pool!WriteConfig, Pool!files, Pool!MarkerCovers, Pool!ChangeKnows, Pool!Agrees
  <2>4. CASE Pool!EditUndoes
    BY <1>1, <1>m, <2>4, PoolMarkerKinds
    DEF Pool!EditUndoes, Pool!WriteConfig, Pool!files, Pool!MarkerCovers, Pool!ChangeKnows, Pool!Agrees
  <2>5. CASE Pool!FinishSource \/ Pool!FinishEnds
    BY <1>1, <1>s, <2>5, PoolMarkerKinds
    DEF Pool!FinishSource, Pool!FinishEnds, Pool!WriteSource, Pool!RemovePending, Pool!files,
        Pool!MarkerCovers, Pool!ChangeKnows, Pool!Agrees
  <2> QED
    BY <2>1, <2>2, <2>3, <2>4, <2>5
<1>8. Pool!PublishKnows' /\ Pool!RecoveryKnows'
  BY <1>3
  DEF Pool!EditLocks, Pool!EditMarks, Pool!EditConfig, Pool!EditState, Pool!EditUndoes, Pool!FinishLocks,
      Pool!FinishChecks, Pool!FinishSource, Pool!FinishEnds, Pool!Enter, Pool!Goto, Pool!WriteMarker,
      Pool!PublishKnows, Pool!RecoveryKnows
<1>9. Pool!ChangeKnows'
  <2>1. CASE Pool!EditLocks \/ Pool!EditMarks
    BY <1>1, <1>3, <2>1, PoolMarkerKinds
    DEF Pool!EditLocks, Pool!EditMarks, Pool!Enter, Pool!Goto, Pool!WriteMarker, Pool!files, Pool!MarkerCovers,
        Pool!ChangeKnows, Pool!Agrees, Pool!InvalidateOf
  <2>2. CASE Pool!EditConfig \/ Pool!EditState \/ Pool!EditUndoes
    BY <1>1, <1>3, <2>2
    DEF Pool!EditConfig, Pool!EditState, Pool!EditUndoes, Pool!Goto, Pool!WriteConfig, Pool!files,
        Pool!ChangeKnows, Pool!Agrees
  <2>3. CASE Pool!FinishLocks \/ Pool!FinishChecks \/ Pool!FinishSource
             \/ Pool!FinishEnds
    BY <1>1, <1>3, <1>m, <2>3, PoolMarkerKinds
    DEF Pool!FinishLocks, Pool!FinishChecks, Pool!FinishSource, Pool!FinishEnds, Pool!Enter, Pool!Goto,
        Pool!WriteSource, Pool!RemovePending, Pool!files, Pool!ChangeKnows, Pool!MarkerCovers, Pool!InvalidateOf
  <2> QED
    BY <2>1, <2>2, <2>3
<1> QED
  BY <1>1, <1>3, <1>4, <1>5, <1>6, <1>7, <1>8, <1>9 DEF Pool!PoolInv

\* A recovery finishes or forgets what the marker says.
LEMMA PoolRecoveries ==
  ASSUME Pool!PoolConstants, Pool!PoolInv,
         \/ Pool!Recover \/ Pool!RecoverLocks \/ Pool!RecoverReads
         \/ Pool!RecoverConfig \/ Pool!RecoverSource \/ Pool!RecoverEnds
  PROVE  Pool!PoolInv'
<1>1. /\ Pool!TypeOK /\ v5 \in [old : Pool!Config, new : Pool!Config]
      /\ Pool!Consistent(v1) /\ Pool!Consistent(v5.old) /\ Pool!Consistent(v5.new)
      /\ Pool!MarkerCovers /\ Pool!PublishKnows /\ Pool!ChangeKnows
         /\ Pool!RecoveryKnows
      /\ Pool!CaptureHolds
  BY DEF Pool!PoolInv
<1>2. /\ v1 \in Pool!Config /\ UNCHANGED <<v7, v8>>
      /\ v5' \in [old : Pool!Config, new : Pool!Config]
      /\ Pool!Consistent(v5.old)' /\ Pool!Consistent(v5.new)'
  BY <1>1
  DEF Pool!Recover, Pool!RecoverLocks, Pool!RecoverReads, Pool!RecoverConfig, Pool!RecoverSource,
      Pool!RecoverEnds, Pool!Starts, Pool!Enter, Pool!Goto, Pool!reader, Pool!TypeOK, Pool!Consistent
<1>m. v6 \in Pool!Publications =>
        /\ [v1 EXCEPT !.authority = v6.authority] \in Pool!Config
        /\ Pool!SourceOf(v6.authority) \in Pool!Sources
        /\ v6.authority # Pool!Unconfigured
  BY <1>2, PoolMarkerKinds, PoolSourceOf DEF Pool!Config
<1>3. Pool!TypeOK'
  BY <1>1, <1>2, <1>m
  DEF Pool!Recover, Pool!RecoverLocks, Pool!RecoverReads, Pool!RecoverConfig, Pool!RecoverSource,
      Pool!RecoverEnds, Pool!Starts, Pool!Enter, Pool!Goto, Pool!WriteConfig, Pool!WriteSource,
      Pool!RemovePending, Pool!files, Pool!Fails, Pool!Works, Pool!TypeOK, Pool!RecoveryKnows, Pool!PoolConstants,
      Pool!Sources
<1>4. CASE Pool!RecoverConfig
  <2>1. /\ v3 = v6 /\ v6 \in Pool!Publications
        /\ v1.set = v6.authority.set
        /\ UNCHANGED <<v5, v6, v3, v2>>
        /\ \/ v1' = [v1 EXCEPT !.authority = v6.authority]
              /\ v4' = "r-source"
           \/ v1' = v1 /\ v4' = "idle"
    BY <1>1, <1>4
    DEF Pool!RecoverConfig, Pool!RecoveryKnows, Pool!WriteConfig, Pool!Goto, Pool!files
  <2>2. \/ /\ v1'.authority = v6.authority /\ v1'.set = v1.set
           /\ v4' = "r-source"
        \/ v1' = v1 /\ v4' = "idle"
    BY <1>2, <2>1 DEF Pool!Config
  <2>3. Pool!MarkerCovers' /\ Pool!Consistent(v1)'
    BY <1>1, <2>1, <2>2, PoolMarkerKinds DEF Pool!MarkerCovers, Pool!Agrees,
       Pool!Consistent
  <2>4. Pool!PublishKnows' /\ Pool!ChangeKnows' /\ Pool!RecoveryKnows'
    BY <2>1, <2>2 DEF Pool!PublishKnows, Pool!ChangeKnows, Pool!RecoveryKnows
  <2>5. Pool!CaptureHolds'
    BY <1>1, <1>2, <1>4, <2>1 DEF Pool!CaptureHolds, Pool!RecoverConfig, Pool!Locking
  <2> QED
    BY <1>2, <1>3, <2>3, <2>4, <2>5 DEF Pool!PoolInv
<1>5. CASE Pool!RecoverReads
  <2>1. /\ UNCHANGED <<v1, v2, v3, v5>> /\ v6' = v3
        /\ v4 = "r-read"
        /\ v4' = IF v3 = NoSource THEN "idle" ELSE Pool!RecoverAfter(v3)
    BY <1>5 DEF Pool!RecoverReads, Pool!Goto, Pool!files
  <2>2. Pool!MarkerCovers' /\ Pool!Consistent(v1)' /\ Pool!CaptureHolds'
    BY <1>1, <1>2, <2>1 DEF Pool!MarkerCovers, Pool!Agrees, Pool!Consistent,
       Pool!CaptureHolds, Pool!Locking
  <2>3. Pool!PublishKnows' /\ Pool!ChangeKnows'
    BY <2>1 DEF Pool!RecoverAfter, Pool!PublishKnows, Pool!ChangeKnows
  <2>4. Pool!RecoveryKnows'
    <3>1. CASE v3 = NoSource
      BY <2>1, <3>1 DEF Pool!RecoveryKnows
    <3>2. CASE v3 \in Pool!Publications
      <4>1. v3.operation = "publish"
        BY <3>2, PoolMarkerKinds
      <4>2. v4' \in {"r-source", "r-config", "idle"}
        BY <2>1, <3>2, <4>1, PoolMarkerKinds DEF Pool!RecoverAfter
      <4>3. /\ v4' = "r-source" => v1.authority = v3.authority
            /\ v4' = "r-config" => v1.set = v3.authority.set
        BY <2>1, <3>2, <4>1, PoolMarkerKinds DEF Pool!RecoverAfter
      <4> QED
        BY <2>1, <3>2, <4>2, <4>3 DEF Pool!RecoveryKnows
    <3>3. CASE v3 \in Pool!Invalidations
      BY <1>1, <2>1, <3>3, PoolMarkerKinds
      DEF Pool!RecoverAfter, Pool!RecoveryKnows, Pool!MarkerCovers, Pool!Agrees
    <3> QED
      BY <1>1, <3>1, <3>2, <3>3 DEF Pool!MarkerCovers
  <2> QED
    BY <1>2, <1>3, <2>2, <2>3, <2>4 DEF Pool!PoolInv
<1>6. CASE Pool!Recover \/ Pool!RecoverLocks \/ Pool!RecoverSource \/ Pool!RecoverEnds
  <2>1. UNCHANGED <<v1, v6>>
    BY <1>6
    DEF Pool!Recover, Pool!RecoverLocks, Pool!RecoverSource, Pool!RecoverEnds, Pool!Starts,
        Pool!WriteSource, Pool!RemovePending, Pool!files
  <2>2. Pool!MarkerCovers' /\ Pool!Consistent(v1)'
    BY <1>1, <1>6, <2>1, PoolMarkerKinds
    DEF Pool!Recover, Pool!RecoverLocks, Pool!RecoverSource, Pool!RecoverEnds, Pool!Starts, Pool!WriteSource,
        Pool!RemovePending, Pool!files, Pool!MarkerCovers, Pool!RecoveryKnows, Pool!Agrees, Pool!Consistent,
        Pool!SourceOf
  <2>3. Pool!PublishKnows' /\ Pool!ChangeKnows' /\ Pool!RecoveryKnows'
    BY <1>1, <1>6, <2>1, PoolMarkerKinds
    DEF Pool!Recover, Pool!RecoverLocks, Pool!RecoverSource, Pool!RecoverEnds, Pool!Starts, Pool!Enter, Pool!Goto,
        Pool!WriteSource, Pool!RemovePending, Pool!files, Pool!PublishKnows, Pool!ChangeKnows,
        Pool!RecoveryKnows, Pool!Agrees, Pool!SourceOf
  <2>4. Pool!CaptureHolds'
    BY <1>1, <1>2, <1>6
    DEF Pool!Recover, Pool!RecoverLocks, Pool!RecoverSource, Pool!RecoverEnds, Pool!Starts, Pool!Enter, Pool!Goto,
        Pool!WriteSource, Pool!RemovePending, Pool!files, Pool!CaptureHolds, Pool!Locking
  <2> QED
    BY <1>2, <1>3, <2>2, <2>3, <2>4 DEF Pool!PoolInv
<1> QED
  BY <1>4, <1>5, <1>6

\* A source that is read for publication stays what it was while it is used.
LEMMA PoolOthers ==
  ASSUME Pool!PoolConstants, Pool!PoolInv,
         Pool!SaveOther \/ Pool!Capture \/ Pool!CaptureChecks \/ Pool!Release
         \/ Pool!Crash
  PROVE  Pool!PoolInv'
<1>1. /\ Pool!TypeOK /\ v1 \in Pool!Config
         /\ v5 \in [old : Pool!Config, new : Pool!Config]
      /\ Pool!Consistent(v1) /\ Pool!Consistent(v5.old) /\ Pool!Consistent(v5.new)
      /\ Pool!MarkerCovers /\ Pool!PublishKnows /\ Pool!ChangeKnows
         /\ Pool!RecoveryKnows
      /\ Pool!CaptureHolds
  BY DEF Pool!PoolInv, Pool!TypeOK
<1>2. CASE Pool!SaveOther
  <2>1. /\ v1' = [v1 EXCEPT !.other = ~v1.other] /\ v4 = "idle"
        /\ UNCHANGED <<v2, v3, v4, v5, v7, v8, v6, v9,
                       v10>>
    BY <1>2 DEF Pool!SaveOther, Pool!WriteConfig, Pool!reader
  <2>2. /\ v1' \in Pool!Config /\ v1'.authority = v1.authority
        /\ v1'.set = v1.set
    BY <1>1, <2>1 DEF Pool!Config
  <2> QED
    BY <1>1, <2>1, <2>2
    DEF Pool!PoolInv, Pool!TypeOK, Pool!Consistent, Pool!MarkerCovers, Pool!Agrees, Pool!PublishKnows,
        Pool!ChangeKnows, Pool!RecoveryKnows, Pool!CaptureHolds
<1>3. CASE Pool!Capture \/ Pool!CaptureChecks \/ Pool!Release
  <2>1. UNCHANGED <<v1, v2, v3, v4, v5, v6, v9, v10>>
    BY <1>3 DEF Pool!Capture, Pool!CaptureChecks, Pool!Release, Pool!files
  <2>2. Pool!CaptureHolds' /\ Pool!TypeOK'
    BY <1>1, <1>3, <2>1
    DEF Pool!Capture, Pool!CaptureChecks, Pool!Release, Pool!CaptureHolds, Pool!TypeOK
  <2> QED
    BY <1>1, <2>1, <2>2
    DEF Pool!PoolInv, Pool!Consistent, Pool!MarkerCovers, Pool!Agrees, Pool!PublishKnows, Pool!ChangeKnows,
        Pool!RecoveryKnows
<1>4. CASE Pool!Crash
  <2>1. /\ UNCHANGED <<v1, v2, v3, v5, v6, v9, v7, v8>>
        /\ v4' = "idle" /\ v10' \in 0 .. MaxErrors
    BY <1>1, <1>4 DEF Pool!Crash, Pool!Goto, Pool!Fails, Pool!files, Pool!reader,
       Pool!TypeOK, Pool!PoolConstants
  <2> QED
    BY <1>1, <2>1
    DEF Pool!PoolInv, Pool!TypeOK, Pool!Consistent, Pool!MarkerCovers, Pool!Agrees, Pool!PublishKnows,
        Pool!ChangeKnows, Pool!RecoveryKnows, Pool!CaptureHolds, Pool!Locking
<1> QED
  BY <1>2, <1>3, <1>4

\* PoolInv holds initially.
LEMMA PoolInvInit == Pool!PoolConstants /\ Pool!Init => Pool!PoolInv
<1> SUFFICES ASSUME Pool!PoolConstants, Pool!Init PROVE Pool!PoolInv
  OBVIOUS
<1>1. /\ v1 \in Pool!Config /\ v1.authority = Pool!Unconfigured
      /\ v2 = NoSource /\ v3 = NoSource /\ v4 = "idle"
      /\ v5 = [old |-> v1, new |-> v1] /\ v7 = "no"
      /\ v8 = NoSource /\ v9 = 0 /\ v10 = 0
  BY DEF Pool!Init, Pool!Config, Pool!Authority
<1>2. Pool!TypeOK
  BY <1>1 DEF Pool!TypeOK, Pool!Sources, Pool!PoolConstants
<1>3. Pool!MarkerCovers
  BY <1>1, PoolMarkerKinds DEF Pool!MarkerCovers, Pool!Agrees, Pool!SourceOf
<1>4. Pool!PublishKnows /\ Pool!ChangeKnows /\ Pool!RecoveryKnows /\ Pool!CaptureHolds
  BY <1>1 DEF Pool!PublishKnows, Pool!ChangeKnows, Pool!RecoveryKnows,
     Pool!CaptureHolds, Pool!Locking
<1> QED
  BY <1>1, <1>2, <1>3, <1>4 DEF Pool!PoolInv, Pool!Consistent

\* PoolInv is preserved by every step.
LEMMA PoolInvPreserved ==
  ASSUME Pool!PoolConstants, Pool!PoolInv, [Pool!Next]_(Pool!poolVars)
  PROVE  Pool!PoolInv'
<1>1. CASE UNCHANGED Pool!poolVars
  BY <1>1
  DEF Pool!poolVars, Pool!PoolInv, Pool!TypeOK, Pool!Consistent, Pool!MarkerCovers, Pool!Agrees,
      Pool!PublishKnows, Pool!ChangeKnows, Pool!RecoveryKnows, Pool!CaptureHolds
<1>2. CASE Pool!Next
  BY <1>2, PoolSaveOwner, PoolSaves, PoolChangeAccounts, PoolEdits, PoolRecoveries,
     PoolOthers DEF Pool!Next
<1> QED
  BY <1>1, <1>2

\* Without a marker the source is what the configuration says, and so is one
\* that is being published.
LEMMA PoolInvAgrees == Pool!PoolInv => Pool!SourceAgrees
  BY DEF Pool!PoolInv, Pool!MarkerCovers, Pool!Consistent, Pool!Agrees,
     Pool!CaptureHolds, Pool!SourceAgrees

-----------------------------------------------------------------------------
(***************************************************************************)
(* The generations of evidence and their pointer.                          *)
(***************************************************************************)
LEMMA EvidenceInvInit ==
  Evidence!EvidenceConstants /\ Evidence!Init => Evidence!EvidenceInv
  BY DEF Evidence!EvidenceConstants, Evidence!Ids, Evidence!Init,
     Evidence!EvidenceInv, Evidence!ValuesOK, Evidence!FilesWhole,
     Evidence!ReaderAlone, Evidence!FilesOfOne, Evidence!Unmarked,
     Evidence!WriterKnows, Evidence!OutcomeIsTrue

\* A pointer stays whole when generations are added, and when one goes that it
\* does not name.
LEMMA WholeGrows ==
  ASSUME NEW p, NEW c, NEW d, c \subseteq d, Evidence!Whole(p, c)
  PROVE  Evidence!Whole(p, d)
  BY DEF Evidence!Whole

LEMMA WholeShrinks ==
  ASSUME NEW p, NEW c, NEW g, Evidence!Whole(p, c), g \notin {p.now, p.before}
  PROVE  Evidence!Whole(p, c \ {g})
  BY DEF Evidence!Whole

\* The pointer of a rollback.
LEMMA SwappedOf ==
  ASSUME NEW c, NEW p \in Evidence!Pointers, p.before # Nil, Evidence!Whole(p, c)
  PROVE  LET q == [now |-> p.before, before |-> p.now]
         IN  q \in Evidence!Pointers /\ Evidence!Whole(q, c)
  BY DEF Evidence!Pointers, Evidence!Whole

\* The pointer of a publication.
LEMMA PublishedOf ==
  ASSUME NEW c \in SUBSET Evidence!Ids, NEW g \in Evidence!Ids,
         NEW o \in Evidence!Pointers \cup {Nil}, o # Nil => Evidence!Whole(o, c)
  PROVE  LET p == [now |-> g, before |-> IF o = Nil THEN Nil ELSE o.now]
         IN  p \in Evidence!Pointers /\ Evidence!Whole(p, c \cup {g})
  BY DEF Evidence!Pointers, Evidence!Whole

LEMMA MarkerOf ==
  ASSUME Evidence!EvidenceConstants, NEW o \in Evidence!Pointers \cup {Nil},
         NEW n \in Evidence!Pointers
  PROVE  LET m == [old |-> o, new |-> n]
         IN  m \in Evidence!Markers /\ m # Nil /\ m.old = o /\ m.new = n
  BY DEF Evidence!EvidenceConstants, Evidence!Markers

LEMMA EvidenceInvPreserved ==
  ASSUME Evidence!EvidenceConstants, Evidence!EvidenceInv,
         [Evidence!Next]_(Evidence!evidenceVars)
  PROVE  Evidence!EvidenceInv'
<1> USE DEF Evidence!EvidenceConstants, Evidence!EvidenceInv, Evidence!ValuesOK,
        Evidence!FilesWhole, Evidence!ReaderAlone, Evidence!FilesOfOne,
        Evidence!Unmarked, Evidence!WriterKnows, Evidence!OutcomeIsTrue,
        Evidence!Valid, Evidence!files
<1>1. ASSUME NEW t \in {"publish", "rollback", "collect", "recover"}, Evidence!Begin(t)
      PROVE  Evidence!EvidenceInv'
  BY <1>1 DEF Evidence!Begin, Evidence!Exclusive, Evidence!Unlocked
<1>2. CASE Evidence!RecoverStaging
  BY <1>2 DEF Evidence!RecoverStaging, Evidence!Generations, Evidence!Report,
     Evidence!Goto
<1>3. CASE Evidence!RecoverCommit
  BY <1>3 DEF Evidence!RecoverCommit, Evidence!SetCurrent, Evidence!Report,
     Evidence!Goto
<1>4. CASE Evidence!RecoverUnmark
  BY <1>4 DEF Evidence!RecoverUnmark, Evidence!SetCommit, Evidence!Report,
     Evidence!Goto
<1>5. CASE Evidence!RecoverStash
  BY <1>5 DEF Evidence!RecoverStash, Evidence!SetCurrent, Evidence!Report,
     Evidence!Goto
<1>6. CASE Evidence!RecoverUnstash
  BY <1>6 DEF Evidence!RecoverUnstash, Evidence!SetStash, Evidence!Report,
     Evidence!Goto
<1>7. CASE Evidence!Proceed
  <2>1. /\ UNCHANGED <<v1, v3, v4, v5, v7, v11, v12>>
        /\ v6 = "recovered" /\ v8' = v3
    BY <1>7 DEF Evidence!Proceed
  <2>2. CASE v9' = v3 /\ v6' \in {"free", "done", "prune"} /\ v10' \in {v10, "refused"}
                /\ (v6' = "free" => v10' = "refused")
    BY <2>1, <2>2
  <2>3. CASE v9' = [now |-> v3.before, before |-> v3.now] /\ v6' = "mark"
                /\ v3 # Nil /\ v3.before # Nil
    <3>1. v9' \in Evidence!Pointers /\ Evidence!Whole(v9', v1)
      BY <2>3, SwappedOf
    <3> QED
      BY <2>1, <2>3, <3>1
  <2> QED
    BY <1>7, <2>2, <2>3 DEF Evidence!Proceed, Evidence!Refuse, Evidence!RollBack,
       Evidence!Collect
<1>8. CASE Evidence!Done
  BY <1>8 DEF Evidence!Done, Evidence!Report
<1>9. CASE Evidence!Prune
  <2>1. CASE UNCHANGED v1
    BY <1>9, <2>1 DEF Evidence!Prune, Evidence!Generations, Evidence!Report,
       Evidence!Goto
  <2>2. ASSUME NEW g \in Evidence!Collectable,
               Evidence!Generations(v1 \ {g}, v2 \cup {g}), v6 = "prune",
               Evidence!Goto("pruned")
        PROVE  Evidence!EvidenceInv'
    <3>1. v1' = v1 \ {g} /\ UNCHANGED <<v3, v4, v5, v8, v9, v10, v11, v12>>
      BY <2>2 DEF Evidence!Generations, Evidence!Goto
    <3>2. v3 = v8 /\ v3 = v9 /\ v4 = Nil /\ v5 = Nil /\ v6' = "pruned"
      BY <2>2 DEF Evidence!Goto
    <3>3. v3 # Nil => Evidence!Whole(v3, v1')
      BY <2>2, <3>1, <3>2, WholeShrinks DEF Evidence!Collectable, Evidence!Protected
    <3>4. v11 = Nil
      BY <2>2
    <3> QED
      BY <3>1, <3>2, <3>3, <3>4
  <2>3. \/ UNCHANGED v1
        \/ \E g \in Evidence!Collectable :
             Evidence!Generations(v1 \ {g}, v2 \cup {g}) /\ v6 = "prune"
             /\ Evidence!Goto("pruned")
    BY <1>9 DEF Evidence!Prune, Evidence!Generations
  <2> HIDE DEF Evidence!EvidenceInv
  <2> QED
    BY <2>1, <2>2, <2>3
<1>10. CASE Evidence!RemovePruned
  BY <1>10 DEF Evidence!RemovePruned, Evidence!Generations, Evidence!Report,
     Evidence!Goto
<1>11. CASE Evidence!Stage
  <2>1. v12 + 1 \in Evidence!Ids /\ v12' = v12 + 1 /\ v12' \in 0 .. MaxIds
    BY <1>11 DEF Evidence!Stage, Evidence!Ids
  <2>2. UNCHANGED <<v1, v3, v4, v5, v7, v8, v9, v11>> /\ v6 = "stage"
    BY <1>11 DEF Evidence!Stage, Evidence!Generations
  <2>3. \/ v6' = "whole" /\ v10' = v10
        \/ v6' = "free" /\ v10' = "failed"
    BY <1>11 DEF Evidence!Stage
  <2> QED
    BY <2>1, <2>2, <2>3
<1>12. CASE Evidence!PublishDirectory
  <2>1. v9' \in Evidence!Pointers /\ Evidence!Whole(v9', v1')
    BY <1>12, PublishedOf DEF Evidence!PublishDirectory, Evidence!Generations
  <2>2. /\ v1' = v1 \cup {v12} /\ v1' \subseteq Evidence!Ids /\ v6 = "whole"
        /\ UNCHANGED <<v3, v4, v5, v7, v8, v11, v12>>
    BY <1>12 DEF Evidence!PublishDirectory, Evidence!Generations
  <2>3. \/ v6' = "mark" /\ v10' = v10
        \/ v6' = "free" /\ v10' = "failed"
    BY <1>12 DEF Evidence!PublishDirectory
  <2>4. v3 # Nil => Evidence!Whole(v3, v1')
    BY <2>2, WholeGrows
  <2> QED
    BY <2>1, <2>2, <2>3, <2>4
<1>13. CASE Evidence!Mark
  <2> DEFINE marker == [old |-> v8, new |-> v9]
  <2>1. /\ v4' \in {Nil, marker} /\ v6 = "mark"
        /\ UNCHANGED <<v1, v2, v3, v5, v7, v8, v9, v11, v12>>
    BY <1>13 DEF Evidence!Mark, Evidence!SetCommit, Evidence!Report, Evidence!Goto
  <2>2. \/ v6' = "replace" /\ UNCHANGED v10 /\ v4' = marker
        \/ v6' = "free" /\ v10' = "failed"
    BY <1>13 DEF Evidence!Mark, Evidence!SetCommit, Evidence!Report, Evidence!Goto
  <2>3. marker \in Evidence!Markers /\ marker # Nil /\ marker.old = v8
        /\ marker.new = v9
    BY <2>1, MarkerOf
  <2> HIDE DEF marker
  <2> QED
    BY <2>1, <2>2, <2>3
<1>14. CASE Evidence!Replace
  BY <1>14 DEF Evidence!Replace, Evidence!SetCurrent, Evidence!Goto
<1>15. CASE Evidence!Check
  BY <1>15 DEF Evidence!Check, Evidence!Report, Evidence!Goto
<1>16. CASE Evidence!Unmark
  BY <1>16 DEF Evidence!Unmark, Evidence!SetCommit, Evidence!Report
<1>17. CASE Evidence!Stash
  BY <1>17 DEF Evidence!Stash, Evidence!SetStash, Evidence!Report, Evidence!Goto
<1>18. CASE Evidence!RemoveCurrent
  BY <1>18 DEF Evidence!RemoveCurrent, Evidence!SetCurrent, Evidence!SetStash,
     Evidence!Report, Evidence!Goto
<1>19. CASE Evidence!RestoreOld
  BY <1>19 DEF Evidence!RestoreOld, Evidence!SetCurrent, Evidence!Goto
<1>20. CASE Evidence!PutNewBack
  BY <1>20 DEF Evidence!PutNewBack, Evidence!Report
<1>21. CASE Evidence!Unstash
  BY <1>21 DEF Evidence!Unstash, Evidence!SetStash, Evidence!Goto
<1>22. CASE Evidence!Crash
  BY <1>22 DEF Evidence!Crash, Evidence!Report
<1>23. CASE Evidence!ReadPointer
  BY <1>23 DEF Evidence!ReadPointer, Evidence!Unlocked
<1>24. CASE Evidence!ReadEnds
  BY <1>24 DEF Evidence!ReadEnds
<1>25. CASE UNCHANGED Evidence!evidenceVars
  BY <1>25 DEF Evidence!evidenceVars
<1> HIDE DEF Evidence!EvidenceInv
<1> QED
  BY <1>1, <1>2, <1>3, <1>4, <1>5, <1>6, <1>7, <1>8, <1>9, <1>10, <1>11, <1>12, <1>13,
     <1>14, <1>15, <1>16, <1>17, <1>18, <1>19, <1>20, <1>21, <1>22, <1>23, <1>24,
     <1>25 DEF Evidence!Next

LEMMA EvidenceInvStands ==
  Evidence!EvidenceInv => Evidence!PointerComplete /\ Evidence!RecoveryKeepsPointer
  /\ Evidence!OutcomeIsTrue
  BY DEF Evidence!EvidenceInv, Evidence!FilesWhole, Evidence!ReaderAlone,
     Evidence!Unmarked, Evidence!PointerComplete, Evidence!RecoveryKeepsPointer

-----------------------------------------------------------------------------
(***************************************************************************)
(* Moving the state of unconfigured accounts away.                         *)
(***************************************************************************)
\* A part that counts brings the operators of FiniteSets under names of its own; they
\* are the same operators.
LEMMA MaintenanceCounts ==
  \A S : /\ Maintain!IsFiniteSet(S) <=> IsFiniteSet(S)
         /\ Maintain!Cardinality(S) = Cardinality(S)
<1> TAKE S
<1>1. Maintain!IsFiniteSet(S) <=> IsFiniteSet(S)
  BY DEF Maintain!IsFiniteSet, IsFiniteSet
<1>2. Maintain!Cardinality(S) = Cardinality(S)
  BY DEF Maintain!Cardinality, Cardinality
<1> QED
  BY <1>1, <1>2

\* A set of numbers has a least one, and one with a bound has a greatest.
LEMMA HasFirst ==
  ASSUME NEW S \in SUBSET Nat, S # {}
  PROVE  \E i \in S : \A j \in S : i <= j
<1>1. PICK i \in S : \A j \in S : <<j, i>> \notin OpToRel(<, Nat)
  BY WFMin, NatLessThanWellFounded
<1>2. \A j \in S : ~(j < i)
  BY <1>1 DEF OpToRel
<1> QED
  BY <1>2

LEMMA HasLast ==
  ASSUME NEW n \in Nat, NEW S \in SUBSET (1 .. n), S # {}
  PROVE  \E i \in S : \A j \in S : i >= j
<1> DEFINE T == {n - j : j \in S}
<1>1. T \subseteq Nat /\ T # {}
  <2>1. \A j \in S : n - j \in Nat
    OBVIOUS
  <2> QED
    BY <2>1
<1>2. PICK t \in T : \A u \in T : t <= u
  BY <1>1, HasFirst
<1>3. PICK i \in S : t = n - i
  OBVIOUS
<1>4. ASSUME NEW j \in S
      PROVE  i >= j
  <2>1. n - j \in T
    OBVIOUS
  <2>2. n - i <= n - j
    BY <1>2, <1>3, <2>1
  <2> HIDE DEF T
  <2>3. i \in Int /\ j \in Int /\ n \in Int
    OBVIOUS
  <2> QED
    BY <2>2, <2>3
<1> QED
  BY <1>4

\* The artifact that is moved or put back next.
LEMMA MaintenanceNext ==
  ASSUME Maintain!MaintenanceConstants, NEW S \in SUBSET Owners, S # {}
  PROVE  Maintain!First(S) \in S /\ Maintain!Last(S) \in S
<1>1. PICK n \in Nat : Owners = 1 .. n
  BY FS_CardinalityType, MaintenanceCounts DEF Maintain!MaintenanceConstants
<1>2. \E i \in S : \A j \in S : i <= j
  BY <1>1, HasFirst
<1>3. \E i \in S : \A j \in S : i >= j
  BY <1>1, HasLast
<1> QED
  BY <1>2, <1>3 DEF Maintain!First, Maintain!Last

LEMMA MaintenanceInvInit ==
  ASSUME Maintain!MaintenanceConstants, Maintain!Init
  PROVE  Maintain!MaintenanceInv
<1>1. Maintain!ValuesOK
  BY DEF Maintain!MaintenanceConstants, Maintain!Init, Maintain!Empty,
     Maintain!ValuesOK
<1>2. Maintain!PlacesOK /\ Maintain!InOnePlace
  BY DEF Maintain!Init, Maintain!Empty, Maintain!PlacesOK, Maintain!InOnePlace
<1>3. Maintain!HeldByJournal /\ Maintain!ArtifactsStale /\ Maintain!PhaseKnows
  BY DEF Maintain!Init, Maintain!Empty, Maintain!HeldByJournal,
     Maintain!ArtifactsStale, Maintain!PhaseKnows
<1> QED
  BY <1>1, <1>2, <1>3 DEF Maintain!MaintenanceInv

\* What the accounts and fetches do between two commands.
LEMMA MaintenanceFree ==
  ASSUME Maintain!MaintenanceConstants, Maintain!MaintenanceInv, NEW i \in Owners,
         Maintain!Configure(i) \/ Maintain!Save(i)
  PROVE  Maintain!MaintenanceInv'
<1> USE DEF Maintain!MaintenanceInv, Maintain!Stay, Maintain!work
<1>1. CASE Maintain!Configure(i)
  <2>1. Maintain!ValuesOK'
    BY <1>1 DEF Maintain!MaintenanceConstants, Maintain!ValuesOK, Maintain!Configure
  <2>2. Maintain!PlacesOK' /\ Maintain!InOnePlace' /\ Maintain!HeldByJournal'
    BY <1>1 DEF Maintain!Configure, Maintain!PlacesOK, Maintain!InOnePlace,
       Maintain!PutAside, Maintain!HeldByJournal
  <2>3. Maintain!ArtifactsStale'
    <3>1. v5 # NoState => v5.edition \in Nat /\ v5.edition <= v2
      BY DEF Maintain!ValuesOK, Maintain!Journals, Maintain!ArtifactsStale
    <3>2. v2 \in Nat /\ v2' = v2 + 1 /\ v5' = v5
      BY <1>1 DEF Maintain!ValuesOK, Maintain!Configure
    <3> QED
      BY <3>1, <3>2 DEF Maintain!ArtifactsStale
  <2>4. Maintain!PhaseKnows'
    BY <1>1 DEF Maintain!Configure, Maintain!PhaseKnows
  <2> QED
    BY <2>1, <2>2, <2>3, <2>4
<1>2. CASE Maintain!Save(i)
  <2>1. Maintain!ValuesOK'
    BY <1>2 DEF Maintain!MaintenanceConstants, Maintain!ValuesOK, Maintain!Save
  <2>2. Maintain!PlacesOK'
    BY <1>2 DEF Maintain!MaintenanceConstants, Maintain!ValuesOK, Maintain!Save,
       Maintain!PlacesOK
  <2>3. Maintain!InOnePlace'
    <3>1. v4[i] + 1 \in Nat /\ ~Maintain!PutAside(i)'
      BY <1>2 DEF Maintain!ValuesOK, Maintain!Save, Maintain!PlacesOK,
         Maintain!PutAside
    <3>2. v6[i] # v4[i] + 1
      BY DEF Maintain!MaintenanceConstants, Maintain!ValuesOK, Maintain!PlacesOK
    <3>3. \A j \in Owners : j # i => (Maintain!PutAside(j)' <=> Maintain!PutAside(j))
      BY <1>2 DEF Maintain!ValuesOK, Maintain!Save, Maintain!PutAside
    <3> QED
      BY <1>2, <3>1, <3>2, <3>3 DEF Maintain!ValuesOK, Maintain!Save,
         Maintain!InOnePlace
  <2>4. Maintain!HeldByJournal' /\ Maintain!ArtifactsStale' /\ Maintain!PhaseKnows'
    BY <1>2 DEF Maintain!Save, Maintain!HeldByJournal, Maintain!ArtifactsStale,
       Maintain!PhaseKnows
  <2> QED
    BY <2>1, <2>2, <2>3, <2>4
<1> QED
  BY <1>1, <1>2

\* The steps that move no state.
LEMMA MaintenanceQuiet ==
  ASSUME Maintain!MaintenanceConstants, Maintain!MaintenanceInv,
         UNCHANGED Maintain!world,
         UNCHANGED <<v3, v6, v7>>,
         v5' \in Maintain!Journals \cup {NoState}, v10' \subseteq Owners,
         Maintain!HeldByJournal', Maintain!ArtifactsStale', Maintain!PhaseKnows'
  PROVE  Maintain!MaintenanceInv'
  BY DEF Maintain!MaintenanceInv, Maintain!ValuesOK, Maintain!PlacesOK,
     Maintain!InOnePlace, Maintain!PutAside, Maintain!world

LEMMA MaintenanceBegins ==
  ASSUME Maintain!MaintenanceConstants, Maintain!MaintenanceInv,
         Maintain!Begin \/ Maintain!Recover \/ Maintain!UndoEnds \/ Maintain!Scan
  PROVE  Maintain!MaintenanceInv'
<1> USE DEF Maintain!MaintenanceInv, Maintain!Stay, Maintain!world, Maintain!work,
        Maintain!To
<1>1. UNCHANGED Maintain!world /\ UNCHANGED <<v3, v5, v6, v7>>
  BY DEF Maintain!Begin, Maintain!Recover, Maintain!UndoEnds, Maintain!Scan
<1>2. Maintain!HeldByJournal' /\ Maintain!ArtifactsStale'
  BY <1>1 DEF Maintain!HeldByJournal, Maintain!ArtifactsStale
<1>3. v10' \subseteq Owners
  BY DEF Maintain!ValuesOK, Maintain!Begin, Maintain!Recover, Maintain!UndoEnds,
     Maintain!Scan, Maintain!Journals
<1>4. Maintain!PhaseKnows'
  <2>1. CASE Maintain!Begin
    BY <2>1 DEF Maintain!Begin, Maintain!PhaseKnows
  <2>2. CASE Maintain!Recover
    BY <2>2 DEF Maintain!Recover, Maintain!Accepts, Maintain!HeldByJournal,
       Maintain!ArtifactsStale, Maintain!PhaseKnows
  <2>3. CASE Maintain!UndoEnds
    BY <2>3 DEF Maintain!UndoEnds, Maintain!PhaseKnows
  <2>4. CASE Maintain!Scan
    BY <2>4 DEF Maintain!Scan, Maintain!PhaseKnows
  <2> QED
    BY <2>1, <2>2, <2>3, <2>4
<1> QED
  BY <1>1, <1>2, <1>3, <1>4, MaintenanceQuiet DEF Maintain!ValuesOK

\* The steps that write the transaction.
LEMMA MaintenanceWrites ==
  ASSUME Maintain!MaintenanceConstants, Maintain!MaintenanceInv,
         Maintain!Remove \/ Maintain!Create \/ Maintain!Manifest
  PROVE  Maintain!MaintenanceInv'
<1> USE DEF Maintain!MaintenanceInv, Maintain!Stay, Maintain!Note, Maintain!world,
        Maintain!work, Maintain!To, Maintain!Undo
<1>1. UNCHANGED Maintain!world /\ UNCHANGED <<v3, v6, v7>>
  BY DEF Maintain!Remove, Maintain!Create, Maintain!Manifest
<1>2. CASE Maintain!Remove
  <2>1. v5 \in Maintain!Journals /\ v8 = "remove"
    BY <1>2 DEF Maintain!Remove, Maintain!ValuesOK, Maintain!PhaseKnows
  <2>2. v5' \in Maintain!Journals \cup {NoState}
    BY <1>2, <2>1 DEF Maintain!Remove, Maintain!Journals
  <2>3. \A i \in Owners : v6'[i] = NoState
    BY <1>1, <2>1 DEF Maintain!PhaseKnows
  <2>4. Maintain!ArtifactsStale'
    <3>1. \/ v5' = NoState
          \/ v5'.artifacts = v5.artifacts /\ v5'.edition = v5.edition
      BY <1>2, <2>1 DEF Maintain!Remove, Maintain!Journals
    <3>2. v5 # NoState
      BY <2>1 DEF Maintain!MaintenanceConstants
    <3> QED
      BY <1>1, <3>1, <3>2 DEF Maintain!ArtifactsStale
  <2>5. Maintain!PhaseKnows'
    <3>1. CASE v8' = "remove" /\ v5' \in Maintain!Journals
      BY <2>3, <3>1 DEF Maintain!MaintenanceConstants, Maintain!PhaseKnows
    <3>2. CASE v5' = NoState /\ v8' \in {"scan", "free"}
      BY <2>3, <3>2 DEF Maintain!PhaseKnows
    <3> QED
      BY <1>2, <2>1, <3>1, <3>2 DEF Maintain!Remove, Maintain!Journals
  <2>6. Maintain!HeldByJournal' /\ v10' \subseteq Owners
    BY <1>2, <2>3 DEF Maintain!Remove, Maintain!HeldByJournal, Maintain!ValuesOK
  <2> QED
    BY <1>1, <2>2, <2>4, <2>5, <2>6, MaintenanceQuiet
<1>3. CASE Maintain!Create
  <2>1. v5 = NoState /\ \A i \in Owners : v6[i] = NoState
    BY <1>3 DEF Maintain!Create, Maintain!PhaseKnows, Maintain!HeldByJournal
  <2>2. v10 \cap v1 = {} /\ v10 \subseteq Owners /\ v10' = v10
    BY <1>3 DEF Maintain!Create, Maintain!PhaseKnows, Maintain!ValuesOK
  <2>3. CASE v5' = v5 /\ v8' = "free"
    <3>1. Maintain!HeldByJournal' /\ Maintain!ArtifactsStale' /\ Maintain!PhaseKnows'
      BY <1>1, <2>1, <2>3 DEF Maintain!HeldByJournal, Maintain!ArtifactsStale,
         Maintain!PhaseKnows
    <3> QED
      BY <1>1, <2>2, <2>3, <3>1, MaintenanceQuiet DEF Maintain!ValuesOK
  <2>4. CASE /\ v5' = [artifacts |-> v10, edition |-> v2, manifest |-> FALSE,
                            folders |-> FALSE, litter |-> FALSE, public |-> FALSE]
             /\ v8' = "manifest"
    <3>1. v5' \in Maintain!Journals
      BY <2>2, <2>4 DEF Maintain!ValuesOK, Maintain!Journals
    <3>2. Maintain!HeldByJournal' /\ Maintain!ArtifactsStale'
      BY <1>1, <2>1, <2>2, <2>4 DEF Maintain!HeldByJournal, Maintain!ArtifactsStale,
         Maintain!ValuesOK
    <3>3. Maintain!PhaseKnows'
      BY <1>1, <2>1, <2>2, <2>4, <3>1 DEF Maintain!MaintenanceConstants,
         Maintain!PhaseKnows
    <3> QED
      BY <1>1, <2>2, <3>1, <3>2, <3>3, MaintenanceQuiet
  <2> QED
    BY <1>3, <2>3, <2>4 DEF Maintain!Create
<1>4. CASE Maintain!Manifest
  <2>1. v5 \in Maintain!Journals /\ v5 # NoState
    BY <1>4 DEF Maintain!Manifest, Maintain!ValuesOK, Maintain!PhaseKnows
  <2>2. /\ v5' \in Maintain!Journals /\ v5' # NoState
        /\ v5'.artifacts = v5.artifacts /\ v5'.edition = v5.edition
        /\ v5'.folders = v5.folders
    BY <1>4, <2>1 DEF Maintain!Manifest, Maintain!MaintenanceConstants,
       Maintain!Journals
  <2>3. Maintain!HeldByJournal' /\ Maintain!ArtifactsStale'
    BY <1>1, <2>1, <2>2 DEF Maintain!HeldByJournal, Maintain!ArtifactsStale
  <2>4. v10' \subseteq Owners
    BY <1>4, <2>1 DEF Maintain!Manifest, Maintain!ValuesOK, Maintain!Journals
  <2>5. Maintain!PhaseKnows'
    BY <1>1, <1>4, <2>2 DEF Maintain!Manifest, Maintain!PhaseKnows,
       Maintain!HeldByJournal
  <2> QED
    BY <1>1, <2>2, <2>3, <2>4, <2>5, MaintenanceQuiet
<1> QED
  BY <1>2, <1>3, <1>4

\* One artifact goes to the transaction.
LEMMA MaintenanceMoves ==
  ASSUME Maintain!MaintenanceConstants, Maintain!MaintenanceInv, Maintain!Move
  PROVE  Maintain!MaintenanceInv'
<1> USE DEF Maintain!MaintenanceInv, Maintain!world, Maintain!work, Maintain!Undo
<1> DEFINE i == Maintain!First(v10)
<1>1. i \in v10 /\ i \in Owners /\ v6[i] = NoState /\ i \notin v1
  BY MaintenanceNext DEF Maintain!Move, Maintain!Moved, Maintain!ValuesOK, Maintain!PhaseKnows
<1>2. UNCHANGED Maintain!world /\ UNCHANGED v7 /\ v5 \in Maintain!Journals
      /\ v5 # NoState
  BY DEF Maintain!Move, Maintain!Moved, Maintain!ValuesOK, Maintain!PhaseKnows
<1>3. /\ v5' \in Maintain!Journals /\ v5' # NoState /\ v5'.folders
      /\ v5'.artifacts = v5.artifacts /\ v5'.edition = v5.edition
  BY <1>2 DEF Maintain!Move, Maintain!Moved, Maintain!MaintenanceConstants, Maintain!Journals
<1>4. v10' \subseteq Owners
  BY <1>2 DEF Maintain!Move, Maintain!Moved, Maintain!ValuesOK, Maintain!Journals
<1>5. CASE UNCHANGED <<v3, v6>>
  <2>1. Maintain!HeldByJournal' /\ Maintain!ArtifactsStale'
    BY <1>2, <1>3, <1>5 DEF Maintain!HeldByJournal, Maintain!ArtifactsStale
  <2>2. v8' \in {"undo", "manifest"}
    BY DEF Maintain!Move, Maintain!Moved
  <2>3. Maintain!PhaseKnows'
    BY <1>1, <1>2, <1>3, <1>5, <2>2 DEF Maintain!Move, Maintain!Moved, Maintain!PhaseKnows,
       Maintain!HeldByJournal
  <2> QED
    BY <1>2, <1>3, <1>4, <1>5, <2>1, <2>3, MaintenanceQuiet
<1>6. CASE /\ v6' = [v6 EXCEPT ![i] = v3[i]] /\ v3' = [v3 EXCEPT ![i] = NoState]
  <2>1. Maintain!ValuesOK'
    BY <1>1, <1>2, <1>3, <1>4, <1>6 DEF Maintain!ValuesOK
  <2>2. Maintain!PlacesOK'
    BY <1>1, <1>2, <1>6 DEF Maintain!ValuesOK, Maintain!PlacesOK
  <2>3. Maintain!InOnePlace'
    <3>1. \A j \in Owners : Maintain!PutAside(j)' <=> Maintain!PutAside(j)
      BY <1>2 DEF Maintain!PutAside
    <3>2. v4[i] # NoState
      BY <1>1 DEF Maintain!MaintenanceConstants, Maintain!ValuesOK
    <3> QED
      BY <1>1, <1>2, <1>6, <3>1, <3>2 DEF Maintain!ValuesOK, Maintain!InOnePlace
  <2>4. Maintain!HeldByJournal' /\ Maintain!ArtifactsStale'
    BY <1>1, <1>2, <1>3, <1>6 DEF Maintain!Move, Maintain!Moved, Maintain!ValuesOK,
       Maintain!HeldByJournal, Maintain!ArtifactsStale, Maintain!PhaseKnows
  <2>5. Maintain!PhaseKnows'
    BY <1>1, <1>2, <1>3, <1>6 DEF Maintain!Move, Maintain!Moved, Maintain!ValuesOK,
       Maintain!PhaseKnows, Maintain!HeldByJournal
  <2> QED
    BY <2>1, <2>2, <2>3, <2>4, <2>5
<1> QED
  BY <1>5, <1>6 DEF Maintain!Move, Maintain!Moved

\* One artifact comes back, or stays where it is.
LEMMA MaintenancePutsBack ==
  ASSUME Maintain!MaintenanceConstants, Maintain!MaintenanceInv, Maintain!PutBack
  PROVE  Maintain!MaintenanceInv'
<1> USE DEF Maintain!MaintenanceInv, Maintain!world, Maintain!Stay, Maintain!Undone
<1> DEFINE i == Maintain!Last(v10)
<1>1. i \in v10 /\ i \in Owners
  BY MaintenanceNext DEF Maintain!PutBack, Maintain!ValuesOK
<1>2. /\ UNCHANGED Maintain!world /\ UNCHANGED <<v5, v7, v8>> /\ v5 # NoState
      /\ v8 = "undo" /\ v10' = v10 \ {i}
  BY DEF Maintain!PutBack, Maintain!PhaseKnows
<1>3. CASE UNCHANGED <<v3, v6>>
  <2>1. Maintain!HeldByJournal' /\ Maintain!ArtifactsStale'
    BY <1>2, <1>3 DEF Maintain!HeldByJournal, Maintain!ArtifactsStale
  <2>2. v6[i] = NoState \/ v11'
    BY <1>1, <1>3 DEF Maintain!PutBack, Maintain!ValuesOK
  <2>3. Maintain!PhaseKnows'
    BY <1>2, <1>3, <2>2 DEF Maintain!PutBack, Maintain!PhaseKnows
  <2> QED
    BY <1>2, <1>3, <2>1, <2>3, MaintenanceQuiet DEF Maintain!ValuesOK
<1>4. CASE /\ v3[i] = NoState /\ v6[i] # NoState /\ v11' = v11
           /\ v3' = [v3 EXCEPT ![i] = v6[i]] /\ v6' = [v6 EXCEPT ![i] = NoState]
  <2>1. Maintain!ValuesOK'
    BY <1>1, <1>2, <1>4 DEF Maintain!ValuesOK
  <2>2. v6[i] = v4[i] /\ v4[i] # NoState /\ v4[i] \in Nat
    BY <1>1, <1>4 DEF Maintain!MaintenanceConstants, Maintain!ValuesOK,
       Maintain!PlacesOK
  <2>3. Maintain!PlacesOK' /\ Maintain!InOnePlace'
    <3>1. v6'[i] = NoState /\ v3'[i] = v4[i]
      BY <1>1, <1>4, <2>2 DEF Maintain!ValuesOK
    <3>2. \A j \in Owners \ {i} : v6'[j] = v6[j] /\ v3'[j] = v3[j]
      BY <1>4 DEF Maintain!ValuesOK
    <3>3. v3[i] # v4[i] /\ (v4[i] > 0 => ~Maintain!PutAside(i)) /\ v4[i] > 0
      BY <1>1, <1>4, <2>2 DEF Maintain!PlacesOK, Maintain!InOnePlace
    <3>4. Maintain!PlacesOK'
      BY <1>1, <1>2, <3>1, <3>2, <3>3 DEF Maintain!PlacesOK
    <3>5. Maintain!InOnePlace'
      BY <1>1, <1>2, <2>2, <3>1, <3>2, <3>3 DEF Maintain!InOnePlace, Maintain!PutAside
    <3> QED
      BY <3>4, <3>5
  <2>4. Maintain!HeldByJournal' /\ Maintain!ArtifactsStale'
    BY <1>1, <1>2, <1>4 DEF Maintain!ValuesOK, Maintain!HeldByJournal,
       Maintain!ArtifactsStale
  <2>5. Maintain!PhaseKnows'
    BY <1>1, <1>2, <1>4 DEF Maintain!ValuesOK, Maintain!PhaseKnows
  <2> QED
    BY <2>1, <2>3, <2>4, <2>5
<1> QED
  BY <1>3, <1>4 DEF Maintain!PutBack

\* The transaction becomes part of the quarantine.
LEMMA MaintenanceSettles ==
  ASSUME Maintain!MaintenanceConstants, Maintain!MaintenanceInv,
         UNCHANGED Maintain!world, UNCHANGED v3, Maintain!Settle,
         v8' = "free", v10' = v10
  PROVE  Maintain!MaintenanceInv'
<1> USE DEF Maintain!MaintenanceInv, Maintain!world, Maintain!Settle
<1>1. \A j \in Owners : v6'[j] = NoState
  BY DEF Maintain!Empty
<1>2. Maintain!ValuesOK'
  BY DEF Maintain!ValuesOK, Maintain!Empty
<1>3. \A j \in Owners, v \in Nat :
        <<j, v>> \in v7' <=> <<j, v>> \in v7 \/ v = v6[j]
  BY DEF Maintain!MaintenanceConstants, Maintain!Holding
<1>4. Maintain!PlacesOK'
  BY <1>1, <1>3 DEF Maintain!MaintenanceConstants, Maintain!ValuesOK,
     Maintain!PlacesOK
<1>5. Maintain!InOnePlace'
  <2>1. \A j \in Owners : Maintain!PutAside(j)' <=> Maintain!PutAside(j)
        \/ v6[j] = v4[j]
    BY <1>3 DEF Maintain!ValuesOK, Maintain!PutAside
  <2>2. \A j \in Owners : v6'[j] # v4[j]
    BY <1>1 DEF Maintain!MaintenanceConstants, Maintain!ValuesOK
  <2> QED
    BY <2>1, <2>2 DEF Maintain!InOnePlace
<1>6. Maintain!HeldByJournal' /\ Maintain!ArtifactsStale' /\ Maintain!PhaseKnows'
  BY <1>1 DEF Maintain!HeldByJournal, Maintain!ArtifactsStale, Maintain!PhaseKnows
<1> QED
  BY <1>2, <1>4, <1>5, <1>6

LEMMA MaintenanceEnds ==
  ASSUME Maintain!MaintenanceConstants, Maintain!MaintenanceInv,
         Maintain!Publish \/ Maintain!Crash
  PROVE  Maintain!MaintenanceInv'
<1> USE DEF Maintain!MaintenanceInv, Maintain!Stay, Maintain!Note, Maintain!world,
        Maintain!work, Maintain!To, Maintain!Undo
<1>1. CASE Maintain!Settle /\ v8' = "free" /\ UNCHANGED v3
  BY <1>1, MaintenanceSettles DEF Maintain!Publish, Maintain!Crash
<1>2. CASE /\ UNCHANGED <<v3, v6, v7>>
           /\ \/ v5' = v5
              \/ v5' = [v5 EXCEPT !.public = TRUE] /\ v8 = "publish"
              \/ /\ v5' = [v5 EXCEPT !.litter = TRUE]
                 /\ v8 \in {"manifest", "publish"}
  <2>1. UNCHANGED Maintain!world
    BY DEF Maintain!Publish, Maintain!Crash
  <2>2. \/ v5' = v5
        \/ /\ v5 \in Maintain!Journals /\ v5' \in Maintain!Journals
           /\ v5'.artifacts = v5.artifacts /\ v5'.edition = v5.edition
           /\ v5'.folders = v5.folders /\ v5 # NoState /\ v5' # NoState
    <3>1. v8 \in {"manifest", "publish"} => v5 \in Maintain!Journals /\ v5 # NoState
      BY DEF Maintain!ValuesOK, Maintain!PhaseKnows
    <3> QED
      BY <1>2, <3>1 DEF Maintain!MaintenanceConstants, Maintain!Journals
  <2>3. Maintain!HeldByJournal' /\ Maintain!ArtifactsStale'
    BY <1>2, <2>1, <2>2 DEF Maintain!HeldByJournal, Maintain!ArtifactsStale
  <2>4. v10' \subseteq Owners
    BY DEF Maintain!Publish, Maintain!Crash, Maintain!ValuesOK, Maintain!PhaseKnows,
       Maintain!Journals
  <2>5. Maintain!PhaseKnows'
    BY <1>2, <2>1, <2>2 DEF Maintain!Publish, Maintain!Crash, Maintain!PhaseKnows,
       Maintain!HeldByJournal
  <2> QED
    BY <1>2, <2>1, <2>2, <2>3, <2>4, <2>5, MaintenanceQuiet DEF Maintain!ValuesOK
<1> QED
  BY <1>1, <1>2 DEF Maintain!Publish, Maintain!Crash

LEMMA MaintenanceInvPreserved ==
  ASSUME Maintain!MaintenanceConstants, Maintain!MaintenanceInv,
         [Maintain!Next]_(Maintain!maintenanceVars)
  PROVE  Maintain!MaintenanceInv'
<1>1. CASE UNCHANGED Maintain!maintenanceVars
  BY <1>1 DEF Maintain!maintenanceVars, Maintain!MaintenanceInv, Maintain!ValuesOK,
     Maintain!PlacesOK, Maintain!InOnePlace, Maintain!PutAside,
     Maintain!HeldByJournal, Maintain!ArtifactsStale, Maintain!PhaseKnows
<1> QED
  BY <1>1, MaintenanceFree, MaintenanceBegins, MaintenanceWrites, MaintenanceMoves,
     MaintenancePutsBack, MaintenanceEnds DEF Maintain!Next

\* The last state saved of an account is in exactly one place.
LEMMA MaintenanceInvNothingLost ==
  ASSUME Maintain!MaintenanceConstants, Maintain!MaintenanceInv
  PROVE  Maintain!NothingLost
<1> SUFFICES ASSUME NEW i \in Owners, v4[i] > 0
             PROVE  Cardinality({p \in 1 .. 3 : \/ p = 1 /\ v3[i] = v4[i]
                                                \/ p = 2 /\ v6[i] = v4[i]
                                                \/ p = 3 /\ Maintain!PutAside(i)}) = 1
  BY MaintenanceCounts DEF Maintain!NothingLost, Maintain!PutAside
<1> DEFINE P == {p \in 1 .. 3 : \/ p = 1 /\ v3[i] = v4[i]
                                \/ p = 2 /\ v6[i] = v4[i]
                                \/ p = 3 /\ Maintain!PutAside(i)}
<1>1. P = {1} \/ P = {2} \/ P = {3}
  BY DEF Maintain!MaintenanceInv, Maintain!InOnePlace
<1> QED
  BY <1>1, FS_Singleton

\* A command changes the state file of no configured account.
LEMMA MaintenanceInvStale ==
  ASSUME Maintain!MaintenanceConstants, Maintain!MaintenanceInv,
         [Maintain!Next]_(Maintain!maintenanceVars)
  PROVE  Maintain!StaleStays
<1> SUFFICES ASSUME NEW i \in v1, v8 # "free"
             PROVE  v3'[i] = v3[i]
  BY DEF Maintain!StaleStays
<1> USE DEF Maintain!MaintenanceInv, Maintain!Stay, Maintain!Note
<1>1. CASE Maintain!Move
  <2>1. Maintain!First(v10) \in v10 /\ v10 \cap v1 = {}
    BY <1>1, MaintenanceNext DEF Maintain!Move, Maintain!Moved, Maintain!ValuesOK, Maintain!PhaseKnows
  <2> QED
    BY <1>1, <2>1 DEF Maintain!Move, Maintain!Moved, Maintain!ValuesOK
<1>2. CASE Maintain!PutBack
  <2>1. Maintain!Last(v10) \in v10 /\ v10 \cap v1 = {}
    BY <1>2, MaintenanceNext DEF Maintain!PutBack, Maintain!ValuesOK,
       Maintain!PhaseKnows
  <2> QED
    BY <1>2, <2>1 DEF Maintain!PutBack, Maintain!ValuesOK
<1>3. CASE \E j \in Owners : Maintain!Configure(j) \/ Maintain!Save(j)
  BY <1>3 DEF Maintain!Configure, Maintain!Save
<1>4. CASE Maintain!Begin \/ Maintain!Recover \/ Maintain!UndoEnds
           \/ Maintain!Remove \/ Maintain!Scan \/ Maintain!Create
              \/ Maintain!Manifest \/ Maintain!Publish \/ Maintain!Crash
  BY <1>4 DEF Maintain!Begin, Maintain!Recover, Maintain!UndoEnds, Maintain!Remove,
     Maintain!Scan, Maintain!Create, Maintain!Manifest, Maintain!Publish,
     Maintain!Crash
<1>5. CASE UNCHANGED Maintain!maintenanceVars
  BY <1>5 DEF Maintain!maintenanceVars
<1> QED
  BY <1>1, <1>2, <1>3, <1>4, <1>5 DEF Maintain!Next

-----------------------------------------------------------------------------
(***************************************************************************)
(* Deleting an account.                                                    *)
(***************************************************************************)
LEMMA DeleteInvInit == Delete!Init => Delete!DeleteInv
  BY DEF Delete!Init, Delete!DeleteInv, Delete!PartsOK, Delete!AsideOnlyThere,
     Delete!ProfileStays, Delete!ListedWhen, Delete!SmoothSoFar,
     Delete!ConfiguredIsWhole, Delete!Parts, Delete!Whole, Delete!Removing,
     Delete!Adding, Delete!Erasing

LEMMA DeleteInvPreserved ==
  ASSUME Delete!DeleteInv, [Delete!Next]_(Delete!deleteVars)
  PROVE  Delete!DeleteInv'
<1> USE DEF Delete!DeleteInv, Delete!PartsOK, Delete!AsideOnlyThere,
        Delete!ProfileStays, Delete!ListedWhen, Delete!SmoothSoFar,
        Delete!ConfiguredIsWhole, Delete!Parts, Delete!Whole, Delete!Removing,
        Delete!Adding, Delete!Erasing, Delete!Put, Delete!Still, Delete!Profile,
        Delete!Bundle, Delete!To, Delete!End, Delete!Smooth, Delete!Trouble,
        Delete!Worse, Delete!Lost, Delete!Causes, Delete!accountVars
<1>1. ASSUME NEW w \in BOOLEAN, Delete!Delete(w)
      PROVE  Delete!DeleteInv'
  <2>1. /\ v1 /\ v5 = "idle" /\ v5' = "remove" /\ v7' = "none" /\ v8' = FALSE
        /\ v1' = v1 /\ v2' = v2 /\ v3' = v3 /\ v9' = v9 /\ v13' = v13
    BY <1>1 DEF Delete!Delete
  <2>2. v12' = (v12 /\ v3 # "none") \/ v12' = v12
    BY <1>1 DEF Delete!Delete
  <2>3. Delete!PartsOK' /\ Delete!AsideOnlyThere'
    BY <2>1, <2>2
  <2>4. Delete!ProfileStays' /\ Delete!ListedWhen'
    BY <2>1
  <2>5. Delete!SmoothSoFar' /\ Delete!ConfiguredIsWhole'
    BY <2>1, <2>2
  <2> QED
    BY <2>3, <2>4, <2>5
<1>2. CASE Delete!RemoveAccount
  <2>1. Delete!PartsOK'
    BY <1>2 DEF Delete!RemoveAccount
  <2>2. Delete!AsideOnlyThere'
    BY <1>2 DEF Delete!RemoveAccount
  <2>3. Delete!ProfileStays'
    BY <1>2 DEF Delete!RemoveAccount
  <2>4. Delete!ListedWhen'
    BY <1>2 DEF Delete!RemoveAccount
  <2>5. Delete!SmoothSoFar'
    BY <1>2 DEF Delete!RemoveAccount
  <2>6. Delete!ConfiguredIsWhole'
    BY <1>2 DEF Delete!RemoveAccount
  <2> QED
    BY <2>1, <2>2, <2>3, <2>4, <2>5, <2>6
<1>3. CASE Delete!SyncService
  <2>1. Delete!PartsOK'
    BY <1>3 DEF Delete!SyncService
  <2>2. Delete!AsideOnlyThere'
    BY <1>3 DEF Delete!SyncService
  <2>3. Delete!ProfileStays'
    BY <1>3 DEF Delete!SyncService
  <2>4. Delete!ListedWhen'
    BY <1>3 DEF Delete!SyncService
  <2>5. Delete!SmoothSoFar'
    BY <1>3 DEF Delete!SyncService
  <2>6. Delete!ConfiguredIsWhole'
    BY <1>3 DEF Delete!SyncService
  <2> QED
    BY <2>1, <2>2, <2>3, <2>4, <2>5, <2>6
<1>4. CASE Delete!StageProfile
  <2>1. Delete!PartsOK'
    BY <1>4 DEF Delete!StageProfile
  <2>2. Delete!AsideOnlyThere'
    BY <1>4 DEF Delete!StageProfile
  <2>3. Delete!ProfileStays'
    BY <1>4 DEF Delete!StageProfile
  <2>4. Delete!ListedWhen'
    <3>1. ~v1'
      BY <1>4 DEF Delete!StageProfile
    <3>2. v5' \in {"bundle", "restore"}
      BY <1>4 DEF Delete!StageProfile
    <3> QED
      BY <3>1, <3>2
  <2>5. Delete!SmoothSoFar'
    BY <1>4 DEF Delete!StageProfile
  <2>6. Delete!ConfiguredIsWhole'
    BY <1>4 DEF Delete!StageProfile
  <2> QED
    BY <2>1, <2>2, <2>3, <2>4, <2>5, <2>6
<1>5. CASE Delete!StageBundle
  <2>1. Delete!PartsOK'
    BY <1>5 DEF Delete!StageBundle, Delete!StageFiles
  <2>2. Delete!AsideOnlyThere'
    BY <1>5 DEF Delete!StageBundle, Delete!StageFiles
  <2>3. Delete!ProfileStays'
    BY <1>5 DEF Delete!StageBundle, Delete!StageFiles
  <2>4. Delete!ListedWhen'
    <3>1. ~v1'
      BY <1>5 DEF Delete!StageBundle, Delete!StageFiles
    <3>2. v5' \in {"bundle", "revoke", "bundle_back"}
      BY <1>5 DEF Delete!StageBundle, Delete!StageFiles
    <3> QED
      BY <3>1, <3>2
  <2>5. Delete!SmoothSoFar'
    BY <1>5 DEF Delete!StageBundle, Delete!StageFiles
  <2>6. Delete!ConfiguredIsWhole'
    BY <1>5 DEF Delete!StageBundle, Delete!StageFiles
  <2> QED
    BY <2>1, <2>2, <2>3, <2>4, <2>5, <2>6
<1>6. CASE Delete!StageUndone
  <2>1. Delete!PartsOK'
    <3>1. v1' = v1 /\ v2' = v2 /\ v13' = v13 /\ v8' = v8
      BY <1>6 DEF Delete!StageUndone, Delete!PutFilesBack
    <3>2. v9' \in BOOLEAN /\ v12' \in BOOLEAN /\ (~v9' => ~v9)
      <4>1. v9' = v9 \/ v9' = TRUE
        BY <1>6 DEF Delete!StageUndone, Delete!PutFilesBack
      <4>2. v12' = (v12 /\ v3' # "none") \/ v12' = v12
        BY <1>6 DEF Delete!StageUndone, Delete!PutFilesBack
      <4>3. v9 \in BOOLEAN /\ v12 \in BOOLEAN
        OBVIOUS
      <4> QED
        BY <4>1, <4>2, <4>3 DEF Delete!PartsOK
    <3>3. v3' \in Delete!Parts
      BY <1>6 DEF Delete!StageUndone, Delete!PutFilesBack
    <3>4. ~v9' /\ ~v12' => v3' # "part"
      BY <1>6 DEF Delete!StageUndone, Delete!PutFilesBack
    <3> QED
      BY <3>1, <3>2, <3>3, <3>4
  <2>2. Delete!AsideOnlyThere'
    BY <1>6 DEF Delete!StageUndone, Delete!PutFilesBack
  <2>3. Delete!ProfileStays'
    BY <1>6 DEF Delete!StageUndone, Delete!PutFilesBack
  <2>4. Delete!ListedWhen'
    <3>1. ~v1'
      BY <1>6 DEF Delete!StageUndone, Delete!PutFilesBack
    <3>2. v5' \in {"bundle_back", "revoke"}
      BY <1>6 DEF Delete!StageUndone, Delete!PutFilesBack
    <3> QED
      BY <3>1, <3>2
  <2>5. Delete!SmoothSoFar'
    BY <1>6 DEF Delete!StageUndone, Delete!PutFilesBack
  <2>6. Delete!ConfiguredIsWhole'
    BY <1>6 DEF Delete!StageUndone, Delete!PutFilesBack
  <2> QED
    BY <2>1, <2>2, <2>3, <2>4, <2>5, <2>6
<1>7. CASE Delete!RevokeToken
  <2>1. Delete!PartsOK'
    BY <1>7 DEF Delete!RevokeToken
  <2>2. Delete!AsideOnlyThere'
    BY <1>7 DEF Delete!RevokeToken
  <2>3. Delete!ProfileStays'
    BY <1>7 DEF Delete!RevokeToken
  <2>4. Delete!ListedWhen'
    <3>1. ~v1'
      BY <1>7 DEF Delete!RevokeToken
    <3>2. v5' \in {"commit", "undo_profile", "undo"}
      BY <1>7 DEF Delete!RevokeToken
    <3> QED
      BY <3>1, <3>2
  <2>5. Delete!SmoothSoFar'
    BY <1>7 DEF Delete!RevokeToken
  <2>6. Delete!ConfiguredIsWhole'
    BY <1>7 DEF Delete!RevokeToken
  <2> QED
    BY <2>1, <2>2, <2>3, <2>4, <2>5, <2>6
<1>8. CASE Delete!UndoBundle
  <2>1. Delete!PartsOK'
    <3>1. v1' = v1 /\ v2' = v2 /\ v13' = v13 /\ v8' = v8
      BY <1>8 DEF Delete!UndoBundle, Delete!PutFilesBack
    <3>2. v9' \in BOOLEAN /\ v12' \in BOOLEAN /\ (~v9' => ~v9)
      <4>1. v9' = v9 \/ v9' = TRUE
        BY <1>8 DEF Delete!UndoBundle, Delete!PutFilesBack
      <4>2. v12' = (v12 /\ v3' # "none") \/ v12' = v12
        BY <1>8 DEF Delete!UndoBundle, Delete!PutFilesBack
      <4>3. v9 \in BOOLEAN /\ v12 \in BOOLEAN
        OBVIOUS
      <4> QED
        BY <4>1, <4>2, <4>3 DEF Delete!PartsOK
    <3>3. v3' \in Delete!Parts
      BY <1>8 DEF Delete!UndoBundle, Delete!PutFilesBack
    <3>4. ~v9' /\ ~v12' => v3' # "part"
      BY <1>8 DEF Delete!UndoBundle, Delete!PutFilesBack
    <3> QED
      BY <3>1, <3>2, <3>3, <3>4
  <2>2. Delete!AsideOnlyThere'
    BY <1>8 DEF Delete!UndoBundle, Delete!PutFilesBack
  <2>3. Delete!ProfileStays'
    BY <1>8 DEF Delete!UndoBundle, Delete!PutFilesBack
  <2>4. Delete!ListedWhen'
    <3>1. ~v1'
      BY <1>8 DEF Delete!UndoBundle, Delete!PutFilesBack
    <3>2. v5' \in {"undo", "undo_profile", "restore"}
      BY <1>8 DEF Delete!UndoBundle, Delete!PutFilesBack
    <3> QED
      BY <3>1, <3>2
  <2>5. Delete!SmoothSoFar'
    BY <1>8 DEF Delete!UndoBundle, Delete!PutFilesBack
  <2>6. Delete!ConfiguredIsWhole'
    BY <1>8 DEF Delete!UndoBundle, Delete!PutFilesBack
  <2> QED
    BY <2>1, <2>2, <2>3, <2>4, <2>5, <2>6
<1>9. CASE Delete!CommitBundle
  <2>1. Delete!PartsOK'
    BY <1>9 DEF Delete!CommitBundle
  <2>2. Delete!AsideOnlyThere'
    BY <1>9 DEF Delete!CommitBundle
  <2>3. Delete!ProfileStays'
    BY <1>9 DEF Delete!CommitBundle
  <2>4. Delete!ListedWhen'
    <3>1. ~v1'
      BY <1>9 DEF Delete!CommitBundle
    <3>2. v5' \in {"commit_profile", "commit_back"}
      BY <1>9 DEF Delete!CommitBundle
    <3> QED
      BY <3>1, <3>2
  <2>5. Delete!SmoothSoFar'
    BY <1>9 DEF Delete!CommitBundle
  <2>6. Delete!ConfiguredIsWhole'
    BY <1>9 DEF Delete!CommitBundle
  <2> QED
    BY <2>1, <2>2, <2>3, <2>4, <2>5, <2>6
<1>10. CASE Delete!CommitUndone
  <2>1. Delete!PartsOK'
    <3>1. v1' = v1 /\ v2' = v2 /\ v13' = v13 /\ v8' = v8
      BY <1>10 DEF Delete!CommitUndone, Delete!PutFilesBack, Delete!AfterCommit
    <3>2. v9' \in BOOLEAN /\ v12' \in BOOLEAN /\ (~v9' => ~v9)
      <4>1. v9' = v9 \/ v9' = TRUE
        BY <1>10 DEF Delete!CommitUndone, Delete!PutFilesBack, Delete!AfterCommit
      <4>2. v12' = (v12 /\ v3' # "none") \/ v12' = v12
        BY <1>10 DEF Delete!CommitUndone, Delete!PutFilesBack, Delete!AfterCommit
      <4>3. v9 \in BOOLEAN /\ v12 \in BOOLEAN
        OBVIOUS
      <4> QED
        BY <4>1, <4>2, <4>3 DEF Delete!PartsOK
    <3>3. v3' \in Delete!Parts
      BY <1>10 DEF Delete!CommitUndone, Delete!PutFilesBack, Delete!AfterCommit
    <3>4. ~v9' /\ ~v12' => v3' # "part"
      BY <1>10 DEF Delete!CommitUndone, Delete!PutFilesBack, Delete!AfterCommit
    <3> QED
      BY <3>1, <3>2, <3>3, <3>4
  <2>2. Delete!AsideOnlyThere'
    BY <1>10 DEF Delete!CommitUndone, Delete!PutFilesBack, Delete!AfterCommit
  <2>3. Delete!ProfileStays'
    BY <1>10 DEF Delete!CommitUndone, Delete!PutFilesBack, Delete!AfterCommit
  <2>4. Delete!ListedWhen'
    <3>1. ~v1'
      BY <1>10 DEF Delete!CommitUndone, Delete!PutFilesBack, Delete!AfterCommit
    <3>2. v5' \in {"commit_back", "undo_profile", "restore"}
      BY <1>10 DEF Delete!CommitUndone, Delete!PutFilesBack, Delete!AfterCommit
    <3> QED
      BY <3>1, <3>2
  <2>5. Delete!SmoothSoFar'
    BY <1>10 DEF Delete!CommitUndone, Delete!PutFilesBack, Delete!AfterCommit
  <2>6. Delete!ConfiguredIsWhole'
    BY <1>10 DEF Delete!CommitUndone, Delete!PutFilesBack, Delete!AfterCommit
  <2> QED
    BY <2>1, <2>2, <2>3, <2>4, <2>5, <2>6
<1>11. CASE Delete!CommitProfile
  <2>1. Delete!PartsOK'
    BY <1>11 DEF Delete!CommitProfile
  <2>2. Delete!AsideOnlyThere'
    BY <1>11 DEF Delete!CommitProfile
  <2>3. Delete!ProfileStays'
    BY <1>11 DEF Delete!CommitProfile
  <2>4. Delete!ListedWhen'
    <3>1. ~v1'
      BY <1>11 DEF Delete!CommitProfile
    <3>2. v5' \in {"undo_profile", "restore", "idle"}
      BY <1>11 DEF Delete!CommitProfile
    <3> QED
      BY <3>1, <3>2
  <2>5. Delete!SmoothSoFar'
    BY <1>11 DEF Delete!CommitProfile
  <2>6. Delete!ConfiguredIsWhole'
    BY <1>11 DEF Delete!CommitProfile
  <2> QED
    BY <2>1, <2>2, <2>3, <2>4, <2>5, <2>6
<1>12. CASE Delete!UndoProfile
  <2>1. Delete!PartsOK'
    BY <1>12 DEF Delete!UndoProfile
  <2>2. Delete!AsideOnlyThere'
    BY <1>12 DEF Delete!UndoProfile
  <2>3. Delete!ProfileStays'
    BY <1>12 DEF Delete!UndoProfile
  <2>4. Delete!ListedWhen'
    <3>1. ~v1'
      BY <1>12 DEF Delete!UndoProfile
    <3>2. v5' \in {"restore"}
      BY <1>12 DEF Delete!UndoProfile
    <3> QED
      BY <3>1, <3>2
  <2>5. Delete!SmoothSoFar'
    BY <1>12 DEF Delete!UndoProfile
  <2>6. Delete!ConfiguredIsWhole'
    BY <1>12 DEF Delete!UndoProfile
  <2> QED
    BY <2>1, <2>2, <2>3, <2>4, <2>5, <2>6
<1>13. CASE Delete!Restore
  <2>1. Delete!PartsOK'
    BY <1>13 DEF Delete!Restore
  <2>2. Delete!AsideOnlyThere'
    BY <1>13 DEF Delete!Restore
  <2>3. Delete!ProfileStays'
    BY <1>13 DEF Delete!Restore
  <2>4. Delete!ListedWhen'
    BY <1>13 DEF Delete!Restore
  <2>5. Delete!SmoothSoFar'
    BY <1>13 DEF Delete!Restore
  <2>6. Delete!ConfiguredIsWhole'
    BY <1>13 DEF Delete!Restore
  <2> QED
    BY <2>1, <2>2, <2>3, <2>4, <2>5, <2>6
<1>14. CASE Delete!Add
  <2>1. Delete!PartsOK'
    BY <1>14 DEF Delete!Add
  <2>2. Delete!AsideOnlyThere'
    BY <1>14 DEF Delete!Add
  <2>3. Delete!ProfileStays'
    BY <1>14 DEF Delete!Add
  <2>4. Delete!ListedWhen'
    BY <1>14 DEF Delete!Add
  <2>5. Delete!SmoothSoFar'
    BY <1>14 DEF Delete!Add
  <2>6. Delete!ConfiguredIsWhole'
    BY <1>14 DEF Delete!Add
  <2> QED
    BY <2>1, <2>2, <2>3, <2>4, <2>5, <2>6
<1>15. CASE Delete!SaveConfig
  <2>1. Delete!PartsOK'
    BY <1>15 DEF Delete!SaveConfig
  <2>2. Delete!AsideOnlyThere'
    BY <1>15 DEF Delete!SaveConfig
  <2>3. Delete!ProfileStays'
    BY <1>15 DEF Delete!SaveConfig
  <2>4. Delete!ListedWhen'
    <3>1. v13' = v13 /\ v8' = v8 /\ (v9' = v9 \/ v9' = TRUE)
      BY <1>15 DEF Delete!SaveConfig
    <3>2. \/ v5' \in {"erase", "idle"}
          \/ v5' = "undo_add" /\ v1' = v1 /\ (v1 <=> v13) /\ (v1' <=> v13')
      BY <1>15 DEF Delete!SaveConfig
    <3>3. v13 /\ ~v9 => ~v8
      BY <1>15 DEF Delete!SaveConfig
    <3>4. v13' /\ ~v9' => ~v8'
      BY <3>1, <3>2, <3>3
    <3> QED
      BY <3>1, <3>2, <3>4
  <2>5. Delete!SmoothSoFar'
    BY <1>15 DEF Delete!SaveConfig
  <2>6. Delete!ConfiguredIsWhole'
    BY <1>15 DEF Delete!SaveConfig
  <2> QED
    BY <2>1, <2>2, <2>3, <2>4, <2>5, <2>6
<1>16. CASE Delete!EraseBundle
  <2>1. Delete!PartsOK'
    BY <1>16 DEF Delete!EraseBundle, Delete!StageFiles
  <2>2. Delete!AsideOnlyThere'
    BY <1>16 DEF Delete!EraseBundle, Delete!StageFiles
  <2>3. Delete!ProfileStays'
    BY <1>16 DEF Delete!EraseBundle, Delete!StageFiles
  <2>4. Delete!ListedWhen'
    <3>1. v13' = v13 /\ v8' = v8 /\ (v9' = v9 \/ v9' = TRUE)
      BY <1>16 DEF Delete!EraseBundle, Delete!StageFiles
    <3>2. v5' \in Delete!Erasing
      BY <1>16 DEF Delete!EraseBundle, Delete!StageFiles
    <3>3. v13 /\ ~v9 => ~v8
      BY <1>16 DEF Delete!EraseBundle, Delete!StageFiles
    <3>4. v13' /\ ~v9' => ~v8'
      BY <3>1, <3>2, <3>3
    <3> QED
      BY <3>1, <3>2, <3>4
  <2>5. Delete!SmoothSoFar'
    BY <1>16 DEF Delete!EraseBundle, Delete!StageFiles
  <2>6. Delete!ConfiguredIsWhole'
    BY <1>16 DEF Delete!EraseBundle, Delete!StageFiles
  <2> QED
    BY <2>1, <2>2, <2>3, <2>4, <2>5, <2>6
<1>17. CASE Delete!CommitErase
  <2>1. Delete!PartsOK'
    BY <1>17 DEF Delete!CommitErase
  <2>2. Delete!AsideOnlyThere'
    BY <1>17 DEF Delete!CommitErase
  <2>3. Delete!ProfileStays'
    BY <1>17 DEF Delete!CommitErase
  <2>4. Delete!ListedWhen'
    <3>1. v5' \in {"erase_back", "idle"}
      BY <1>17 DEF Delete!CommitErase
    <3>2. v5' = "erase_back" => v13' = v13 /\ v8' = v8 /\ (v9' = v9 \/ v9' = TRUE)
      BY <1>17 DEF Delete!CommitErase
    <3>3. v13 /\ ~v9 => ~v8
      BY <1>17 DEF Delete!CommitErase
    <3>4. v5' = "erase_back" /\ v13' /\ ~v9' => ~v8'
      BY <3>1, <3>2, <3>3
    <3> QED
      BY <3>1, <3>4
  <2>5. Delete!SmoothSoFar'
    BY <1>17 DEF Delete!CommitErase
  <2>6. Delete!ConfiguredIsWhole'
    BY <1>17 DEF Delete!CommitErase
  <2> QED
    BY <2>1, <2>2, <2>3, <2>4, <2>5, <2>6
<1>18. CASE Delete!EraseUndone
  <2>1. Delete!PartsOK'
    <3>1. v1' = v1 /\ v2' = v2 /\ v13' = v13 /\ v8' = v8
      BY <1>18 DEF Delete!EraseUndone, Delete!PutFilesBack
    <3>2. v9' \in BOOLEAN /\ v12' \in BOOLEAN /\ (~v9' => ~v9)
      <4>1. v9' = v9 \/ v9' = TRUE
        BY <1>18 DEF Delete!EraseUndone, Delete!PutFilesBack
      <4>2. v12' = (v12 /\ v3' # "none") \/ v12' = v12
        BY <1>18 DEF Delete!EraseUndone, Delete!PutFilesBack
      <4>3. v9 \in BOOLEAN /\ v12 \in BOOLEAN
        OBVIOUS
      <4> QED
        BY <4>1, <4>2, <4>3 DEF Delete!PartsOK
    <3>3. v3' \in Delete!Parts
      BY <1>18 DEF Delete!EraseUndone, Delete!PutFilesBack
    <3>4. ~v9' /\ ~v12' => v3' # "part"
      BY <1>18 DEF Delete!EraseUndone, Delete!PutFilesBack
    <3> QED
      BY <3>1, <3>2, <3>3, <3>4
  <2>2. Delete!AsideOnlyThere'
    BY <1>18 DEF Delete!EraseUndone, Delete!PutFilesBack
  <2>3. Delete!ProfileStays'
    BY <1>18 DEF Delete!EraseUndone, Delete!PutFilesBack
  <2>4. Delete!ListedWhen'
    <3>1. v13' = v13 /\ v8' = v8 /\ (v9' = v9 \/ v9' = TRUE)
      BY <1>18 DEF Delete!EraseUndone, Delete!PutFilesBack
    <3>2. v5' \in {"erase_back", "unlist"}
      BY <1>18 DEF Delete!EraseUndone, Delete!PutFilesBack
    <3>3. v13 /\ ~v9 => ~v8
      BY <1>18 DEF Delete!EraseUndone, Delete!PutFilesBack
    <3>4. v13' /\ ~v9' => ~v8'
      BY <3>1, <3>2, <3>3
    <3> QED
      BY <3>1, <3>2, <3>4
  <2>5. Delete!SmoothSoFar'
    BY <1>18 DEF Delete!EraseUndone, Delete!PutFilesBack
  <2>6. Delete!ConfiguredIsWhole'
    <3>1. v2 = "here" \/ v9
      BY <1>18 DEF Delete!EraseUndone, Delete!PutFilesBack
    <3>4. v2' = v2 /\ (v9' = v9 \/ v9' = TRUE) /\ v5' \in {"erase_back", "unlist"}
      BY <1>18 DEF Delete!EraseUndone, Delete!PutFilesBack
    <3>2. v3' \in {"going", "aside"} => v5' = "erase_back"
      BY <1>18 DEF Delete!EraseUndone, Delete!PutFilesBack
    <3>3. ~v9' /\ v3' = "part" => v12'
      BY <1>18 DEF Delete!EraseUndone, Delete!PutFilesBack
    <3>5. ~v9' => v2' = "here"
      BY <3>1, <3>4
    <3> QED
      BY <3>2, <3>3, <3>4, <3>5
  <2> QED
    BY <2>1, <2>2, <2>3, <2>4, <2>5, <2>6
<1>19. CASE Delete!Unlist
  <2>1. Delete!PartsOK'
    BY <1>19 DEF Delete!Unlist
  <2>2. Delete!AsideOnlyThere'
    BY <1>19 DEF Delete!Unlist
  <2>3. Delete!ProfileStays'
    BY <1>19 DEF Delete!Unlist
  <2>4. Delete!ListedWhen'
    <3>1. v13' = v13 /\ v8' = v8 /\ (v9' = v9 \/ v9' = TRUE)
      BY <1>19 DEF Delete!Unlist
    <3>2. \/ v5' = "idle"
          \/ v5' = "undo_add" /\ v9'
          \/ v5' = "undo_add" /\ v1' = v13
      BY <1>19 DEF Delete!Unlist
    <3>3. v13 /\ ~v9 => ~v8
      BY <1>19 DEF Delete!Unlist
    <3>4. v13' /\ ~v9' => ~v8'
      BY <3>1, <3>3
    <3>5. v5' = "undo_add" /\ ~v9' => (v1' <=> v13')
      BY <3>1, <3>2
    <3> QED
      BY <3>2, <3>4, <3>5
  <2>5. Delete!SmoothSoFar'
    BY <1>19 DEF Delete!Unlist
  <2>6. Delete!ConfiguredIsWhole'
    BY <1>19 DEF Delete!Unlist
  <2> QED
    BY <2>1, <2>2, <2>3, <2>4, <2>5, <2>6
<1>20. CASE Delete!UndoAdd
  <2>1. Delete!PartsOK'
    BY <1>20 DEF Delete!UndoAdd
  <2>2. Delete!AsideOnlyThere'
    BY <1>20 DEF Delete!UndoAdd
  <2>3. Delete!ProfileStays'
    BY <1>20 DEF Delete!UndoAdd
  <2>4. Delete!ListedWhen'
    BY <1>20 DEF Delete!UndoAdd
  <2>5. Delete!SmoothSoFar'
    BY <1>20 DEF Delete!UndoAdd
  <2>6. Delete!ConfiguredIsWhole'
    BY <1>20 DEF Delete!UndoAdd
  <2> QED
    BY <2>1, <2>2, <2>3, <2>4, <2>5, <2>6
<1>21. CASE Delete!MakeToken
  <2>1. Delete!PartsOK'
    BY <1>21 DEF Delete!MakeToken
  <2>2. Delete!AsideOnlyThere'
    BY <1>21 DEF Delete!MakeToken
  <2>3. Delete!ProfileStays'
    BY <1>21 DEF Delete!MakeToken
  <2>4. Delete!ListedWhen'
    BY <1>21 DEF Delete!MakeToken
  <2>5. Delete!SmoothSoFar'
    BY <1>21 DEF Delete!MakeToken
  <2>6. Delete!ConfiguredIsWhole'
    BY <1>21 DEF Delete!MakeToken
  <2> QED
    BY <2>1, <2>2, <2>3, <2>4, <2>5, <2>6
<1>22. CASE Delete!Crash
  <2>1. Delete!PartsOK'
    BY <1>22 DEF Delete!Crash
  <2>2. Delete!AsideOnlyThere'
    BY <1>22 DEF Delete!Crash
  <2>3. Delete!ProfileStays'
    BY <1>22 DEF Delete!Crash
  <2>4. Delete!ListedWhen'
    BY <1>22 DEF Delete!Crash
  <2>5. Delete!SmoothSoFar'
    BY <1>22 DEF Delete!Crash
  <2>6. Delete!ConfiguredIsWhole'
    BY <1>22 DEF Delete!Crash
  <2> QED
    BY <2>1, <2>2, <2>3, <2>4, <2>5, <2>6
<1>23. CASE UNCHANGED Delete!deleteVars
  BY <1>23 DEF Delete!deleteVars
<1> QED
  BY <1>1, <1>2, <1>3, <1>4, <1>5, <1>6, <1>7, <1>8, <1>9, <1>10, <1>11, <1>12,
     <1>13, <1>14, <1>15, <1>16, <1>17, <1>18, <1>19, <1>20, <1>21, <1>22, <1>23
     DEF Delete!Next
\* An account that the configuration names has its profile, and its files all or none.
LEMMA DeleteInvWhole == Delete!DeleteInv => Delete!ConfiguredIsWhole
  BY DEF Delete!DeleteInv

-----------------------------------------------------------------------------
(***************************************************************************)
(* The quarantine of the lock directory.                                   *)
(***************************************************************************)
LEMMA QuarantineInvInit ==
  ASSUME Quarantine!QuarantineConstants, Quarantine!Init
  PROVE  Quarantine!QuarantineInv
<1>1. Quarantine!ValuesOK
  BY DEF Quarantine!QuarantineConstants, Quarantine!Init, Quarantine!ValuesOK,
     Quarantine!NoReport, Quarantine!NoEnding, Quarantine!Endings
<1>2. Quarantine!OnePlace /\ Quarantine!TakenIsTaken /\ Quarantine!RunKnows
  BY DEF Quarantine!Init, Quarantine!OnePlace, Quarantine!TakenIsTaken,
     Quarantine!RunKnows, Quarantine!Taken, Quarantine!NoReport, Quarantine!NoEnding
<1> QED
  BY <1>1, <1>2 DEF Quarantine!QuarantineInv

\* What a run tells when it ends: only what is in the quarantine, of its own.
LEMMA QuarantineEnds ==
  ASSUME Quarantine!QuarantineConstants, Quarantine!QuarantineInv, NEW r \in Runs,
         v7[r] # "idle",
         Quarantine!Over(r), UNCHANGED Quarantine!Directories,
         NEW kept \in SUBSET v10[r], NEW e \in Quarantine!Endings,
         v12' = Quarantine!Set(v12, r, e),
         e.committed = kept, \A i \in kept : v2[i] = i,
         e.word = "done" => kept = v8[r].issues
  PROVE  Quarantine!QuarantineInv'
<1> USE DEF Quarantine!QuarantineInv, Quarantine!Over, Quarantine!Directories,
        Quarantine!Set
<1>1. Quarantine!ValuesOK'
  BY DEF Quarantine!ValuesOK
<1>2. Quarantine!OnePlace'
  BY DEF Quarantine!OnePlace
<1>3. \A q \in Runs : Quarantine!Taken(q)' \subseteq Quarantine!Taken(q)
  BY DEF Quarantine!ValuesOK, Quarantine!Taken
<1>4. Quarantine!TakenIsTaken'
  BY <1>3 DEF Quarantine!TakenIsTaken
<1>5. Quarantine!RunKnows'
  BY DEF Quarantine!ValuesOK, Quarantine!RunKnows
<1> QED
  BY <1>1, <1>2, <1>4, <1>5

LEMMA QuarantineBreaksOff ==
  ASSUME Quarantine!QuarantineConstants, Quarantine!QuarantineInv, NEW r \in Runs,
         v7[r] # "idle", Quarantine!BreakOff(r)
  PROVE  Quarantine!QuarantineInv'
<1>1. CASE v10[r] = {}
  <2>1. [Quarantine!NoEnding EXCEPT !.word = "refused"] \in Quarantine!Endings
    BY DEF Quarantine!NoEnding, Quarantine!Endings
  <2> QED
    BY <1>1, <2>1, QuarantineEnds DEF Quarantine!BreakOff, Quarantine!NoEnding
<1>2. CASE v10[r] # {}
  <2>1. Quarantine!Committed(r) \subseteq v10[r]
        /\ \A i \in Quarantine!Committed(r) : v2[i] = i
    BY DEF Quarantine!Committed
  <2>2. Quarantine!Partial(r) \in Quarantine!Endings
    <3>1. v10[r] \subseteq Quarantine!Residues
          /\ v8[r].issues \subseteq Quarantine!Residues
      BY DEF Quarantine!QuarantineConstants, Quarantine!QuarantineInv,
         Quarantine!ValuesOK, Quarantine!Residues
    <3> QED
      BY <2>1, <3>1 DEF Quarantine!Partial, Quarantine!Unmoved, Quarantine!Endings
  <2>3. Quarantine!Partial(r).committed = Quarantine!Committed(r)
        /\ Quarantine!Partial(r).word = "partial"
    BY DEF Quarantine!Partial
  <2> QED
    BY <1>2, <2>1, <2>2, <2>3, QuarantineEnds DEF Quarantine!BreakOff
<1> QED
  BY <1>1, <1>2

\* A residue goes where nothing has been.
LEMMA QuarantineRenames ==
  ASSUME Quarantine!QuarantineConstants, Quarantine!QuarantineInv, NEW r \in Runs,
         Quarantine!Rename(r)
  PROVE  Quarantine!QuarantineInv'
<1> DEFINE i == v9[r][1]
           n == v9[r][2]
<1>1. i \in v8[r].issues /\ i \in Quarantine!Residues /\ n \in Names /\ i \in Nat
  BY DEF Quarantine!QuarantineConstants, Quarantine!QuarantineInv,
     Quarantine!ValuesOK, Quarantine!RunKnows, Quarantine!Rename, Quarantine!Residues
<1>2. CASE (v1[n] = Free \/ v2[i] # Free) /\ Quarantine!BreakOff(r)
  BY <1>2, QuarantineBreaksOff DEF Quarantine!Rename
<1>3. CASE /\ v1[n] # Free /\ v2[i] = Free
           /\ v2' = [v2 EXCEPT ![i] = v1[n]] /\ v1' = [v1 EXCEPT ![n] = Free]
           /\ UNCHANGED <<v3, v6, v8, v9, v12>>
  <2> USE DEF Quarantine!QuarantineInv, Quarantine!Set
  <2>1. Quarantine!ValuesOK'
    <3>1. v1' \in [Names -> 1 .. v3 \cup {Free}]
      BY <1>1, <1>3 DEF Quarantine!ValuesOK
    <3>2. v2' \in [Quarantine!Residues -> 1 .. v3 \cup {Free}]
      BY <1>1, <1>3 DEF Quarantine!ValuesOK
    <3>3. v7' \in [Runs -> {"idle", "approved", "next", "rename", "confirm", "fail"}]
      BY <1>3 DEF Quarantine!ValuesOK, Quarantine!Rename
    <3>4. v10' \in [Runs -> SUBSET Quarantine!Residues]
      BY <1>1, <1>3 DEF Quarantine!ValuesOK, Quarantine!Rename
    <3>5. v11' \in [Runs -> Nat \X Nat]
      <4>3. v11 \in [Runs -> Nat \X Nat]
        BY DEF Quarantine!ValuesOK
      <4>1. <<v5 + 1, v11[r][2]>> \in Nat \X Nat
        <5>1. v5 + 1 \in Nat
          BY DEF Quarantine!ValuesOK
        <5>2. v11[r] \in Nat \X Nat
          BY <4>3
        <5>3. v11[r][2] \in Nat
          BY <5>2
        <5> QED
          BY <5>1, <5>3
      <4>2. \/ v11' = v11
            \/ v11' = [v11 EXCEPT ![r] = <<v5 + 1, v11[r][2]>>]
        BY <1>3 DEF Quarantine!Rename
      <4> QED
        BY <4>1, <4>2, <4>3
    <3>6. {v4', v5', v6'} \subseteq Nat
      BY <1>3 DEF Quarantine!ValuesOK, Quarantine!Rename
    <3> QED
      BY <1>3, <3>1, <3>2, <3>3, <3>4, <3>5, <3>6 DEF Quarantine!ValuesOK
  <2>2. Quarantine!OnePlace'
    BY <1>1, <1>3 DEF Quarantine!QuarantineConstants, Quarantine!ValuesOK,
       Quarantine!OnePlace
  <2>3. \A q \in Runs :
          /\ Quarantine!Taken(q)' \subseteq Quarantine!Taken(q) \cup {i}
          /\ q # r => Quarantine!Taken(q)' = Quarantine!Taken(q)
    BY <1>3 DEF Quarantine!ValuesOK, Quarantine!Rename, Quarantine!Taken
  <2>4. \A q \in Runs : i \notin Quarantine!Taken(q)
    BY <1>3 DEF Quarantine!TakenIsTaken
  <2>5. Quarantine!TakenIsTaken'
    <3>1. \A j \in Quarantine!Residues : v2[j] # Free \/ j = i => v2'[j] # Free
      BY <1>1, <1>3 DEF Quarantine!ValuesOK
    <3>2. \A q \in Runs : Quarantine!Taken(q) \subseteq Quarantine!Residues
      BY DEF Quarantine!ValuesOK, Quarantine!Taken, Quarantine!Endings
    <3> QED
      BY <1>1, <2>3, <2>4, <3>1, <3>2 DEF Quarantine!TakenIsTaken
  <2>6. Quarantine!RunKnows'
    <3>1. \A j \in Quarantine!Residues : v2[j] # Free => v2'[j] = v2[j]
      BY <1>1, <1>3 DEF Quarantine!ValuesOK
    <3>2. \A q \in Runs : \A j \in v12[q].committed : j \in Quarantine!Residues
          /\ v2[j] # Free
      BY DEF Quarantine!ValuesOK, Quarantine!TakenIsTaken, Quarantine!Taken,
         Quarantine!Endings
    <3> QED
      BY <1>1, <1>3, <3>1, <3>2 DEF Quarantine!ValuesOK, Quarantine!RunKnows,
         Quarantine!Rename
  <2> QED
    BY <2>1, <2>2, <2>5, <2>6
<1> QED
  BY <1>2, <1>3 DEF Quarantine!Rename

LEMMA QuarantineInvPreserved ==
  ASSUME Quarantine!QuarantineConstants, Quarantine!QuarantineInv,
         [Quarantine!Next]_(Quarantine!quarantineVars)
  PROVE  Quarantine!QuarantineInv'
<1>1. CASE Quarantine!Appear
  <2> USE DEF Quarantine!QuarantineConstants, Quarantine!QuarantineInv
  <2>1. v3' = v3 + 1 /\ v3' \in Quarantine!Residues
    BY <1>1 DEF Quarantine!Appear, Quarantine!ValuesOK, Quarantine!Residues
  <2>2. Quarantine!ValuesOK'
    BY <1>1, <2>1 DEF Quarantine!Appear, Quarantine!ValuesOK, Quarantine!Residues,
       Quarantine!runVars
  <2>3. Quarantine!OnePlace'
    BY <1>1, <2>1 DEF Quarantine!Appear, Quarantine!ValuesOK, Quarantine!OnePlace,
       Quarantine!runVars
  <2>4. Quarantine!TakenIsTaken' /\ Quarantine!RunKnows'
    BY <1>1 DEF Quarantine!Appear, Quarantine!TakenIsTaken, Quarantine!RunKnows,
       Quarantine!Taken, Quarantine!runVars
  <2> QED
    BY <2>2, <2>3, <2>4
<1>2. CASE Quarantine!ChangeAbove \/ Quarantine!MakeLockFile
  BY <1>2 DEF Quarantine!ChangeAbove, Quarantine!MakeLockFile, Quarantine!runVars,
     Quarantine!QuarantineInv, Quarantine!ValuesOK, Quarantine!OnePlace,
     Quarantine!TakenIsTaken, Quarantine!RunKnows, Quarantine!Taken
<1>3. ASSUME NEW r \in Runs, Quarantine!Scan(r)
      PROVE  Quarantine!QuarantineInv'
  <2> USE DEF Quarantine!QuarantineInv, Quarantine!Set, Quarantine!Directories
  <2>1. [issues |-> Quarantine!Issues, times |-> v4]
        \in [issues : SUBSET (1 .. v3), times : Nat]
    BY DEF Quarantine!ValuesOK, Quarantine!Issues
  <2>2. Quarantine!NoEnding \in Quarantine!Endings
    BY DEF Quarantine!NoEnding, Quarantine!Endings
  <2>3. Quarantine!ValuesOK'
    BY <1>3, <2>1, <2>2 DEF Quarantine!Scan, Quarantine!ValuesOK
  <2>4. Quarantine!OnePlace'
    BY <1>3 DEF Quarantine!Scan, Quarantine!OnePlace
  <2>5. Quarantine!TakenIsTaken' /\ Quarantine!RunKnows'
    BY <1>3 DEF Quarantine!Scan, Quarantine!ValuesOK, Quarantine!TakenIsTaken,
       Quarantine!RunKnows, Quarantine!Taken, Quarantine!NoEnding
  <2> QED
    BY <2>3, <2>4, <2>5
<1>4. ASSUME NEW r \in Runs, v7[r] # "idle", Quarantine!BreakOff(r)
      PROVE  Quarantine!QuarantineInv'
  BY <1>4, QuarantineBreaksOff
<1>5. ASSUME NEW r \in Runs, Quarantine!Prepare(r), ~Quarantine!BreakOff(r)
      PROVE  Quarantine!QuarantineInv'
  <2> USE DEF Quarantine!QuarantineInv, Quarantine!Set, Quarantine!Directories
  <2>1. Quarantine!ValuesOK'
    <3>1. <<v5, v6>> \in Nat \X Nat
      BY DEF Quarantine!ValuesOK
    <3>2. v11' \in [Runs -> Nat \X Nat]
      BY <1>5, <3>1 DEF Quarantine!Prepare, Quarantine!ValuesOK
    <3> QED
      BY <1>5, <3>2 DEF Quarantine!Prepare, Quarantine!ValuesOK
  <2>2. Quarantine!OnePlace' /\ Quarantine!TakenIsTaken' /\ Quarantine!RunKnows'
    BY <1>5 DEF Quarantine!Prepare, Quarantine!ValuesOK, Quarantine!OnePlace,
       Quarantine!TakenIsTaken, Quarantine!Taken, Quarantine!RunKnows
  <2> QED
    BY <2>1, <2>2
<1>6. ASSUME NEW r \in Runs, Quarantine!Confirm(r), ~Quarantine!BreakOff(r)
      PROVE  Quarantine!QuarantineInv'
  <2> USE DEF Quarantine!QuarantineInv, Quarantine!Set, Quarantine!Directories
  <2>1. /\ v7[r] = "confirm" /\ v7' = Quarantine!Set(v7, r, "next")
        /\ UNCHANGED <<v8, v9, v10, v11, v12, v13>>
        /\ UNCHANGED Quarantine!Directories
    BY <1>6 DEF Quarantine!Confirm
  <2>2. Quarantine!ValuesOK' /\ Quarantine!OnePlace' /\ Quarantine!TakenIsTaken'
        /\ Quarantine!RunKnows'
    BY <2>1 DEF Quarantine!ValuesOK, Quarantine!OnePlace, Quarantine!TakenIsTaken,
       Quarantine!Taken, Quarantine!RunKnows
  <2> QED
    BY <2>2
<1>7. ASSUME NEW r \in Runs, Quarantine!Choose(r), ~Quarantine!BreakOff(r)
      PROVE  Quarantine!QuarantineInv'
  <2> USE DEF Quarantine!QuarantineInv, Quarantine!Set, Quarantine!Directories
  <2>1. PICK i \in v8[r].issues \ v10[r] :
          /\ i \in Quarantine!Issues
             /\ v9' = Quarantine!Set(v9, r, <<i, Quarantine!Where(i)>>)
          /\ v7[r] = "next" /\ v7' = Quarantine!Set(v7, r, "rename")
          /\ UNCHANGED <<v8, v10, v11, v12, v13>> /\ UNCHANGED Quarantine!Directories
    BY <1>7 DEF Quarantine!Choose
  <2>2. <<i, Quarantine!Where(i)>> \in Quarantine!Residues \X Names
    BY <2>1 DEF Quarantine!QuarantineConstants, Quarantine!ValuesOK,
       Quarantine!Issues, Quarantine!Where, Quarantine!Residues
  <2>3. Quarantine!ValuesOK' /\ Quarantine!OnePlace' /\ Quarantine!TakenIsTaken'
    BY <2>1, <2>2 DEF Quarantine!ValuesOK, Quarantine!OnePlace,
       Quarantine!TakenIsTaken, Quarantine!Taken
  <2>4. Quarantine!RunKnows'
    BY <2>1, <2>2 DEF Quarantine!ValuesOK, Quarantine!RunKnows
  <2> QED
    BY <2>3, <2>4
<1>8. ASSUME NEW r \in Runs, Quarantine!Rename(r)
      PROVE  Quarantine!QuarantineInv'
  BY <1>8, QuarantineRenames
<1>9. ASSUME NEW r \in Runs, Quarantine!Finish(r), ~Quarantine!BreakOff(r)
      PROVE  Quarantine!QuarantineInv'
  <2>1. [Quarantine!NoEnding EXCEPT !.word = "done", !.committed = v10[r]]
        \in Quarantine!Endings
    BY DEF Quarantine!QuarantineInv, Quarantine!ValuesOK, Quarantine!NoEnding,
       Quarantine!Endings
  <2> QED
    BY <1>9, <2>1, QuarantineEnds DEF Quarantine!Finish, Quarantine!NoEnding
<1>10. ASSUME NEW r \in Runs, Quarantine!Fail(r), ~Quarantine!BreakOff(r)
      PROVE  Quarantine!QuarantineInv'
  <2>1. Quarantine!NoEnding \in Quarantine!Endings
    BY DEF Quarantine!NoEnding, Quarantine!Endings
  <2> QED
    BY <1>10, <2>1, QuarantineEnds DEF Quarantine!Fail, Quarantine!NoEnding
<1>11. CASE UNCHANGED Quarantine!quarantineVars
  BY <1>11 DEF Quarantine!quarantineVars, Quarantine!runVars,
     Quarantine!QuarantineInv, Quarantine!ValuesOK, Quarantine!OnePlace,
     Quarantine!TakenIsTaken, Quarantine!RunKnows, Quarantine!Taken
<1> QED
  BY <1>1, <1>2, <1>3, <1>4, <1>5, <1>8, <1>9, <1>10, <1>11, <1>7, <1>6 DEF
     Quarantine!Next, Quarantine!Prepare, Quarantine!Choose, Quarantine!Confirm,
     Quarantine!Finish, Quarantine!Fail

\* What a run reports as moved is in the quarantine, as it was approved, and its own.
LEMMA QuarantineInvKept ==
  ASSUME Quarantine!QuarantineConstants, Quarantine!QuarantineInv
  PROVE  Quarantine!CommittedIsKept
<1>1. ASSUME NEW r \in Runs, NEW i \in v12[r].committed
      PROVE  v2[i] = i /\ i \notin Quarantine!Issues
  BY DEF Quarantine!QuarantineConstants, Quarantine!QuarantineInv,
     Quarantine!ValuesOK, Quarantine!OnePlace, Quarantine!RunKnows, Quarantine!Issues,
     Quarantine!Endings, Quarantine!Residues
<1>2. \A r \in Runs : v12[r].word = "done" => v12[r].committed = v8[r].issues
  BY DEF Quarantine!QuarantineInv, Quarantine!RunKnows
<1>3. \A r \in Runs : \A q \in Runs \ {r} : v12[r].committed \cap v12[q].committed = {}
  BY DEF Quarantine!QuarantineInv, Quarantine!TakenIsTaken, Quarantine!Taken
<1> QED
  BY <1>1, <1>2, <1>3 DEF Quarantine!CommittedIsKept

-----------------------------------------------------------------------------
(***************************************************************************)
(* The installer's releases.                                               *)
(***************************************************************************)
LEMMA ReleaseInvInit ==
  ASSUME Release!ReleaseConstants, Release!Init
  PROVE  Release!ReleaseInv
<1>1. Release!Ages /\ Release!CopyIsRight /\ Release!Publishing
      /\ Release!IsWhole(v3) /\ Release!IsWhole(v8) /\ Release!ReportMatches
  BY DEF Release!Init, Release!Ages, Release!HasCopied, Release!CopyIsRight,
     Release!Named, Release!Publishing, Release!IsWhole, Release!ReportMatches,
     Release!Files
<1>2. Release!TypeOK
  BY DEF Release!ReleaseConstants, Release!Init, Release!TypeOK, Release!Texts2,
     Release!Files
<1> QED
  BY <1>1, <1>2 DEF Release!ReleaseInv

\* The ages are numbers.
LEMMA ReleaseTypes ==
  ASSUME Release!ReleaseConstants, Release!TypeOK
  PROVE  /\ \A f \in Release!Files : v6[f] \in Nat /\ v7[f] \in Nat /\ v1[f] \in Nat
         /\ (\A f \in Release!Files : v6[f] <= v7[f] /\ v7[f] <= v6[f])
               => v7 = v6
<1>1. \A f \in Release!Files : v6[f] \in Nat /\ v7[f] \in Nat /\ v1[f] \in Nat
  BY DEF Release!ReleaseConstants, Release!TypeOK, Release!Texts2
<1>2. ASSUME \A f \in Release!Files : v6[f] <= v7[f] /\ v7[f] <= v6[f]
      PROVE  v7 = v6
  <2>1. \A f \in Release!Files : v7[f] = v6[f]
    BY <1>1, <1>2
  <2> QED
    BY <2>1 DEF Release!TypeOK, Release!Texts2
<1> QED
  BY <1>1, <1>2

\* Only so many calls fail.
LEMMA ReleaseCounts ==
  ASSUME Release!ReleaseConstants, Release!TypeOK, UNCHANGED v11 \/ Release!Mishap
  PROVE  v11' \in 0 .. MaxMishaps
  BY DEF Release!ReleaseConstants, Release!TypeOK, Release!Mishap

\* An edit makes a file younger.
LEMMA ReleaseEdits ==
  ASSUME Release!ReleaseConstants, Release!ReleaseInv, NEW f \in Release!Files,
         Release!Edit(f)
  PROVE  Release!ReleaseInv'
<1>1. /\ v1' = [v1 EXCEPT ![f] = v10 + 1] /\ v10' = v10 + 1 /\ v10 < MaxEdits
      /\ UNCHANGED <<v5, v9, v11, v2, v3, v4, v6, v7, v8>>
  BY DEF Release!Edit, Release!disk, Release!notes
<1>2. Release!TypeOK'
  BY <1>1 DEF Release!ReleaseConstants, Release!ReleaseInv, Release!TypeOK,
     Release!Texts2
<1>3. Release!Ages'
  <2>1. v1' \in [Release!Files -> Nat] /\ \A g \in Release!Files : v1[g] <= v1'[g]
        /\ v1'[g] <= v10'
    BY <1>1 DEF Release!ReleaseConstants, Release!ReleaseInv, Release!Ages,
       Release!TypeOK, Release!Texts2
  <2>2. \A g \in Release!Files : Release!HasCopied(g)' <=> Release!HasCopied(g)
    BY <1>1 DEF Release!HasCopied
  <2>3. \A g \in Release!Files : v6[g] \in Nat /\ v7[g] \in Nat /\ v1[g] \in Nat
    BY DEF Release!ReleaseConstants, Release!ReleaseInv, Release!TypeOK,
       Release!Texts2
  <2> QED
    BY <1>1, <2>1, <2>2, <2>3 DEF Release!ReleaseInv, Release!Ages
<1>4. Release!CopyIsRight' /\ Release!Publishing' /\ Release!IsWhole(v3)'
      /\ Release!IsWhole(v8)' /\ Release!ReportMatches'
  BY <1>1 DEF Release!ReleaseInv, Release!CopyIsRight, Release!Publishing,
     Release!Candidate, Release!IsWhole, Release!ReportMatches
<1> QED
  BY <1>2, <1>3, <1>4 DEF Release!ReleaseInv

\* Reading the source, and copying it.
LEMMA ReleaseReads ==
  ASSUME Release!ReleaseConstants, Release!ReleaseInv,
         Release!ReadSource \/ Release!CopySource
  PROVE  Release!ReleaseInv'
<1> USE DEF Release!ReleaseInv, Release!Still, Release!Smooth, Release!Next2,
        Release!disk
<1>1. CASE Release!ReadSource
  <2> DEFINE f == IF v5 = "idle" THEN 1 ELSE 2
  <2>1. f \in Release!Files /\ v6' = [v6 EXCEPT ![f] = v1[f]]
    BY <1>1 DEF Release!ReadSource, Release!Files
  <2>2. /\ v5 \in {"idle", "read"} /\ v5' \in {"read", "lock"}
        /\ UNCHANGED <<v1, v10, v11, v7, v8, v2, v3, v4>>
    BY <1>1 DEF Release!ReadSource
  <2> HIDE DEF f
  <2>3. Release!TypeOK'
    BY <2>1, <2>2 DEF Release!TypeOK, Release!Texts2
  <2>4. Release!Ages'
    <3>1. \A g \in Release!Files : v6'[g] \in {v6[g], v1[g]} /\ v1[g] \in Nat
      BY <2>1 DEF Release!ReleaseConstants, Release!TypeOK, Release!Texts2
    <3>2. \A g \in Release!Files : ~Release!HasCopied(g)'
      BY <2>2 DEF Release!HasCopied
    <3> QED
      BY <2>2, <3>1, <3>2 DEF Release!Ages
  <2> QED
    BY <2>2, <2>3, <2>4 DEF Release!CopyIsRight, Release!Named, Release!Publishing,
       Release!IsWhole, Release!ReportMatches
<1>2. CASE Release!CopySource
  <2> DEFINE f == IF v5 = "copy" THEN 1 ELSE 2
  <2>0. f \in Release!Files
    BY DEF Release!Files
  <2>1. f \in Release!Files /\ v7' = [v7 EXCEPT ![f] = v1[f]]
    BY <1>2, <2>0 DEF Release!CopySource
  <2>2. /\ \/ v5 = "copy" /\ v5' = "copy rest" /\ f = 1
           \/ v5 = "copy rest" /\ v5' = "build" /\ f = 2
        /\ UNCHANGED <<v1, v10, v11, v6, v9, v8, v2, v3, v4>>
    BY <1>2 DEF Release!CopySource
  <2> HIDE DEF f
  <2>3. Release!TypeOK'
    BY <2>1, <2>2 DEF Release!TypeOK, Release!Texts2
  <2>4. Release!Ages'
    <3>1. \A g \in Release!Files : v6[g] \in Nat /\ v7[g] \in Nat /\ v1[g] \in Nat
      BY DEF Release!ReleaseConstants, Release!TypeOK, Release!Texts2
    <3>2. \A g \in Release!Files : v7'[g] = IF g = f THEN v1[g] ELSE v7[g]
      BY <2>1 DEF Release!TypeOK, Release!Texts2
    <3>0. \A g \in Release!Files : g = 1 \/ g = 2
      BY DEF Release!Files
    <3>3. \A g \in Release!Files : Release!HasCopied(g)' => g = f
          \/ Release!HasCopied(g)
      <4>1. CASE v5 = "copy" /\ v5' = "copy rest" /\ f = 1
        BY <4>1 DEF Release!HasCopied
      <4>2. CASE v5 = "copy rest" /\ v5' = "build" /\ f = 2
        BY <3>0, <4>2 DEF Release!HasCopied
      <4> QED
        BY <2>2, <4>1, <4>2
    <3>4. \A g \in Release!Files : v1[g] <= v1[g] /\ v6[g] <= v1[g]
      BY <3>1 DEF Release!Ages
    <3> QED
      BY <2>2, <3>2, <3>3, <3>4 DEF Release!Ages
  <2> QED
    BY <2>2, <2>3, <2>4 DEF Release!CopyIsRight, Release!Named, Release!Publishing,
       Release!IsWhole, Release!ReportMatches
<1> QED
  BY <1>1, <1>2

\* What was not edited until now was copied as it was read.
LEMMA ReleaseRechecks ==
  ASSUME Release!ReleaseConstants, Release!ReleaseInv,
         \/ Release!Recheck("first check", "copy")
            \/ Release!Recheck("second check", "wheel")
         \/ Release!Recheck("third check", "rename") \/ Release!Inspect
  PROVE  Release!ReleaseInv'
<1> USE DEF Release!ReleaseInv, Release!Still, Release!Smooth, Release!Next2,
        Release!Ends, Release!Recheck, Release!disk, Release!notes
<1>1. Release!TypeOK'
  BY DEF Release!TypeOK, Release!Inspect
<1>2. Release!Ages'
  <2>1. CASE v5' = "copy" \/ v5' = "idle" \/ v5' = "rename" \/ v5' = "first check"
    BY <2>1 DEF Release!Ages, Release!HasCopied, Release!Inspect
  <2>2. CASE v5 = "second check" /\ v5' = "wheel"
    BY <2>2 DEF Release!Ages, Release!HasCopied, Release!Inspect
  <2> QED
    BY <2>1, <2>2 DEF Release!Inspect
<1>3. Release!CopyIsRight'
  <2>1. CASE Release!Recheck("third check", "rename") /\ v1 = v6
    <3>1. \A f \in Release!Files : v6[f] <= v7[f] /\ v7[f] <= v6[f]
      BY <2>1 DEF Release!Ages, Release!HasCopied
    <3> QED
      BY <2>1, <3>1, ReleaseTypes DEF Release!CopyIsRight
  <2> QED
    BY <2>1 DEF Release!CopyIsRight, Release!Named, Release!Inspect
<1>4. Release!Publishing' /\ Release!IsWhole(v3)' /\ Release!IsWhole(v8)'
      /\ Release!ReportMatches'
  BY DEF Release!Publishing, Release!IsWhole, Release!ReportMatches, Release!Inspect
<1> QED
  BY <1>1, <1>2, <1>3, <1>4

\* The steps between, which may fail.
LEMMA ReleaseWorks ==
  ASSUME Release!ReleaseConstants, Release!ReleaseInv,
         \/ Release!BuildWheel \/ Release!InspectWheel \/ Release!MakeEnvironment
            \/ Release!UnpackWheel \/ Release!WriteLauncher
         \/ Release!WalkRelease \/ Release!Dies
  PROVE  Release!ReleaseInv'
<1> USE DEF Release!ReleaseInv, Release!Still, Release!Smooth, Release!Mishap,
        Release!Next2, Release!Ends, Release!Working, Release!disk, Release!notes,
        Release!BuildWheel, Release!InspectWheel, Release!MakeEnvironment,
        Release!UnpackWheel, Release!WriteLauncher, Release!WalkRelease, Release!Dies
<1>0. v11' \in 0 .. MaxMishaps
  <2>1. UNCHANGED v11 \/ Release!Mishap
    BY Zenon
  <2> QED
    BY <2>1, ReleaseCounts
<1>1. Release!TypeOK'
  BY <1>0 DEF Release!TypeOK
<1>2. Release!Ages'
  BY DEF Release!Ages, Release!HasCopied
<1>3. Release!CopyIsRight'
  BY DEF Release!CopyIsRight, Release!Named
<1>4. Release!Publishing' /\ Release!IsWhole(v3)' /\ Release!IsWhole(v8)'
      /\ Release!ReportMatches'
  BY DEF Release!Publishing, Release!IsWhole, Release!ReportMatches
<1> QED
  BY <1>1, <1>2, <1>3, <1>4

\* The release gets its name, and its manifest is exchanged with the active one, or
\* exchanged back.
LEMMA ReleasePublishes ==
  ASSUME Release!ReleaseConstants, Release!ReleaseInv,
         Release!NameRelease \/ Release!WriteCandidate \/ Release!Exchange
         \/ Release!Validate \/ Release!RollBack \/ Release!Commit
  PROVE  Release!ReleaseInv'
<1> USE DEF Release!ReleaseInv, Release!Still, Release!Smooth, Release!Mishap,
        Release!Next2, Release!Ends, Release!disk, Release!notes
<1>1. /\ v5 \in Release!Named /\ v5' \in (Release!Named \ {"rename"}) \cup {"idle"}
      /\ UNCHANGED <<v1, v10, v6, v7, v8>>
  BY DEF Release!NameRelease, Release!WriteCandidate, Release!Exchange,
     Release!Validate, Release!RollBack, Release!Commit, Release!Named
<1>2. Release!Candidate \in Release!Releases
      /\ Release!Candidate.content = Release!Candidate.name
         /\ Release!Candidate' = Release!Candidate
  BY <1>1 DEF Release!Candidate, Release!CopyIsRight, Release!TypeOK, Release!Releases
<1>3. Release!Ages' /\ Release!CopyIsRight'
  BY <1>1 DEF Release!Ages, Release!HasCopied, Release!CopyIsRight, Release!Named
<1>4. v11' \in 0 .. MaxMishaps
  <2>1. UNCHANGED v11 \/ Release!Mishap
    BY Zenon DEF Release!NameRelease, Release!WriteCandidate, Release!Exchange,
       Release!Validate, Release!RollBack, Release!Commit
  <2> QED
    BY <2>1, ReleaseCounts
<1> HIDE DEF Release!Mishap
<1>5. CASE Release!NameRelease
  BY <1>1, <1>2, <1>3, <1>4, <1>5 DEF Release!NameRelease, Release!TypeOK,
     Release!Publishing, Release!IsWhole, Release!ReportMatches
<1>6. CASE Release!WriteCandidate
  BY <1>1, <1>2, <1>3, <1>4, <1>6 DEF Release!WriteCandidate, Release!TypeOK,
     Release!Publishing, Release!IsWhole, Release!ReportMatches
<1>7. CASE Release!Exchange
  BY <1>1, <1>2, <1>3, <1>4, <1>7 DEF Release!Exchange, Release!TypeOK,
     Release!Publishing, Release!IsWhole, Release!ReportMatches
<1>8. CASE Release!Validate
  BY <1>1, <1>2, <1>3, <1>4, <1>8 DEF Release!Validate, Release!TypeOK,
     Release!Publishing, Release!IsWhole, Release!ReportMatches
<1>9. CASE Release!RollBack
  BY <1>1, <1>2, <1>3, <1>4, <1>9 DEF Release!RollBack, Release!TypeOK,
     Release!Publishing, Release!IsWhole, Release!ReportMatches
<1>10. CASE Release!Commit
  BY <1>1, <1>2, <1>3, <1>4, <1>10 DEF Release!Commit, Release!TypeOK,
     Release!Publishing, Release!IsWhole, Release!ReportMatches
<1> QED
  BY <1>5, <1>6, <1>7, <1>8, <1>9, <1>10

LEMMA ReleaseInvPreserved ==
  ASSUME Release!ReleaseConstants, Release!ReleaseInv,
         [Release!Next]_(Release!installVars)
  PROVE  Release!ReleaseInv'
<1>1. CASE UNCHANGED Release!installVars
  BY <1>1 DEF Release!installVars, Release!disk, Release!notes, Release!ReleaseInv,
     Release!TypeOK, Release!Ages, Release!HasCopied, Release!CopyIsRight,
     Release!Publishing, Release!Candidate, Release!IsWhole, Release!ReportMatches
<1> QED
  BY <1>1, ReleaseEdits, ReleaseReads, ReleaseRechecks, ReleaseWorks, ReleasePublishes
     DEF Release!Next

LEMMA ReleaseInvWhole == Release!ReleaseInv => Release!ActiveIsWhole
/\ Release!ReportMatches
  BY DEF Release!ReleaseInv, Release!IsWhole, Release!ActiveIsWhole

-----------------------------------------------------------------------------
(***************************************************************************)
(* The service units.                                                      *)
(***************************************************************************)
\* The texts of the units, one by one.
LEMMA ServiceTexts ==
  ASSUME Service!ServiceConstants, NEW u \in Service!PerUnit
  PROVE  /\ Service!UnitTexts(u) \in [Service!Units -> 0 .. MaxInstalls]
         /\ \A i \in Service!Units :
              (/\ Service!UnitTexts(u)[i] = (IF u[i] = Missing THEN 0 ELSE u[i].text)
               /\ (Service!UnitTexts(u)[i] = 0) <=> (u[i] = Missing)
               /\ u[i] # Missing => u[i] \in Service!UnitFiles)
         /\ \A w \in Service!PerUnit :
              (\A i \in Service!Units :
                Service!UnitTexts(u)[i] = Service!UnitTexts(w)[i])
                => Service!UnitTexts(u) = Service!UnitTexts(w)
<1>1. \A w : \A i \in Service!Units :
        Service!UnitTexts(w)[i] = (IF w[i] = Missing THEN 0 ELSE w[i].text)
  BY DEF Service!UnitTexts
<1>2. \A i \in Service!Units : u[i] # Missing => u[i] \in Service!UnitFiles
      /\ u[i].text \in 1 .. MaxInstalls
  BY DEF Service!PerUnit, Service!UnitFiles, Service!Generations
<1>3. Service!UnitTexts(u) \in [Service!Units -> 0 .. MaxInstalls]
  BY <1>2 DEF Service!UnitTexts, Service!ServiceConstants
<1>4. \A i \in Service!Units : Service!UnitTexts(u)[i] = 0 <=> u[i] = Missing
  BY <1>1, <1>2 DEF Service!ServiceConstants
<1>5. \A w \in Service!PerUnit :
        (\A i \in Service!Units :
          Service!UnitTexts(u)[i] = Service!UnitTexts(w)[i])
          => Service!UnitTexts(u) = Service!UnitTexts(w)
  BY DEF Service!UnitTexts
<1> QED
  BY <1>1, <1>2, <1>3, <1>4, <1>5

\* With the timer off nothing is asked of the files.
LEMMA ServiceOff ==
  ASSUME TRUE
  PROVE  /\ Service!Off \in Service!Switches /\ ~Service!Off.enabled
            /\ ~Service!Off.active
         /\ v6 = Service!Off => Service!IsWhole(Service!Found)
         /\ v6' = Service!Off => Service!IsWhole(Service!Found)'
<1>1. Service!Off \in Service!Switches /\ ~Service!Off.enabled /\ ~Service!Off.active
  BY DEF Service!Off, Service!Switches
<1>2. v6 = Service!Off => Service!IsWhole(Service!Found)
  BY <1>1 DEF Service!IsWhole, Service!Found
<1>3. v6' = Service!Off => Service!IsWhole(Service!Found)'
  BY <1>1 DEF Service!IsWhole, Service!Found
<1> QED
  BY <1>1, <1>2, <1>3

LEMMA ServiceInvInit ==
  ASSUME Service!ServiceConstants, Service!Init
  PROVE  Service!ServiceInv
<1>1. v3 \in Service!PerUnit /\ \A i \in Service!Units : v3[i] = Missing
  BY DEF Service!Init, Service!Nowhere, Service!PerUnit
<1>2. Service!UnitTexts(v3) \in [Service!Units -> 0 .. MaxInstalls]
  BY <1>1, ServiceTexts
<1>3. Service!ValuesOK
  <2>1. v6 \in Service!Switches
    BY DEF Service!Init, Service!Off, Service!Switches
  <2>2. v1 = Missing
        /\ v11 = [runtime |-> Missing, timer |-> v6, text |-> Service!UnitTexts(v3)]
    BY DEF Service!Init, Service!Found
  <2> QED
    BY <1>1, <1>2, <2>1, <2>2 DEF Service!ServiceConstants, Service!Init,
       Service!Nowhere, Service!ValuesOK, Service!Finds
<1>4. Service!AllWhole
  BY ServiceOff DEF Service!Init, Service!AllWhole
<1>5. Service!Remembered /\ Service!Stopped /\ Service!Publishing
      /\ Service!Restoring /\ Service!Removing /\ Service!FailureRestores
  BY DEF Service!Init, Service!Remembered, Service!Stopped, Service!Publishing,
     Service!Restoring, Service!Removing, Service!FailureRestores, Service!Installed,
     Service!Recovering, Service!UnitsBack, Service!Replacing, Service!Preparing
<1> QED
  BY <1>3, <1>4, <1>5 DEF Service!ServiceInv

\* A call finds what is there.
LEMMA ServiceCalls ==
  ASSUME Service!ServiceConstants, Service!ServiceInv, NEW c, Service!Call(c)
  PROVE  Service!ServiceInv'
<1>1. /\ UNCHANGED <<v1, v2, v3, v4, v5, v6, v13, v14, v15>>
      /\ v11' = Service!Found /\ Service!Found' = Service!Found /\ v12' = "none"
         /\ v9' = FALSE /\ v10' = FALSE
      /\ v7' \in {"start", "look"}
  BY DEF Service!Call, Service!Same, Service!Files, Service!Fine, Service!Found
<1>2. Service!UnitTexts(v3) \in [Service!Units -> 0 .. MaxInstalls]
  BY ServiceTexts DEF Service!ServiceInv, Service!ValuesOK
<1>3. Service!ValuesOK'
  BY <1>1, <1>2 DEF Service!ServiceInv, Service!ValuesOK, Service!Finds, Service!Found
<1>4. Service!AllWhole'
  BY <1>1 DEF Service!ServiceInv, Service!AllWhole, Service!IsWhole, Service!Before
<1>5. Service!Remembered' /\ Service!Stopped' /\ Service!Publishing'
      /\ Service!Restoring' /\ Service!Removing' /\ Service!FailureRestores'
  BY <1>1 DEF Service!Remembered, Service!Stopped, Service!Publishing,
     Service!Restoring, Service!Removing, Service!FailureRestores, Service!Installed,
     Service!Recovering, Service!UnitsBack, Service!Replacing, Service!Preparing
<1> QED
  BY <1>3, <1>4, <1>5 DEF Service!ServiceInv
\* Only so many calls fail.
LEMMA ServiceCounts ==
  ASSUME Service!ServiceConstants, Service!ValuesOK, Service!Fine \/ Service!Setback
  PROVE  v15' \in 0 .. MaxSetbacks
  BY DEF Service!ServiceConstants, Service!ValuesOK, Service!Fine, Service!Setback

\* What systemctl makes of the switches it is given.
LEMMA ServiceActivated ==
  ASSUME NEW t \in Service!Switches
  PROVE  /\ Service!Activated(t) \in Service!Switches
            /\ Service!Activated(t).enabled = t.enabled
         /\ Service!Activated(t).active <=> t.active
            /\ \A i \in Service!Units : v3[i] # Missing
         /\ (t.active => \A i \in Service!Units : v3[i] # Missing)
            => Service!Activated(t) = t
  BY DEF Service!Activated, Service!Switches

LEMMA ServicePartly ==
  ASSUME NEW t \in Service!Switches, v6 \in Service!Switches, Service!Partly(t)
  PROVE  /\ v6' \in Service!Switches
         /\ v6'.enabled => t.enabled \/ v6.enabled
         /\ v6'.active => t.active \/ v6.active
         /\ UNCHANGED <<v1, v2, v3, v4, v5>>
<1>1. PICK p \in {[enabled |-> t.enabled, active |-> v6.active],
                  [enabled |-> v6.enabled, active |-> t.active], v6} : Service!Timer(p)
  BY DEF Service!Partly
<1>2. p \in Service!Switches /\ (p.enabled => t.enabled \/ v6.enabled)
      /\ (p.active => t.active \/ v6.active)
  BY <1>1 DEF Service!Switches
<1> QED
  BY <1>1, <1>2 DEF Service!Timer, Service!Files

\* What may be switched on leaves the files as a job needs them.
LEMMA ServiceSwitched ==
  ASSUME Service!ServiceConstants, Service!ValuesOK, Service!IsWhole(Service!Found),
         NEW t \in Service!Switches,
         v6'.enabled => t.enabled \/ v6.enabled,
         v6'.active => t.active \/ v6.active,
         UNCHANGED <<v1, v3>>,
         t.active => \A i \in Service!Units : v3[i] # Missing,
         t.enabled \/ t.active =>
           \/ \E i \in Service!Units : v3[i] = Missing
           \/ \A i \in Service!Units : Service!UnitTexts(v3)[i] = v1
  PROVE  Service!IsWhole(Service!Found)'
<1>1. /\ Service!Found.timer = v6 /\ Service!Found.runtime = v1
         /\ Service!Found.text = Service!UnitTexts(v3)
      /\ Service!Found'.timer = v6' /\ Service!Found'.runtime = v1
         /\ Service!Found'.text = Service!UnitTexts(v3)
  BY DEF Service!Found
<1>2. \A i \in Service!Units : Service!UnitTexts(v3)[i] = 0 <=> v3[i] = Missing
  BY ServiceTexts DEF Service!ValuesOK
<1>3. v6'.active => \A i \in Service!Units : Service!UnitTexts(v3)[i] # 0
  BY <1>1, <1>2 DEF Service!IsWhole
<1>4. (v6'.enabled \/ v6'.active)
      /\ (\A i \in Service!Units : Service!UnitTexts(v3)[i] # 0)
        => \A i \in Service!Units : Service!UnitTexts(v3)[i] = v1
  BY <1>1, <1>2 DEF Service!IsWhole
<1> QED
  BY <1>1, <1>3, <1>4 DEF Service!IsWhole

\* A unit file is not a missing one.
LEMMA ServiceFiles ==
  ASSUME Service!ServiceConstants, NEW t \in Service!Generations, NEW n \in Nat
  PROVE  [text |-> t, ino |-> n] \in Service!UnitFiles
         /\ [text |-> t, ino |-> n] # Missing
<1>1. [text |-> t, ino |-> n] \in Service!UnitFiles
  BY DEF Service!UnitFiles
<1> QED
  BY <1>1 DEF Service!ServiceConstants

\* A note in the journal is about the files only.
LEMMA ServiceNotes ==
  ASSUME Service!ServiceConstants, Service!ValuesOK, v5 # Missing,
         NEW i \in Service!Units, NEW n \in Nat,
         \/ v5' = [v5 EXCEPT !.restored[i] = n]
         \/ v5' = [v5 EXCEPT !.bound[i] = n]
  PROVE  /\ v5' \in Service!Journal /\ v5' # Missing /\ v5'.old = v5.old
         /\ v5'.new = v5.new /\ v5'.runtime = v5.runtime
         /\ v5'.timer = v5.timer /\ Service!Before(v5') = Service!Before(v5)
<1>1. v5 \in Service!Journal
  BY DEF Service!ValuesOK
<1>2. /\ v5' \in Service!Journal /\ v5'.old = v5.old
      /\ v5'.new = v5.new /\ v5'.runtime = v5.runtime
      /\ v5'.timer = v5.timer
  BY <1>1 DEF Service!Journal
<1>3. v5' # Missing
  BY <1>2 DEF Service!ServiceConstants
<1> QED
  BY <1>2, <1>3 DEF Service!Before

\* Most steps change some of the values, within their kinds.
LEMMA ServiceValues ==
  ASSUME Service!ServiceConstants, Service!ValuesOK, UNCHANGED <<v13, v11>>,
         v14' \in Nat, Service!Fine \/ Service!Setback,
         v1' \in Service!Generations \cup {Missing}, v2'
         \in Service!Generations \cup {Missing},
         v3' \in Service!PerUnit, v4' \in Service!PerUnit, v5'
         \in Service!Journal \cup {Missing},
         v6' \in Service!Switches
  PROVE  Service!ValuesOK'
  BY ServiceCounts DEF Service!ValuesOK

LEMMA ServiceKeepsWhole ==
  ASSUME Service!AllWhole, UNCHANGED v11, v5' = v5 \/ v5' = Missing,
         Service!IsWhole(Service!Found)'
  PROVE  Service!AllWhole'
<1>1. Service!IsWhole(v11)'
  BY DEF Service!AllWhole, Service!IsWhole
<1>2. ASSUME v5' # Missing
      PROVE  Service!IsWhole(Service!Before(v5))'
  BY <1>2 DEF Service!AllWhole, Service!IsWhole, Service!Before
<1> QED
  BY <1>1, <1>2 DEF Service!AllWhole

\* The recovery looks, and stops the timer.
LEMMA ServiceLooks ==
  ASSUME Service!ServiceConstants, Service!ServiceInv, Service!Look \/ Service!Quiet
  PROVE  Service!ServiceInv'
<1> USE DEF Service!ServiceInv, Service!Same, Service!Files, Service!Timer,
        Service!Rest, Service!Go, Service!Tell
<1>1. /\ UNCHANGED <<v1, v2, v3, v4, v5, v11, v13, v14, v9>>
      /\ Service!Fine \/ Service!Setback
      /\ \/ v7 = "look" /\ v7' = "quiet" /\ v5 # Missing
         \/ v7 = "quiet" /\ v7' = "runtime back" /\ v6' = Service!Off
         \/ v7' = "idle" /\ v12' # "failed"
  BY DEF Service!Look, Service!Quiet, Service!Partly
<1>2. v6' = v6 \/ v6' = Service!Off \/ Service!Partly(Service!Off)
  BY DEF Service!Look, Service!Quiet
<1>3. v6' \in Service!Switches /\ Service!IsWhole(Service!Found)'
  <2>1. CASE v6' = v6
    BY <1>1, <2>1 DEF Service!ValuesOK, Service!AllWhole, Service!IsWhole,
       Service!Found
  <2>2. CASE v6' = Service!Off
    BY <2>2, ServiceOff
  <2>3. CASE Service!Partly(Service!Off)
    <3>1. /\ v6' \in Service!Switches
          /\ v6'.enabled => Service!Off.enabled \/ v6.enabled
          /\ v6'.active => Service!Off.active \/ v6.active
      BY <2>3, ServiceOff, ServicePartly DEF Service!ValuesOK
    <3> QED
      BY <1>1, <3>1, ServiceOff, ServiceSwitched DEF Service!AllWhole
  <2> QED
    BY <1>2, <2>1, <2>2, <2>3
<1>4. Service!ValuesOK'
  BY <1>1, <1>3, ServiceValues DEF Service!ValuesOK
<1>5. Service!AllWhole'
  BY <1>1, <1>3, ServiceKeepsWhole
<1>6. Service!Remembered' /\ Service!Stopped'
  BY <1>1 DEF Service!Remembered, Service!Stopped, Service!Before, Service!Replacing,
     Service!Preparing, Service!Installed, Service!UnitsBack, Service!Recovering
<1>7. Service!Publishing' /\ Service!Restoring' /\ Service!Removing'
      /\ Service!FailureRestores'
  BY <1>1 DEF Service!Publishing, Service!Restoring, Service!Removing,
     Service!FailureRestores, Service!Replacing, Service!Preparing, Service!UnitsBack
<1> QED
  BY <1>4, <1>5, <1>6, <1>7

\* The runtimes are exchanged again.
LEMMA ServiceRuntimeBack ==
  ASSUME Service!ServiceConstants, Service!ServiceInv, Service!RuntimeBack
  PROVE  Service!ServiceInv'
<1> USE DEF Service!ServiceInv, Service!Same, Service!Files, Service!Runtime,
        Service!AsideGone, Service!Rest, Service!Go, Service!Tell
<1>1. /\ UNCHANGED <<v3, v4, v5, v6, v11, v13, v14, v9>>
      /\ Service!Fine \/ Service!Setback
      /\ v7 = "runtime back" /\ v5 \in Service!Journal /\ v5 # Missing
         /\ v6 = Service!Off
  BY DEF Service!RuntimeBack, Service!RollbackRuntime, Service!Remembered, Service!Recovering, Service!Stopped,
     Service!ValuesOK
<1>2. \/ v7' = "runtime back" /\ v1' = v5.runtime /\ v2' = v5.new
      \/ v7' = "unit back" /\ v1' = v5.runtime /\ v2' = Missing
      \/ v7' = "idle" /\ v12' # "failed" /\ v1' = v1 /\ v2' = v2
  BY DEF Service!RuntimeBack, Service!RollbackRuntime
<1>3. v1' \in Service!Generations \cup {Missing}
      /\ v2' \in Service!Generations \cup {Missing}
  BY <1>1, <1>2 DEF Service!ValuesOK, Service!Journal
<1>4. Service!ValuesOK'
  BY <1>1, <1>3, ServiceValues DEF Service!ValuesOK
<1>5. Service!AllWhole'
  BY <1>1, ServiceOff, ServiceKeepsWhole
<1>6. Service!Remembered' /\ Service!Stopped'
  BY <1>1, <1>2 DEF Service!Remembered, Service!Stopped, Service!Before,
     Service!Replacing, Service!Preparing, Service!Installed, Service!UnitsBack,
     Service!Recovering
<1>7. Service!Publishing' /\ Service!Restoring' /\ Service!Removing'
      /\ Service!FailureRestores'
  BY <1>1, <1>2 DEF Service!Publishing, Service!Restoring, Service!Removing,
     Service!FailureRestores, Service!Replacing, Service!Preparing, Service!UnitsBack
<1> QED
  BY <1>4, <1>5, <1>6, <1>7

\* A unit is put back, or is not.
LEMMA ServiceUnitBack ==
  ASSUME Service!ServiceConstants, Service!ServiceInv, NEW i \in Service!Units,
         Service!UnitBack(i)
  PROVE  Service!ServiceInv'
<1> USE DEF Service!ServiceInv, Service!Same, Service!Files, Service!Unit,
        Service!Rest
<1> DEFINE Here == IF i = 1 THEN "unit back" ELSE "unit back 2"
<1>1. /\ UNCHANGED <<v1, v2, v5, v6, v11, v13, v9, v12>>
      /\ Service!Fine \/ Service!Setback
      /\ v7 = Here
  BY DEF Service!UnitBack, Service!OnTo
<1>2. v5 \in Service!Journal /\ v5 # Missing /\ v6 = Service!Off
      /\ v3 \in Service!PerUnit /\ v14 \in Nat
      /\ v4 \in Service!PerUnit /\ v1 = v5.runtime
  BY <1>1 DEF Service!Remembered, Service!Recovering, Service!UnitsBack,
     Service!Stopped, Service!Restoring, Service!ValuesOK
<1>3. /\ v3' \in Service!PerUnit /\ v4' \in Service!PerUnit /\ v14' \in Nat
      /\ \A j \in Service!Units : j # i => v3'[j] = v3[j]
      /\ v10 => v10'
      /\ \/ v7' = Service!Later(i) /\ (v10' \/ Service!IsBack(i)')
         \/ /\ v7' = (IF i = 1 THEN "bind" ELSE "bind 2")
            /\ v3'[i] # Missing /\ Service!IsBack(i)'
  <2>1. CASE /\ Service!Unchanged(i) /\ Service!Unit(v3, [v4 EXCEPT ![i] = Missing])
             /\ Service!OnTo(i) /\ UNCHANGED <<v10, v14>>
    <3>1. Service!IsBack(i)
      <4>1. CASE v3[i] = v5.old[i]
        BY <4>1 DEF Service!IsBack
      <4>2. CASE Service!Restored(i)
        <5>1. v5.old[i] \in Service!UnitFiles
              /\ Service!OldText(i) \in Service!Generations /\ v5.restored[i] \in Nat
          BY <1>2, <4>2 DEF Service!Restored, Service!Journal, Service!PerUnit,
             Service!UnitFiles, Service!OldText
        <5>2. v3[i] # Missing /\ v3[i].text = Service!OldText(i) /\ v5.old[i] # Missing
          BY <4>2, <5>1, ServiceFiles DEF Service!Restored
        <5> QED
          BY <5>2 DEF Service!IsBack, Service!OldText
      <4> QED
        BY <2>1, <4>1, <4>2 DEF Service!Unchanged
    <3> QED
      BY <1>1, <1>2, <2>1, <3>1 DEF Service!OnTo, Service!IsBack, Service!PerUnit
  <2>2. CASE /\ Service!Published(i) /\ v5.old[i] = Missing
                /\ Service!Unit([v3 EXCEPT ![i] = Missing], v4)
             /\ Service!OnTo(i) /\ UNCHANGED <<v10, v14>>
    <3>1. v3' \in Service!PerUnit /\ v3'[i] = Missing
          /\ \A j \in Service!Units : j # i => v3'[j] = v3[j]
      BY <1>2, <2>2 DEF Service!PerUnit
    <3> QED
      BY <1>1, <1>2, <2>2, <3>1 DEF Service!OnTo, Service!IsBack
  <2>3. CASE /\ v5.old[i] # Missing /\ v14' = v14 + 1
             /\ Service!Unit([v3 EXCEPT ![i] = [text |-> Service!OldText(i), ino |-> v14 + 1]], v4)
             /\ v7' = (IF i = 1 THEN "bind" ELSE "bind 2")
             /\ UNCHANGED v10
    <3>1. v5.old[i] \in Service!UnitFiles /\ Service!OldText(i) \in Service!Generations
      BY <1>2, <2>3 DEF Service!Journal, Service!PerUnit, Service!UnitFiles,
         Service!OldText
    <3>2. v14 + 1 \in Nat
      BY <1>2
    <3>3. [text |-> Service!OldText(i), ino |-> v14 + 1] \in Service!UnitFiles
          /\ [text |-> Service!OldText(i), ino |-> v14 + 1] # Missing
      BY <3>1, <3>2, ServiceFiles
    <3>4. /\ v3' \in Service!PerUnit
             /\ v3'[i] = [text |-> Service!OldText(i), ino |-> v14 + 1]
          /\ \A j \in Service!Units : j # i => v3'[j] = v3[j]
      BY <1>2, <2>3, <3>3 DEF Service!PerUnit
    <3>5. v3'[i] # Missing /\ v3'[i].text = Service!OldText(i)
      BY <3>3, <3>4
    <3>6. Service!IsBack(i)'
      BY <1>1, <2>3, <3>5 DEF Service!IsBack, Service!OldText
    <3> QED
      BY <1>2, <2>3, <3>2, <3>4, <3>5, <3>6
  <2>4. CASE v10' = TRUE /\ Service!Same /\ UNCHANGED v14 /\ Service!OnTo(i)
    BY <1>1, <1>2, <2>4 DEF Service!OnTo
  <2> QED
    BY <2>1, <2>2, <2>3, <2>4 DEF Service!UnitBack
<1>4. Service!ValuesOK'
  BY <1>1, <1>2, <1>3, ServiceValues DEF Service!ValuesOK
<1>5. Service!AllWhole'
  BY <1>1, <1>2, ServiceOff, ServiceKeepsWhole
<1>6. Service!Remembered' /\ Service!Stopped'
  BY <1>1, <1>2, <1>3 DEF Service!Remembered, Service!Stopped, Service!Later,
     Service!Before, Service!Replacing, Service!Preparing, Service!Installed,
     Service!UnitsBack, Service!Recovering
<1>7. Service!Publishing' /\ Service!Removing' /\ Service!FailureRestores'
  BY <1>1, <1>3 DEF Service!Publishing, Service!Removing, Service!FailureRestores,
     Service!Later, Service!Replacing, Service!Preparing
<1>8. Service!Restoring'
  <2>1. \A j \in Service!Units : j # i => (Service!IsBack(j)' <=> Service!IsBack(j))
    BY <1>1, <1>3 DEF Service!IsBack
  <2>2. CASE i = 1
    BY <1>1, <1>2, <1>3, <2>2 DEF Service!Restoring, Service!Later, Service!UnitsBack
  <2>3. CASE i = 2
    <3>1. Service!IsBack(1)' <=> Service!IsBack(1)
      BY <2>1, <2>3 DEF Service!Units
    <3> QED
      BY <1>1, <1>2, <1>3, <2>3, <3>1 DEF Service!Restoring, Service!Later,
         Service!UnitsBack, Service!IsBack
  <2> QED
    BY <2>2, <2>3 DEF Service!Units
<1> QED
  BY <1>4, <1>5, <1>6, <1>7, <1>8

\* The journal takes note of it, or does not.
LEMMA ServiceBinds ==
  ASSUME Service!ServiceConstants, Service!ServiceInv, NEW i \in Service!Units,
         Service!Bind(i)
  PROVE  Service!ServiceInv'
<1> USE DEF Service!ServiceInv, Service!Same, Service!Files, Service!Entry,
        Service!Rest
<1>1. /\ UNCHANGED <<v1, v2, v3, v4, v6, v11, v13, v14, v9, v12>>
      /\ Service!Fine \/ Service!Setback
      /\ v7 = (IF i = 1 THEN "bind" ELSE "bind 2") /\ v7' = Service!Later(i)
      /\ v10 => v10'
  <2>1. v10 => v10'
    <3>1. v10' = v10 \/ v10' = TRUE
      BY DEF Service!Bind
    <3> QED
      BY <3>1, Zenon
  <2> QED
    BY <2>1 DEF Service!Bind, Service!OnTo
<1>2. /\ v5 \in Service!Journal /\ v5 # Missing /\ v6 = Service!Off /\ v3[i] # Missing
      /\ Service!IsBack(i) /\ v1 = v5.runtime
  <2>1. v5 \in Service!Journal /\ v5 # Missing /\ v6 = Service!Off /\ v1 = v5.runtime
    BY <1>1 DEF Service!Remembered, Service!Recovering, Service!UnitsBack,
       Service!Stopped, Service!Restoring, Service!ValuesOK
  <2>2. CASE i = 1
    BY <1>1, <2>1, <2>2 DEF Service!Restoring, Service!IsBack
  <2>3. CASE i = 2
    BY <1>1, <2>1, <2>3 DEF Service!Restoring, Service!IsBack
  <2> QED
    BY <2>2, <2>3 DEF Service!Units
<1>3. v3[i].ino \in Nat
  BY <1>2 DEF Service!ValuesOK, Service!PerUnit, Service!UnitFiles
<1>4. /\ v5' \in Service!Journal /\ v5' # Missing /\ v5'.old = v5.old
      /\ v5'.new = v5.new /\ v5'.runtime = v5.runtime
      /\ v5'.timer = v5.timer /\ Service!Before(v5') = Service!Before(v5)
  <2>1. CASE v5' = [v5 EXCEPT !.restored[i] = v3[i].ino]
    BY <1>2, <1>3, <2>1, ServiceNotes
  <2>2. CASE v5' = v5
    BY <1>2, <2>2
  <2> QED
    BY <2>1, <2>2 DEF Service!Bind
<1>5. Service!ValuesOK'
  BY <1>1, <1>4, ServiceValues DEF Service!ValuesOK
<1>6. Service!AllWhole'
  <2>1. Service!IsWhole(Service!Found)'
    BY <1>1, <1>2, ServiceOff
  <2> QED
    BY <1>1, <1>2, <1>4, <2>1 DEF Service!AllWhole, Service!IsWhole, Service!Before
<1>7. Service!Remembered' /\ Service!Stopped'
  BY <1>1, <1>2, <1>4 DEF Service!Remembered, Service!Stopped, Service!Later,
     Service!Before, Service!Replacing, Service!Preparing, Service!Installed,
     Service!UnitsBack, Service!Recovering
<1>8. Service!Publishing' /\ Service!Removing' /\ Service!FailureRestores'
  BY <1>1 DEF Service!Publishing, Service!Removing, Service!FailureRestores,
     Service!Later, Service!Replacing, Service!Preparing
<1>9. Service!Restoring'
  <2>1. /\ Service!IsBack(1)' <=> Service!IsBack(1)
        /\ Service!IsBack(2)' <=> Service!IsBack(2)
    BY <1>1, <1>4 DEF Service!IsBack
  <2>2. CASE i = 1
    BY <1>1, <1>2, <1>4, <2>1, <2>2 DEF Service!Restoring, Service!Later,
       Service!UnitsBack
  <2>3. CASE i = 2
    BY <1>1, <1>2, <1>4, <2>1, <2>3 DEF Service!Restoring, Service!Later,
       Service!UnitsBack
  <2> QED
    BY <2>2, <2>3 DEF Service!Units
<1> QED
  BY <1>5, <1>6, <1>7, <1>8, <1>9

\* The timer is put back, and the journal is forgotten.
LEMMA ServiceTimerBack ==
  ASSUME Service!ServiceConstants, Service!ServiceInv,
         Service!ReloadBack \/ Service!ActivateBack
  PROVE  Service!ServiceInv'
<1> USE DEF Service!ServiceInv, Service!Same, Service!Files, Service!Timer,
        Service!Rest, Service!Go, Service!Tell
<1>1. /\ UNCHANGED <<v1, v2, v3, v4, v5, v11, v13, v14, v9, v10>>
      /\ Service!Fine \/ Service!Setback
      /\ \/ v7 = "reload back" /\ v7' = "activate back" /\ ~v10 /\ v6' = v6
         \/ v7 = "activate back" /\ v7' = "forget back"
            /\ v6' = Service!Activated(v5.timer)
         \/ v7 \in {"reload back", "activate back"} /\ v7' = "idle" /\ v12' # "failed"
  BY DEF Service!ReloadBack, Service!ActivateBack, Service!Partly
<1>2. /\ v5 \in Service!Journal /\ v5 # Missing /\ v6 = Service!Off
         /\ v3 \in Service!PerUnit
      /\ v1 = v5.runtime
  BY <1>1 DEF Service!Remembered, Service!Recovering, Service!UnitsBack,
     Service!Stopped, Service!Restoring, Service!ValuesOK
<1>3. v5.timer \in Service!Switches /\ v5.old \in Service!PerUnit
  BY <1>2 DEF Service!Journal
<1>4. CASE v7 = "reload back"
  <2>1. v6' = v6 /\ v7' \in {"activate back", "idle"}
    BY <1>1, <1>4 DEF Service!ReloadBack, Service!ActivateBack
  <2>2. Service!ValuesOK'
    BY <1>1, <2>1, ServiceValues DEF Service!ValuesOK
  <2>3. Service!AllWhole'
    BY <1>1, <1>2, <2>1, ServiceOff, ServiceKeepsWhole
  <2>4. Service!Remembered' /\ Service!Stopped'
    BY <1>1, <1>2, <1>4, <2>1 DEF Service!Remembered, Service!Stopped, Service!Before,
       Service!Replacing, Service!Preparing, Service!Installed, Service!UnitsBack,
       Service!Recovering
  <2>5. Service!Publishing' /\ Service!Removing' /\ Service!FailureRestores'
    BY <1>1, <1>4 DEF Service!Publishing, Service!Removing, Service!FailureRestores,
       Service!Replacing, Service!Preparing
  <2>6. Service!Restoring'
    BY <1>1, <1>2, <1>4, <2>1 DEF Service!Restoring, Service!UnitsBack, Service!IsBack
  <2> QED
    BY <2>2, <2>3, <2>4, <2>5, <2>6
<1>5. CASE v7 = "activate back"
  <2>1. /\ ~v10 /\ Service!IsBack(1) /\ Service!IsBack(2)
    BY <1>5 DEF Service!Restoring
  <2>2. \A i \in Service!Units :
          /\ v3[i] = Missing <=> v5.old[i] = Missing
          /\ Service!UnitTexts(v3)[i] = Service!UnitTexts(v5.old)[i]
          /\ Service!UnitTexts(v3)[i] = 0 <=> v3[i] = Missing
    <3>1. \A i \in Service!Units : Service!IsBack(i)
      BY <2>1 DEF Service!IsBack, Service!Units
    <3> QED
      BY <1>2, <1>3, <3>1, ServiceTexts DEF Service!IsBack
  <2>3. /\ v5.timer.active => \A i \in Service!Units : v3[i] # Missing
        /\ v5.timer.enabled \/ v5.timer.active =>
             \/ \E i \in Service!Units : v3[i] = Missing
             \/ \A i \in Service!Units : Service!UnitTexts(v3)[i] = v1
    <3>1. Service!IsWhole(Service!Before(v5))
      BY <1>2 DEF Service!AllWhole
    <3>2. /\ Service!Before(v5).timer = v5.timer /\ Service!Before(v5).runtime = v1
          /\ \A i \in Service!Units :
               Service!Before(v5).text[i] = Service!UnitTexts(v3)[i]
      BY <1>2, <2>2 DEF Service!Before
    <3> QED
      BY <2>2, <3>1, <3>2 DEF Service!IsWhole
  <2>4. Service!Activated(v5.timer) = v5.timer
    BY <1>3, <2>3, ServiceActivated
  <2>5. /\ v6' \in Service!Switches
        /\ v6'.enabled => v5.timer.enabled \/ v6.enabled
        /\ v6'.active => v5.timer.active \/ v6.active
    <3>1. CASE v6' = v5.timer
      BY <1>3, <3>1
    <3>2. CASE Service!Partly(v5.timer)
      BY <1>2, <1>3, <3>2, ServiceOff, ServicePartly
    <3> QED
      BY <1>5, <2>4, <3>1, <3>2 DEF Service!ReloadBack, Service!ActivateBack
  <2>6. Service!IsWhole(Service!Found)'
    BY <1>1, <1>3, <2>3, <2>5, ServiceSwitched DEF Service!AllWhole
  <2>7. \/ v7' = "forget back" /\ v6' = v5.timer
        \/ v7' = "idle" /\ v12' # "failed"
    BY <1>1, <1>5, <2>4
  <2>8. Service!ValuesOK'
    BY <1>1, <2>5, ServiceValues DEF Service!ValuesOK
  <2>9. Service!AllWhole'
    BY <1>1, <2>6, ServiceKeepsWhole
  <2>10. Service!Remembered' /\ Service!Stopped'
    BY <1>1, <1>2, <1>5, <2>7 DEF Service!Remembered, Service!Stopped, Service!Before,
       Service!Replacing, Service!Preparing, Service!Installed, Service!UnitsBack,
       Service!Recovering
  <2>11. Service!Publishing' /\ Service!Removing' /\ Service!FailureRestores'
    BY <1>1, <1>5, <2>7 DEF Service!Publishing, Service!Removing,
       Service!FailureRestores, Service!Replacing, Service!Preparing
  <2>12. Service!Restoring'
    BY <1>1, <1>2, <2>1, <2>7 DEF Service!Restoring, Service!UnitsBack, Service!IsBack
  <2> QED
    BY <2>8, <2>9, <2>10, <2>11, <2>12
<1> QED
  BY <1>1, <1>4, <1>5

\* When the journal is forgotten, all is as it was when it was written.
LEMMA ServiceForgets ==
  ASSUME Service!ServiceConstants, Service!ServiceInv, Service!ForgetBack
  PROVE  Service!ServiceInv'
<1> USE DEF Service!ServiceInv, Service!Same, Service!Files, Service!Entry,
        Service!Rest, Service!Go, Service!Tell
<1>1. /\ UNCHANGED <<v1, v2, v3, v4, v6, v13, v14, v9, v10>>
      /\ v7 = "forget back"
      /\ Service!Fine \/ Service!Setback
      /\ v5' \in {v5, Missing}
      /\ \/ v7' = "idle" /\ v11' = v11 /\ (v12' = "failed" => v9)
         \/ v7' = "start" /\ v11' = Service!Found
  BY DEF Service!ForgetBack
<1>2. /\ v5 \in Service!Journal /\ v5 # Missing /\ v3 \in Service!PerUnit
         /\ v5.old \in Service!PerUnit
      /\ v1 = v5.runtime /\ v6 = v5.timer /\ v6 \in Service!Switches
  BY <1>1 DEF Service!Remembered, Service!Recovering, Service!UnitsBack,
     Service!Restoring, Service!ValuesOK, Service!Journal
<1>3. Service!Found = Service!Before(v5)
      /\ Service!UnitTexts(v3) \in [Service!Units -> 0 .. MaxInstalls]
  <2>1. \A i \in Service!Units : Service!IsBack(i)
    <3>1. Service!IsBack(1) /\ Service!IsBack(2)
      BY <1>1 DEF Service!Restoring
    <3> QED
      BY <3>1 DEF Service!IsBack, Service!Units
  <2>2. Service!UnitTexts(v3) = Service!UnitTexts(v5.old)
    BY <1>2, <2>1, ServiceTexts DEF Service!IsBack
  <2> QED
    BY <1>2, <2>2, ServiceTexts DEF Service!Found, Service!Before
<1>4. Service!Found' = Service!Found
  BY <1>1 DEF Service!Found
<1>5. Service!ValuesOK'
  <2>1. v11' \in Service!Finds
    <3>1. v1 \in Service!Generations \cup {Missing}
      BY DEF Service!ValuesOK
    <3>2. Service!Found \in Service!Finds
      BY <1>2, <1>3, <3>1 DEF Service!Found, Service!Finds
    <3> QED
      BY <1>1, <3>2 DEF Service!ValuesOK
  <2>2. v15' \in 0 .. MaxSetbacks
    BY <1>1, ServiceCounts
  <2> QED
    BY <1>1, <2>1, <2>2 DEF Service!ValuesOK
<1>6. Service!AllWhole'
  BY <1>1, <1>4 DEF Service!AllWhole, Service!IsWhole, Service!Before
<1>7. Service!FailureRestores'
  BY <1>1, <1>2, <1>3, <1>4 DEF Service!FailureRestores, Service!Remembered,
     Service!Recovering
<1>8. Service!Remembered' /\ Service!Stopped'
  BY <1>1, <1>4 DEF Service!Remembered, Service!Stopped, Service!Replacing,
     Service!Preparing, Service!Installed, Service!UnitsBack, Service!Recovering
<1>9. Service!Publishing' /\ Service!Removing' /\ Service!Restoring'
  BY <1>1 DEF Service!Publishing, Service!Removing, Service!Restoring,
     Service!Replacing, Service!Preparing, Service!UnitsBack
<1> QED
  BY <1>5, <1>6, <1>7, <1>8, <1>9

\* A runtime is built aside.
LEMMA ServiceBuilds ==
  ASSUME Service!ServiceConstants, Service!ServiceInv, Service!Build
  PROVE  Service!ServiceInv'
<1> USE DEF Service!ServiceInv, Service!Same, Service!Files, Service!Runtime,
        Service!Rest, Service!Go, Service!Tell
<1>1. /\ UNCHANGED <<v1, v3, v4, v5, v6, v11, v14>>
      /\ Service!Fine \/ Service!Setback
      /\ v7 = "start" /\ Service!Found = v11 /\ Service!Found' = Service!Found
      /\ \/ /\ v7' = "write" /\ v13' = v13 + 1 /\ v2' = v13 + 1 /\ v13 < MaxInstalls
         \/ v7' = "idle" /\ UNCHANGED <<v13, v2>>
  BY DEF Service!Build, Service!Remembered, Service!Found
<1>2. /\ v13' \in 0 .. MaxInstalls /\ v2' \in Service!Generations \cup {Missing}
      /\ v7' = "write" => v13' # 0 /\ v2' = v13'
  BY <1>1 DEF Service!ServiceConstants, Service!ValuesOK, Service!Generations
<1>3. Service!ValuesOK'
  BY <1>1, <1>2, ServiceCounts DEF Service!ValuesOK
<1>4. Service!AllWhole'
  BY <1>1 DEF Service!AllWhole, Service!IsWhole, Service!Before
<1>5. Service!Remembered' /\ Service!Stopped' /\ Service!FailureRestores'
  BY <1>1 DEF Service!Remembered, Service!Stopped, Service!FailureRestores,
     Service!Replacing, Service!Preparing, Service!Installed, Service!UnitsBack,
     Service!Recovering
<1>6. Service!Publishing' /\ Service!Removing' /\ Service!Restoring'
  BY <1>1, <1>2 DEF Service!Publishing, Service!Removing, Service!Restoring,
     Service!Replacing, Service!Preparing, Service!UnitsBack
<1> QED
  BY <1>3, <1>4, <1>5, <1>6

\* The journal is written.
LEMMA ServiceWrites ==
  ASSUME Service!ServiceConstants, Service!ServiceInv, v7 = "write",
         Service!Go("stage"), Service!Fine,
         Service!Entry([old |-> v3, new |-> v13, bound |-> [i \in Service!Units |-> 0],
                restored |-> [i \in Service!Units |-> 0], runtime |-> v1,
                timer |-> v6])
  PROVE  Service!ServiceInv'
<1> USE DEF Service!ServiceInv, Service!Files, Service!Entry, Service!Rest, Service!Go
<1>1. /\ UNCHANGED <<v1, v2, v3, v4, v6, v11, v13, v14>>
      /\ v7' = "stage" /\ Service!Found = v11 /\ Service!Found' = Service!Found
         /\ v2 = v13 /\ v13 # 0
      /\ v5'.old = v3 /\ v5'.new = v13 /\ v5'.runtime = v1
      /\ v5'.timer = v6
  BY DEF Service!Remembered, Service!Found, Service!Publishing, Service!Preparing
<1>2. v13 \in Service!Generations
  BY <1>1 DEF Service!ServiceConstants, Service!ValuesOK, Service!Generations
<1>3. v5' \in Service!Journal
  <2>1. [i \in Service!Units |-> 0] \in [Service!Units -> Nat]
    OBVIOUS
  <2> QED
    BY <1>2, <2>1 DEF Service!ValuesOK, Service!Journal
<1>4. v5' # Missing
  BY <1>3 DEF Service!ServiceConstants
<1>5. Service!Before(v5') = Service!Found
  BY <1>1 DEF Service!Before, Service!Found
<1>6. Service!ValuesOK'
  BY <1>1, <1>3, ServiceValues DEF Service!ValuesOK
<1>7. Service!AllWhole'
  BY <1>1, <1>5 DEF Service!AllWhole, Service!IsWhole, Service!Before, Service!Found
<1>8. Service!Remembered' /\ Service!Stopped' /\ Service!FailureRestores'
  BY <1>1, <1>4, <1>5 DEF Service!Remembered, Service!Stopped,
     Service!FailureRestores, Service!Before, Service!Found, Service!Replacing,
     Service!Preparing, Service!Installed, Service!UnitsBack, Service!Recovering
<1>9. Service!Publishing' /\ Service!Removing' /\ Service!Restoring'
  BY <1>1 DEF Service!Publishing, Service!Removing, Service!Restoring,
     Service!Replacing, Service!Preparing, Service!UnitsBack
<1> QED
  BY <1>6, <1>7, <1>8, <1>9

\* An error in the preparation leaves other files with the same texts.
LEMMA ServiceGivesUp ==
  ASSUME Service!ServiceConstants, Service!ServiceInv, Service!GiveUp, UNCHANGED <<v4,
         v5>>,
         v7 \in Service!Preparing
  PROVE  Service!ServiceInv'
<1> USE DEF Service!ServiceInv, Service!Rest
<1>1. /\ UNCHANGED <<v1, v4, v5, v6, v11, v13>>
      /\ v7' = "idle" /\ v2' = Missing /\ v14' = v14 + 2 /\ Service!Setback
         /\ Service!Found = v11
  BY DEF Service!GiveUp, Service!Remembered
<1>2. \A i \in Service!Units : \/ v3[i] = Missing /\ v3'[i] = Missing
                       \/ /\ v3[i] \in Service!UnitFiles
                          /\ v3'[i] \in Service!UnitFiles /\ v3'[i].text = v3[i].text
  <2>1. ASSUME NEW i \in Service!Units, v3[i] # Missing
        PROVE  /\ v3[i] \in Service!UnitFiles
               /\ v3'[i] \in Service!UnitFiles /\ v3'[i].text = v3[i].text
    <3>1. v3[i] \in Service!UnitFiles /\ v14 + i \in Nat
      <4>1. v3[i] \in Service!UnitFiles /\ v14 \in Nat
        BY <2>1 DEF Service!ValuesOK, Service!PerUnit
      <4>2. i \in Nat
        BY DEF Service!Units
      <4> QED
        BY <4>1, <4>2
    <3>2. v3'[i] = [v3[i] EXCEPT !.ino = v14 + i]
      BY <2>1 DEF Service!GiveUp
    <3> QED
      BY <3>1, <3>2 DEF Service!UnitFiles
  <2>2. ASSUME NEW i \in Service!Units, v3[i] = Missing
        PROVE  v3'[i] = Missing
    BY <2>2 DEF Service!GiveUp
  <2> QED
    BY <2>1, <2>2
<1>3. v3' \in Service!PerUnit
  <2>1. v3' = [i \in Service!Units |-> v3'[i]]
    BY DEF Service!GiveUp
  <2> QED
    BY <1>2, <2>1 DEF Service!PerUnit
<1>4. Service!Found' = Service!Found
  <2>1. \A i \in Service!Units : Service!UnitTexts(v3)[i] = Service!UnitTexts(v3')[i]
    <3>1. Missing \notin Service!UnitFiles
      BY DEF Service!ServiceConstants
    <3>2. \A w : \A i \in Service!Units :
            Service!UnitTexts(w)[i] = IF w[i] = Missing THEN 0 ELSE w[i].text
      BY DEF Service!UnitTexts
    <3> QED
      BY <1>2, <3>1, <3>2
  <2>2. Service!UnitTexts(v3) = Service!UnitTexts(v3')
    BY <1>3, <2>1, ServiceTexts DEF Service!ValuesOK
  <2> QED
    BY <1>1, <2>2 DEF Service!Found
<1>5. Service!ValuesOK'
  <2>1. v14' \in Nat
    BY <1>1 DEF Service!ValuesOK
  <2> QED
    BY <1>1, <1>3, <2>1, ServiceValues DEF Service!ValuesOK
<1>6. Service!AllWhole'
  BY <1>1, <1>4 DEF Service!AllWhole, Service!IsWhole, Service!Before
<1>7. Service!Remembered' /\ Service!Stopped' /\ Service!FailureRestores'
  BY <1>1, <1>4 DEF Service!Remembered, Service!Stopped, Service!FailureRestores,
     Service!Replacing, Service!Preparing, Service!Installed, Service!UnitsBack,
     Service!Recovering
<1>8. Service!Publishing' /\ Service!Removing' /\ Service!Restoring'
  BY <1>1 DEF Service!Publishing, Service!Removing, Service!Restoring,
     Service!Replacing, Service!Preparing, Service!UnitsBack
<1> QED
  BY <1>5, <1>6, <1>7, <1>8

\* The new units are staged, and the journal knows them as its own.
LEMMA ServiceStages ==
  ASSUME Service!ServiceConstants, Service!ServiceInv, NEW i \in Service!Units,
         Service!Stage(i)
  PROVE  Service!ServiceInv'
<1> USE DEF Service!ServiceInv, Service!Files, Service!Unit, Service!Rest
<1>1. CASE Service!GiveUp /\ UNCHANGED <<v4, v5>>
  BY <1>1, ServiceGivesUp DEF Service!Stage, Service!Preparing
<1>2. CASE /\ Service!Unit(v3, [v4 EXCEPT ![i] = [text |-> v13, ino |-> v14 + 1]])
           /\ v14' = v14 + 1 /\ v7' = (IF i = 1 THEN "own" ELSE "own 2")
              /\ Service!Rest /\ Service!Fine
  <2>1. /\ UNCHANGED <<v1, v2, v3, v5, v6, v11, v13>>
        /\ v7 = (IF i = 1 THEN "stage" ELSE "stage 2")
           /\ Service!Found' = Service!Found /\ v14' = v14 + 1
    BY <1>2 DEF Service!Stage, Service!Found
  <2>2. Service!Found = v11 /\ v5 # Missing /\ Service!Before(v5) = v11 /\ v2 = v13
        /\ v13 # 0
    BY <2>1 DEF Service!Remembered, Service!Installed, Service!Publishing,
       Service!Preparing
  <2>3. v13 \in Service!Generations /\ v14 + 1 \in Nat
    BY <2>2 DEF Service!ServiceConstants, Service!ValuesOK, Service!Generations
  <2>4. /\ v4' \in Service!PerUnit /\ v4'[i] # Missing /\ v4'[i].text = v13
        /\ \A j \in Service!Units : j # i => v4'[j] = v4[j]
    <3>1. /\ [text |-> v13, ino |-> v14 + 1] \in Service!UnitFiles
          /\ [text |-> v13, ino |-> v14 + 1] # Missing
      BY <2>3, ServiceFiles
    <3> QED
      BY <1>2, <3>1 DEF Service!ValuesOK, Service!PerUnit
  <2>5. Service!ValuesOK'
    BY <1>2, <2>1, <2>3, <2>4, ServiceValues DEF Service!ValuesOK
  <2>6. Service!AllWhole'
    BY <2>1 DEF Service!AllWhole, Service!IsWhole, Service!Before
  <2>7. Service!Remembered' /\ Service!Stopped' /\ Service!FailureRestores'
    BY <1>2, <2>1, <2>2 DEF Service!Remembered, Service!Stopped,
       Service!FailureRestores, Service!Before, Service!Replacing, Service!Preparing,
       Service!Installed, Service!UnitsBack, Service!Recovering
  <2>8. Service!Removing' /\ Service!Restoring'
    BY <1>2 DEF Service!Removing, Service!Restoring, Service!UnitsBack
  <2>9. Service!Publishing'
    <3>1. CASE i = 1
      BY <1>2, <2>1, <2>2, <2>4, <3>1 DEF Service!Publishing, Service!Replacing,
         Service!Preparing
    <3>2. CASE i = 2
      <4>1. v4'[1] = v4[1]
        BY <2>4, <3>2 DEF Service!Units
      <4> QED
        BY <1>2, <2>1, <2>2, <2>4, <3>2, <4>1 DEF Service!Publishing,
           Service!Replacing, Service!Preparing
    <3> QED
      BY <3>1, <3>2 DEF Service!Units
  <2> QED
    BY <2>5, <2>6, <2>7, <2>8, <2>9
<1> QED
  BY <1>1, <1>2 DEF Service!Stage

LEMMA ServiceOwns ==
  ASSUME Service!ServiceConstants, Service!ServiceInv, NEW i \in Service!Units,
         Service!Own(i)
  PROVE  Service!ServiceInv'
<1> USE DEF Service!ServiceInv, Service!Files, Service!Entry, Service!Rest, Service!Go
<1>1. CASE Service!GiveUp /\ UNCHANGED <<v4, v5>>
  BY <1>1, ServiceGivesUp DEF Service!Own, Service!Preparing
<1>2. CASE /\ Service!Entry([v5 EXCEPT !.bound[i] = v4[i].ino])
           /\ Service!Go(IF i = 1 THEN "stage 2" ELSE "quiesce") /\ Service!Fine
  <2>1. /\ UNCHANGED <<v1, v2, v3, v4, v6, v11, v13, v14>>
        /\ v7 = (IF i = 1 THEN "own" ELSE "own 2") /\ Service!Found' = Service!Found
        /\ v7' = (IF i = 1 THEN "stage 2" ELSE "quiesce")
    BY <1>2 DEF Service!Own, Service!Found
  <2>2. /\ Service!Found = v11 /\ v5 # Missing /\ Service!Before(v5) = v11
           /\ v5.new = v13
        /\ v4[i] # Missing
    <3>1. Service!Found = v11 /\ v5 # Missing /\ Service!Before(v5) = v11
          /\ v5.new = v13
      BY <2>1 DEF Service!Remembered, Service!Installed, Service!Preparing
    <3>2. CASE i = 1
      BY <2>1, <3>1, <3>2 DEF Service!Publishing
    <3>3. CASE i = 2
      BY <2>1, <3>1, <3>3 DEF Service!Publishing
    <3> QED
      BY <3>2, <3>3 DEF Service!Units
  <2>3. v4[i].ino \in Nat
    BY <2>2 DEF Service!ValuesOK, Service!PerUnit, Service!UnitFiles
  <2>4. /\ v5' \in Service!Journal /\ v5' # Missing /\ v5'.old = v5.old
        /\ v5'.new = v5.new /\ v5'.runtime = v5.runtime
        /\ v5'.timer = v5.timer /\ Service!Before(v5') = Service!Before(v5)
    BY <1>2, <2>2, <2>3, ServiceNotes
  <2>5. Service!ValuesOK'
    BY <1>2, <2>1, <2>4, ServiceValues DEF Service!ValuesOK
  <2>6. Service!AllWhole'
    <3>1. Service!IsWhole(Service!Found)' /\ Service!IsWhole(v11)'
      BY <2>1 DEF Service!AllWhole, Service!IsWhole
    <3>2. Service!IsWhole(Service!Before(v5))'
      BY <2>2, <2>4 DEF Service!AllWhole, Service!IsWhole, Service!Before
    <3> QED
      BY <3>1, <3>2 DEF Service!AllWhole
  <2>7. Service!Remembered' /\ Service!Stopped' /\ Service!FailureRestores'
    BY <2>1, <2>2, <2>4 DEF Service!Remembered, Service!Stopped,
       Service!FailureRestores, Service!Before, Service!Replacing, Service!Preparing,
       Service!Installed, Service!UnitsBack, Service!Recovering
  <2>8. Service!Removing' /\ Service!Restoring'
    BY <2>1 DEF Service!Removing, Service!Restoring, Service!UnitsBack
  <2>9. Service!Publishing'
    BY <2>1 DEF Service!Publishing, Service!Replacing, Service!Preparing
  <2> QED
    BY <2>5, <2>6, <2>7, <2>8, <2>9
<1> QED
  BY <1>1, <1>2 DEF Service!Own

\* The timer is stopped, and the runtimes are exchanged.
LEMMA ServiceCuts ==
  ASSUME Service!ServiceConstants, Service!ServiceInv,
         Service!Quiesce \/ Service!Cutover
  PROVE  Service!ServiceInv'
<1> USE DEF Service!ServiceInv, Service!Same, Service!Files, Service!Timer,
        Service!Runtime, Service!AsideGone, Service!Rest, Service!Go, Service!Rescue
<1>1. /\ UNCHANGED <<v3, v4, v5, v11, v13, v14, v12>>
      /\ Service!Fine \/ Service!Setback
      /\ \/ v7 = "quiesce" /\ UNCHANGED <<v1, v2>> /\ v7' = "cut" /\ v6' = Service!Off
         \/ /\ v7 = "quiesce" /\ v7' = "look" /\ v1' = v1 /\ v2' = Missing
            /\ v6' \in {v6, Service!Off}
         \/ v7 = "cut" /\ v7' = "unit" /\ v1' = v2 /\ v2' = v1 /\ v6' = v6
         \/ v7 = "cut" /\ v7' = "look" /\ v1' \in {v2, v1} /\ v2' = Missing
              /\ v6' = v6
  BY DEF Service!Quiesce, Service!Cutover
<1>2. /\ v5 # Missing /\ Service!Before(v5) = v11 /\ v5.new = v13 /\ v2 = v13
      /\ v7 = "cut" => v6 = Service!Off
      /\ v4[1] # Missing /\ v4[1].text = v13
      /\ v4[2] # Missing /\ v4[2].text = v13
  BY <1>1 DEF Service!Remembered, Service!Installed, Service!Publishing,
     Service!Stopped
<1>3. v6' = Service!Off \/ (v1' = v1 /\ v6' = v6)
  BY <1>1, <1>2
<1>4. Service!IsWhole(Service!Found)'
  <2>1. CASE v6' = Service!Off
    BY <2>1, ServiceOff
  <2>2. CASE v1' = v1 /\ v6' = v6
    BY <1>1, <2>2 DEF Service!AllWhole, Service!IsWhole, Service!Found
  <2> QED
    BY <1>3, <2>1, <2>2
<1>5. Service!ValuesOK'
  <2>1. v6' \in Service!Switches
    BY <1>3, ServiceOff DEF Service!ValuesOK
  <2>2. v1' \in Service!Generations \cup {Missing}
        /\ v2' \in Service!Generations \cup {Missing}
    BY <1>1 DEF Service!ValuesOK
  <2> QED
    BY <1>1, <2>1, <2>2, ServiceValues DEF Service!ValuesOK
<1>6. Service!AllWhole'
  BY <1>1, <1>4, ServiceKeepsWhole
<1>7. Service!Remembered' /\ Service!Stopped'
  BY <1>1, <1>2 DEF Service!Remembered, Service!Stopped, Service!Before,
     Service!Replacing, Service!Preparing, Service!Installed, Service!UnitsBack,
     Service!Recovering
<1>8. Service!Publishing' /\ Service!Removing' /\ Service!Restoring'
      /\ Service!FailureRestores'
  BY <1>1, <1>2 DEF Service!Publishing, Service!Removing, Service!Restoring,
     Service!FailureRestores, Service!Replacing, Service!Preparing, Service!UnitsBack
<1> QED
  BY <1>5, <1>6, <1>7, <1>8

\* The new units take the places of the old.
LEMMA ServicePublishes ==
  ASSUME Service!ServiceConstants, Service!ServiceInv, NEW i \in Service!Units,
         Service!PublishUnit(i)
  PROVE  Service!ServiceInv'
<1> USE DEF Service!ServiceInv, Service!Same, Service!Files, Service!Unit,
        Service!Rest, Service!Go, Service!Rescue
<1>1. /\ UNCHANGED <<v1, v2, v5, v6, v11, v13, v14, v12>>
      /\ Service!Fine \/ Service!Setback
      /\ v7 = (IF i = 1 THEN "unit" ELSE "unit 2")
      /\ \/ /\ v3' = [v3 EXCEPT ![i] = v4[i]] /\ v4' = [v4 EXCEPT ![i] = Missing]
            /\ v7' = (IF i = 1 THEN "unit 2" ELSE "reload") \/ v7' = "look"
         \/ v3' = v3 /\ v4' = v4 /\ v7' = "look"
  BY DEF Service!PublishUnit
<1>2. /\ v5 # Missing /\ Service!Before(v5) = v11 /\ v5.new = v13 /\ v6 = Service!Off
      /\ v1 = v13
  BY <1>1 DEF Service!Remembered, Service!Installed, Service!Publishing,
     Service!Stopped, Service!Replacing
<1>3. /\ v4[i] # Missing /\ v4[i].text = v13
      /\ i = 1 => v4[2] # Missing /\ v4[2].text = v13
      /\ i = 2 => v3[1] # Missing /\ v3[1].text = v13
  <2>1. CASE i = 1
    <3>1. v7 = "unit"
      BY <1>1, <2>1
    <3>2. /\ v4[1] # Missing /\ v4[1].text = v13
          /\ v4[2] # Missing /\ v4[2].text = v13
      BY <3>1 DEF Service!Publishing
    <3> QED
      BY <2>1, <3>2
  <2>2. CASE i = 2
    <3>1. v7 = "unit 2"
      <4>1. i # 1
        BY <2>2
      <4> QED
        BY <1>1, <4>1
    <3>2. /\ v4[2] # Missing /\ v4[2].text = v13
          /\ v3[1] # Missing /\ v3[1].text = v13
      BY <3>1 DEF Service!Publishing, Service!Replacing
    <3> QED
      BY <2>2, <3>2
  <2> QED
    BY <2>1, <2>2 DEF Service!Units
<1>4. v3' \in Service!PerUnit /\ v4' \in Service!PerUnit
  BY <1>1 DEF Service!ValuesOK, Service!PerUnit
<1>5. Service!ValuesOK'
  BY <1>1, <1>4, ServiceValues DEF Service!ValuesOK
<1>6. Service!AllWhole'
  BY <1>1, <1>2, ServiceOff, ServiceKeepsWhole
<1>7. Service!Remembered' /\ Service!Stopped'
  BY <1>1, <1>2 DEF Service!Remembered, Service!Stopped, Service!Before,
     Service!Replacing, Service!Preparing, Service!Installed, Service!UnitsBack,
     Service!Recovering
<1>8. Service!Removing' /\ Service!Restoring' /\ Service!FailureRestores'
  BY <1>1 DEF Service!Removing, Service!Restoring, Service!FailureRestores,
     Service!UnitsBack
<1>9. Service!Publishing'
  <2>1. v7' # "look" =>
          /\ v3'[i] # Missing /\ v3'[i].text = v13
          /\ \A j \in Service!Units : j # i => v3'[j] = v3[j] /\ v4'[j] = v4[j]
    BY <1>1, <1>3 DEF Service!ValuesOK, Service!PerUnit
  <2>2. CASE i = 1
    <3>1. v7' # "look" => v4'[2] = v4[2]
      BY <2>1, <2>2 DEF Service!Units
    <3> QED
      BY <1>1, <1>2, <1>3, <2>1, <2>2, <3>1 DEF Service!Publishing, Service!Replacing,
         Service!Preparing
  <2>3. CASE i = 2
    <3>1. v7' = "reload" \/ v7' = "look"
      <4>1. i # 1
        BY <2>3
      <4> QED
        BY <1>1, <4>1
    <3>2. v7' # "look" =>
            /\ v3'[1] # Missing /\ v3'[1].text = v13
            /\ v3'[2] # Missing /\ v3'[2].text = v13
      BY <1>3, <2>1, <2>3 DEF Service!Units
    <3> QED
      BY <1>1, <1>2, <3>1, <3>2 DEF Service!Publishing, Service!Replacing,
         Service!Preparing
  <2> QED
    BY <2>2, <2>3 DEF Service!Units
<1> QED
  BY <1>5, <1>6, <1>7, <1>8, <1>9

\* The timer starts with what is published.
LEMMA ServiceActivates ==
  ASSUME Service!ServiceConstants, Service!ServiceInv,
         Service!Reload \/ Service!Activate
  PROVE  Service!ServiceInv'
<1> USE DEF Service!ServiceInv, Service!Same, Service!Files, Service!Timer,
        Service!Rest, Service!Go, Service!Rescue
<1>1. /\ UNCHANGED <<v1, v2, v3, v4, v5, v11, v13, v14, v12>>
      /\ Service!Fine \/ Service!Setback
      /\ \/ v7 = "reload" /\ v7' \in {"activate", "look"} /\ v6' = v6
         \/ v7 = "activate" /\ v7' \in {"commit", "look"}
  BY DEF Service!Reload, Service!Activate, Service!Partly
<1>2. /\ v5 \in Service!Journal /\ v5 # Missing /\ Service!Before(v5) = v11
         /\ v5.new = v13
      /\ v6 = Service!Off /\ v1 = v13
      /\ v3[1] # Missing /\ v3[1].text = v13 /\ v3[2] # Missing /\ v3[2].text = v13
  BY <1>1 DEF Service!Remembered, Service!Installed, Service!Publishing,
     Service!Stopped, Service!Replacing, Service!ValuesOK
<1>3. v6' \in Service!Switches /\ Service!IsWhole(Service!Found)'
  <2>1. CASE v7 = "reload"
    BY <1>1, <1>2, <2>1, ServiceOff DEF Service!Reload, Service!Activate
  <2>2. CASE v7 = "activate"
    <3> DEFINE s == IF v8 = "enable" THEN Service!On ELSE v5.timer
               t == Service!Activated(s)
    <3>1. s \in Service!Switches /\ Service!On \in Service!Switches
      BY <1>2 DEF Service!Journal, Service!On, Service!Switches
    <3>2. t \in Service!Switches
      BY <3>1, ServiceActivated
    <3>3. /\ v6' \in Service!Switches
          /\ v6'.enabled => t.enabled \/ v6.enabled
          /\ v6'.active => t.active \/ v6.active
      <4>1. CASE v6' = t
        BY <3>2, <4>1
      <4>2. CASE Service!Partly(t)
        BY <1>2, <3>2, <4>2, ServiceOff, ServicePartly
      <4> QED
        BY <2>2, <4>1, <4>2 DEF Service!Reload, Service!Activate
    <3>4. /\ \A i \in Service!Units : v3[i] # Missing
          /\ \A i \in Service!Units : Service!UnitTexts(v3)[i] = v1
      BY <1>2 DEF Service!UnitTexts, Service!Units
    <3> HIDE DEF t
    <3> QED
      BY <1>1, <3>2, <3>3, <3>4, ServiceSwitched DEF Service!AllWhole
  <2> QED
    BY <1>1, <2>1, <2>2
<1>4. Service!ValuesOK'
  BY <1>1, <1>3, ServiceValues DEF Service!ValuesOK
<1>5. Service!AllWhole'
  BY <1>1, <1>3, ServiceKeepsWhole
<1>6. Service!Remembered' /\ Service!Stopped'
  <2>1. v7' = "activate" => v6' = Service!Off
    BY <1>1, <1>2
  <2> QED
    BY <1>1, <1>2, <2>1 DEF Service!Remembered, Service!Stopped, Service!Before,
       Service!Replacing, Service!Preparing, Service!Installed, Service!UnitsBack,
       Service!Recovering
<1>7. Service!Publishing' /\ Service!Removing' /\ Service!Restoring'
      /\ Service!FailureRestores'
  BY <1>1, <1>2 DEF Service!Publishing, Service!Removing, Service!Restoring,
     Service!FailureRestores, Service!Replacing, Service!Preparing, Service!UnitsBack
<1> QED
  BY <1>4, <1>5, <1>6, <1>7

\* What is aside is removed, and the journal.
LEMMA ServiceFinishes ==
  ASSUME Service!ServiceConstants, Service!ServiceInv,
         Service!CommitRuntime \/ Service!Finish
  PROVE  Service!ServiceInv'
<1> USE DEF Service!ServiceInv, Service!Same, Service!Files, Service!Entry,
        Service!Runtime, Service!AsideGone, Service!Rest, Service!Go, Service!Rescue,
        Service!Tell
<1>1. /\ UNCHANGED <<v1, v3, v4, v6, v11, v13, v14>>
      /\ Service!Fine \/ Service!Setback
      /\ v2' \in {v2, Missing}
      /\ \/ v7 = "commit" /\ v7' = "finish" /\ v5' = v5
         \/ /\ v7 = "finish" /\ v5' \in {v5, Missing}
            /\ v7' = "look" \/ (v7' = "idle" /\ v12' # "failed")
  BY DEF Service!CommitRuntime, Service!Finish
<1>2. /\ v5 # Missing /\ Service!Before(v5) = v11 /\ v5.new = v13 /\ v1 = v13
      /\ v3[1] # Missing /\ v3[1].text = v13 /\ v3[2] # Missing /\ v3[2].text = v13
  BY <1>1 DEF Service!Remembered, Service!Installed, Service!Publishing,
     Service!Replacing
<1>3. Service!ValuesOK'
  BY <1>1, ServiceValues DEF Service!ValuesOK
<1>4. Service!AllWhole'
  BY <1>1 DEF Service!AllWhole, Service!IsWhole, Service!Found, Service!Before
<1>5. Service!Remembered' /\ Service!Stopped'
  BY <1>1, <1>2 DEF Service!Remembered, Service!Stopped, Service!Before,
     Service!Replacing, Service!Preparing, Service!Installed, Service!UnitsBack,
     Service!Recovering
<1>6. Service!Publishing' /\ Service!Removing' /\ Service!Restoring'
      /\ Service!FailureRestores'
  BY <1>1, <1>2 DEF Service!Publishing, Service!Removing, Service!Restoring,
     Service!FailureRestores, Service!Replacing, Service!Preparing, Service!UnitsBack
<1> QED
  BY <1>3, <1>4, <1>5, <1>6

\* A command that asks for nothing, or stops the timer.
LEMMA ServiceDisables ==
  ASSUME Service!ServiceConstants, Service!ServiceInv,
         Service!Status \/ Service!Disable
  PROVE  Service!ServiceInv'
<1> USE DEF Service!ServiceInv, Service!Same, Service!Files, Service!Timer,
        Service!Rest, Service!Go, Service!Tell
<1>1. /\ UNCHANGED <<v1, v2, v3, v4, v5, v11, v13, v14>>
      /\ Service!Fine \/ Service!Setback
      /\ v7 = "start" /\ Service!Found = v11
  BY DEF Service!Status, Service!Disable, Service!Partly, Service!Remembered
<1>2. \/ v7' = "idle" /\ v6' = v6
      \/ Service!Complete /\ v6' = Service!Off /\ v7' = "idle" /\ v12' # "failed"
      \/ Service!Complete /\ v6' = Service!Off /\ v7' = "unlink"
      \/ Service!Complete /\ Service!Partly(Service!Off) /\ v7' = "idle"
         /\ v12' # "failed"
      \/ Service!Complete /\ Service!Partly(Service!Off) /\ v7' = "put back"
  <2>1. CASE Service!Status
    BY <2>1 DEF Service!Status
  <2>2. CASE Service!Disable
    BY <2>2 DEF Service!Disable
  <2> QED
    BY <2>1, <2>2
<1>3. v6' \in Service!Switches /\ Service!IsWhole(Service!Found)'
  <2>1. CASE v6' = v6
    BY <1>1, <2>1 DEF Service!ValuesOK, Service!AllWhole, Service!IsWhole,
       Service!Found
  <2>2. CASE v6' = Service!Off
    BY <2>2, ServiceOff
  <2>3. CASE Service!Partly(Service!Off)
    <3>1. /\ v6' \in Service!Switches
          /\ v6'.enabled => Service!Off.enabled \/ v6.enabled
          /\ v6'.active => Service!Off.active \/ v6.active
      BY <2>3, ServiceOff, ServicePartly DEF Service!ValuesOK
    <3> QED
      BY <1>1, <3>1, ServiceOff, ServiceSwitched DEF Service!AllWhole
  <2> QED
    BY <1>2, <2>1, <2>2, <2>3
<1>4. Service!ValuesOK'
  BY <1>1, <1>3, ServiceValues DEF Service!ValuesOK
<1>5. Service!AllWhole'
  BY <1>1, <1>3, ServiceKeepsWhole
<1>6. Service!Remembered' /\ Service!Stopped'
  BY <1>1, <1>2 DEF Service!Remembered, Service!Stopped, Service!Before,
     Service!Replacing, Service!Preparing, Service!Installed, Service!UnitsBack,
     Service!Recovering
<1>7. Service!Publishing' /\ Service!Restoring'
  BY <1>2 DEF Service!Publishing, Service!Restoring, Service!Replacing,
     Service!Preparing, Service!UnitsBack
<1>8. Service!FailureRestores'
  BY <1>1, <1>2 DEF Service!FailureRestores, Service!Found
<1>9. Service!Removing'
  <2>1. Service!Complete => \A i \in Service!Units : v11.text[i] # 0
        /\ v3[i].text = v11.text[i]
    <3>1. v11.text = Service!UnitTexts(v3)
      BY <1>1 DEF Service!Found
    <3> QED
      BY <3>1, ServiceTexts DEF Service!ValuesOK, Service!Complete
  <2>2. v1 = v11.runtime
    BY <1>1 DEF Service!Found
  <2> QED
    BY <1>1, <1>2, <2>1, <2>2 DEF Service!Removing, Service!Complete
<1> QED
  BY <1>4, <1>5, <1>6, <1>7, <1>8, <1>9

\* The units are removed, or put back as they were.
LEMMA ServiceUnlinks ==
  ASSUME Service!ServiceConstants, Service!ServiceInv, NEW i \in Service!Units,
         Service!Unlink(i)
  PROVE  Service!ServiceInv'
<1> USE DEF Service!ServiceInv, Service!Same, Service!Files, Service!Unit,
        Service!Rest, Service!Go, Service!Tell
<1>1. /\ UNCHANGED <<v1, v2, v4, v5, v6, v11, v13, v14>>
      /\ Service!Fine \/ Service!Setback
      /\ v7 = "unlink" \/ v7 = "unlink 2"
      /\ v3' \in {v3, [v3 EXCEPT ![i] = Missing]}
      /\ \/ v7' = "unlink 2" \/ v7' = "put back"
         \/ v7' = "idle" /\ v12' # "failed"
  BY DEF Service!Unlink
<1>2. /\ v6 = Service!Off /\ v1 = v11.runtime
      /\ \A j \in Service!Units : v11.text[j] # 0 /\ (v3[j] = Missing
         \/ v3[j].text = v11.text[j])
  BY <1>1 DEF Service!Stopped, Service!Removing
<1>3. v3' \in Service!PerUnit /\ \A j \in Service!Units : v3'[j] = Missing
      \/ v3'[j].text = v11.text[j]
  BY <1>1, <1>2 DEF Service!ValuesOK, Service!PerUnit
<1>4. Service!ValuesOK'
  BY <1>1, <1>3, ServiceValues DEF Service!ValuesOK
<1>5. Service!AllWhole'
  BY <1>1, <1>2, ServiceOff, ServiceKeepsWhole
<1>6. Service!Remembered' /\ Service!Stopped' /\ Service!FailureRestores'
  BY <1>1, <1>2 DEF Service!Remembered, Service!Stopped, Service!FailureRestores,
     Service!Before, Service!Replacing, Service!Preparing, Service!Installed,
     Service!UnitsBack, Service!Recovering
<1>7. Service!Publishing' /\ Service!Restoring' /\ Service!Removing'
  BY <1>1, <1>2, <1>3 DEF Service!Publishing, Service!Restoring, Service!Removing,
     Service!Replacing, Service!Preparing, Service!UnitsBack
<1> QED
  BY <1>4, <1>5, <1>6, <1>7

LEMMA ServicePutsBack ==
  ASSUME Service!ServiceConstants, Service!ServiceInv, Service!PutBack
  PROVE  Service!ServiceInv'
<1> USE DEF Service!ServiceInv, Service!Files, Service!Unit, Service!Rest
<1>1. PICK ok \in SUBSET Service!Units :
        /\ Service!Unit([i \in Service!Units |-> IF i
           \in ok THEN [text |-> v11.text[i], ino |-> v14 + i]
                                 ELSE v3[i]], v4)
        /\ v10' = (ok # Service!Units)
        /\ IF ok = Service!Units THEN Service!Fine ELSE Service!Setback
  BY DEF Service!PutBack
<1>2. /\ UNCHANGED <<v1, v2, v4, v5, v6, v11, v13>>
      /\ Service!Fine \/ Service!Setback
      /\ v7 = "put back" /\ v7' = "put on"
  BY <1>1 DEF Service!PutBack
<1>3. /\ v1 = v11.runtime
      /\ \A j \in Service!Units : v11.text[j] # 0 /\ (v3[j] = Missing
         \/ v3[j].text = v11.text[j])
  BY <1>2 DEF Service!Removing
<1>4. \A i \in ok : v11.text[i] \in Service!Generations /\ v14 + i \in Nat
  <2>1. ASSUME NEW i \in ok
        PROVE  v11.text[i] \in Service!Generations
    BY <1>3 DEF Service!ServiceConstants, Service!ValuesOK, Service!Finds,
       Service!Generations
  <2>2. ASSUME NEW i \in ok
        PROVE  v14 + i \in Nat
    <3>1. i \in Nat /\ v14 \in Nat
      BY DEF Service!Units, Service!ValuesOK
    <3> QED
      BY <3>1
  <2> QED
    BY <2>1, <2>2
<1>5. \A i \in Service!Units : IF i \in ok THEN /\ v3'[i] \in Service!UnitFiles
      /\ v3'[i] # Missing
                                        /\ v3'[i].text = v11.text[i]
                       ELSE v3'[i] = v3[i]
  <2>1. ASSUME NEW i \in Service!Units, i \in ok
        PROVE  /\ v3'[i] \in Service!UnitFiles /\ v3'[i] # Missing
               /\ v3'[i].text = v11.text[i]
    <3>1. v3'[i] = [text |-> v11.text[i], ino |-> v14 + i]
      BY <1>1, <2>1
    <3> QED
      BY <1>4, <2>1, <3>1, ServiceFiles
  <2>2. ASSUME NEW i \in Service!Units, i \notin ok
        PROVE  v3'[i] = v3[i]
    BY <1>1, <2>2
  <2> QED
    BY <2>1, <2>2
<1>6. v3' \in Service!PerUnit
  <2>1. v3' = [i \in Service!Units |-> v3'[i]]
    BY <1>1
  <2> QED
    BY <1>5, <2>1 DEF Service!ValuesOK, Service!PerUnit
<1>7. Service!ValuesOK'
  <2>1. v14' \in Nat
    <3>1. v14 \in Nat
      BY DEF Service!ValuesOK
    <3>2. v14' = v14 + 2
      BY DEF Service!PutBack
    <3> QED
      BY <3>1, <3>2
  <2> QED
    BY <1>2, <1>6, <2>1, ServiceValues DEF Service!ValuesOK
<1>8. Service!AllWhole'
  <2>1. CASE v6 = Service!Off
    BY <1>2, <2>1, ServiceOff, ServiceKeepsWhole
  <2>2. CASE Service!Complete
    <3>1. \A i \in Service!Units : v3[i] # Missing /\ v3'[i] # Missing
          /\ v3'[i].text = v3[i].text
      BY <1>3, <1>5, <2>2 DEF Service!Complete
    <3>2. \A i \in Service!Units : Service!UnitTexts(v3)[i] = Service!UnitTexts(v3')[i]
      BY <3>1 DEF Service!UnitTexts
    <3>3. Service!UnitTexts(v3) = Service!UnitTexts(v3')
      BY <1>6, <3>2, ServiceTexts DEF Service!ValuesOK
    <3>4. Service!Found' = Service!Found
      BY <1>2, <3>3 DEF Service!Found
    <3> QED
      BY <1>2, <3>4 DEF Service!AllWhole, Service!IsWhole, Service!Before
  <2> QED
    BY <1>2, <2>1, <2>2 DEF Service!Removing
<1>9. Service!Remembered' /\ Service!Stopped' /\ Service!FailureRestores'
  BY <1>2 DEF Service!Remembered, Service!Stopped, Service!FailureRestores,
     Service!Replacing, Service!Preparing, Service!Installed, Service!UnitsBack,
     Service!Recovering
<1>10. Service!Publishing' /\ Service!Restoring'
  BY <1>2 DEF Service!Publishing, Service!Restoring, Service!Replacing,
     Service!Preparing, Service!UnitsBack
<1>11. Service!Removing'
  <2>1. v10' \/ \A i \in Service!Units : v3'[i] # Missing
    <3>1. CASE ok = Service!Units
      BY <1>5, <3>1
    <3>2. CASE ok # Service!Units
      BY <1>1, <3>2
    <3> QED
      BY <3>1, <3>2
  <2>2. \A i \in Service!Units : v11.text[i] # 0 /\ (v3'[i] = Missing
        \/ v3'[i].text = v11.text[i])
    BY <1>3, <1>5
  <2> QED
    BY <1>2, <1>3, <2>1, <2>2 DEF Service!Removing
<1> QED
  BY <1>7, <1>8, <1>9, <1>10, <1>11

LEMMA ServicePutsOn ==
  ASSUME Service!ServiceConstants, Service!ServiceInv, Service!PutOn
  PROVE  Service!ServiceInv'
<1> USE DEF Service!ServiceInv, Service!Files, Service!Timer, Service!Rest,
        Service!Tell
<1> DEFINE t == Service!Activated(v11.timer)
<1>1. /\ UNCHANGED <<v1, v2, v3, v4, v5, v11, v13, v14>>
      /\ Service!Fine \/ Service!Setback
      /\ v7 = "put on" /\ v7' = "idle"
      /\ \/ v6' = t /\ (v12' = "failed" => ~v10)
         \/ Service!Partly(t) /\ v12' # "failed"
  BY DEF Service!PutOn, Service!Partly
<1>2. /\ v1 = v11.runtime
      /\ v10 \/ \A i \in Service!Units : v3[i] # Missing
      /\ \A j \in Service!Units : v11.text[j] # 0 /\ (v3[j] = Missing
         \/ v3[j].text = v11.text[j])
  BY <1>1 DEF Service!Removing
<1>3. v11.timer \in Service!Switches /\ t \in Service!Switches
  <2>1. v11.timer \in Service!Switches
    BY DEF Service!ValuesOK, Service!Finds
  <2> QED
    BY <2>1, ServiceActivated
<1>4. \A i \in Service!Units : v3[i] # Missing
      => Service!UnitTexts(v3)[i] = v11.text[i]
  BY <1>2 DEF Service!UnitTexts
<1>5. /\ t.active => \A i \in Service!Units : v3[i] # Missing
      /\ t.enabled \/ t.active =>
           \/ \E i \in Service!Units : v3[i] = Missing
           \/ \A i \in Service!Units : Service!UnitTexts(v3)[i] = v1
  <2>1. t.enabled = v11.timer.enabled
    BY <1>3, ServiceActivated
  <2>2. t.active => v11.timer.active /\ \A i \in Service!Units : v3[i] # Missing
    BY <1>3, ServiceActivated
  <2>3. v11.timer.enabled
        \/ v11.timer.active => \A i \in Service!Units : v11.text[i] = v1
    BY <1>2 DEF Service!AllWhole, Service!IsWhole
  <2> HIDE DEF t
  <2> QED
    BY <1>4, <2>1, <2>2, <2>3
<1>6. /\ v6' \in Service!Switches
      /\ v6'.enabled => t.enabled \/ v6.enabled
      /\ v6'.active => t.active \/ v6.active
  <2>1. CASE v6' = t
    BY <1>3, <2>1
  <2>2. CASE Service!Partly(t)
    BY <1>3, <2>2, ServicePartly DEF Service!ValuesOK
  <2> QED
    BY <1>1, <2>1, <2>2
<1>7. Service!IsWhole(Service!Found)'
  <2> HIDE DEF t
  <2> QED
    BY <1>1, <1>3, <1>5, <1>6, ServiceSwitched DEF Service!AllWhole
<1>8. Service!ValuesOK'
  BY <1>1, <1>6, ServiceValues DEF Service!ValuesOK
<1>9. Service!AllWhole'
  BY <1>1, <1>7, ServiceKeepsWhole
<1>10. Service!FailureRestores'
  <2>1. SUFFICES ASSUME v12' = "failed"
                 PROVE  Service!Found' = v11'
    BY DEF Service!FailureRestores
  <2>2. v6' = t /\ \A i \in Service!Units : v3[i] # Missing
    BY <1>1, <1>2, <2>1
  <2>3. v6' = v11.timer
    BY <1>3, <2>2, ServiceActivated
  <2>4. Service!UnitTexts(v3) = v11.text
    <3>1. \A i \in Service!Units : Service!UnitTexts(v3)[i] = v11.text[i]
      BY <1>4, <2>2
    <3>2. Service!UnitTexts(v3) \in [Service!Units -> 0 .. MaxInstalls]
      BY ServiceTexts DEF Service!ValuesOK
    <3>3. v11.text \in [Service!Units -> 0 .. MaxInstalls]
      BY DEF Service!ValuesOK, Service!Finds
    <3> QED
      BY <3>1, <3>2, <3>3
  <2>5. v11 = [runtime |-> v11.runtime, timer |-> v11.timer, text |-> v11.text]
    BY DEF Service!ValuesOK, Service!Finds
  <2> QED
    BY <1>1, <1>2, <2>3, <2>4, <2>5 DEF Service!Found
<1>11. Service!Remembered' /\ Service!Stopped'
  BY <1>1 DEF Service!Remembered, Service!Stopped, Service!Replacing,
     Service!Preparing, Service!Installed, Service!UnitsBack, Service!Recovering
<1>12. Service!Publishing' /\ Service!Restoring' /\ Service!Removing'
  BY <1>1 DEF Service!Publishing, Service!Restoring, Service!Removing,
     Service!Replacing, Service!Preparing, Service!UnitsBack
<1> QED
  BY <1>8, <1>9, <1>10, <1>11, <1>12

\* A command dies, or the machine starts again.
LEMMA ServiceEnds ==
  ASSUME Service!ServiceConstants, Service!ServiceInv, Service!Die \/ Service!Restart
  PROVE  Service!ServiceInv'
<1> USE DEF Service!ServiceInv, Service!Same, Service!Files, Service!Timer,
        Service!Runtime, Service!AsideGone, Service!Rest, Service!Tell
<1> DEFINE s == [v6 EXCEPT !.active = v6.enabled]
           t == Service!Activated(s)
<1>1. /\ UNCHANGED <<v1, v3, v4, v5, v11, v13, v14>>
      /\ Service!Setback /\ v7' = "idle" /\ v12' = "none" /\ v2' \in {v2, Missing}
      /\ v6' = v6 \/ v6' = t
  BY DEF Service!Die, Service!Restart
<1>2. v6 \in Service!Switches
  BY DEF Service!ValuesOK
<1>3. s \in Service!Switches /\ s.enabled = v6.enabled /\ s.active = v6.enabled
  BY <1>2 DEF Service!Switches
<1>4. /\ t \in Service!Switches
      /\ t.enabled = v6.enabled
      /\ t.active => v6.enabled /\ \A i \in Service!Units : v3[i] # Missing
  BY <1>3, ServiceActivated
<1> HIDE DEF s, t
<1>5. v6.enabled =>
        \/ \E i \in Service!Units : v3[i] = Missing
        \/ \A i \in Service!Units : Service!UnitTexts(v3)[i] = v1
  <2>1. /\ Service!Found.timer = v6 /\ Service!Found.runtime = v1
           /\ Service!Found.text = Service!UnitTexts(v3)
    BY DEF Service!Found
  <2>2. \A i \in Service!Units : Service!UnitTexts(v3)[i] = 0 <=> v3[i] = Missing
    BY ServiceTexts DEF Service!ValuesOK
  <2> QED
    BY <2>1, <2>2 DEF Service!AllWhole, Service!IsWhole
<1>6. v6' \in Service!Switches /\ Service!IsWhole(Service!Found)'
  <2>1. CASE v6' = v6
    BY <1>1, <1>2, <2>1 DEF Service!AllWhole, Service!IsWhole, Service!Found
  <2>2. CASE v6' = t
    BY <1>1, <1>4, <1>5, <2>2, ServiceSwitched DEF Service!AllWhole
  <2> QED
    BY <1>1, <2>1, <2>2
<1>7. Service!ValuesOK'
  BY <1>1, <1>6, ServiceValues DEF Service!ValuesOK
<1>8. Service!AllWhole'
  BY <1>1, <1>6, ServiceKeepsWhole
<1>9. Service!Remembered' /\ Service!Stopped' /\ Service!FailureRestores'
  BY <1>1 DEF Service!Remembered, Service!Stopped, Service!FailureRestores,
     Service!Replacing, Service!Preparing, Service!Installed, Service!UnitsBack,
     Service!Recovering
<1>10. Service!Publishing' /\ Service!Restoring' /\ Service!Removing'
  BY <1>1 DEF Service!Publishing, Service!Restoring, Service!Removing,
     Service!Replacing, Service!Preparing, Service!UnitsBack
<1> QED
  BY <1>7, <1>8, <1>9, <1>10

LEMMA ServiceInvPreserved ==
  ASSUME Service!ServiceConstants, Service!ServiceInv,
         [Service!Next]_(Service!serviceVars)
  PROVE  Service!ServiceInv'
<1>1. CASE \E c \in {"install", "enable", "disable", "uninstall", "status"} :
             Service!Call(c)
  BY <1>1, ServiceCalls
<1>2. CASE Service!Look \/ Service!Quiet \/ Service!RuntimeBack
  BY <1>2, ServiceLooks, ServiceRuntimeBack
<1>3. CASE Service!ReloadBack \/ Service!ActivateBack \/ Service!ForgetBack
  BY <1>3, ServiceTimerBack, ServiceForgets
<1>4. CASE \E i \in Service!Units : \/ Service!UnitBack(i) \/ Service!Bind(i)
           \/ Service!Stage(i)
                              \/ Service!Own(i) \/ Service!PublishUnit(i)
                                 \/ Service!Unlink(i)
  BY <1>4, ServiceUnitBack, ServiceBinds, ServiceStages, ServiceOwns,
     ServicePublishes, ServiceUnlinks
<1>5. CASE Service!Build
  BY <1>5, ServiceBuilds
<1>6. CASE Service!WriteEntry
  <2>1. CASE Service!GiveUp /\ UNCHANGED <<v4, v5>>
    BY <1>6, <2>1, ServiceGivesUp DEF Service!WriteEntry, Service!Preparing
  <2> QED
    BY <1>6, <2>1, ServiceWrites DEF Service!WriteEntry
<1>7. CASE Service!Quiesce \/ Service!Cutover \/ Service!Reload \/ Service!Activate
           \/ Service!CommitRuntime \/ Service!Finish
  BY <1>7, ServiceCuts, ServiceActivates, ServiceFinishes
<1>8. CASE Service!Status \/ Service!Disable \/ Service!PutBack \/ Service!PutOn
  BY <1>8, ServiceDisables, ServicePutsBack, ServicePutsOn
<1>9. CASE Service!Die \/ Service!Restart
  BY <1>9, ServiceEnds
<1>10. CASE UNCHANGED Service!serviceVars
  <2>1. UNCHANGED <<v1, v2, v3, v4, v5, v6, v7, v9, v10, v11, v12,
                    v13, v14, v15>>
    BY <1>10 DEF Service!serviceVars
  <2>2. Service!ValuesOK' /\ Service!AllWhole'
    BY <2>1 DEF Service!ServiceInv, Service!ValuesOK, Service!AllWhole,
       Service!IsWhole, Service!Found, Service!Before
  <2>4. Service!Remembered'
    BY <2>1, Zenon DEF Service!ServiceInv, Service!Remembered, Service!Found,
       Service!Before
  <2>3. Service!Stopped' /\ Service!Publishing' /\ Service!FailureRestores'
    BY <2>1 DEF Service!ServiceInv, Service!Stopped, Service!Publishing,
       Service!FailureRestores, Service!Found
  <2>5. Service!Removing'
    BY <2>1, Zenon DEF Service!ServiceInv, Service!Removing, Service!Complete
  <2>6. Service!Restoring'
    BY <2>1, Zenon DEF Service!ServiceInv, Service!Restoring, Service!IsBack
  <2> QED
    BY <2>2, <2>3, <2>4, <2>5, <2>6 DEF Service!ServiceInv
<1> QED
  BY <1>1, <1>2, <1>3, <1>4, <1>5, <1>6, <1>7, <1>8, <1>9, <1>10 DEF Service!Next

LEMMA ServiceInvWhole ==
  ASSUME Service!ServiceConstants, Service!ServiceInv
  PROVE  Service!TimerRunsWhole /\ Service!FailureRestores
<1>1. Service!IsWhole(Service!Found) /\ v3 \in Service!PerUnit
  BY DEF Service!ServiceInv, Service!AllWhole, Service!ValuesOK
<1>2. /\ Service!Found.timer = v6 /\ Service!Found.runtime = v1
         /\ Service!Found.text = Service!UnitTexts(v3)
  BY DEF Service!Found
<1>3. v6.active => \A i \in Service!Units : Service!UnitTexts(v3)[i] # 0
      /\ Service!UnitTexts(v3)[i] = v1
  BY <1>1, <1>2 DEF Service!IsWhole
<1>4. Service!TimerRunsWhole
  BY <1>1, <1>3, ServiceTexts DEF Service!TimerRunsWhole
<1> QED
  BY <1>4 DEF Service!ServiceInv

-----------------------------------------------------------------------------
(***************************************************************************)
(* Moving credentials to the new layout.                                   *)
(***************************************************************************)
LEMMA MigrationInvInit ==
  ASSUME Migrate!MigrationConstants, Migrate!Init
  PROVE  Migrate!MigrationInv
<1>1. Migrate!TypeOK
  BY DEF Migrate!MigrationConstants, Migrate!Init, Migrate!TypeOK, Migrate!Nobody
<1> QED
  BY <1>1 DEF Migrate!Init, Migrate!MigrationInv, Migrate!MadeIsKnown,
     Migrate!Cleaned, Migrate!Examined, Migrate!MigrationIsUndone

\* The types, step by step.
LEMMA MigrationTypes ==
  ASSUME Migrate!MigrationConstants, Migrate!TypeOK, Migrate!Next
  PROVE  Migrate!TypeOK'
<1> USE DEF Migrate!TypeOK, Migrate!disk, Migrate!ghosts
<1>0. UNCHANGED v15 \/ Migrate!Incident => v15' \in 0 .. MaxIncidents
  BY DEF Migrate!MigrationConstants, Migrate!Incident
<1>1. ASSUME NEW m \in Members, Migrate!Login(m) \/ Migrate!SourceSpoils(m)
      PROVE  Migrate!TypeOK'
  BY <1>0, <1>1 DEF Migrate!Login, Migrate!SourceSpoils
<1>2. ASSUME NEW m \in Members, Migrate!MakeHome(m) \/ Migrate!Place(m)
      PROVE  Migrate!TypeOK'
  BY <1>0, <1>2 DEF Migrate!MakeHome, Migrate!Place, Migrate!Abandon
<1>3. ASSUME NEW m \in Members, Migrate!CleanLook(m) \/ Migrate!CleanUnlink(m)
      PROVE  Migrate!TypeOK'
  BY <1>0, <1>3 DEF Migrate!CleanLook, Migrate!CleanUnlink, Migrate!Unlink
<1>4. ASSUME NEW m \in Members, Migrate!UndoLook(m) \/ Migrate!UndoUnlink(m)
      PROVE  Migrate!TypeOK'
  BY <1>0, <1>4 DEF Migrate!UndoLook, Migrate!UndoUnlink, Migrate!Unlink
<1>5. CASE Migrate!Plan \/ Migrate!Check \/ Migrate!RollBack \/ Migrate!UndoEnds
  BY <1>0, <1>5 DEF Migrate!Plan, Migrate!Planned, Migrate!Check, Migrate!RollBack,
     Migrate!UndoEnds
<1>6. CASE Migrate!Publish
  BY <1>0, <1>6 DEF Migrate!Publish, Migrate!Abandon
<1>7. CASE Migrate!Crash
  BY <1>0, <1>7 DEF Migrate!Crash
<1>8. CASE Migrate!CleanHomes
  BY <1>8 DEF Migrate!CleanHomes
<1>9. CASE Migrate!Again
  BY <1>9 DEF Migrate!Again
<1> QED
  BY <1>1, <1>2, <1>3, <1>4, <1>5, <1>6, <1>7, <1>8, <1>9 DEF Migrate!Next

LEMMA MigrationInvPreserved ==
  ASSUME Migrate!MigrationConstants, Migrate!MigrationInv,
         [Migrate!Next]_(Migrate!vars)
  PROVE  Migrate!MigrationInv'
<1> USE DEF Migrate!MigrationConstants, Migrate!MigrationInv, Migrate!MadeIsKnown,
        Migrate!Cleaned, Migrate!Examined, Migrate!MigrationIsUndone, Migrate!disk,
        Migrate!ghosts
<1>1. CASE UNCHANGED Migrate!vars
  BY <1>1 DEF Migrate!vars, Migrate!TypeOK
<1>2. CASE Migrate!Next
  <2>0. Migrate!TypeOK'
    BY <1>2, MigrationTypes
  <2>1. ASSUME NEW m \in Members, Migrate!Login(m)
        PROVE  Migrate!MigrationInv'
    BY <2>0, <2>1 DEF Migrate!Login, Migrate!TypeOK
  <2>2. ASSUME NEW m \in Members, Migrate!SourceSpoils(m) \/ Migrate!MakeHome(m)
        PROVE  Migrate!MigrationInv'
    BY <2>0, <2>2 DEF Migrate!SourceSpoils, Migrate!MakeHome, Migrate!Abandon,
       Migrate!TypeOK
  <2>3. ASSUME NEW m \in Members, Migrate!Place(m)
        PROVE  Migrate!MigrationInv'
    <3>1. CASE v1'[m] = v1[m] /\ Migrate!Abandon
      BY <2>0, <2>3, <3>1 DEF Migrate!Place, Migrate!Abandon, Migrate!TypeOK
    <3>2. CASE /\ v1[m] = "none"
               /\ v1' = [v1 EXCEPT ![m] = "migrated"]
               /\ v9' = v9 \cup {m}
               /\ v8' = v8 \ {m}
               /\ UNCHANGED <<v7, v12, v15>>
      BY <2>0, <2>3, <3>2 DEF Migrate!Place, Migrate!TypeOK
    <3>3. CASE /\ v1[m] = "none"
               /\ Migrate!Incident
               /\ v1' = [v1 EXCEPT ![m] = "migrated"]
               /\ v12' = v12 \cup {m}
               /\ Migrate!Abandon
               /\ UNCHANGED v9
      BY <2>0, <2>3, <3>3 DEF Migrate!Place, Migrate!Abandon, Migrate!TypeOK
    <3> QED
      BY <2>3, <3>1, <3>2, <3>3 DEF Migrate!Place, Migrate!Abandon
  <2>4. ASSUME NEW m \in Members, Migrate!CleanLook(m)
        PROVE  Migrate!MigrationInv'
    BY <2>0, <2>4 DEF Migrate!CleanLook, Migrate!OwnTarget, Migrate!TypeOK
  <2>5. ASSUME NEW m \in Members, Migrate!CleanUnlink(m)
        PROVE  Migrate!MigrationInv'
    BY <2>0, <2>5 DEF Migrate!CleanUnlink, Migrate!Unlink, Migrate!TypeOK
  <2>6. ASSUME NEW m \in Members, Migrate!UndoLook(m)
        PROVE  Migrate!MigrationInv'
    BY <2>0, <2>6 DEF Migrate!UndoLook, Migrate!TypeOK
  <2>7. ASSUME NEW m \in Members, Migrate!UndoUnlink(m)
        PROVE  Migrate!MigrationInv'
    BY <2>0, <2>7 DEF Migrate!UndoUnlink, Migrate!Unlink, Migrate!TypeOK
  <2>8. CASE Migrate!Plan \/ Migrate!Check
    <3>1. CASE Migrate!Plan
      <4>1. \A m \in v6' : v1'[m] = "none"
        BY <3>1 DEF Migrate!Plan, Migrate!Planned
      <4>2. v7 = "idle" /\ v7' = "check"
        BY <3>1 DEF Migrate!Plan
      <4> QED
        BY <2>0, <3>1, <4>1, <4>2 DEF Migrate!Plan, Migrate!TypeOK
    <3>2. CASE Migrate!Check
      BY <2>0, <3>2 DEF Migrate!Check, Migrate!TypeOK
    <3> QED
      BY <2>8, <3>1, <3>2
  <2>9. CASE Migrate!Publish
    BY <2>0, <2>9 DEF Migrate!Publish, Migrate!Abandon, Migrate!TypeOK
  <2>10. CASE Migrate!Crash
    BY <2>0, <2>10 DEF Migrate!Crash, Migrate!TypeOK
  <2>11. CASE Migrate!CleanHomes
    BY <2>0, <2>11 DEF Migrate!CleanHomes, Migrate!TypeOK
  <2>12. CASE Migrate!Again
    BY <2>0, <2>12 DEF Migrate!Again, Migrate!TypeOK
  <2>13. CASE Migrate!RollBack \/ Migrate!UndoEnds
    BY <2>0, <2>13 DEF Migrate!RollBack, Migrate!UndoEnds, Migrate!TypeOK
  <2> QED
    BY <1>2, <2>1, <2>2, <2>3, <2>4, <2>5, <2>6, <2>7, <2>8, <2>9, <2>10, <2>11,
       <2>12, <2>13 DEF Migrate!Next
<1> QED
  BY <1>1, <1>2

LEMMA MigrationInvUndone == Migrate!MigrationInv => Migrate!MigrationIsUndone
  BY DEF Migrate!MigrationInv

-----------------------------------------------------------------------------
(*****************************************************************************)
(* The types of the stores.                                                *)
(***************************************************************************)

\* The bounds of the faults and the crashes are kept.
LEMMA WriteCounts ==
  ASSUME v10 \in 0 .. MaxFaults, v11 \in 0 .. MaxCrashes,
         Write!Fault \/ Write!Dies \/ UNCHANGED Write!boundVars
  PROVE  v10' \in 0 .. MaxFaults /\ v11' \in 0 .. MaxCrashes
  BY StoreBounds DEF Write!Fault, Write!Dies, Write!boundVars

\* private_io.py: a write keeps its texts, and what it may find, among the texts there are.
LEMMA WriteTypes ==
  ASSUME Write!WriteInv, Write!WriteInv', Write!TypeOK, [Write!Next]_(Write!vars)
  PROVE  Write!TypeOK'
<1> DEFINE Rest ==
             /\ v4 \in BOOLEAN /\ v9 \in BOOLEAN
             /\ v5 \in Texts \cup {NoText} /\ v6 \in Write!Contents
             /\ v7 \subseteq Write!Contents
             /\ v10 \in 0 .. MaxFaults /\ v11 \in 0 .. MaxCrashes
<1>1. v1' \in Write!Directory /\ v2' \subseteq Write!Directory
  BY DEF Write!WriteInv, Write!DirectoryOK
<1>2. Rest'
  <2>1. ASSUME NEW t \in Texts, NEW c \in BOOLEAN, Write!Begin(t, c)
        PROVE  Rest'
    BY <2>1, WriteCounts DEF Write!TypeOK, Write!Begin, Write!Directory
  <2>2. CASE Write!RestoreStale
    BY <2>2, WriteCounts DEF Write!TypeOK, Write!RestoreStale, Write!Goto,
       Write!writeVars
  <2>3. CASE Write!SyncRestored
    BY <2>3, WriteCounts DEF Write!TypeOK, Write!SyncRestored, Write!Goto,
       Write!End, Write!writeVars
  <2>4. CASE Write!RecoverNothing
    BY <2>4, WriteCounts DEF Write!TypeOK, Write!RecoverNothing, Write!End,
       Write!Goto, Write!writeVars
  <2>5. CASE Write!CheckTarget
    BY <2>5, WriteCounts DEF Write!TypeOK, Write!CheckTarget, Write!End, Write!Goto,
       Write!writeVars
  <2>6. CASE Write!DropStale
    BY <2>6, WriteCounts DEF Write!TypeOK, Write!DropStale, Write!Goto, Write!End,
       Write!writeVars
  <2>7. CASE Write!SyncStale
    BY <2>7, WriteCounts DEF Write!TypeOK, Write!SyncStale, Write!Goto, Write!End,
       Write!writeVars
  <2>8. CASE Write!WriteTemporary
    BY <2>8, WriteCounts DEF Write!TypeOK, Write!WriteTemporary, Write!Goto,
       Write!writeVars
  <2>9. CASE Write!CopyBegin
    BY <2>9, WriteCounts DEF Write!TypeOK, Write!CopyBegin, Write!Goto,
       Write!writeVars
  <2>10. CASE Write!CopyEnd
    BY <2>10, WriteCounts DEF Write!TypeOK, Write!CopyEnd, Write!Goto,
       Write!writeVars
  <2>11. CASE Write!SyncBeforeReplace
    BY <2>11, WriteCounts DEF Write!TypeOK, Write!SyncBeforeReplace, Write!Goto,
       Write!writeVars
  <2>12. CASE Write!Replace
    BY <2>12, WriteCounts DEF Write!TypeOK, Write!Replace, Write!Goto,
       Write!writeVars
  <2>13. CASE Write!SyncPublished
    BY <2>13, WriteCounts DEF Write!TypeOK, Write!SyncPublished, Write!Goto,
       Write!writeVars
  <2>14. CASE Write!DropRollback
    BY <2>14, WriteCounts DEF Write!TypeOK, Write!DropRollback, Write!End,
       Write!Goto, Write!writeVars
  <2>15. CASE Write!UndoPublish
    BY <2>15, WriteCounts DEF Write!TypeOK, Write!UndoPublish, Write!Goto,
       Write!writeVars
  <2>16. CASE Write!SyncUndone
    BY <2>16, WriteCounts DEF Write!TypeOK, Write!SyncUndone, Write!End,
       Write!writeVars
  <2>17. CASE Write!UndoFailed
    BY <2>17, WriteCounts DEF Write!TypeOK, Write!UndoFailed, Write!End,
       Write!writeVars
  <2>18. CASE Write!Cleanup
    BY <2>18, WriteCounts DEF Write!TypeOK, Write!Cleanup, Write!End,
       Write!writeVars
  <2>19. CASE Write!Link
    BY <2>19, WriteCounts DEF Write!TypeOK, Write!Link, Write!Goto, Write!writeVars
  <2>20. CASE Write!UnlinkTemporary
    BY <2>20, WriteCounts DEF Write!TypeOK, Write!UnlinkTemporary, Write!Goto,
       Write!writeVars
  <2>21. CASE Write!UndoLink
    BY <2>21, WriteCounts DEF Write!TypeOK, Write!UndoLink, Write!Goto, Write!End,
       Write!writeVars
  <2>22. CASE Write!SyncLinked
    BY <2>22, WriteCounts DEF Write!TypeOK, Write!SyncLinked, Write!End,
       Write!writeVars
  <2>23. CASE Write!Remove
    BY <2>23, WriteCounts DEF Write!TypeOK, Write!Remove, Write!writeVars
  <2>24. CASE Write!Crash
    BY <2>24, WriteCounts DEF Write!TypeOK, Write!Crash, Write!Forget,
       Write!writeVars
  <2>25. CASE Write!PowerLoss
    BY <2>25, WriteCounts DEF Write!TypeOK, Write!PowerLoss, Write!writeVars
  <2>26. CASE UNCHANGED Write!vars
    BY <2>26, WriteCounts DEF Write!TypeOK, Write!vars
  <2> QED
    BY <2>1, <2>2, <2>3, <2>4, <2>5, <2>6, <2>7, <2>8, <2>9, <2>10, <2>11, <2>12,
       <2>13, <2>14, <2>15, <2>16, <2>17, <2>18, <2>19, <2>20, <2>21, <2>22, <2>23,
       <2>24, <2>25, <2>26 DEF Write!Next
<1> QED
  BY <1>1, <1>2 DEF Write!TypeOK

\* The bound of the evidence is kept.
LEMMA EvidenceCounts ==
  ASSUME v13 \in 0 .. MaxEvidenceFaults, Evidence!Fault \/ Evidence!Fine
  PROVE  v13' \in 0 .. MaxEvidenceFaults
  BY StoreBounds DEF Evidence!Fault, Evidence!Fine

\* integration_evidence.py: what is staged has been given its number.
LEMMA EvidenceTypes ==
  ASSUME Evidence!EvidenceInv, Evidence!EvidenceInv', Evidence!TypeOK,
         [Evidence!Next]_(Evidence!evidenceVars)
  PROVE  Evidence!TypeOK'
<1> DEFINE Rest ==
             v2 \subseteq Evidence!Ids /\ v13 \in 0 .. MaxEvidenceFaults
<1>1. /\ v1' \subseteq Evidence!Ids /\ v12' \in 0 .. MaxIds
      /\ {v3', v5'} \subseteq Evidence!Pointers \cup {Nil}
      /\ v4' \in {Nil} \cup [old : Evidence!Pointers \cup {Nil}, new : Evidence!Pointers]
  BY DEF Evidence!EvidenceInv, Evidence!ValuesOK, Evidence!Markers
<1>2. Rest'
  <2>1. ASSUME NEW t \in {"publish", "rollback", "collect", "recover"}, Evidence!Begin(t)
        PROVE  Rest'
    BY <2>1, EvidenceCounts DEF Evidence!TypeOK, Evidence!Begin, Evidence!files
  <2>2. CASE Evidence!RecoverStaging
    BY <2>2, EvidenceCounts DEF Evidence!TypeOK, Evidence!RecoverStaging,
       Evidence!Generations, Evidence!files
  <2>3. CASE Evidence!RecoverCommit
    BY <2>3, EvidenceCounts DEF Evidence!TypeOK, Evidence!RecoverCommit,
       Evidence!files, Evidence!SetCurrent
  <2>4. CASE Evidence!RecoverUnmark
    BY <2>4, EvidenceCounts DEF Evidence!TypeOK, Evidence!RecoverUnmark,
       Evidence!SetCommit, Evidence!files
  <2>5. CASE Evidence!RecoverStash
    BY <2>5, EvidenceCounts DEF Evidence!TypeOK, Evidence!RecoverStash,
       Evidence!files, Evidence!SetCurrent
  <2>6. CASE Evidence!RecoverUnstash
    BY <2>6, EvidenceCounts DEF Evidence!TypeOK, Evidence!RecoverUnstash,
       Evidence!SetStash, Evidence!files
  <2>7. CASE Evidence!Proceed
    BY <2>7, EvidenceCounts DEF Evidence!TypeOK, Evidence!Proceed, Evidence!files
  <2>8. CASE Evidence!Done
    BY <2>8, EvidenceCounts DEF Evidence!TypeOK, Evidence!Done, Evidence!files
  <2>9. CASE Evidence!Prune
    BY <2>9, EvidenceCounts DEF Evidence!TypeOK, Evidence!Prune,
       Evidence!Generations, Evidence!files, Evidence!Collectable
  <2>10. CASE Evidence!RemovePruned
    BY <2>10, EvidenceCounts DEF Evidence!TypeOK, Evidence!RemovePruned,
       Evidence!Generations, Evidence!files
  <2>11. CASE Evidence!Stage
    BY <2>11, EvidenceCounts, EvidenceAssumption DEF Evidence!TypeOK,
       Evidence!Stage, Evidence!Generations, Evidence!Ids,
       Evidence!EvidenceConstants
  <2>12. CASE Evidence!PublishDirectory
    BY <2>12, EvidenceCounts DEF Evidence!TypeOK, Evidence!PublishDirectory,
       Evidence!Generations
  <2>13. CASE Evidence!Mark
    BY <2>13, EvidenceCounts DEF Evidence!TypeOK, Evidence!Mark, Evidence!SetCommit,
       Evidence!files
  <2>14. CASE Evidence!Replace
    BY <2>14, EvidenceCounts DEF Evidence!TypeOK, Evidence!Replace,
       Evidence!SetCurrent, Evidence!files
  <2>15. CASE Evidence!Check
    BY <2>15, EvidenceCounts DEF Evidence!TypeOK, Evidence!Check, Evidence!files
  <2>16. CASE Evidence!Unmark
    BY <2>16, EvidenceCounts DEF Evidence!TypeOK, Evidence!Unmark,
       Evidence!SetCommit, Evidence!files
  <2>17. CASE Evidence!Stash
    BY <2>17, EvidenceCounts DEF Evidence!TypeOK, Evidence!Stash, Evidence!SetStash,
       Evidence!files
  <2>18. CASE Evidence!RemoveCurrent
    BY <2>18, EvidenceCounts DEF Evidence!TypeOK, Evidence!RemoveCurrent,
       Evidence!SetCurrent, Evidence!SetStash
  <2>19. CASE Evidence!RestoreOld
    BY <2>19, EvidenceCounts DEF Evidence!TypeOK, Evidence!RestoreOld,
       Evidence!SetCurrent, Evidence!files
  <2>20. CASE Evidence!PutNewBack
    BY <2>20, EvidenceCounts DEF Evidence!TypeOK, Evidence!PutNewBack,
       Evidence!files
  <2>21. CASE Evidence!Unstash
    BY <2>21, EvidenceCounts DEF Evidence!TypeOK, Evidence!Unstash,
       Evidence!SetStash, Evidence!files
  <2>22. CASE Evidence!Crash
    BY <2>22, EvidenceCounts DEF Evidence!TypeOK, Evidence!Crash, Evidence!files
  <2>23. CASE Evidence!ReadPointer
    BY <2>23, EvidenceCounts DEF Evidence!TypeOK, Evidence!ReadPointer,
       Evidence!files
  <2>24. CASE Evidence!ReadEnds
    BY <2>24, EvidenceCounts DEF Evidence!TypeOK, Evidence!ReadEnds, Evidence!files
  <2>25. CASE UNCHANGED Evidence!evidenceVars
    BY <2>25, EvidenceCounts DEF Evidence!TypeOK, Evidence!evidenceVars
  <2> QED
    BY <2>1, <2>2, <2>3, <2>4, <2>5, <2>6, <2>7, <2>8, <2>9, <2>10, <2>11, <2>12,
       <2>13, <2>14, <2>15, <2>16, <2>17, <2>18, <2>19, <2>20, <2>21, <2>22, <2>23,
       <2>24, <2>25 DEF Evidence!Next
<1> QED
  BY <1>1, <1>2 DEF Evidence!TypeOK

\* Something that fails is noted.
LEMMA DeleteTroubles ==
  ASSUME v11 \in 0 .. MaxTroubles, v7 \in Delete!Causes, NEW why,
         Delete!Trouble(why) \/ Delete!Worse(why)
  PROVE  v11' \in 0 .. MaxTroubles /\ v7' \in Delete!Causes
  BY StoreBounds DEF Delete!Trouble, Delete!Worse, Delete!Causes

\* cli.py: the marks of a deletion, and the troubles it has met.
LEMMA DeleteTypes ==
  ASSUME Delete!DeleteInv, Delete!DeleteInv', Delete!TypeOK,
         [Delete!Next]_(Delete!deleteVars)
  PROVE  Delete!TypeOK'
<1> DEFINE Rest ==
             /\ {v4, v6} \subseteq BOOLEAN /\ v7 \in Delete!Causes
             /\ v11 \in 0 .. MaxTroubles
<1> USE DEF Delete!Put, Delete!Profile, Delete!Bundle, Delete!Still, Delete!To,
        Delete!End, Delete!Smooth, Delete!accountVars
<1>1. /\ {v1', v8', v9', v12', v13'} \subseteq BOOLEAN
      /\ {v2', v3'} \subseteq Delete!Parts
  BY DEF Delete!DeleteInv, Delete!PartsOK
<1>0. Rest
  BY DEF Delete!TypeOK
<1>2. Rest'
  <2>1. ASSUME NEW w \in BOOLEAN, Delete!Delete(w)
        PROVE  Rest'
    BY <1>0, <2>1 DEF Delete!Delete, Delete!Causes
  <2>2. CASE Delete!RemoveAccount
    BY <1>0, <2>2, DeleteTroubles DEF Delete!RemoveAccount
  <2>3. CASE Delete!SyncService
    BY <1>0, <2>3, DeleteTroubles DEF Delete!SyncService
  <2>4. CASE Delete!StageProfile
    BY <1>0, <2>4, DeleteTroubles DEF Delete!StageProfile
  <2>5. CASE Delete!StageBundle
    BY <1>0, <2>5, DeleteTroubles DEF Delete!StageBundle, Delete!StageFiles
  <2>6. CASE Delete!StageUndone
    BY <1>0, <2>6, DeleteTroubles DEF Delete!StageUndone, Delete!PutFilesBack
  <2>7. CASE Delete!RevokeToken
    BY <1>0, <2>7, DeleteTroubles DEF Delete!RevokeToken
  <2>8. CASE Delete!UndoBundle
    BY <1>0, <2>8, DeleteTroubles DEF Delete!UndoBundle, Delete!PutFilesBack
  <2>9. CASE Delete!CommitBundle
    BY <1>0, <2>9, DeleteTroubles DEF Delete!CommitBundle
  <2>10. CASE Delete!CommitUndone
    BY <1>0, <2>10, DeleteTroubles DEF Delete!CommitUndone, Delete!PutFilesBack, Delete!AfterCommit
  <2>11. CASE Delete!CommitProfile
    BY <1>0, <2>11, DeleteTroubles DEF Delete!CommitProfile
  <2>12. CASE Delete!UndoProfile
    BY <1>0, <2>12, DeleteTroubles DEF Delete!UndoProfile
  <2>13. CASE Delete!Restore
    BY <1>0, <2>13, DeleteTroubles DEF Delete!Restore
  <2>14. CASE Delete!Add
    BY <1>0, <2>14, DeleteTroubles DEF Delete!Add, Delete!Causes
  <2>15. CASE Delete!SaveConfig
    BY <1>0, <2>15, DeleteTroubles DEF Delete!SaveConfig
  <2>16. CASE Delete!EraseBundle
    BY <1>0, <2>16, DeleteTroubles DEF Delete!EraseBundle, Delete!StageFiles
  <2>17. CASE Delete!CommitErase
    BY <1>0, <2>17, DeleteTroubles DEF Delete!CommitErase
  <2>18. CASE Delete!EraseUndone
    BY <1>0, <2>18, DeleteTroubles DEF Delete!EraseUndone, Delete!PutFilesBack
  <2>19. CASE Delete!Unlist
    BY <1>0, <2>19, DeleteTroubles DEF Delete!Unlist
  <2>20. CASE Delete!UndoAdd
    BY <1>0, <2>20, DeleteTroubles DEF Delete!UndoAdd
  <2>21. CASE Delete!MakeToken
    BY <1>0, <2>21, DeleteTroubles DEF Delete!MakeToken
  <2>22. CASE Delete!Crash
    BY <1>0, <2>22, DeleteTroubles, StoreBounds DEF Delete!Crash, Delete!Causes
  <2>23. CASE UNCHANGED Delete!deleteVars
    BY <1>0, <2>23 DEF Delete!deleteVars
  <2> QED
    BY <2>1, <2>2, <2>3, <2>4, <2>5, <2>6, <2>7, <2>8, <2>9, <2>10, <2>11, <2>12,
       <2>13, <2>14, <2>15, <2>16, <2>17, <2>18, <2>19, <2>20, <2>21, <2>22,
       <2>23 DEF Delete!Next
<1> QED
  BY <1>1, <1>2 DEF Delete!TypeOK

\* service.py, private_io.py: the types are in the invariants of these two.
LEMMA ServiceInvTypes == Service!ServiceInv => Service!TypeOK
  BY DEF Service!ServiceInv, Service!ValuesOK, Service!PerUnit, Service!Switches, Service!TypeOK

\* What is in the quarantine, and what it is reported to be.
LEMMA QuarantineInvTypes == Quarantine!QuarantineInv => Quarantine!TypeOK
  BY DEF Quarantine!QuarantineInv, Quarantine!ValuesOK, Quarantine!RunKnows, Quarantine!TypeOK

\* The bound of the maintenance is kept.
LEMMA MaintenanceSlips ==
  ASSUME v12 \in 0 .. MaxSlips, Maintain!Slip \/ Maintain!NoSlip
  PROVE  v12' \in 0 .. MaxSlips
  BY StoreBounds DEF Maintain!Slip, Maintain!NoSlip

\* What is held has been saved, and nothing is held when it has been settled.
LEMMA MaintenanceSettled ==
  ASSUME v6 \in [Owners -> Maintain!Versions \cup {NoState}],
         v7 \subseteq Owners \X Maintain!Versions, Maintain!Settle
  PROVE  /\ v6' \in [Owners -> Maintain!Versions \cup {NoState}]
         /\ v7' \subseteq Owners \X Maintain!Versions
  BY DEF Maintain!Settle, Maintain!Holding, Maintain!Empty

\* state_maintenance.py: what is live, held or quarantined is a state that was saved.
LEMMA MaintenanceTypes ==
  ASSUME Maintain!MaintenanceInv, Maintain!MaintenanceInv', Maintain!TypeOK,
         [Maintain!Next]_(Maintain!maintenanceVars)
  PROVE  Maintain!TypeOK'
<1> DEFINE Rest ==
             /\ v3 \in [Owners -> Maintain!Versions \cup {NoState}]
             /\ v6 \in [Owners -> Maintain!Versions \cup {NoState}]
             /\ v7 \subseteq Owners \X Maintain!Versions
             /\ v12 \in 0 .. MaxSlips
<1>1. /\ v1' \subseteq Owners /\ v2' \in 0 .. MaxEditions
      /\ v5' \in Maintain!Journals \cup {NoState} /\ v10' \subseteq Owners
  BY DEF Maintain!MaintenanceInv, Maintain!ValuesOK
<1>2. Rest'
  <2>1. ASSUME NEW i \in Owners, Maintain!Configure(i)
        PROVE  Rest'
    BY <2>1, MaintenanceSlips DEF Maintain!TypeOK, Maintain!Configure, Maintain!Stay
  <2>2. ASSUME NEW i \in Owners, Maintain!Save(i)
        PROVE  Rest'
    BY <2>2, MaintenanceSlips, StoreBounds DEF Maintain!TypeOK, Maintain!Save,
       Maintain!Versions, Maintain!MaintenanceInv, Maintain!ValuesOK
  <2>3. CASE Maintain!Begin
    BY <2>3, MaintenanceSlips DEF Maintain!TypeOK, Maintain!Begin, Maintain!Stay
  <2>4. CASE Maintain!Recover
    BY <2>4, MaintenanceSlips DEF Maintain!TypeOK, Maintain!Recover, Maintain!Stay
  <2>5. CASE Maintain!PutBack
    BY <2>5, MaintenanceSlips DEF Maintain!TypeOK, Maintain!PutBack, Maintain!Stay
  <2>6. CASE Maintain!UndoEnds
    BY <2>6, MaintenanceSlips DEF Maintain!TypeOK, Maintain!UndoEnds, Maintain!Stay
  <2>7. CASE Maintain!Remove
    BY <2>7, MaintenanceSlips DEF Maintain!TypeOK, Maintain!Remove, Maintain!Note
  <2>8. CASE Maintain!Scan
    BY <2>8, MaintenanceSlips DEF Maintain!TypeOK, Maintain!Scan, Maintain!Stay
  <2>9. CASE Maintain!Create
    BY <2>9, MaintenanceSlips DEF Maintain!TypeOK, Maintain!Create, Maintain!Note,
       Maintain!Stay
  <2>10. CASE Maintain!Manifest
    BY <2>10, MaintenanceSlips DEF Maintain!TypeOK, Maintain!Manifest,
       Maintain!Note, Maintain!Stay
  <2>11. CASE Maintain!Move
    BY <2>11, MaintenanceSlips DEF Maintain!TypeOK, Maintain!Move, Maintain!Moved
  <2>12. CASE Maintain!Publish
    BY <2>12, MaintenanceSlips, MaintenanceSettled DEF Maintain!TypeOK,
       Maintain!Publish, Maintain!Stay, Maintain!Note
  <2>13. CASE Maintain!Crash
    BY <2>13, MaintenanceSlips, MaintenanceSettled DEF Maintain!TypeOK,
       Maintain!Crash, Maintain!Stay, Maintain!Note
  <2>14. CASE UNCHANGED Maintain!maintenanceVars
    BY <2>14, MaintenanceSlips DEF Maintain!TypeOK, Maintain!maintenanceVars
  <2> QED
    BY <2>1, <2>2, <2>3, <2>4, <2>5, <2>6, <2>7, <2>8, <2>9, <2>10, <2>11, <2>12,
       <2>13, <2>14 DEF Maintain!Next
<1> QED
  BY <1>1, <1>2 DEF Maintain!TypeOK

\* The types hold at first.
LEMMA StoreTypesInit ==
  /\ Write!Init => Write!TypeOK
  /\ Evidence!Init => Evidence!TypeOK
  /\ Delete!Init => Delete!TypeOK
  /\ Maintain!Init => Maintain!TypeOK
<1>1. ASSUME Write!Init PROVE Write!TypeOK
  <2>1. v1 \in Write!Directory /\ v2 \subseteq Write!Directory
    BY <1>1, WriteAssumption, WriteInvInit DEF Write!WriteInv, Write!DirectoryOK
  <2>2. v4 \in BOOLEAN /\ v9 \in BOOLEAN
    BY <1>1 DEF Write!Init
  <2>3. v10 \in 0 .. MaxFaults /\ v11 \in 0 .. MaxCrashes
    BY <1>1, StoreBounds DEF Write!Init
  <2>4. /\ v5 \in Texts \cup {NoText} /\ v6 \in Write!Contents /\ v7 \subseteq Write!Contents
    BY <1>1 DEF Write!Init, Write!Contents
  <2> QED
    BY <2>1, <2>2, <2>3, <2>4 DEF Write!TypeOK
<1>2. ASSUME Evidence!Init PROVE Evidence!TypeOK
  BY <1>2, StoreBounds, EvidenceAssumption
  DEF Evidence!Init, Evidence!TypeOK, Evidence!EvidenceConstants
<1>3. ASSUME Delete!Init PROVE Delete!TypeOK
  <2>1. {v1, v4, v6, v8, v9, v12, v13} \subseteq BOOLEAN
    BY <1>3 DEF Delete!Init
  <2>2. /\ {v2, v3} \subseteq Delete!Parts /\ v7 \in Delete!Causes /\ v11 \in 0 .. MaxTroubles
    BY <1>3, StoreBounds DEF Delete!Init, Delete!Parts, Delete!Whole, Delete!Causes
  <2> QED
    BY <2>1, <2>2 DEF Delete!TypeOK
<1>4. ASSUME Maintain!Init PROVE Maintain!TypeOK
  BY <1>4, StoreBounds, MaintainAssumption
  DEF Maintain!Init, Maintain!TypeOK, Maintain!Empty, Maintain!MaintenanceConstants
<1> QED
  BY <1>1, <1>2, <1>3, <1>4
=============================================================================

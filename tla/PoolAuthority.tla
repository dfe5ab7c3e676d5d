--------------------------- MODULE PoolAuthority ---------------------------
(***************************************************************************)
(* The owner data of the account pool: a table of config.toml and the      *)
(* source file made from it (pool_authority_owner.py, config.py).          *)
(*                                                                         *)
(* A marker file ("pending") is created before either of the two changes   *)
(* and removed after both have.  Everybody who changes them holds the path *)
(* lock of the configuration throughout, so there is one writer at a time; *)
(* whoever publishes evidence takes only the path lock of the source.      *)
(* Every command recovers before it asks for the lock, but another one may *)
(* die in between: an operation may therefore begin with a marker present. *)
(***************************************************************************)
EXTENDS Naturals

CONSTANTS AccountSets,   \* sets of configured accounts, one of them is used first
          Records,       \* owner records, complete for every set of accounts
          MaxGeneration, \* MAX_POOL_AUTHORITY_GENERATION
          NoSource,      \* no source file, no marker
          MaxMarkers,    \* bound: markers written
          MaxErrors      \* bound: failing writes, and deaths of the writer

Unconfigured == [gen |-> 0, records |-> NoSource, set |-> NoSource]
Authority == {Unconfigured} \cup
             [gen : 0 .. MaxGeneration, records : Records, set : AccountSets]
Config    == [set : AccountSets, authority : Authority, other : BOOLEAN]
Sources   == {NoSource} \cup [records : Records, set : AccountSets]

VARIABLES
  config, source, pending,
  step,                  \* where the writer is; "idle": the lock is free
  op,                    \* its operation: configurations before and after
  marker,                \* the marker a recovery has read
  capture,               \* a publication: "no", "read" and "taken" hold the source lock
  taken,                 \* the source it uses
  markers, errors

poolVars == <<config, source, pending, step, op, marker, capture, taken, markers, errors>>

Init ==
  /\ \E s \in AccountSets :
       config = [set |-> s, authority |-> Unconfigured, other |-> FALSE]
  /\ source = NoSource /\ pending = NoSource
  /\ step = "idle" /\ op = [old |-> config, new |-> config] /\ marker = NoSource
  /\ capture = "no" /\ taken = NoSource /\ markers = 0 /\ errors = 0

\* The steps in which the writer holds the path lock of the source.
Locking == {"s-mark", "s-config", "s-source", "s-undo", "s-done", "s-undone",
            "e-mark", "f-check", "f-source", "f-done",
            "r-read", "r-config", "r-source", "r-remove", "r-done"}

SourceOf(authority) ==
  IF authority = Unconfigured THEN NoSource
  ELSE [records |-> authority.records, set |-> authority.set]

files   == <<config, source, pending>>
reader  == <<capture, taken>>
Goto(s) == step' = s /\ UNCHANGED <<op, reader>>
Enter(s) == capture = "no" /\ Goto(s)              \* takes the source lock
Fails   == errors < MaxErrors /\ errors' = errors + 1
Works   == UNCHANGED errors

WriteConfig(c) == config' = c /\ UNCHANGED <<source, pending>>
WriteSource(s) == source' = s /\ UNCHANGED <<config, pending>>
RemovePending  == pending' = NoSource /\ UNCHANGED <<config, source>>

\* _write_pending: never over another marker.
WriteMarker(m, then) ==
  /\ \/ /\ pending = NoSource /\ markers < MaxMarkers
        /\ pending' = m /\ markers' = markers + 1 /\ Works /\ Goto(then)
     \/ pending # NoSource /\ Works /\ Goto("idle") /\ UNCHANGED <<pending, markers>>
     \/ Fails /\ Goto("idle") /\ UNCHANGED <<pending, markers>>
  /\ UNCHANGED <<config, source, marker>>

Starts(new, s) ==
  /\ step = "idle"
  /\ op' = [old |-> config, new |-> new] /\ step' = s
  /\ UNCHANGED <<files, reader, marker, markers, errors>>

\* save_pool_authority_owner, after its checks under the lock.
SaveOwner(r) ==
  /\ config.authority.gen < MaxGeneration
  /\ Starts([config EXCEPT !.authority =
               [gen |-> config.authority.gen + 1, records |-> r, set |-> config.set]],
            "save")
SaveLocks == step = "save" /\ Enter("s-mark") /\ UNCHANGED <<files, marker, markers, errors>>
SaveMarks ==
  /\ step = "s-mark"
  /\ WriteMarker([operation |-> "publish", authority |-> op.new.authority,
                  expected |-> op.old.authority.gen], "s-config")
SaveConfig ==
  /\ step = "s-config" /\ UNCHANGED <<marker, markers>>
  /\ \/ WriteConfig(op.new) /\ Works /\ Goto("s-source")
     \/ Fails /\ UNCHANGED files /\ Goto("idle")
SaveSource ==
  /\ step = "s-source" /\ UNCHANGED <<marker, markers>>
  /\ \/ WriteSource(SourceOf(op.new.authority)) /\ Works /\ Goto("s-done")
     \/ Fails /\ UNCHANGED files /\ Goto("s-undo")
SaveUndoes ==
  /\ step = "s-undo" /\ UNCHANGED <<marker, markers>>
  /\ \/ WriteConfig(op.old) /\ Works /\ Goto("s-undone")
     \/ Fails /\ UNCHANGED files /\ Goto("idle")
SaveEnds ==
  /\ step \in {"s-done", "s-undone"} /\ UNCHANGED <<marker, markers>>
  /\ \/ RemovePending /\ Works
     \/ Fails /\ UNCHANGED files
  /\ Goto("idle")

\* add_or_update_account of a new account, remove_account, restore_account.
ChangeAccounts(s) ==
  /\ s # config.set
  /\ Starts([config EXCEPT !.set = s, !.authority = Unconfigured],
            IF config.authority = Unconfigured THEN "e-config" ELSE "edit")
EditLocks == step = "edit" /\ Enter("e-mark") /\ UNCHANGED <<files, marker, markers, errors>>
EditMarks ==                          \* begin_account_set_invalidation
  /\ step = "e-mark"
  /\ WriteMarker([operation |-> "invalidate", old |-> op.old, new |-> op.new], "e-config")
EditConfig ==
  /\ step = "e-config" /\ UNCHANGED <<marker, markers>>
  /\ \/ WriteConfig(op.new) /\ Works /\ Goto("e-state")
     \/ Fails /\ UNCHANGED files /\ Goto("idle")
EditState ==                          \* remove_account_state, service callback
  /\ step = "e-state" /\ UNCHANGED <<files, marker, markers>>
  /\ \/ Works /\ Goto(IF op.old.authority = Unconfigured THEN "idle" ELSE "finish")
     \/ Fails /\ Goto("e-undo")
EditUndoes ==
  /\ step = "e-undo" /\ UNCHANGED <<marker, markers>>
  /\ \/ WriteConfig(op.old) /\ Works
     \/ Fails /\ UNCHANGED files
  /\ Goto("idle")

\* finish_account_set_invalidation
FinishLocks == step = "finish" /\ Enter("f-check") /\ UNCHANGED <<files, marker, markers, errors>>
FinishChecks ==
  /\ step = "f-check" /\ UNCHANGED <<files, marker, markers, errors>>
  /\ Goto(IF pending = [operation |-> "invalidate", old |-> op.old, new |-> op.new]
             /\ config = op.new THEN "f-source" ELSE "idle")
FinishSource ==
  /\ step = "f-source" /\ UNCHANGED <<marker, markers>>
  /\ \/ WriteSource(NoSource) /\ Works /\ Goto("f-done")
     \/ Fails /\ UNCHANGED files /\ Goto("idle")
FinishEnds ==
  /\ step = "f-done" /\ UNCHANGED <<marker, markers>>
  /\ \/ RemovePending /\ Works
     \/ Fails /\ UNCHANGED files
  /\ Goto("idle")

\* set_masterjet_connection, the auth-sync marks: neither looks for a marker.
SaveOther ==
  /\ step = "idle"
  /\ WriteConfig([config EXCEPT !.other = ~@])
  /\ UNCHANGED <<step, op, reader, marker, markers, errors>>

\* recover_pool_authority_pending
Recover == pending # NoSource /\ Starts(config, "recover")
RecoverLocks ==
  /\ step = "recover" /\ Enter("r-read")
  /\ UNCHANGED <<files, marker, markers, errors>>

\* Mutant of RecoverAfter: every invalidation that is found is forgotten.
RecoverForgets(m) ==
  IF m.operation = "invalidate" /\ config \in {m.old, m.new} THEN "r-done"
  ELSE IF m.operation = "invalidate" THEN "idle"
  ELSE IF config.authority = m.authority THEN "r-source"
  ELSE IF config.authority.gen = m.expected /\ config.set = m.authority.set THEN "r-config"
  ELSE "idle"

\* An invalidation is finished or forgotten by what the configuration is now;
\* a publication is completed.
RecoverAfter(m) ==
  IF m.operation = "invalidate"
  THEN CASE config = m.old -> "r-done" [] config = m.new -> "r-remove" [] OTHER -> "idle"
  ELSE CASE config.authority = m.authority -> "r-source"
         [] config.authority.gen = m.expected /\ config.set = m.authority.set -> "r-config"
         [] OTHER -> "idle"

RecoverReads ==
  /\ step = "r-read" /\ UNCHANGED <<files, markers, errors>>
  /\ marker' = pending
  /\ Goto(IF pending = NoSource THEN "idle" ELSE RecoverAfter(pending))
RecoverConfig ==
  /\ step = "r-config" /\ UNCHANGED <<marker, markers>>
  /\ \/ WriteConfig([config EXCEPT !.authority = marker.authority]) /\ Works /\ Goto("r-source")
     \/ Fails /\ UNCHANGED files /\ Goto("idle")
RecoverSource ==
  /\ step \in {"r-source", "r-remove"} /\ UNCHANGED <<marker, markers>>
  /\ \/ /\ WriteSource(IF step = "r-remove" THEN NoSource ELSE SourceOf(marker.authority))
        /\ Works /\ Goto("r-done")
     \/ Fails /\ UNCHANGED files /\ Goto("idle")
RecoverEnds ==
  /\ step = "r-done" /\ UNCHANGED <<marker, markers>>
  /\ \/ RemovePending /\ Works
     \/ Fails /\ UNCHANGED files
  /\ Goto("idle")

\* The publication of evidence reads the source, then looks for a marker.
Capture ==
  /\ capture = "no" /\ step \notin Locking /\ source # NoSource
  /\ capture' = "read" /\ taken' = source
  /\ UNCHANGED <<files, step, op, marker, markers, errors>>
CaptureChecks ==
  /\ capture = "read"
  /\ capture' = IF pending = NoSource THEN "taken" ELSE "no"
  /\ UNCHANGED <<files, step, op, taken, marker, markers, errors>>
Release ==
  /\ capture = "taken" /\ capture' = "no"
  /\ UNCHANGED <<files, step, op, taken, marker, markers, errors>>

Crash ==
  /\ step # "idle" /\ Fails /\ Goto("idle") /\ UNCHANGED <<files, marker, markers>>

Next ==
  \/ \E r \in Records : SaveOwner(r)
  \/ SaveLocks \/ SaveMarks \/ SaveConfig \/ SaveSource \/ SaveUndoes \/ SaveEnds
  \/ \E s \in AccountSets : ChangeAccounts(s)
  \/ EditLocks \/ EditMarks \/ EditConfig \/ EditState \/ EditUndoes
  \/ FinishLocks \/ FinishChecks \/ FinishSource \/ FinishEnds
  \/ SaveOther
  \/ Recover \/ RecoverLocks \/ RecoverReads \/ RecoverConfig \/ RecoverSource \/ RecoverEnds
  \/ Capture \/ CaptureChecks \/ Release \/ Crash
-----------------------------------------------------------------------------
TypeOK ==
  /\ config \in Config /\ source \in Sources
  /\ markers \in 0 .. MaxMarkers /\ errors \in 0 .. MaxErrors
  /\ taken \in Sources /\ capture \in {"no", "read", "taken"}

\* The markers that the two kinds of operations write.
Publications  == [operation : {"publish"}, authority : Authority \ {Unconfigured},
                  expected : 0 .. MaxGeneration]
Invalidations == [operation : {"invalidate"},
                  old : {c \in Config : c.authority # Unconfigured},
                  new : {c \in Config : c.authority = Unconfigured}]
PublishOf(o)    == [operation |-> "publish", authority |-> o.new.authority,
                    expected |-> o.old.authority.gen]
InvalidateOf(o) == [operation |-> "invalidate", old |-> o.old, new |-> o.new]

\* What the proofs assume of the constants: no file is none of its contents.
PoolConstants ==
  /\ {MaxGeneration, MaxMarkers, MaxErrors} \subseteq Nat
  /\ NoSource \notin Records \cup [records : Records, set : AccountSets]
  /\ NoSource \notin Publications /\ NoSource \notin Invalidations

\* The authority is for the accounts that the configuration has.
Consistent(c) == c.authority # Unconfigured => c.authority.set = c.set
Agrees(c)     == source = SourceOf(c.authority)

\* The source may disagree only with an authority that is being published, or
\* after one that is being withdrawn.
MarkerCovers ==
  /\ pending \in {NoSource} \cup Publications \cup Invalidations
  /\ pending = NoSource => Agrees(config)
  /\ pending \in Publications /\ config.authority # pending.authority => Agrees(config)
  /\ pending \in Invalidations /\ config.authority # Unconfigured => Agrees(config)

\* What the writer of a publication, of a change of the accounts, and of a
\* recovery knows in each of its steps.
PublishKnows ==
  /\ step \in {"save", "s-mark", "s-config", "s-source", "s-undo"} =>
       op.new.authority # Unconfigured
  /\ step \in {"save", "s-mark", "s-config"} => config = op.old
  /\ step \in {"s-source", "s-undo"} => config = op.new
  /\ step \in {"s-config", "s-source", "s-undo"} =>
       pending = PublishOf(op) /\ Agrees(op.old)
  /\ step \in {"s-done", "s-undone"} => Agrees(config)
ChangeKnows ==
  /\ step \in {"edit", "e-mark", "e-config", "e-state", "e-undo", "finish", "f-check"} =>
       op.new.authority = Unconfigured
  /\ step \in {"edit", "e-mark", "finish", "f-check"} => op.old.authority # Unconfigured
  /\ step \in {"edit", "e-mark", "e-config"} => config = op.old
  /\ step \in {"e-state", "e-undo"} => config = op.new
  /\ step \in {"e-config", "e-state", "e-undo"} /\ op.old.authority # Unconfigured =>
       pending = InvalidateOf(op) /\ Agrees(op.old)
  /\ step \in {"f-source", "f-done"} => config.authority = Unconfigured
  /\ step = "f-source" => pending \in Invalidations
  /\ step = "f-done" => source = NoSource
RecoveryKnows ==
  /\ step \in {"r-config", "r-source"} => pending = marker /\ marker \in Publications
  /\ step = "r-config" => config.set = marker.authority.set
  /\ step = "r-source" => config.authority = marker.authority
  /\ step = "r-remove" => pending \in Invalidations /\ config.authority = Unconfigured
  /\ step = "r-done" => Agrees(config)

\* A publication of evidence holds the lock against all that write the source.
CaptureHolds ==
  /\ capture # "no" => step \notin Locking /\ taken = source
  /\ capture = "taken" => pending = NoSource

\* The inductive invariant of MCStores_proofs.
PoolInv ==
  /\ TypeOK /\ op \in [old : Config, new : Config]
  /\ Consistent(config) /\ Consistent(op.old) /\ Consistent(op.new)
  /\ MarkerCovers /\ PublishKnows /\ ChangeKnows /\ RecoveryKnows /\ CaptureHolds

\* Whenever there is no marker, after any deaths, failures and recoveries, the
\* source file is what the configuration says, for the accounts it has; and so
\* is a source that has been accepted for publication, as long as it is used.
SourceAgrees ==
  /\ pending = NoSource => source = SourceOf(config.authority)
  /\ config.authority # Unconfigured => config.authority.set = config.set
  /\ capture = "taken" => taken = SourceOf(config.authority)
=============================================================================

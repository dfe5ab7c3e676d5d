---------------------------- MODULE UsageValues ----------------------------
(***************************************************************************)
(* The values inside the usage of one account: which windows of which age  *)
(* a fetch stores and a reader shows.  Modelled are the guard against a    *)
(* sudden reset (scheduler.py, _stabilize_authenticated_usage), the two    *)
(* stores current and snapshot, the merge of what is missing with the last *)
(* success, the expiry of windows, and load_latest_usages().               *)
(*                                                                         *)
(* Two fetches may overlap: only what a fetch saves, and what a reader     *)
(* loads, is serialized by the lock of all accounts.  What the service     *)
(* answers is arbitrary within Offers; nothing here depends on the truth   *)
(* of it, only on when, and for whom, it was said.                         *)
(***************************************************************************)
EXTENDS Integers

CONSTANTS
    Fetchers,      \* processes that may fetch the account at the same time
    Offers,        \* window -> the readings the service may give of it
    Length,        \* window -> its duration
    MaxAge,        \* max_age_seconds of the guard: one interval and a minute
    MaxClock,      \* bound: the time
    MaxUnrest      \* bound: switches of the login, crashes, overlapping fetches

Unknown == -1      \* no reset time, no value, no stamp
Missing == [left |-> Unknown, due |-> Unknown, relative |-> FALSE,
            taken |-> Unknown, whose |-> Unknown, inferred |-> FALSE]

VARIABLES
    clock,         \* the time
    backend,       \* the configured backend: "direct" or "browser"
    login,         \* the identity of auth.json
    fetches,       \* fetcher -> "idle", "settled" or "overtaken"
    drafts,        \* fetcher -> the usage it has in hand
    current,       \* the stored last usage
    snapshot,      \* the stored last success
    crossed,       \* history variable: a guarded usage met another fetch's
    unrest         \* history variable: switches, crashes and overlaps so far

vars == <<clock, backend, login, fetches, drafts, current, snapshot, crossed,
          unrest>>

Windows == DOMAIN Length
Nothing == [captured |-> Unknown]

-----------------------------------------------------------------------------
\* Windows.

Present(window) == window.left # Unknown \/ window.due # Unknown

\* values_captured_at, unless it is missing.
Stamp(usage) == IF usage.stamp = Unknown THEN usage.captured ELSE usage.stamp

\* _cached_window_expired(): past its reset time, or without one past its
\* length; a reset time farther away than the window is long is refused too.
\* The inferred inactive window without a reset time never expires.
Expired(w, window, taken, at) ==
    /\ Present(window)
    /\ ~(window.inferred /\ window.due = Unknown)
    /\ IF window.due # Unknown
       THEN window.due <= at \/ window.due > taken + Length[w]
       ELSE taken + Length[w] <= at

\* expire_reset_windows(): expired windows are taken out; a window with a reset
\* time counts from the capture, one without from the values' stamp.
Expire(usage, at) ==
    LET since(w) == IF usage.windows[w].due # Unknown THEN usage.captured
                    ELSE Stamp(usage)
        gone == {w \in Windows : Expired(w, usage.windows[w], since(w), at)}
    IN  IF gone = {} THEN usage
        ELSE [usage EXCEPT
                 !.windows = [w \in Windows |->
                                IF w \in gone THEN Missing ELSE usage.windows[w]],
                 !.status = "partial",
                 !.stale = TRUE]

-----------------------------------------------------------------------------
\* The guard against a sudden reset.

\* _has_unexpired_window_reset_discontinuity(): two absolute reset times, both
\* ahead and both possible, that differ.
Discontinuity(w, new, old, at) ==
    /\ new.due # Unknown /\ old.due # Unknown
    /\ new.due > at /\ old.due > at
    /\ new.due <= at + Length[w] /\ old.due <= at + Length[w]
    /\ ~new.relative /\ ~old.relative
    /\ new.due # old.due

\* _should_retain_previous_window(): such a reset that leaves more than before.
Retain(w, new, old, at) ==
    /\ Present(new) /\ Present(old)
    /\ Discontinuity(w, new, old, at)
    /\ new.left # Unknown /\ old.left # Unknown
    /\ new.left > old.left

\* When the previous usage may stand in for a value of the new one.
MayStabilize(usage, previous) ==
    /\ usage.status = "ok" /\ backend = "direct"
    /\ previous # Nothing
    /\ previous.status = "ok"
    /\ previous.whose = usage.whose
    /\ previous.stale => previous.guarded
    /\ usage.captured - previous.captured \in 0 .. MaxAge

Retained(usage, previous) ==
    {w \in Windows : Retain(w, usage.windows[w], previous.windows[w], usage.captured)}

\* A plausible bug: the values get the time of the usage they come from, not of
\* the values in it.
StampOfUsage(usage, previous) ==
    [usage EXCEPT
        !.windows = [w \in Windows |->
                       IF w \in Retained(usage, previous)
                       THEN previous.windows[w] ELSE usage.windows[w]],
        !.stamp = previous.captured,
        !.guarded = TRUE,
        !.stale = TRUE]

\* _stabilize_authenticated_usage().
Stabilized(usage, previous) ==
    [usage EXCEPT
        !.windows = [w \in Windows |->
                       IF w \in Retained(usage, previous)
                       THEN previous.windows[w] ELSE usage.windows[w]],
        !.stamp = Stamp(previous),
        !.guarded = TRUE,
        !.stale = TRUE]

-----------------------------------------------------------------------------
\* merge_current_with_last_success().

\* _authoritative_empty_limits(): an answer that knows there is nothing.
AuthoritativeEmpty(usage) ==
    /\ \A w \in Windows : ~Present(usage.windows[w])
    /\ \/ usage.status = "partial" /\ backend = "direct"
       \/ usage.invalidated

\* _allow_missing_window_restore().
MayRestore(usage) ==
    IF backend = "browser"
    THEN \A w \in Windows : usage.windows[w].left # Unknown
                                => usage.windows[w].due # Unknown
    ELSE usage.status # "partial"

\* _merge_window_with_last_success(): what is missing comes from the last
\* success while that has not expired: the window, its value or its reset.
MergeWindow(w, new, old, usage, last) ==
    LET over(window, of) == Expired(w, window, Stamp(of), usage.captured)
    IN  CASE ~Present(new) ->
               IF MayRestore(usage) /\ Present(old) /\ ~over(old, last)
               THEN old ELSE new
          [] Present(new) /\ ~Present(old) -> new
          [] Present(new) /\ Present(old) /\ new.inferred -> new
          [] Present(new) /\ Present(old) /\ ~new.inferred /\ new.left # Unknown ->
               IF new.due = Unknown /\ old.due # Unknown /\ ~over(old, last)
               THEN [new EXCEPT !.due = old.due] ELSE new
          [] Present(new) /\ Present(old) /\ ~new.inferred /\ new.left = Unknown ->
               IF ~MayRestore(usage) \/ over(new, usage) \/ over(old, last)
               THEN new
               ELSE [old EXCEPT !.due = new.due]

MergeInto(usage, last) ==
    LET merged == [w \in Windows |->
                     MergeWindow(w, usage.windows[w], last.windows[w], usage, last)]
    IN  IF merged = usage.windows THEN usage
        ELSE [usage EXCEPT !.windows = merged, !.stamp = Stamp(last), !.stale = TRUE]

Merge(usage, last) ==
    IF last = Nothing \/ usage.whose # last.whose \/ AuthoritativeEmpty(usage)
    THEN usage
    ELSE IF last.captured > usage.captured
    THEN IF \A w \in Windows : last.windows[w].left # Unknown THEN last
         ELSE MergeInto(last, usage)
    ELSE MergeInto(usage, last)

-----------------------------------------------------------------------------
\* The world and the fetches.

TimePasses ==
    /\ clock < MaxClock
    /\ clock' = clock + 1
    /\ UNCHANGED <<backend, login, fetches, drafts, current, snapshot, crossed,
                   unrest>>

SwitchLogin ==
    /\ unrest < MaxUnrest
    /\ login' = 1 - login
    /\ unrest' = unrest + 1
    /\ UNCHANGED <<clock, backend, fetches, drafts, current, snapshot, crossed>>

\* What the service says at a time; ahead is how far off the reset is.
Reading(offer, at, whose) ==
    IF offer.left = Unknown /\ offer.ahead = Unknown THEN Missing
    ELSE [left |-> offer.left,
          due |-> IF offer.ahead = Unknown THEN Unknown ELSE at + offer.ahead,
          relative |-> offer.relative, taken |-> at, whose |-> whose,
          inferred |-> FALSE]

\* An answer is complete when some window has a value and none lacks one; a
\* window that the plan does not have is no reason to call it partial.
StatusOf(windows) ==
    IF /\ \E w \in Windows : windows[w].left # Unknown
       /\ \A w \in Windows : Present(windows[w]) => windows[w].left # Unknown
    THEN "ok" ELSE "partial"

Usage(windows, at, whose) ==
    [captured |-> at, stamp |-> Unknown, status |-> StatusOf(windows),
     stale |-> FALSE, guarded |-> FALSE, invalidated |-> FALSE, whose |-> whose,
     windows |-> windows]

Answers ==
    {offered \in [Windows -> UNION {Offers[w] : w \in Windows}] :
        \A w \in Windows : offered[w] \in Offers[w]}

\* What an earlier version may have stored (KNOWN_INFERRED_INACTIVE_...): the
\* five hours that the plan did not report are all left, with no reset time.
\* Nothing in src/ infers such a window any more, but what is stored is read.
Inferred(at, whose) == [left |-> 100, due |-> Unknown, relative |-> FALSE,
                        taken |-> at, whose |-> whose, inferred |-> TRUE]
Inherited ==
    {usage \in {Usage([w \in Windows |-> IF w = "five_hour" THEN Inferred(0, 0)
                                         ELSE Reading(offered[w], 0, 0)], 0, 0) :
                offered \in Answers} : usage.status = "ok"}

Init ==
    /\ clock = 0
    /\ backend \in {"direct", "browser"}
    /\ login = 0
    /\ fetches = [f \in Fetchers |-> "idle"]
    /\ drafts = [f \in Fetchers |-> Nothing]
    /\ \/ current = Nothing
       \/ backend = "direct" /\ current \in Inherited
    /\ snapshot = current
    /\ crossed = FALSE
    /\ unrest = 0

Settled(usage) ==
    IF MayStabilize(usage, snapshot) /\ Retained(usage, snapshot) # {}
    THEN Stabilized(usage, snapshot) ELSE usage

\* An answer, of now or of the moment before, with the snapshot of now: between
\* the two, as before the save, others may save and the first login may have
\* been replaced.  A window that had expired when it was captured is no value.
Fetch(f) ==
    /\ fetches[f] = "idle"
    /\ \E at \in {clock, clock - 1} \cap 0 .. MaxClock :
       \E whose \in {login} \cup (IF at < clock THEN 0 .. login ELSE {}) :
       \E offered \in Answers :
          LET windows == [w \in Windows |-> Reading(offered[w], at, whose)]
          IN  drafts' = [drafts EXCEPT
                 ![f] = Settled(Expire(Usage(windows, at, whose), at))]
    /\ fetches' = [fetches EXCEPT ![f] = "settled"]
    /\ IF \A g \in Fetchers : fetches[g] = "idle" THEN UNCHANGED unrest
       ELSE unrest < MaxUnrest /\ unrest' = unrest + 1
    /\ UNCHANGED <<clock, backend, login, current, snapshot, crossed>>

\* _should_persist_snapshot(): a partial answer of the browser is no success.
Persists(usage) == usage.status = "ok" \/ backend = "direct"

\* _save_usage(): never over a later capture; a snapshot keeps what the new one
\* lacks.
SaveCurrent(usage) ==
    current' = IF current.captured > usage.captured THEN current ELSE usage

SaveSnapshot(usage) ==
    snapshot' = IF ~Persists(usage) \/ snapshot.captured > usage.captured
                THEN snapshot ELSE Merge(usage, snapshot)

\* Where the times of two fetches get mixed up: a usage with a retained value is
\* saved after another fetch has saved its own, or an older answer becomes the
\* snapshot beside such a usage, whose own snapshot a crash has prevented.
Crosses(f) ==
    \/ fetches[f] = "overtaken" /\ drafts[f].guarded
    \/ /\ snapshot' # snapshot
       /\ drafts[f].captured < current.captured /\ current.guarded

\* A crash may come between the two stores.
Save(f) ==
    /\ fetches[f] # "idle"
    /\ SaveCurrent(drafts[f])
    /\ \/ SaveSnapshot(drafts[f]) /\ UNCHANGED unrest
       \/ unrest < MaxUnrest /\ unrest' = unrest + 1 /\ UNCHANGED snapshot
    /\ fetches' = [g \in Fetchers |-> IF g = f THEN "idle"
                                      ELSE IF fetches[g] = "idle" THEN "idle"
                                      ELSE "overtaken"]
    /\ drafts' = [drafts EXCEPT ![f] = Nothing]
    /\ crossed' = (crossed \/ Crosses(f))
    /\ UNCHANGED <<clock, backend, login>>

Next ==
    \/ TimePasses
    \/ SwitchLogin
    \/ \E f \in Fetchers : Fetch(f) \/ Save(f)

-----------------------------------------------------------------------------
\* load_latest_usages(): what a reader is shown.

\* _invalidate_cached_usage(): values of another identity are not shown.
Invalidated(usage) ==
    [usage EXCEPT !.windows = [w \in Windows |-> Missing], !.status = "partial",
                  !.stamp = Unknown, !.stale = TRUE, !.invalidated = TRUE,
                  !.guarded = FALSE, !.whose = Unknown]

ForLogin(usage) ==
    IF usage = Nothing \/ usage.whose = login THEN usage ELSE Invalidated(usage)

Shown ==
    LET newest == ForLogin(current)
        last == ForLogin(snapshot)
    IN  IF newest # Nothing THEN Expire(Merge(newest, last), clock)
        ELSE IF last # Nothing THEN Expire(last, clock)
        ELSE Nothing

-----------------------------------------------------------------------------
Records ==
    [captured : 0 .. MaxClock, stamp : {Unknown} \cup (0 .. MaxClock),
     status : {"ok", "partial"}, stale : BOOLEAN, guarded : BOOLEAN,
     invalidated : BOOLEAN, whose : {Unknown, 0, 1},
     windows : [Windows -> [left : Int, due : Int, relative : BOOLEAN,
                            taken : Unknown .. MaxClock, whose : {Unknown, 0, 1},
                            inferred : BOOLEAN]]]

\* Type invariant of the stores and of the usages under way.
TypeOK ==
    /\ clock \in 0 .. MaxClock /\ backend \in {"direct", "browser"}
    /\ login \in {0, 1}
    /\ fetches \in [Fetchers -> {"idle", "settled", "overtaken"}]
    /\ \A f \in Fetchers : drafts[f] = Nothing \/ drafts[f] \in Records
    /\ current = Nothing \/ current \in Records
    /\ snapshot = Nothing \/ snapshot \in Records
    /\ crossed \in BOOLEAN
    /\ unrest \in 0 .. MaxUnrest

\* No value of the usage is older than the time given for its values.
Dated(usage) ==
    \A w \in Windows : usage.windows[w].left # Unknown
                           => usage.windows[w].taken >= Stamp(usage)

\* Safety.  What a reader is shown (bridge.py:2050-2140) is dated: no value in
\* it was taken before the time that is given for the values, however often
\* values were retained, restored and merged; it has not expired, but for the
\* inferred inactive window, which stays until an answer replaces it; and it was
\* taken for the login that auth.json now holds.  Excepted is what follows when
\* a usage with a retained value meets an overlapping fetch (Crosses): the merge
\* then gives its values the time of the other's snapshot.
ShownIsDated ==
    LET shown == Shown IN
    shown # Nothing =>
        /\ ~crossed => Dated(shown)
        /\ \A w \in Windows :
              LET window == shown.windows[w] IN
              /\ window.due # Unknown => window.due > clock
              /\ window.left # Unknown => window.whose = login
              /\ window.left # Unknown /\ window.due = Unknown /\ ~window.inferred
                     => window.taken + Length[w] > clock

-----------------------------------------------------------------------------
(* What makes the property inductive *)

Readings == [left : Nat \cup {Unknown}, ahead : Nat \cup {Unknown}, relative : BOOLEAN]

\* What the proof takes from the constants.
ValuesConstants ==
    /\ MaxClock \in Nat /\ MaxAge \in Nat /\ MaxUnrest \in Nat
    /\ \A w \in Windows : Length[w] \in Nat /\ Offers[w] \subseteq Readings

\* The time of a usage and of its values is past, and they are of its login.
PastAndOwn(usage) ==
    usage # Nothing =>
        /\ usage.captured <= clock /\ Stamp(usage) <= usage.captured
        /\ \A w \in Windows : usage.windows[w].left # Unknown
                                  => usage.windows[w].whose = usage.whose

\* A usage as a fetch left it: only retained values are old, and these have a
\* reset time.
AsFetched(usage) ==
    usage # Nothing =>
        /\ ~usage.guarded => usage.stamp = Unknown
        /\ \A w \in Windows :
              /\ usage.windows[w].left # Unknown
              /\ ~usage.guarded \/ usage.windows[w].due = Unknown
              => usage.windows[w].taken = usage.captured

\* Without a reset time, the stamp decides when a value expires.
OpenDated(usage) ==
    usage # Nothing =>
        \A w \in Windows :
            usage.windows[w].left # Unknown /\ usage.windows[w].due = Unknown
                => usage.windows[w].taken >= Stamp(usage)

\* The snapshot is no later than the last usage, and its values are not either.
SnapshotBehind ==
    snapshot # Nothing =>
        /\ current # Nothing /\ snapshot.captured <= current.captured
        /\ ~crossed /\ current.whose = snapshot.whose => Stamp(snapshot) <= Stamp(current)

\* What a draft has retained is of the snapshot, until somebody saves.
RetainedOfSnapshot(f) ==
    fetches[f] = "settled" /\ drafts[f].guarded =>
        /\ snapshot # Nothing /\ snapshot.captured <= drafts[f].captured
        /\ drafts[f].whose = snapshot.whose
        /\ drafts[f].stamp = Stamp(snapshot)

ValuesInv ==
    /\ TypeOK
    /\ drafts \in [Fetchers -> Records \cup {Nothing}]
    /\ \A f \in Fetchers :
          /\ fetches[f] # "idle" => drafts[f] # Nothing
          /\ PastAndOwn(drafts[f]) /\ AsFetched(drafts[f])
          /\ ~crossed /\ drafts[f] # Nothing => Dated(drafts[f])
          /\ ~crossed => RetainedOfSnapshot(f)
    /\ PastAndOwn(current) /\ AsFetched(current)
    /\ ~crossed /\ current # Nothing => Dated(current)
    /\ PastAndOwn(snapshot) /\ OpenDated(snapshot)
    /\ ~crossed /\ snapshot # Nothing => Dated(snapshot)
    /\ SnapshotBehind

=============================================================================

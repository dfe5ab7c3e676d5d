------------------------------ MODULE Watching ------------------------------
(***************************************************************************)
(* Watching an account (scheduler.py): the "watchdog" runs of a timer,     *)
(* which show a stored block without a fetch for as long as it lasts,      *)
(* while the loop of "watch" (WatchLoop) and the bridge save as well.      *)
(*                                                                         *)
(* Time goes by in ticks.  A reset time is the number of ticks that are    *)
(* left, and all stored ones go down together.  A response may be old when *)
(* it is judged.  One account, one identity and one generation of its      *)
(* state: AccountState has what their changes do to a stored block.        *)
(***************************************************************************)
EXTENDS Naturals, FiniteSetsExt

CONSTANT Span          \* the ticks a window lasts, by its name

Windows == DOMAIN Span
Unknown == 99                        \* a reset time that the response does not tell
Usage   == [Windows -> [full : BOOLEAN, left : 0 .. Max({Span[w] : w \in Windows}) \cup {Unknown}]]
None    == [word |-> "none"]

VARIABLES
  truth,             \* the account's windows at the provider
  failing,           \* fetches fail
  snapshot, current, \* the word of a stored record, and until when it blocks
  newer,             \* the current record is the later one
  step, held,        \* where the watchdog is, and the usage that it judges
  shown              \* what it has shown last

watchdogVars == <<step, held, shown>>
storeVars    == <<snapshot, current, newer>>
watchVars    == <<truth, failing, storeVars, watchdogVars>>

Init ==
  /\ truth = [w \in Windows |-> [full |-> FALSE, left |-> Span[w]]] /\ failing = FALSE
  /\ snapshot = None /\ current = None /\ newer = FALSE
  /\ step = "idle" /\ held = None /\ shown = "none"

\* _watchdog_windows, _window_is_exhausted: a value that cannot be read counts as full.
Exhausted(u) == {w \in Windows : u[w].full}
\* _block_state: until the last of the exhausted windows is reset; without an end when a
\* reset time is not known; no more when it has passed.
Until(u) == IF \E w \in Exhausted(u) : u[w].left = Unknown THEN Unknown
            ELSE Max({0} \cup {u[w].left : w \in Exhausted(u)})
\* _watch_core_resets_current: every window's reset is known and still to come.
Timely(u) == \A w \in Windows : u[w].left # 0 /\ u[w].left # Unknown
\* _apply_watchdog_block, for a usage without an error.
Judge(u) == IF Until(u) > 0 THEN [word |-> "blocked", until |-> Until(u)]
            ELSE IF Timely(u) THEN [word |-> "ok", until |-> 0]
            ELSE [word |-> "partial", until |-> 0]

Earlier(n)    == IF n \in {0, Unknown} THEN n ELSE n - 1
Sooner(r)     == IF r = None THEN r ELSE [r EXCEPT !.until = Earlier(@)]
WindowTick(w) == IF truth[w].left = 1 THEN [full |-> FALSE, left |-> Span[w]]
                 ELSE [truth[w] EXCEPT !.left = @ - 1]
Tick ==
  /\ truth' = [w \in Windows |-> WindowTick(w)]
  /\ snapshot' = Sooner(snapshot) /\ current' = Sooner(current)
  /\ held' = IF step = "judge" THEN [w \in Windows |-> [held[w] EXCEPT !.left = Earlier(@)]]
             ELSE IF step = "reuse" THEN Sooner(held) ELSE held
  /\ UNCHANGED <<failing, newer, step, shown>>

\* The account is used, or the provider frees a window before its time; and the provider
\* fails or answers again.
Consume ==
  /\ \E w \in Windows : truth' = [truth EXCEPT ![w].full = ~@]
  /\ UNCHANGED <<failing, storeVars, watchdogVars>>
Provider ==
  failing' = ~failing /\ UNCHANGED <<truth, storeVars, watchdogVars>>

\* What a fetch may bring: the windows as they are, or without their reset times.
Answers == {truth} \cup {[w \in Windows |-> [truth[w] EXCEPT !.left = Unknown]]}

\* Both records are saved unless the fetch failed: then the current one alone.
Save(r) ==
  /\ current' = r /\ newer' = (r.word = "error")
  /\ snapshot' = IF r.word = "error" THEN snapshot ELSE r

-----------------------------------------------------------------------------
\* watchdog: a stored block that lasts is shown again, unless a later current record of
\* this account says otherwise.
Active(r) == r # None /\ r.word = "blocked" /\ r.until \notin {0, Unknown}
NeverSuperseded == FALSE
Superseded == newer /\ current # None /\ current.word \notin {"blocked", "error"}

Look ==
  /\ step = "idle"
  /\ \/ Active(snapshot) /\ ~Superseded /\ step' = "reuse" /\ held' = snapshot
     \/ ~(Active(snapshot) /\ ~Superseded) /\ step' = "fetch" /\ held' = None
  /\ UNCHANGED <<truth, failing, storeVars, shown>>

Fetch ==
  /\ step = "fetch"
  /\ \/ /\ ~failing /\ step' = "judge" /\ held' \in Answers
        /\ UNCHANGED <<shown, storeVars>>
     \/ /\ failing /\ step' = "idle" /\ held' = None /\ shown' = "error"
        /\ Save([word |-> "error", until |-> 0])
  /\ UNCHANGED <<truth, failing>>

Evaluate ==
  /\ step = "judge" /\ step' = "idle" /\ held' = None
  /\ shown' = Judge(held).word /\ Save(Judge(held))
  /\ UNCHANGED <<truth, failing>>

\* A block that has run out in the meantime is fetched again; another one is shown.
Reuse ==
  /\ step = "reuse"
  /\ \/ Active(held) /\ step' = "idle" /\ shown' = "blocked" /\ held' = None
     \/ ~Active(held) /\ step' = "fetch" /\ held' = None /\ UNCHANGED shown
  /\ UNCHANGED <<truth, failing, storeVars>>

-----------------------------------------------------------------------------
\* A cycle of the loop of "watch" (WatchLoop) saves as it goes by: values of now, others,
\* or the failure.
LoopSaves ==
  /\ \/ ~failing /\ \E word \in {"ok", "partial"} : Save([word |-> word, until |-> 0])
     \/ failing /\ Save([word |-> "error", until |-> 0])
  /\ UNCHANGED <<truth, failing, watchdogVars>>

\* The bridge saves the current record of an account that is free, and the snapshot not.
Bridge ==
  /\ Exhausted(truth) = {} /\ current' = [word |-> "ok", until |-> 0] /\ newer' = TRUE
  /\ UNCHANGED <<truth, failing, snapshot, watchdogVars>>

Watchdog == Look \/ Fetch \/ Evaluate \/ Reuse
Next == Tick \/ Consume \/ Provider \/ Watchdog \/ LoopSaves \/ Bridge

\* The timer starts the watchdog again, and a fetch ends by its timeout.  Nothing makes
\* the user, the provider, the loop or the bridge act, and time may stand still.
Fairness == WF_watchVars(Watchdog)
Spec == Init /\ [][Next]_watchVars /\ Fairness
-----------------------------------------------------------------------------
TypeOK ==
  /\ truth \in Usage /\ step \in {"idle", "reuse", "fetch", "judge"}
  /\ step = "judge" => held \in Usage

\* No stored block, or one that has run out or has no end; and a later record without one.
Over == snapshot = None \/ snapshot.word # "blocked" \/ snapshot.until \in {0, Unknown}
FreeNow == newer /\ current # None /\ current.word = "ok"

\* Once the account stays free and the provider answers, the watchdog stops showing a
\* block, provided that the stored one runs out or that the bridge saves a later record
\* of the free account: no block is shown beyond its end, nor long against better
\* knowledge, whatever a run that fetched before still saves.
BlockEnds ==
  <>[](Exhausted(truth) = {} /\ ~failing) /\ []<>(Over \/ FreeNow) => <>[](shown # "blocked")
=============================================================================

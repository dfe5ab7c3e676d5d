------------------------------- MODULE MCLive --------------------------------
(***************************************************************************)
(* What must happen some day, for model checking: the jobs of ProfileJobs, *)
(* the watching of an account and the loop of "watch", which share no      *)
(* state, side by side. A behaviour belongs to one of the three, which the *)
(* initial state chooses, and the others stand still.                      *)
(***************************************************************************)
EXTENDS ProfileJobs

CONSTANTS
    Applet,                  \* the client that polls and cancels, and deletes no account
    Interval, MaxFailures

Spans == [five_hour |-> 1, weekly |-> 2]

VARIABLES
    part,                                                     \* one of the three
    truth, failing, snapshot, current, newer, step, held, shown,   \* of Watching
    loop, failures, elapsed, delay, stop, writable                 \* of WatchLoop

Watching == INSTANCE Watching WITH Span <- Spans
Looping  == INSTANCE WatchLoop

watched  == <<truth, failing, snapshot, current, newer, step, held, shown>>
looped   == <<loop, failures, elapsed, delay, stop, writable>>
liveVars == <<part, vars, watched, looped>>

InJobs(A) ==
    /\ part = "jobs" /\ A /\ UNCHANGED <<part, watched, looped>>
    /\ kpc'[Applet] # "deleteLock"
InWatching(A) == part = "watching" /\ A /\ UNCHANGED <<part, vars, looped>>
InLoop(A) == part = "loop" /\ A /\ UNCHANGED <<part, vars, watched>>

LiveInit ==
    /\ part \in {"jobs", "watching", "loop"}
    /\ Init /\ Watching!Init
    /\ \/ part = "loop" /\ Looping!Init
       \/ /\ part # "loop" /\ loop = "ended" /\ stop = TRUE      \* nobody watches
          /\ failures = 0 /\ elapsed = 0 /\ delay = 0 /\ writable = TRUE
LiveNext == InJobs(Next) \/ InWatching(Watching!Next) \/ InLoop(Looping!Next)

\* Watchers, clients and workers as their modules say; for the loop, time passes, its
\* process is scheduled, and a fetch ends by its timeout.
LiveFairness ==
    /\ \A j \in Jobs : WF_liveVars(InJobs(WorkerStep(j)))
    /\ \A k \in Clients : WF_liveVars(InJobs(ClientStep(k)))
    /\ \A k \in Clients, j \in Jobs : SF_liveVars(InJobs(ProfileJobStatus(k, j)))
    /\ WF_liveVars(InWatching(Watching!Watchdog))
    /\ WF_liveVars(InLoop(Looping!Tick))
    /\ WF_liveVars(InLoop(Looping!Loop))

LiveSpec == LiveInit /\ [][LiveNext]_liveVars /\ LiveFairness

-----------------------------------------------------------------------------
\* The properties of the parts; TrackedEnds is that of ProfileJobs.

\* Once the account stays free and the provider answers, the watchdog stops showing a
\* block that is over or superseded (scheduler.py watchdog).
BlockEnds == Watching!BlockEnds

\* The loop of "watch" goes on through failures until a signal or a failure that cannot be
\* printed ends it (scheduler.py watch).
LoopLives == Looping!LoopLives

=============================================================================

------------------------------ MODULE WatchLoop ------------------------------
(***************************************************************************)
(* The loop of "watch" (scheduler.py): it fetches the usage of the         *)
(* accounts, prints it and waits, again and again, until a signal stops    *)
(* it.  A cycle that fails is printed as well, and tried again after a     *)
(* delay that doubles up to the interval.                                  *)
(*                                                                         *)
(* Time goes by in ticks, also while a cycle fetches and prints.  What a   *)
(* cycle saves is left to Watching.                                        *)
(***************************************************************************)
EXTENDS Naturals, FiniteSetsExt

CONSTANTS Interval,    \* the ticks from the start of a cycle to that of the next
          MaxFailures  \* the failures in a row beyond which the delay stays the same

VARIABLES
  loop,       \* where the loop is: at its condition ("top"), fetching, printing the usage or
              \* a failure, waiting, "ended", or left by an exception
  failures,   \* consecutive_failures
  elapsed,    \* the ticks since the cycle has started
  delay,      \* what is left of the wait
  stop,       \* stop_event
  writable    \* the output can be written

loopVars == <<loop, failures, elapsed, delay, stop, writable>>
Running  == loop \notin {"ended", "exception"}

Init ==
  /\ loop = "top" /\ failures = 0 /\ elapsed = 0 /\ delay = 0
  /\ stop = FALSE /\ writable = TRUE

Tick ==
  /\ Running
  /\ elapsed' = IF loop \in {"fetch", "show", "report"} THEN Min({elapsed + 1, Interval}) ELSE elapsed
  /\ delay' = IF delay > 0 THEN delay - 1 ELSE 0
  /\ UNCHANGED <<loop, failures, stop, writable>>

\* A signal; and the reader of the output closes it, or reads it again.
Signal ==
  /\ Running /\ stop' = TRUE
  /\ UNCHANGED <<loop, failures, elapsed, delay, writable>>
Output ==
  /\ Running /\ writable' = ~writable
  /\ UNCHANGED <<loop, failures, elapsed, delay, stop>>

\* Leaving the loop; its counters are locals.
Leave(how) ==
  /\ loop' = how /\ failures' = 0 /\ elapsed' = 0 /\ delay' = 0
  /\ UNCHANGED <<stop, writable>>

\* The mutant of Fetched: an exception of the fetch that nothing catches.
FetchedUncaught ==
  /\ loop = "fetch"
  /\ \/ loop' = "show" /\ UNCHANGED <<failures, elapsed, delay, stop, writable>>
     \/ Leave("exception")

Start ==
  /\ loop = "top" /\ ~stop /\ loop' = "fetch" /\ elapsed' = 0
  /\ UNCHANGED <<failures, delay, stop, writable>>

\* What _watch_cycle_is_healthy makes of the answers: values of now, without an error,
\* for the very accounts that were asked for are shown; all others raise.
Verdicts == {"show", "report"}

\* fetch_all returns, and its answers are judged; or it raises.
Fetched ==
  /\ loop = "fetch" /\ loop' \in Verdicts
  /\ UNCHANGED <<failures, elapsed, delay, stop, writable>>

\* The usage is printed, and the rest of the interval is the delay; that it cannot be
\* printed is a failure of the cycle as well.
Show ==
  /\ loop = "show"
  /\ \/ writable /\ loop' = "wait" /\ failures' = 0 /\ delay' = Interval - elapsed
     \/ ~writable /\ loop' = "report" /\ UNCHANGED <<failures, delay>>
  /\ UNCHANGED <<elapsed, stop, writable>>

\* The except handler prints the failure and sets the delay after that.  What it raises
\* itself is caught by nobody.
Retry(n) == Min({Interval, 2 ^ (n - 1)})
Report ==
  /\ loop = "report"
  /\ \/ /\ writable /\ loop' = "wait" /\ failures' = Min({failures + 1, MaxFailures})
        /\ delay' = Retry(failures') /\ UNCHANGED <<elapsed, stop, writable>>
     \/ ~writable /\ Leave("exception")

\* stop_event.wait(delay): the loop goes on when the time is over, and ends on the signal.
Wake ==
  /\ loop = "wait" /\ delay = 0 /\ ~stop /\ loop' = "top"
  /\ UNCHANGED <<failures, elapsed, delay, stop, writable>>
End ==
  /\ loop \in {"top", "wait"} /\ stop /\ Leave("ended")

Loop == Start \/ Fetched \/ Show \/ Report \/ Wake \/ End
Next == Tick \/ Signal \/ Output \/ Loop

\* Time passes, the loop's process is scheduled, and a fetch ends by its timeout.
Fairness == WF_loopVars(Tick) /\ WF_loopVars(Loop)
Spec == Init /\ [][Next]_loopVars /\ Fairness
-----------------------------------------------------------------------------
\* The loop starts cycle after cycle, and no more than an interval waits between two of
\* them, through any failures until it is told to stop, whenever that is: then it starts
\* no other and ends.  One thing alone ends it otherwise: that neither a cycle's usage nor
\* its failure can be printed, so that the handler of the exception raises another one.
LoopLives ==
  /\ []<>(loop \in {"fetch", "ended", "exception"}) /\ [](delay <= Interval)
  /\ [](loop = "ended" => stop)
  /\ [][/\ stop /\ loop # "fetch" => loop' # "fetch"
        /\ Running /\ loop' = "exception" => loop = "report" /\ ~writable]_loopVars
=============================================================================

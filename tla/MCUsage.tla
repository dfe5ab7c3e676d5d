------------------------------ MODULE MCUsage -------------------------------
(***************************************************************************)
(* The stored usage of an account, for model checking: AccountState with a *)
(* fetcher and an editor that resets it, and beside it what values a usage *)
(* holds and what its history says.                                        *)
(*                                                                         *)
(* The last two run by themselves: a behaviour belongs to one part, which  *)
(* the initial state chooses. Their variables take the places v1, v2, ...  *)
(* in the order in which the modules declare them.                         *)
(***************************************************************************)
EXTENDS AccountState

CONSTANTS
    Readers, MaxAge, MaxTime, MaxUnrest,
    Horizon, Cycle, Gap, Stale, Lookbacks, MaxSamples, MaxCounter,
    MaxUpheavals

VARIABLES
    part,          \* the part that this behaviour is about
    v1, v2, v3, v4, v5, v6, v7, v8, v9

places == <<v1, v2, v3, v4, v5, v6, v7, v8, v9>>

\* Offers of the service: a value with a reset, without one, or no window.
Offer(left, ahead) == [left |-> left, ahead |-> ahead, relative |-> FALSE]
NoOffer == 0 - 1
SomeOffers == [five_hour |-> {Offer(NoOffer, NoOffer), Offer(0, 1), Offer(1, NoOffer)},
               weekly |-> {Offer(0, 3), Offer(1, 3)}]
Lengths == [five_hour |-> 2, weekly |-> 3]

\* The values in a usage.
Values == INSTANCE UsageValues WITH
    Fetchers <- Readers, MaxClock <- MaxTime, Offers <- SomeOffers, Length <- Lengths,
    clock <- v1, backend <- v2, login <- v3, fetches <- v4, drafts <- v5, current <- v6,
    snapshot <- v7, crossed <- v8, unrest <- v9
ASSUME ValuesAssumption == Values!ValuesConstants

\* History and consumption.
History == INSTANCE UsageHistory WITH
    clock <- v1, counter <- v2, reset <- v3, begun <- v4, previous <- v5, early <- v6,
    database <- v7, samples <- v8, upheavals <- v9
ASSUME HistoryAssumption == History!HistoryConstants

-----------------------------------------------------------------------------
UsageInit ==
    /\ Init
    /\ \/ part = "reset" /\ v1 = 0 /\ v2 = 0 /\ v3 = 0 /\ v4 = 0 /\ v5 = 0 /\ v6 = 0
          /\ v7 = 0 /\ v8 = 0 /\ v9 = 0
       \/ part = "values" /\ Values!Init
       \/ part = "history" /\ History!Init

UsageNext ==
    \/ part = "reset" /\ Next /\ UNCHANGED <<part, places>>
    \/ part = "values" /\ Values!Next /\ UNCHANGED <<part, vars>>
    \/ part = "history" /\ History!Next /\ UNCHANGED <<part, vars>>

UsageSpec == UsageInit /\ [][UsageNext]_<<part, vars, places>>

-----------------------------------------------------------------------------
\* Type invariant of the parts beside AccountState.
PartsTypeOK ==
    /\ part = "values" => Values!TypeOK
    /\ part = "history" => History!TypeOK

\* scheduler.py, state.py, bridge.py: no value that a reader is shown is older
\* than the time given for it, expired, or of another login.
ShownIsDated == part = "values" => Values!ShownIsDated

\* consumption.py, history.py: the consumption that is reported is what was
\* used in the present cycle between the first and the last observation.
ConsumptionIsTrue == part = "history" => History!ConsumptionIsTrue

=============================================================================

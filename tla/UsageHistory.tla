---------------------------- MODULE UsageHistory ----------------------------
(***************************************************************************)
(* The history of one limit window of one account (history.py) and what is *)
(* computed from it (consumption.py): the consumption of a lookback and    *)
(* the evidence for the projection to the next reset.                      *)
(*                                                                         *)
(* The window's counter rises, falls back to zero when its cycle ends, and *)
(* is sampled now and then.  A sample carries the counter and the reset    *)
(* time the service names: the coming one, for a moment after a rollover   *)
(* still the one that has passed, or none.  A cycle usually ends when it   *)
(* is due; a credit may end it early, and the due time of a cycle that has *)
(* not been used may slide.                                                *)
(*                                                                         *)
(* A call of the program opens the database, does one thing and closes it; *)
(* the source lock makes these calls exclude each other, so each is one    *)
(* action.  A crash may interrupt the creation of the database.            *)
(***************************************************************************)
EXTENDS Integers, FiniteSets

CONSTANTS
    Horizon,        \* bound: the time at which the world stops
    Cycle,          \* length of a cycle of the window, more than Gap + 1
    Gap,            \* max_gap_seconds
    Stale,          \* stale_after_seconds
    Lookbacks,      \* the lookbacks that are asked for
    MaxSamples,     \* MAX_HISTORY_SAMPLES
    MaxCounter,     \* bound: values of the counter
    MaxUpheavals    \* bound: early resets, omitted reset times and crashes

Unknown == -1       \* reset_at is None

VARIABLES
    clock,      \* the time
    counter,    \* the service's counter: used percent
    reset,      \* the time at which the present cycle is due to end
    begun,      \* the time at which the present cycle began
    previous,   \* the due time of the cycle before, Unknown for the first
    early,      \* history variable: the cycles that began ahead of schedule
    database,   \* the database: "none", "empty", "half" or "ready"
    samples,    \* its table of samples, keyed by the time of capture
    upheavals   \* history variable: early resets, omissions and crashes so far

vars == <<clock, counter, reset, begun, previous, early, database,
          samples, upheavals>>
world == <<clock, counter, reset, begun, previous, early>>

Init ==
    /\ clock = 0 /\ counter = 0 /\ reset = Cycle
    /\ begun = 0 /\ previous = Unknown /\ early = {}
    /\ database = "none" /\ samples = {}
    /\ upheavals = 0

-----------------------------------------------------------------------------
\* The service.

NewCycle(at) ==
    /\ counter' = 0 /\ begun' = at /\ reset' = at + Cycle /\ previous' = reset

TimePasses ==
    /\ clock < Horizon
    /\ clock' = clock + 1
    /\ \/ clock + 1 < reset /\ UNCHANGED <<counter, reset, begun, previous>>
       \/ clock + 1 = reset /\ NewCycle(reset)
    /\ UNCHANGED <<early, database, samples, upheavals>>

CounterRises ==
    /\ counter < MaxCounter
    /\ counter' = counter + 1
    /\ UNCHANGED <<clock, reset, begun, previous, early, database,
                   samples, upheavals>>

\* The due time of a cycle nobody has used yet moves with the clock.
ResetSlides ==
    /\ counter = 0 /\ reset < clock + Cycle
    /\ reset' = clock + Cycle
    /\ UNCHANGED <<clock, counter, begun, previous, early, database,
                   samples, upheavals>>

EarlyReset ==
    /\ upheavals < MaxUpheavals
    /\ counter > 0 /\ begun < clock
    /\ NewCycle(clock)
    /\ early' = early \cup {clock}
    /\ upheavals' = upheavals + 1
    /\ UNCHANGED <<clock, database, samples>>

-----------------------------------------------------------------------------
\* Recording: usage_samples_from_usage(), record_many().

\* Just after the rollover the service may still name the reset that passed.
Lingers ==
    /\ previous # Unknown /\ begun \notin early
    /\ \/ clock = begun /\ counter = 0
       \/ clock = begun + 1

\* A current, available usage yields one sample of the window.
UsageSample(due) ==
    [at |-> clock, used |-> counter, due |-> due, cycle |-> begun,
     current |-> due = reset]

\* _iter_usage_samples(): what a fetched usage says of the window.
SamplesOfUsage ==
    {UsageSample(reset)} \cup (IF Lingers THEN {UsageSample(previous)} ELSE {})

\* _connect(): a database whose schema is incomplete is refused, a new or
\* empty one is given its schema.
Opens == database # "half"

\* The row of the same window and time is overwritten, never doubled.
Upsert(sample) == {row \in samples : row.at # sample.at} \cup {sample}

Record ==
    /\ Opens
    /\ \/ \E sample \in SamplesOfUsage :
             samples' = Upsert(sample) /\ UNCHANGED upheavals
       \/ /\ upheavals < MaxUpheavals
          /\ samples' = Upsert(UsageSample(Unknown))
          /\ upheavals' = upheavals + 1
    /\ database' = "ready"
    /\ UNCHANGED world

\* A refused or failed write loses the batch: it is rolled back and only
\* logged.  Opening may have created the schema by then.
RecordFails ==
    /\ database' \in {database} \cup (IF Opens THEN {"ready"} ELSE {})
    /\ UNCHANGED <<world, samples, upheavals>>

\* A plausible bug: every opening writes the schema anew.
CrashWhileRecreating ==
    /\ upheavals < MaxUpheavals
    /\ database' \in {"empty", "half"}
    /\ upheavals' = upheavals + 1
    /\ UNCHANGED <<world, samples>>

\* The process dies, or the disk is full, while it opens a new database: the
\* file is created first, then the schema statement by statement, its version
\* last.
CrashWhileCreating ==
    /\ upheavals < MaxUpheavals
    /\ database \in {"none", "empty"}
    /\ database' \in {"empty", "half"}
    /\ upheavals' = upheavals + 1
    /\ UNCHANGED <<world, samples>>

\* prune(): what is older than a given time goes.
Prune ==
    /\ database = "ready"
    /\ \E before \in {clock - lookback : lookback \in Lookbacks} :
          /\ \E row \in samples : row.at < before
          /\ samples' = {row \in samples : row.at >= before}
    /\ UNCHANGED <<world, database, upheavals>>

-----------------------------------------------------------------------------
\* samples_for_consumption() and samples(): what a query reads.

Latest(rows) == CHOOSE row \in rows : \A other \in rows : other.at <= row.at
Earliest(rows) == CHOOSE row \in rows : \A other \in rows : other.at >= row.at

\* The newest rows, at most limit of them.
Newest(rows, limit) ==
    {row \in rows : Cardinality({other \in rows : other.at > row.at}) < limit}

\* The last row up to the start as baseline, and the rows after it.
SamplesForConsumption(start) ==
    LET baseline == {row \in samples : row.at <= start}
        later == {row \in samples : row.at > start}
    IN  IF baseline = {} THEN Newest(later, MaxSamples)
        ELSE Newest(later, MaxSamples - 1) \cup {Latest(baseline)}

-----------------------------------------------------------------------------
\* calculate_consumption().

Before(rows, row) == Latest({other \in rows : other.at < row.at})

\* A plausible bug: only a reset time that changed is evidence of a reset.
ResetMoved(before, after) ==
    \/ before.used > 0 /\ after.used = 0
    \/ /\ after.due # Unknown
       /\ before.at < after.due /\ after.due <= after.at
       /\ after.due # before.due

\* _reset_boundary_at(): the evidence that a cycle ended between two samples.
\* (A sample names its generation only together with its reset time, so another
\* generation alone is never the evidence.)
ResetBoundary(before, after) ==
    \/ before.used > 0 /\ after.used = 0
    \/ /\ after.due # Unknown
       /\ \/ before.at <= before.due /\ before.due <= after.at
          \/ /\ before.at < after.due /\ after.due <= after.at
             /\ after.due # before.due

\* The observations of the lookback: its baseline and what follows.
Observations(read, start) ==
    LET baseline == {row \in read : row.at <= start}
    IN  {row \in read : row.at >= start}
            \cup (IF baseline = {} THEN {} ELSE {Latest(baseline)})

\* The consumption command: it reads at least as far back as the lookback, for
\* a baseline may be asked for that lies farther back.
Asked(reach, lookback) ==
    Observations(SamplesForConsumption(clock - reach), clock - lookback)

\* The loop over the pairs of observations, for the pair of a sample and the one
\* before it: a reset starts a new cycle, of which the sample is the usage; a
\* rise is added, a fall is not.
Pair(rows, consumed, row) ==
    LET before == Before(rows, row)
    IN  IF ResetBoundary(before, row) THEN row.used
        ELSE IF row.used >= before.used THEN consumed + (row.used - before.used)
        ELSE consumed

\* The pair that ends at a time, if there is one.
PairAt(rows, consumed, time) ==
    LET ends == {row \in rows \ {Earliest(rows)} : row.at = time}
    IN  IF ends = {} THEN consumed ELSE Pair(rows, consumed, Latest(ends))

Consumed(rows) ==
    LET total[time \in 0 .. clock] ==
            PairAt(rows, IF time = 0 THEN 0 ELSE total[time - 1], time)
    IN  total[clock]

Coverage(rows, start) ==
    LET followers == rows \ {Earliest(rows)}
        falls(row) == /\ ~ResetBoundary(Before(rows, row), row)
                      /\ row.used < Before(rows, row).used
        partial == \/ Earliest(rows).at > start
                   \/ \E row \in followers :
                         \/ row.at - Before(rows, row).at > Gap
                         \/ falls(row)
    IN  IF Cardinality(rows) < 2 THEN "insufficient"
        ELSE IF clock - Latest(rows).at > Stale THEN "stale"
        ELSE IF partial THEN "partial"
        ELSE "complete"

-----------------------------------------------------------------------------
\* calculate_tracker_evidence(): the samples the projection is made from, {}
\* when there is none.

\* Everything up to the last sample of another generation is cut off.
SameGeneration(rows) ==
    LET others == {row \in rows : row.due # Latest(rows).due}
    IN  IF others = {} THEN rows ELSE {row \in rows : row.at > Latest(others).at}

TrackerEvidence ==
    LET rows == SameGeneration(Newest(samples, MaxSamples))
        last == Latest(rows)
        follows(row) == /\ row.at - Before(rows, row).at <= Gap
                        /\ row.used > Before(rows, row).used
    IN  IF \/ samples = {}
           \/ last.due = Unknown
           \/ last.due <= last.at
           \/ \E row \in rows \ {Earliest(rows)} : ~follows(row)
        THEN {}
        ELSE rows

-----------------------------------------------------------------------------
Next ==
    \/ TimePasses
    \/ CounterRises
    \/ ResetSlides
    \/ EarlyReset
    \/ Record
    \/ RecordFails
    \/ CrashWhileCreating
    \/ Prune

-----------------------------------------------------------------------------
Rows == [at : 0 .. Horizon, used : 0 .. MaxCounter,
         due : {Unknown} \cup (0 .. Horizon + Cycle), cycle : 0 .. Horizon,
         current : BOOLEAN]

\* Type invariant of the window, the database and its rows.
TypeOK ==
    /\ clock \in 0 .. Horizon /\ counter \in 0 .. MaxCounter
    /\ reset \in clock + 1 .. clock + Cycle
    /\ begun \in 0 .. clock /\ previous \in {Unknown} \cup (0 .. reset)
    /\ early \subseteq 0 .. clock
    /\ database \in {"none", "empty", "half", "ready"}
    /\ samples \subseteq Rows
    /\ samples # {} => database = "ready"
    /\ upheavals \in 0 .. MaxUpheavals

\* The samples are ones from which a reset can be told: none without a reset
\* time, and no cycle among them that a credit began before it was due.
Regular(rows) ==
    /\ \A row \in rows : row.due # Unknown
    /\ early \cap (Earliest(rows).cycle + 1 .. Latest(rows).cycle) = {}

\* What was really used, in the cycle of the last sample, since the first one.
TrueConsumption(rows) ==
    LET first == Earliest(rows)
        last == Latest(rows)
    IN  last.used - (IF first.cycle = last.cycle THEN first.used ELSE 0)

\* Safety.  The consumption that calculate_consumption() reports
\* (consumption.py:348-371, "A reset starts a new limit cycle.  Keep only usage
\* from that cycle") is what was really used in the present cycle between the
\* first and the last observation, whatever samples were missed, lost, pruned
\* or cut off by the limit: without condition when every sample names its own
\* cycle's reset, and whenever the coverage is reported as complete when some
\* still named the reset that had passed.  And the evidence for a projection
\* never mixes two cycles.
ConsumptionIsTrue ==
    /\ \A reach, lookback \in Lookbacks :
          LET rows == Asked(reach, lookback)
          IN  /\ lookback <= reach
              /\ Cardinality(rows) >= 2
              /\ Regular(rows)
              /\ \/ \A row \in rows : row.current
                 \/ Coverage(rows, clock - lookback) = "complete"
              => Consumed(rows) = TrueConsumption(rows)
    /\ LET rows == TrackerEvidence
       IN  rows # {} /\ Regular(rows) => \A row \in rows : row.cycle = Latest(rows).cycle

-----------------------------------------------------------------------------
(* What makes the property inductive *)

\* What the proof takes from the constants; a gap that is tolerated is shorter
\* than a cycle without the moment in which the passed reset is still named.
HistoryConstants ==
    /\ Horizon \in Nat /\ Cycle \in Nat /\ Gap \in Nat /\ Stale \in Int
    /\ MaxSamples \in Nat /\ MaxCounter \in Nat /\ MaxUpheavals \in Nat
    /\ Lookbacks \subseteq Nat
    /\ Cycle > Gap + 1

\* The window: a cycle is no shorter than Cycle, unless a credit ends it.
WindowInv ==
    /\ reset >= begun + Cycle
    /\ previous # Unknown /\ begun \notin early => previous = begun

\* One sample: it was taken in its cycle, and it names the reset that cycle was
\* then due to have, none, or, at the begin of the cycle, the reset just passed.
SampleInv(row) ==
    /\ row.cycle <= row.at /\ row.at <= clock
    /\ row.current => row.due > row.at
    /\ ~row.current /\ row.due # Unknown =>
           /\ row.due = row.cycle /\ row.at <= row.cycle + 1
           /\ row.at = row.cycle => row.used = 0

\* A sample and a later cycle, with no credit between them: the sample's reset
\* came first, and the cycles are apart.
Apart(row, cycle) ==
    row.cycle < cycle /\ early \cap (row.cycle + 1 .. cycle) = {} =>
        /\ row.current => row.due <= cycle
        /\ cycle >= row.cycle + Cycle

\* A sample and the window: within a cycle the counter only rises, and the reset
\* stands once the cycle is used.
SampleOfWindow(row) ==
    /\ row.cycle <= begun /\ Apart(row, begun)
    /\ row.cycle = begun =>
           /\ row.used <= counter
           /\ row.current => row.due <= reset
           /\ row.current /\ row.used > 0 => row.due = reset

\* A sample and a later one.
InOrder(row, later) ==
    /\ row.cycle <= later.cycle /\ Apart(row, later.cycle)
    /\ row.cycle = later.cycle =>
           /\ row.used <= later.used
           /\ row.current /\ row.used > 0 => row.due > later.at

HistoryInv ==
    /\ TypeOK
    /\ WindowInv
    /\ \A row \in samples : SampleInv(row) /\ SampleOfWindow(row)
    /\ \A row, other \in samples :
          /\ row.at = other.at => row = other
          /\ row.at < other.at => InOrder(row, other)

=============================================================================

---------------------------- MODULE ControlCall ----------------------------
(***************************************************************************)
(* Calls of the control service and their resolver processes               *)
(* (masterjet_client.py).                                                  *)
(*                                                                         *)
(* Several threads call at once, over a local socket or over HTTPS.  A     *)
(* call has one deadline for everything up to the answer.  For each HTTPS  *)
(* connection it starts a process that looks the host up, since a look-up  *)
(* cannot be interrupted; the processes that exist are limited by slots.   *)
(* A process that does not stop in time is handed, with its slot,          *)
(* to a reaper thread, which sleeps until it has something to reap.  An    *)
(* answer that demands a step-up is repeated once over a new connection.   *)
(*                                                                         *)
(* External: the host look-up, the network and the service.                *)
(***************************************************************************)
EXTENDS Naturals, FiniteSets

CONSTANTS Calls,         \* threads that call
          MaxWorkers,    \* _ResolverProcessReaper: maximum
          MaxLookups     \* bound: resolver processes that are ever started

Lookups == 1..MaxLookups
None    == 0

VARIABLES
  call,                  \* where each call is
  step,                  \* its attempt: 0, or 1 with the step-up
  worker,                \* its resolver process
  late,                  \* calls whose deadline has passed
  code,                  \* what each call returned last
  alive,                 \* processes that run
  begun,                 \* number of processes started
  pending, reserved,     \* of the reaper: processes to reap, slots taken
  reaper,                \* where its thread is
  wake,                  \* its event
  batch                  \* processes of the present round

callVars == <<call, step, worker, late, code>>
poolVars == <<pending, reserved>>
reapVars == <<reaper, wake, batch>>
vars == <<call, step, worker, late, code, alive, begun, pending, reserved, reaper, wake, batch>>

Holding == {c \in Calls : call[c] \in {"spawn", "poll", "stop", "give", "keep"}}

Init ==
  /\ call = [c \in Calls |-> "idle"] /\ step = [c \in Calls |-> 0]
  /\ worker = [c \in Calls |-> None] /\ late = {}
  /\ code = [c \in Calls |-> "none"]
  /\ alive = {} /\ begun = 0 /\ pending = {} /\ reserved = 0
  /\ reaper = "unborn" /\ wake = FALSE /\ batch = {}

Go(c, to)   == call' = [call EXCEPT ![c] = to]
Code(c, r)  == code' = [code EXCEPT ![c] = r]
End(c, r)   == Go(c, "idle") /\ Code(c, IF c \in late THEN "timeout" ELSE r)

\* _request: the deadline starts.
Begin(c) ==
  /\ call[c] = "idle"
  /\ \E transport \in {"local", "open"} : Go(c, transport)
  /\ Code(c, "none")
  /\ step' = [step EXCEPT ![c] = 0] /\ late' = late \ {c}
  /\ UNCHANGED <<worker, alive, begun>> /\ UNCHANGED poolVars /\ UNCHANGED reapVars

\* _UnixTransport.request: the endpoint and its server are those expected, the
\* request is sent, one line comes back.
LocalExchange(c) ==
  /\ call[c] = "local"
  /\ \/ c \notin late /\ Go(c, "decode") /\ UNCHANGED code
     \/ End(c, "unavailable")
  /\ UNCHANGED <<step, worker, late, alive, begun>> /\ UNCHANGED poolVars /\ UNCHANGED reapVars

\* _decode_response, after the deadline has stopped to matter.
Decode(c) ==
  /\ call[c] = "decode"
  /\ Go(c, "idle") /\ \E r \in {"answered", "problem", "invalid"} : Code(c, r)
  /\ UNCHANGED <<step, worker, late, alive, begun>> /\ UNCHANGED poolVars /\ UNCHANGED reapVars

\* _Deadline, _DeadlineGuard
Expire(c) ==
  /\ call[c] # "idle" /\ c \notin late
  /\ late' = late \cup {c}
  /\ UNCHANGED <<call, step, worker, code, alive, begun>>
  /\ UNCHANGED poolVars /\ UNCHANGED reapVars

\* reserve(): the first one starts the thread.
Reserve(c) ==
  /\ call[c] = "open" /\ reserved < MaxWorkers
  /\ reserved' = reserved + 1 /\ Go(c, "spawn")
  /\ reaper' = IF reaper = "unborn" THEN "asleep" ELSE reaper
  /\ UNCHANGED <<step, worker, late, code, alive, begun, pending, wake, batch>>

\* No slot, or no thread.
ReserveFails(c) ==
  /\ call[c] = "open" /\ (reserved = MaxWorkers \/ reaper = "unborn")
  /\ End(c, "unavailable")
  /\ UNCHANGED <<step, worker, late, alive, begun>> /\ UNCHANGED poolVars /\ UNCHANGED reapVars

\* _resolve_host: process.start() succeeds, or fails, or there is not even a process.
Spawn(c) ==
  /\ call[c] = "spawn" /\ begun < MaxLookups
  /\ begun' = begun + 1 /\ worker' = [worker EXCEPT ![c] = begun + 1]
  /\ \/ alive' = alive \cup {begun + 1} /\ Go(c, "poll") /\ UNCHANGED code
     \/ UNCHANGED alive /\ Go(c, "stop") /\ Code(c, "unavailable")
  /\ UNCHANGED <<step, late>> /\ UNCHANGED poolVars /\ UNCHANGED reapVars

NoProcess(c) ==
  /\ call[c] = "spawn"
  /\ worker' = [worker EXCEPT ![c] = None] /\ Go(c, "give") /\ Code(c, "unavailable")
  /\ UNCHANGED <<step, late, alive, begun>> /\ UNCHANGED poolVars /\ UNCHANGED reapVars

\* The addresses, a failure, or nothing before the deadline.
Poll(c) ==
  /\ call[c] = "poll"
  /\ \/ c \notin late /\ UNCHANGED code
     \/ Code(c, IF c \in late THEN "timeout" ELSE "unavailable")
  /\ Go(c, "stop")
  /\ UNCHANGED <<step, worker, late, alive, begun>> /\ UNCHANGED poolVars /\ UNCHANGED reapVars

\* A process that has sent its answer, or crashed.
Exit(p) ==
  /\ p \in alive /\ alive' = alive \ {p}
  /\ UNCHANGED callVars /\ UNCHANGED <<begun>> /\ UNCHANGED poolVars /\ UNCHANGED reapVars

\* _stop_process: join, terminate, kill.  It may not work, and what became of
\* a process may not be known.
Stop(c) ==
  /\ call[c] = "stop"
  /\ \/ alive' = alive \ {worker[c]} /\ Go(c, "give") /\ UNCHANGED code
     \/ /\ alive' \in {alive, alive \ {worker[c]}} /\ Go(c, "keep")
        /\ Code(c, IF code[c] = "timeout" THEN "timeout" ELSE "unavailable")
  /\ UNCHANGED <<step, worker, late, begun>> /\ UNCHANGED poolVars /\ UNCHANGED reapVars

Resolved(c) == IF code[c] = "none" THEN Go(c, "connect") /\ UNCHANGED code
               ELSE End(c, code[c])

\* _cleanup_resolver: the slot is free again, ...
Release(c) ==
  /\ call[c] = "give"
  /\ reserved' = IF reserved > 0 THEN reserved - 1 ELSE 0
  /\ worker' = [worker EXCEPT ![c] = None] /\ Resolved(c)
  /\ UNCHANGED <<step, late, alive, begun, pending>> /\ UNCHANGED reapVars

\* Mutant of Defer: the slot is given back all the same.
DeferAndRelease(c) ==
  /\ call[c] = "keep"
  /\ pending' = pending \cup {worker[c]} /\ wake' = TRUE /\ reserved' = reserved - 1
  /\ worker' = [worker EXCEPT ![c] = None] /\ Resolved(c)
  /\ UNCHANGED <<step, late, alive, begun, reaper, batch>>

\* ... or passes to the reaper with the process.
Defer(c) ==
  /\ call[c] = "keep"
  /\ pending' = pending \cup {worker[c]} /\ wake' = TRUE
  /\ worker' = [worker EXCEPT ![c] = None] /\ Resolved(c)
  /\ UNCHANGED <<step, late, alive, begun, reserved, reaper, batch>>

\* _open_https_connection: one of the addresses, or none.
Connect(c) ==
  /\ call[c] = "connect"
  /\ \/ c \notin late /\ Go(c, "exchange") /\ UNCHANGED code
     \/ End(c, "unavailable")
  /\ UNCHANGED <<step, worker, late, alive, begun>> /\ UNCHANGED poolVars /\ UNCHANGED reapVars

\* _HttpsTransport.request: an answer, a demand for a step-up, or a failure.  The
\* guard's timer aborts the connection at the deadline.
Exchange(c) ==
  /\ call[c] = "exchange"
  /\ \/ c \notin late /\ step[c] = 0 /\ Go(c, "open") /\ UNCHANGED code
        /\ step' = [step EXCEPT ![c] = 1]
     \/ c \notin late /\ Go(c, "decode") /\ UNCHANGED <<code, step>>
     \/ \E r \in {"unavailable", "invalid"} : End(c, r) /\ UNCHANGED step
  /\ UNCHANGED <<worker, late, alive, begun>> /\ UNCHANGED poolVars /\ UNCHANGED reapVars

-----------------------------------------------------------------------------
\* The reaper, _run.

ReaperMoves == UNCHANGED callVars /\ UNCHANGED begun

Wake ==
  /\ reaper = "asleep" /\ wake
  /\ reaper' = "clear"
  /\ ReaperMoves /\ UNCHANGED <<alive, wake, batch>> /\ UNCHANGED poolVars

\* wait(0.05) between two rounds
Nap ==
  /\ reaper = "nap" /\ reaper' = "clear"
  /\ ReaperMoves /\ UNCHANGED <<alive, wake, batch>> /\ UNCHANGED poolVars

Clear ==
  /\ reaper = "clear" /\ wake' = FALSE /\ reaper' = "round"
  /\ ReaperMoves /\ UNCHANGED <<alive, batch>> /\ UNCHANGED poolVars

Round ==
  /\ reaper = "round"
  /\ batch' = pending /\ reaper' = IF pending = {} THEN "asleep" ELSE "reap"
  /\ ReaperMoves /\ UNCHANGED <<alive, wake>> /\ UNCHANGED poolVars

\* _reap_once
Reap(p) ==
  /\ reaper = "reap" /\ p \in batch
  /\ batch' = batch \ {p}
  /\ \/ alive' = alive \ {p} /\ pending' = pending \ {p} /\ reserved' = reserved - 1
     \/ alive' \in {alive, alive \ {p}} /\ UNCHANGED poolVars
  /\ ReaperMoves /\ UNCHANGED <<reaper, wake>>

RoundEnds ==
  /\ reaper = "reap" /\ batch = {}
  /\ reaper' = IF pending = {} THEN "asleep" ELSE "nap"
  /\ ReaperMoves /\ UNCHANGED <<alive, wake, batch>> /\ UNCHANGED poolVars

Next ==
  \/ \E c \in Calls :
       \/ Begin(c) \/ LocalExchange(c) \/ Decode(c) \/ Expire(c) \/ Reserve(c) \/ ReserveFails(c) \/ Spawn(c) \/ NoProcess(c)
       \/ Poll(c) \/ Stop(c) \/ Release(c) \/ Defer(c) \/ Connect(c) \/ Exchange(c)
  \/ \E p \in Lookups : Exit(p) \/ Reap(p)
  \/ Wake \/ Nap \/ Clear \/ Round \/ RoundEnds

Spec == Init /\ [][Next]_vars

-----------------------------------------------------------------------------
TypeOK ==
  /\ call \in [Calls -> {"idle", "open", "spawn", "poll", "stop", "give", "keep",
                         "connect", "exchange", "local", "decode"}]
  /\ step \in [Calls -> 0..1] /\ worker \in [Calls -> Lookups \cup {None}]
  /\ late \subseteq Calls
  /\ code \in [Calls -> {"none", "timeout", "unavailable", "problem", "answered", "invalid"}]
  /\ alive \subseteq Lookups /\ begun \in 0..MaxLookups
  /\ pending \subseteq Lookups /\ reserved \in 0..MaxWorkers
  /\ reaper \in {"unborn", "asleep", "clear", "round", "reap", "nap"}
  /\ wake \in BOOLEAN /\ batch \subseteq Lookups

\* No resolver process is ever lost: each one that runs belongs to a call or
\* waits for the reaper, each of these has exactly one slot, and the reaper
\* never goes to sleep over one (reserve, _cleanup_resolver, defer, _run).
NoWorkerIsLost ==
  /\ alive \subseteq {worker[c] : c \in Holding} \cup pending
  /\ reserved = Cardinality(Holding) + Cardinality(pending)
  /\ reaper \in {"asleep", "unborn"} /\ ~wake => pending = {}
-----------------------------------------------------------------------------
(* What makes the property inductive *)

\* Assumption: there are only so many threads.
CallConstants == IsFiniteSet(Calls)

ValuesOK ==
  /\ call \in [Calls -> {"idle", "open", "spawn", "poll", "stop", "give", "keep",
                         "connect", "exchange", "local", "decode"}]
  /\ worker \in [Calls -> 0..begun] /\ begun \in Nat /\ reserved \in Nat
  /\ alive \cup pending \subseteq 1..begun /\ wake \in BOOLEAN

\* A call has a process from its start until its slot is given away; it is no other's.
OwnWorker ==
  \A c \in Calls :
    /\ call[c] \in {"poll", "stop", "keep"} =>
         /\ worker[c] # None /\ worker[c] \notin pending
         /\ \A d \in Calls \ {c} : worker[d] # worker[c]
    /\ call[c] = "give" => worker[c] \notin alive
    /\ worker[c] # None => call[c] \in {"poll", "stop", "give", "keep"}

Owned         == \A p \in alive : p \in pending \/ \E c \in Holding : worker[c] = p
SlotsMatch    == reserved = Cardinality(Holding) + Cardinality(pending)
BatchWaits    == batch \subseteq pending
NeverSleepsOn == reaper \in {"asleep", "unborn"} /\ ~wake => pending = {}

CallInv == ValuesOK /\ OwnWorker /\ Owned /\ SlotsMatch /\ BatchWaits /\ NeverSleepsOn
=============================================================================

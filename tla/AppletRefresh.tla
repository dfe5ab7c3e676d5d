--------------------------- MODULE AppletRefresh ---------------------------
(***************************************************************************)
(* The panel applet's own fetches (applet.js): at most one primary command *)
(* runs, `codex-usage latest` or `codex-usage once`; what is asked for     *)
(* meanwhile is remembered and drained by the next answer; repeated        *)
(* failures open a circuit breaker, repeated exceptions enter the safe     *)
(* mode.                                                                   *)
(*                                                                         *)
(* Cinnamon runs one callback at a time, so a callback is an agenda of     *)
(* steps that nothing else interrupts.  Most steps may throw: an exception *)
(* drops the steps up to the next handler on the agenda, a `finally', a    *)
(* `catch' or the guard _runSafely puts around the callback.               *)
(*                                                                         *)
(* The auxiliary commands (AppletAux) appear here only by the refreshes    *)
(* they ask for.                                                           *)
(***************************************************************************)
EXTENDS Naturals, Sequences

CONSTANT MaxAgenda     \* bound: steps on the agenda when an auxiliary command fails inside a callback

InternalFailureLimit == 3
RefreshFailureLimit == 3
Handlers == {"finallyLatest", "finallyOnce", "drain", "catch", "guard", "boot"}
Actions == Handlers \cup {"throw", "internal", "safe", "reset", "timer", "load", "latest",
                          "fresh", "show", "spawnOnce", "once", "settle"}

VARIABLES
  request,      \* the primary command: "none", "latest" or "once"
  after,        \* the running latest's refreshAfter
  refreshing,   \* _refreshing
  waits,        \* what the next drain starts
  health,       \* "works", "safe" or "removed"
  internal,     \* exceptions within the window
  refused,      \* _refreshFailures
  circuit,      \* _circuitOpenUntil: unset, in the future, or past
  owner,        \* autoRefresh, and whether the applet is the one that polls
  agenda        \* the rest of the running callback

settings == <<circuit, owner>>
failures == <<internal, refused>>
refreshVars == <<request, after, refreshing, waits, health, failures, settings, agenda>>

NoWaits == [cache |-> FALSE, cacheAfter |-> FALSE, fresh |-> FALSE, reactivation |-> FALSE]
To(action, flag) == [do |-> action, flag |-> flag]
Do(action) == To(action, FALSE)

Init ==
  /\ request = "none" /\ after = FALSE /\ refreshing = FALSE /\ waits = NoWaits
  /\ health = "works" /\ internal = 0 /\ refused = 0 /\ circuit = "closed"
  /\ owner \in [auto : BOOLEAN, polls : BOOLEAN]
  /\ agenda = <<Do("timer"), To("load", TRUE), Do("boot")>>

-----------------------------------------------------------------------------
\* What is left of a callback after an exception in front of steps.
Thrown(steps) ==
  LET first == CHOOSE i \in DOMAIN steps :
                 /\ steps[i].do \in Handlers
                 /\ \A j \in 1..(i - 1) : steps[j].do \notin Handlers
      outer == SubSeq(steps, first + 1, Len(steps))
  IN CASE steps[first].do = "guard" -> <<Do("internal")>> \o outer
       [] steps[first].do = "boot" -> <<Do("safe")>> \o outer
       [] steps[first].do = "catch" -> <<Do("reset"), Do("throw")>> \o outer
       [] OTHER -> <<steps[first], Do("throw")>> \o outer

Rest == Tail(agenda)
At(action) == agenda # <<>> /\ Head(agenda).do = action
Flag == Head(agenda).flag
Idle == agenda = <<>> /\ health # "removed"
Continue == agenda' = Rest
MayThrow == agenda' \in {Rest, Thrown(Rest)}

EnterSafeMode ==
  IF health = "works"
  THEN /\ health' = "safe" /\ refreshing' = FALSE /\ waits' = NoWaits /\ request' = "none"
  ELSE UNCHANGED <<health, refreshing, waits, request>>

\* The answer of a command, and the drain behind it.
CallbackOf(command, flag) == <<To(command, flag), Do("drain")>>

\* The process starts; or the program cannot be found, and the callback runs
\* inside its caller; or the process cannot start, and it runs guarded.
SpawnUsageCommand(command, flag) ==
  \/ /\ request' = command /\ agenda' = Rest
     /\ after' = (command = "latest" /\ flag)
  \/ /\ \E late \in {command = "latest" /\ flag} :
          \/ agenda' = CallbackOf(command, late) \o Rest
          \/ agenda' = CallbackOf(command, late) \o <<Do("guard")>> \o Rest
     /\ UNCHANGED <<request, after>>

-----------------------------------------------------------------------------
\* The steps of callbacks.
LoadCached ==
  /\ At("load")
  /\ CASE health # "works" -> Continue /\ UNCHANGED <<request, after, waits>>
       [] health = "works" /\ (refreshing \/ request # "none") ->
            /\ waits' = [waits EXCEPT !.cache = TRUE, !.cacheAfter = IF Flag THEN TRUE ELSE @]
            /\ Continue /\ UNCHANGED <<request, after>>
       [] OTHER -> SpawnUsageCommand("latest", Flag) /\ UNCHANGED waits
  /\ UNCHANGED <<refreshing, health, failures, settings>>

LatestAnswers ==
  /\ At("latest")
  /\ agenda' \in IF health = "safe" THEN {Rest}
                 ELSE {<<To("finallyLatest", Flag)>> \o Rest,
                       Thrown(<<To("finallyLatest", Flag)>> \o Rest)}
  /\ UNCHANGED <<request, after, refreshing, waits, health, failures, settings>>

\* The remembered fetch; then the auxiliary state is refreshed, which asks for
\* a fetch at once when the service's status command cannot be started.
FinallyLatest ==
  /\ At("finallyLatest")
  /\ waits' = [waits EXCEPT !.fresh = IF Flag /\ owner.auto /\ owner.polls THEN TRUE ELSE @]
  /\ \/ Continue
     \/ /\ health = "works" /\ Len(agenda) < MaxAgenda
        /\ agenda' = <<Do("fresh"), Do("guard")>> \o Rest
  /\ UNCHANGED <<request, after, refreshing, health, failures, settings>>

RefreshFresh ==
  /\ At("fresh")
  /\ CASE refreshing \/ health # "works" ->
            Continue /\ UNCHANGED <<refreshing, waits, refused, circuit>>
       [] ~refreshing /\ health = "works" /\ request # "none" ->
            /\ waits' = [waits EXCEPT !.fresh = TRUE]
            /\ Continue /\ UNCHANGED <<refreshing, refused, circuit>>
       [] ~refreshing /\ health = "works" /\ request = "none" /\ circuit = "open" ->
            /\ agenda' = <<Do("load")>> \o Rest
            /\ UNCHANGED <<refreshing, waits, refused, circuit>>
       [] OTHER ->
            /\ refreshing' = TRUE /\ circuit' = "closed"
            /\ refused' = IF circuit = "expired" THEN 0 ELSE refused
            /\ agenda' = <<Do("show"), Do("spawnOnce"), Do("catch")>> \o Rest
            /\ UNCHANGED waits
  /\ UNCHANGED <<request, after, health, internal, owner>>

Show ==
  /\ At("show") /\ MayThrow
  /\ UNCHANGED <<request, after, refreshing, waits, health, failures, settings>>

SpawnOnce ==
  /\ At("spawnOnce") /\ SpawnUsageCommand("once", FALSE)
  /\ UNCHANGED <<refreshing, waits, health, failures, settings>>

OnceAnswers ==
  /\ At("once")
  /\ refreshing' = FALSE
  /\ waits' = [waits EXCEPT !.reactivation = FALSE]
  /\ agenda' = <<To("settle", Flag), To("finallyOnce", waits.reactivation)>> \o Rest
  /\ UNCHANGED <<request, after, health, failures, settings>>

Settle ==
  /\ At("settle") /\ MayThrow
  /\ refused' = IF Flag THEN 0 ELSE refused + 1
  /\ circuit' = IF ~Flag /\ refused + 1 >= RefreshFailureLimit THEN "open" ELSE circuit
  /\ UNCHANGED <<request, after, refreshing, waits, health, internal, owner>>

FinallyOnce ==
  /\ At("finallyOnce")
  /\ agenda' = (IF Flag /\ health = "works" THEN <<Do("fresh")>> ELSE <<>>) \o Rest
  /\ UNCHANGED <<request, after, refreshing, waits, health, failures, settings>>

DrainOnlyFresh ==
  IF waits.fresh THEN /\ waits' = [waits EXCEPT !.fresh = FALSE]
                      /\ agenda' = <<Do("fresh")>> \o Rest
                 ELSE Continue /\ UNCHANGED waits
DrainPrimaryRequests ==
  IF waits.cache THEN /\ waits' = [waits EXCEPT !.cache = FALSE, !.cacheAfter = FALSE]
                      /\ agenda' = <<To("load", waits.cacheAfter)>> \o Rest
                 ELSE DrainOnlyFresh
Drain ==
  /\ At("drain")
  /\ IF health # "works" \/ refreshing \/ request # "none"
     THEN Continue /\ UNCHANGED waits ELSE DrainPrimaryRequests
  /\ UNCHANGED <<request, after, refreshing, health, failures, settings>>

\* The timers are set anew; one that cannot be set is a reason for safe mode.
ScheduleTimer ==
  /\ At("timer")
  /\ \/ Continue /\ UNCHANGED <<request, refreshing, waits, health>>
     \/ Continue /\ EnterSafeMode
  /\ UNCHANGED <<after, failures, settings>>

RecordInternalFailure ==
  /\ At("internal") /\ Continue
  /\ internal' = IF internal < InternalFailureLimit THEN internal + 1 ELSE internal
  /\ IF internal + 1 >= InternalFailureLimit THEN EnterSafeMode
     ELSE UNCHANGED <<health, refreshing, waits, request>>
  /\ UNCHANGED <<after, refused, settings>>

StartFails ==
  /\ At("safe") /\ Continue /\ EnterSafeMode
  /\ UNCHANGED <<after, failures, settings>>

CatchFresh ==
  /\ At("reset") /\ Continue /\ refreshing' = FALSE
  /\ UNCHANGED <<request, after, waits, health, failures, settings>>

Rethrow ==
  /\ At("throw") /\ agenda' = Thrown(Rest)
  /\ UNCHANGED <<request, after, refreshing, waits, health, failures, settings>>

LeaveHandler ==
  /\ At("catch") \/ At("guard") \/ At("boot")
  /\ Continue
  /\ UNCHANGED <<request, after, refreshing, waits, health, failures, settings>>

-----------------------------------------------------------------------------
\* What starts a callback.
Guarded(steps) == agenda' = steps \o <<Do("guard")>>

PrimaryAnswers ==
  /\ Idle /\ request # "none"
  /\ request' = "none"
  /\ \E ok \in BOOLEAN :
       Guarded(CallbackOf(request, IF request = "latest" THEN after ELSE ok))
  /\ UNCHANGED <<after, refreshing, waits, health, failures, settings>>

\* The refresh timer, a click on the panel.
Refresh ==
  /\ Idle /\ health = "works"
  /\ Guarded(<<IF owner.polls THEN Do("fresh") ELSE Do("load")>>)
  /\ UNCHANGED <<request, after, refreshing, waits, health, failures, settings>>

\* The menu's refresh, and the commands that changed what is shown.
RefreshAsked ==
  /\ Idle /\ health = "works" /\ Guarded(<<Do("fresh")>>)
  /\ UNCHANGED <<request, after, refreshing, waits, health, failures, settings>>

CommandChanged ==
  /\ Idle /\ health = "works" /\ Guarded(<<To("load", TRUE)>>)
  /\ UNCHANGED <<request, after, refreshing, waits, health, failures, settings>>

\* A setting or the service's status decides anew who polls; with the first
\* status the applet may fetch at once.
OwnerChanges ==
  /\ Idle /\ health = "works"
  /\ owner' \in [auto : BOOLEAN, polls : BOOLEAN]
  /\ \E first \in BOOLEAN :
       Guarded(<<Do("timer")>> \o IF first THEN <<Do("fresh")>> ELSE <<>>)
  /\ UNCHANGED <<request, after, refreshing, waits, health, failures, circuit>>

\* The overview shows a backend the last values were not fetched with.
BackendMismatch ==
  /\ Idle /\ health = "works"
  /\ IF refreshing THEN waits' = [waits EXCEPT !.fresh = TRUE] /\ UNCHANGED agenda
                   ELSE Guarded(<<Do("fresh")>>) /\ UNCHANGED waits
  /\ UNCHANGED <<request, after, refreshing, health, failures, settings>>

Reactivated ==
  /\ Idle /\ health = "works"
  /\ IF refreshing THEN waits' = [waits EXCEPT !.reactivation = TRUE] /\ UNCHANGED agenda
                   ELSE Guarded(<<Do("fresh")>>) /\ UNCHANGED waits
  /\ UNCHANGED <<request, after, refreshing, health, failures, settings>>

OtherFailure ==
  /\ Idle /\ agenda' = <<Do("internal")>>
  /\ UNCHANGED <<request, after, refreshing, waits, health, failures, settings>>

TimePasses ==
  /\ Idle
  /\ \/ internal' = 0 /\ UNCHANGED circuit
     \/ circuit = "open" /\ circuit' = "expired" /\ UNCHANGED internal
  /\ UNCHANGED <<request, after, refreshing, waits, health, refused, owner, agenda>>

LeaveSafeModeAndRetry ==
  /\ Idle /\ health = "safe"
  /\ health' = "works" /\ internal' = 0 /\ refused' = 0 /\ circuit' = "closed"
  /\ Guarded(<<Do("timer"), Do("fresh")>>)
  /\ UNCHANGED <<request, after, refreshing, waits, owner>>

Removed ==
  /\ Idle /\ health' = "removed"
  /\ refreshing' = FALSE /\ request' = "none"
  /\ waits' = [NoWaits EXCEPT !.reactivation = waits.reactivation]
  /\ UNCHANGED <<after, failures, settings, agenda>>

Next ==
  \/ LoadCached \/ LatestAnswers \/ FinallyLatest \/ RefreshFresh \/ Show \/ SpawnOnce
  \/ OnceAnswers \/ Settle \/ FinallyOnce \/ Drain \/ ScheduleTimer
  \/ RecordInternalFailure \/ StartFails \/ CatchFresh \/ Rethrow \/ LeaveHandler
  \/ PrimaryAnswers \/ Refresh \/ RefreshAsked \/ CommandChanged \/ OwnerChanges
  \/ BackendMismatch \/ Reactivated \/ OtherFailure \/ TimePasses
  \/ LeaveSafeModeAndRetry \/ Removed

Spec == Init /\ [][Next]_refreshVars

-----------------------------------------------------------------------------
\* The values the variables can have.
TypeOK ==
  /\ request \in {"none", "latest", "once"} /\ after \in BOOLEAN /\ refreshing \in BOOLEAN
  /\ waits \in [DOMAIN NoWaits -> BOOLEAN]
  /\ health \in {"works", "safe", "removed"}
  /\ internal \in 0..InternalFailureLimit /\ refused \in 0..RefreshFailureLimit
  /\ circuit \in {"closed", "open", "expired"}
  /\ owner \in [auto : BOOLEAN, polls : BOOLEAN]
  /\ \A i \in DOMAIN agenda : agenda[i] \in [do : Actions, flag : BOOLEAN]

\* When no callback runs, nothing the applet remembered waits for an event that
\* will not come: it shows a refresh only while `once' runs, and a remembered
\* fetch has a command whose answer drains it.  Whatever threw, whatever could
\* not be started, and in whatever order the refreshes were asked for.
NothingWaitsInVain ==
  agenda = <<>> /\ health = "works" =>
    /\ refreshing => request = "once"
    /\ waits.cache \/ waits.fresh \/ waits.reactivation => request # "none"

-----------------------------------------------------------------------------
(* What makes the property inductive *)

Steps == [do : Actions, flag : BOOLEAN]

\* What may wait behind the running step.
Later == {"finallyOnce", "drain", "catch", "guard", "boot", "throw", "timer", "load", "fresh"}
AllLater(steps) == \A i \in DOMAIN steps : steps[i].do \in Later
Behind(steps)   == \A i \in DOMAIN steps : i # 1 => steps[i].do \in Later
Guards(steps)   == steps # <<>> /\ steps[Len(steps)].do \in {"guard", "boot"}
Drains(steps)   == \E i \in DOMAIN steps : steps[i].do = "drain"

\* A step with a guard behind it, and nothing but later steps.
Plain(do) == do \notin {"guard", "boot", "internal", "safe", "show"}

ValuesOK ==
  /\ request \in {"none", "latest", "once"} /\ after \in BOOLEAN /\ refreshing \in BOOLEAN
  /\ health \in {"works", "safe", "removed"}
  /\ waits \in [cache : BOOLEAN, cacheAfter : BOOLEAN, fresh : BOOLEAN, reactivation : BOOLEAN]
  /\ agenda \in Seq(Steps)

\* A callback ends at the guard around it, and everything it may throw is caught.
AgendaEnds ==
  \/ agenda = <<>> \/ agenda \in {<<Do("internal")>>, <<Do("safe")>>}
  \/ Guards(agenda) /\ AllLater(Rest) /\ ~At("show")
  \/ /\ Guards(agenda) /\ At("show") /\ Len(agenda) > 2
     /\ agenda[2].do = "spawnOnce" /\ agenda[3].do = "catch"
     /\ \A i \in DOMAIN agenda : i > 2 => agenda[i].do \in Later
HeadsOK ==
  /\ At("show") \/ At("spawnOnce") => health = "works" /\ request = "none"
  /\ At("latest") \/ At("finallyLatest") => Drains(agenda)
  /\ At("finallyLatest") => health = "works"

\* The refresh that is shown is one, and what is remembered will be started.
RefreshIsReal ==
  refreshing => /\ health = "works"
                /\ \/ request = "once" \/ At("once") \/ At("reset")
                   \/ At("show") \/ At("spawnOnce")
WaitsAreDue ==
  health = "works" =>
    /\ waits.cache \/ waits.fresh => request # "none" \/ Drains(agenda) \/ At("load")
    /\ waits.reactivation => request = "once" \/ At("once")
Stopped ==
  /\ health = "safe" => request = "none" /\ ~(waits.cache \/ waits.fresh \/ waits.reactivation)
  /\ health = "removed" => agenda = <<>>

\* Three refusals in a row have opened the circuit, and no refresh is under way then;
\* there is only one at a time.
UnderWay == {"show", "spawnOnce", "once", "settle"}
RefusalsOK ==
  /\ internal \in 0..InternalFailureLimit /\ refused \in 0..RefreshFailureLimit
  /\ circuit \in {"closed", "open", "expired"}
  /\ owner \in [auto : BOOLEAN, polls : BOOLEAN]
  /\ refused = RefreshFailureLimit =>
       circuit # "closed" /\ request # "once" /\ ~\E x \in UnderWay : At(x)
  /\ At("once") \/ At("settle") => request # "once"

RefreshInv == ValuesOK /\ AgendaEnds /\ HeadsOK /\ RefreshIsReal /\ WaitsAreDue /\ Stopped
=============================================================================

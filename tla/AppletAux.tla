----------------------------- MODULE AppletAux -----------------------------
(***************************************************************************)
(* The panel applet's auxiliary commands (applet.js): one process at a     *)
(* time serves the service status, the account overview, account and       *)
(* backend changes, profile jobs, device logins and consumption queries.   *)
(* A request that finds account or backend changes pending is deferred,    *)
(* any other one displaces the process that runs, whose callback is never  *)
(* called: what that process stood for has to be put right then.           *)
(*                                                                         *)
(* A callback runs to its end: it is an agenda of steps.  The order and    *)
(* the repetitions in the queues of deferred requests and of jobs to poll  *)
(* are left out: they are sets.  What the commands answer is any answer:   *)
(* the configuration and the jobs may change behind the applet.  Primary   *)
(* fetches are AppletRefresh, and the one-time migration of the accounts'  *)
(* rows is an edit of the settings like others.                            *)
(***************************************************************************)
EXTENDS Naturals, FiniteSets, Sequences

CONSTANTS Users,          \* the accounts
          Nobody,         \* no account
          MaxDeferred,    \* MAX_DEFERRED_AUX_REQUESTS
          MaxQueries,     \* bound: backend changes and consumption queries waiting
          MaxPlan,        \* bound: steps left in a callback when a process cannot start
          MaxAsked        \* bound: what the user, the settings and the timers ask for

NoProcess == [kind |-> "none", account |-> Nobody, force |-> FALSE]
Request(kind, account, force) == [kind |-> kind, account |-> account, force |-> force]
NoTimer == [account |-> Nobody, force |-> FALSE, cancel |-> FALSE]
Edits == [action : {"add", "edit", "delete"}, account : Users]
NoEdit == [action |-> "none", account |-> Nobody]

VARIABLES
  running,       \* the process and what it was asked
  deferred,      \* _backendAuxQueue
  edits,         \* account changes: the one under way, the queue, rows that wait for it
  backends,      \* backend changes: one under way, how many wait
  queries,       \* consumption queries: _consumptionCurrent, how many wait
  desk,          \* jobs and logins
  forgotten,     \* history: logins whose mark was left behind by a failing menu or the safe mode
  safeMode,
  asked,         \* how much was asked for
  plan           \* the rest of the running callback

queueVars == <<deferred, edits, backends, queries>>
otherVars == <<forgotten, safeMode, asked>>
auxVars == <<running, queueVars, otherVars, desk, plan>>

Init ==
  /\ running = NoProcess /\ deferred = {}
  /\ edits = [now |-> NoEdit, queue |-> <<>>, later |-> FALSE]
  /\ backends = [now |-> FALSE, left |-> 0]
  /\ queries = [now |-> FALSE, left |-> 0]
  /\ forgotten = {} /\ safeMode = FALSE /\ asked = 0
  /\ desk = [jobs |-> {}, active |-> {}, live |-> Nobody, resume |-> {},
             polling |-> Nobody, command |-> Nobody, current |-> FALSE, timer |-> NoTimer,
             deleting |-> {}, loaded |-> FALSE, wanted |-> FALSE]
  /\ plan = <<>>

-----------------------------------------------------------------------------
Step(action) == [do |-> action, of |-> NoProcess, flag |-> FALSE]
Spawn(kind, account, force, first) ==
  [do |-> "spawn", of |-> Request(kind, account, force), flag |-> first]
Answer(request, ok) == [do |-> "answer", of |-> request, flag |-> ok]
JobStep(action, account, force) == [do |-> action, of |-> Request("job", account, force), flag |-> FALSE]
After == <<Step("drain"), Step("resume")>>

Later == Tail(plan)
Now(action) == plan # <<>> /\ Head(plan).do = action
Of == Head(plan).of
Then(steps) == plan' = steps \o Later
\* A menu that cannot be built throws: the rest of its callback is not run.
MenuFails == ~safeMode /\ Then(<<>>)
Quiet == plan = <<>>
Ask == Quiet /\ asked < MaxAsked /\ asked' = asked + 1

Changing == \/ edits.now # NoEdit \/ edits.queue # <<>>
            \/ backends.now \/ backends.left > 0

Without(account, who) == IF account = who THEN Nobody ELSE account

\* _cancelAuxProcess: what the displaced process stood for is put right.
KeepLogin(d) == [d EXCEPT !.live = Nobody]
DropLogin(d) ==
  [d EXCEPT !.live = Nobody,
            !.active = IF d.live \in d.jobs THEN @ ELSE @ \ {d.live}]
Displaced(d) ==
  LET account == IF d.command # Nobody THEN d.command ELSE d.polling
  IN CASE running.kind \in {"poll", "cancel"} ->
            [d EXCEPT !.resume = @ \cup ({account} \cap d.jobs),
                      !.polling = Nobody, !.command = Nobody,
                      !.current = FALSE, !.timer = NoTimer]
       [] running.kind = "jobs" -> [d EXCEPT !.loaded = FALSE]
       [] running.kind = "login" -> DropLogin(d)
       [] OTHER -> d

\* _spawnAuxJson: deferred, refused because the queue is full, or started in
\* the place of what runs; a process that cannot start answers at once.
SpawnAux ==
  /\ Now("spawn")
  /\ IF ~Head(plan).flag /\ Changing
     THEN /\ IF Of \in deferred \/ Cardinality(deferred) < MaxDeferred
             THEN deferred' = deferred \cup {Of} /\ Then(<<>>)
             ELSE Then(<<Answer(Of, FALSE)>>) /\ UNCHANGED deferred
          /\ UNCHANGED <<running, desk>>
     ELSE /\ desk' = Displaced(desk)
          /\ \/ running' = Of /\ Then(<<>>)
             \/ /\ Len(plan) <= MaxPlan
                /\ running' = NoProcess /\ Then(<<Answer(Of, FALSE)>> \o After)
          /\ UNCHANGED deferred
  /\ UNCHANGED <<edits, backends, queries, otherVars>>

\* The process ends, or its time is over.
AuxAnswers ==
  /\ Quiet /\ running # NoProcess
  /\ running' = NoProcess
  /\ \E ok \in BOOLEAN : plan' = <<Answer(running, ok)>> \o After
  /\ UNCHANGED <<queueVars, otherVars, desk>>

\* The callback of a request of this kind is at the head of the plan.
Answered(kind) == Now("answer") /\ Of.kind = kind
Ok == Head(plan).flag

-----------------------------------------------------------------------------
\* Service status, overview, routing.
StatusAnswered ==
  /\ Answered("status")
  /\ \/ Then(<<Spawn("enable", Nobody, FALSE, FALSE)>>)
     \/ Then(<<Step("continue")>>)
  /\ UNCHANGED <<running, queueVars, otherVars, desk>>

EnableAnswered ==
  /\ Answered("enable") /\ Then(<<Step("continue")>>)
  /\ UNCHANGED <<running, queueVars, otherVars, desk>>

ContinueStatus ==
  /\ Now("continue") /\ Then(<<Step("overview")>>)
  /\ desk' = [desk EXCEPT !.wanted = TRUE]
  /\ UNCHANGED <<running, queueVars, otherVars>>

LoadAccountBackends ==
  /\ Now("overview")
  /\ Then(IF safeMode \/ Changing THEN <<>> ELSE <<Spawn("overview", Nobody, FALSE, FALSE)>>)
  /\ UNCHANGED <<running, queueVars, otherVars, desk>>

OverviewAnswered ==
  /\ Answered("overview")
  /\ Then(IF Ok THEN <<Spawn("routing", Nobody, FALSE, FALSE), Step("pendingRows"), Step("loadJobs")>>
           ELSE <<>>)
  /\ UNCHANGED <<running, queueVars, otherVars, desk>>

\* The routing status, and commands of the menu.
OtherAnswered ==
  /\ Answered("routing") \/ Answered("other")
  /\ Then(<<>>)
  /\ UNCHANGED <<running, queueVars, otherVars, desk>>

-----------------------------------------------------------------------------
\* Account changes: the deletions first, then the rows that are new or differ.
Queues ==
  {q \in UNION {[1..n -> Edits] : n \in 0..Cardinality(Users)} :
     /\ \A i, j \in DOMAIN q : i # j => q[i].account # q[j].account
     /\ \A i, j \in DOMAIN q : i < j /\ q[j].action = "delete" => q[i].action = "delete"}

ReconcilePendingAccountChanges ==
  /\ Now("pendingRows")
  /\ IF edits.later /\ edits.now = NoEdit /\ edits.queue = <<>>
     THEN /\ \E q \in Queues : edits' = [edits EXCEPT !.later = FALSE, !.queue = q]
          /\ Then(<<Step("drainEdits")>>)
     ELSE Then(<<>>) /\ UNCHANGED edits
  /\ UNCHANGED <<running, deferred, backends, queries, otherVars, desk>>

\* A deletion waits for the account's profile job to be cancelled.
Blocked == Head(edits.queue).action = "delete" /\ Head(edits.queue).account \in desk.jobs
CanEdit == /\ ~safeMode /\ running = NoProcess /\ edits.now = NoEdit /\ edits.queue # <<>>
           /\ ~backends.now /\ backends.left = 0
           /\ Blocked => Head(edits.queue).account \notin desk.deleting
DrainAccountChanges ==
  LET edit == Head(edits.queue)
  IN /\ CanEdit
     /\ IF Blocked
        THEN /\ desk' = [desk EXCEPT !.deleting = @ \cup {edit.account}]
             /\ Then(<<JobStep("cancelJob", edit.account, TRUE)>>)
             /\ UNCHANGED edits
        ELSE /\ edits' = [edits EXCEPT !.now = edit, !.queue = Tail(@)]
             /\ desk' = IF edit.action = "delete"
                        THEN [desk EXCEPT !.deleting = @ \ {edit.account}] ELSE desk
             /\ Then(<<Spawn("change", edit.account, FALSE, TRUE)>>)
     /\ UNCHANGED <<running, deferred, backends, queries, otherVars>>

\* A new account's profile creation is started, then the callback ends with
\* the next change, or the overview.
ChangeAnswered ==
  /\ Answered("change")
  /\ edits' = [edits EXCEPT !.now = NoEdit]
  /\ Then((IF Ok /\ edits.now.action = "add" THEN <<Spawn("create", Of.account, FALSE, TRUE)>> ELSE <<>>)
          \o <<Step("nextEdit")>>)
  /\ UNCHANGED <<running, deferred, backends, queries, otherVars, desk>>

NextEdit ==
  /\ Now("nextEdit")
  /\ Then(<<IF edits.queue # <<>> THEN Step("drainEdits") ELSE Step("overview")>>)
  /\ UNCHANGED <<running, queueVars, otherVars, desk>>

CreateAnswered ==
  /\ Answered("create")
  /\ IF Ok
     THEN /\ desk' = [desk EXCEPT !.jobs = @ \cup {Of.account}, !.active = @ \cup {Of.account}]
          /\ Then(<<JobStep("pollJob", Of.account, TRUE)>>) \/ MenuFails
     ELSE Then(<<>>) /\ UNCHANGED desk
  /\ UNCHANGED <<running, queueVars, otherVars>>

CanChangeBackend == ~safeMode /\ running = NoProcess /\ ~backends.now /\ backends.left > 0
DrainBackendChanges ==
  /\ CanChangeBackend
  /\ backends' = [now |-> TRUE, left |-> backends.left - 1]
  /\ Then(<<Spawn("backend", Nobody, FALSE, TRUE)>>)
  /\ UNCHANGED <<running, deferred, edits, queries, otherVars, desk>>

BackendAnswered ==
  /\ Answered("backend")
  /\ backends' = [backends EXCEPT !.now = FALSE]
  /\ Then(<<IF backends.left > 0 THEN Step("drainBackends") ELSE Step("overview")>>)
  /\ UNCHANGED <<running, deferred, edits, queries, otherVars, desk>>

CanDefer == ~safeMode /\ running = NoProcess /\ ~Changing /\ deferred # {}
DrainDeferredAuxRequests ==
  /\ CanDefer
  /\ \E r \in deferred : /\ deferred' = deferred \ {r}
                         /\ Then(<<Spawn(r.kind, r.account, r.force, FALSE)>>)
  /\ UNCHANGED <<running, edits, backends, queries, otherVars, desk>>

CanQuery == ~safeMode /\ running = NoProcess /\ ~Changing /\ ~queries.now /\ queries.left > 0
DrainConsumptionRequests ==
  /\ CanQuery
  /\ queries' = [now |-> TRUE, left |-> queries.left - 1]
  /\ Then(<<Spawn("consumption", Nobody, FALSE, TRUE)>>)
  /\ UNCHANGED <<running, deferred, edits, backends, otherVars, desk>>

\* The end of every auxiliary callback: the first queue that has work and may
\* run takes the process; the others find it taken.
DrainAll ==
  /\ Now("drain")
  /\ \/ DrainBackendChanges
     \/ ~CanChangeBackend /\ DrainAccountChanges
     \/ ~CanChangeBackend /\ ~CanEdit /\ DrainDeferredAuxRequests
     \/ ~CanChangeBackend /\ ~CanEdit /\ ~CanDefer /\ DrainConsumptionRequests

DrainOne ==
  \/ Now("drainBackends") /\ DrainBackendChanges
  \/ Now("drainEdits") /\ DrainAccountChanges
  \/ Now("drainQueries") /\ DrainConsumptionRequests

DrainNothing ==
  /\ \/ Now("drainBackends") /\ ~CanChangeBackend
     \/ Now("drainEdits") /\ ~CanEdit
     \/ Now("drainQueries") /\ ~CanQuery
     \/ Now("drain") /\ ~CanChangeBackend /\ ~CanEdit /\ ~CanDefer /\ ~CanQuery
  /\ Then(<<>>)
  /\ UNCHANGED <<running, queueVars, otherVars, desk>>

ConsumptionAnswered ==
  /\ Answered("consumption")
  /\ queries' = [queries EXCEPT !.now = FALSE]
  /\ Then(<<Step("drainQueries")>>)
  /\ UNCHANGED <<running, deferred, edits, backends, otherVars, desk>>

-----------------------------------------------------------------------------
\* Profile jobs.
LoadProfileJobs ==
  /\ Now("loadJobs")
  /\ desk' = [desk EXCEPT !.wanted = FALSE, !.loaded = IF desk.wanted THEN TRUE ELSE @]
  /\ Then(IF desk.wanted /\ ~desk.loaded /\ ~safeMode
          THEN <<Spawn("jobs", Nobody, FALSE, FALSE)>> ELSE <<>>)
  /\ UNCHANGED <<running, queueVars, otherVars>>

Discovered(d, found) ==
  LET gone == d.jobs \ found
      lost == d.polling # Nobody /\ d.polling \notin found
  IN [d EXCEPT !.jobs = found, !.resume = found,
               !.active = (@ \ (gone \ {d.live})) \cup found,
               !.deleting = @ \ gone,
               !.polling = IF lost THEN Nobody ELSE @,
               !.current = IF lost THEN FALSE ELSE @,
               !.timer = IF lost THEN NoTimer ELSE @]

JobsAnswered ==
  /\ Answered("jobs")
  /\ IF Ok THEN \E found \in SUBSET Users :
                  /\ desk' = Discovered(desk, found)
                  /\ Then(IF found = {} THEN <<>> ELSE <<Step("pollNext")>>) \/ MenuFails
           ELSE desk' = [desk EXCEPT !.loaded = FALSE] /\ Then(<<>>)
  /\ UNCHANGED <<running, queueVars, otherVars>>

ResumePolls ==
  /\ Now("resume")
  /\ Then(IF running = NoProcess /\ desk.resume # {} THEN <<Step("pollNext")>> ELSE <<>>)
  /\ UNCHANGED <<running, queueVars, otherVars, desk>>

PollNextProfileJob ==
  /\ Now("pollNext")
  /\ IF safeMode \/ desk.polling # Nobody \/ Changing
     THEN Then(<<>>) /\ UNCHANGED desk
     ELSE IF desk.resume \cap desk.jobs = {}
     THEN Then(<<>>) /\ desk' = [desk EXCEPT !.resume = {}]
     ELSE \E a \in desk.resume \cap desk.jobs :
            /\ desk' = [desk EXCEPT !.resume = @ \ {a}]
            /\ Then(<<JobStep("pollJob", a, FALSE)>>)
  /\ UNCHANGED <<running, queueVars, otherVars>>

\* Another job's poll or command gives way to this account's.
MakeWay(d, a) ==
  [d EXCEPT !.resume = @ \cup ({d.polling} \ {Nobody, a}), !.timer = NoTimer, !.command = a]

PollProfileJob ==
  /\ Now("pollJob")
  /\ CASE Of.account \notin desk.jobs \/ safeMode -> Then(<<>>) /\ UNCHANGED desk
       [] Of.account \in desk.jobs /\ ~safeMode /\ ~Of.force /\ Changing ->
            /\ desk' = [desk EXCEPT !.resume = @ \cup {Of.account},
                                    !.polling = Without(@, Of.account)]
            /\ Then(<<>>)
       [] OTHER ->
            /\ desk' = [MakeWay(desk, Of.account) EXCEPT !.polling = Of.account, !.current = TRUE]
            /\ Then(<<Spawn("poll", Of.account, Of.force, Of.force)>>)
  /\ UNCHANGED <<running, queueVars, otherVars>>

CancelProfileJob ==
  /\ Now("cancelJob")
  /\ IF Of.account \notin desk.jobs THEN Then(<<>>) /\ UNCHANGED desk
     ELSE /\ desk' = [MakeWay(desk, Of.account)
                        EXCEPT !.polling = IF @ = Of.account THEN @ ELSE Nobody, !.current = FALSE]
          /\ Then(<<Spawn("cancel", Of.account, Of.force, Of.force)>>)
  /\ UNCHANGED <<running, queueVars, otherVars>>

\* _finishProfileJob: for a retry the job stays and a timer is set; otherwise it
\* is forgotten, a deletion that waited goes on, and the next job is polled.
Unpolled(d, a) ==
  [d EXCEPT !.polling = Without(@, a), !.command = Without(@, a), !.current = FALSE, !.timer = NoTimer]
Ended(d, a, success) ==
  [Unpolled(d, a) EXCEPT !.deleting = @ \ {a}, !.resume = @ \ {a},
                         !.jobs = @ \ {a}, !.active = @ \ {a}, !.live = Without(@, a),
                         !.loaded = IF success THEN FALSE ELSE @]
FinishJob(a) ==
  /\ \E success \in BOOLEAN : desk' = Ended(desk, a, success)
  /\ \/ Then((IF a \in desk.deleting THEN <<Step("drainEdits")>> ELSE <<>>) \o <<Step("pollNext")>>)
     \/ MenuFails

RetryJob(a, force, cancel) ==
  LET d == [Unpolled(desk, a) EXCEPT !.active = @ \cup {a}]
  IN \/ /\ \/ desk' = [d EXCEPT !.timer = [account |-> a, force |-> force, cancel |-> cancel]]
           \/ desk' = [d EXCEPT !.loaded = FALSE, !.wanted = TRUE]
        /\ Then(<<>>)
     \/ desk' = d /\ MenuFails

KeepPolling(a, force) ==
  /\ desk' = [desk EXCEPT !.command = Without(@, a),
                          !.timer = [account |-> a, force |-> force, cancel |-> FALSE]]
  /\ Then(<<>>)

PollAnswered ==
  /\ Answered("poll")
  /\ IF ~desk.current \/ Of.account \notin desk.jobs THEN Then(<<>>) /\ UNCHANGED desk
     ELSE \/ RetryJob(Of.account, Of.force, FALSE)
          \/ Ok /\ (KeepPolling(Of.account, Of.force) \/ FinishJob(Of.account))
          \/ Ok /\ desk' = [desk EXCEPT !.command = Without(@, Of.account)] /\ MenuFails
  /\ UNCHANGED <<running, queueVars, otherVars>>

CancelAnswered ==
  /\ Answered("cancel")
  /\ IF Of.account \notin desk.jobs THEN Then(<<>>) /\ UNCHANGED desk
     ELSE \/ RetryJob(Of.account, FALSE, TRUE)
          \/ Ok /\ FinishJob(Of.account)
          \/ /\ Ok /\ desk' = [desk EXCEPT !.command = Without(@, Of.account)]
             /\ Then(<<JobStep("pollJob", Of.account, TRUE)>>)
  /\ UNCHANGED <<running, queueVars, otherVars>>

PollTimerFires ==
  /\ Quiet /\ desk.timer # NoTimer
  /\ desk' = [desk EXCEPT !.timer = NoTimer]
  /\ plan' = IF safeMode THEN <<>>
             ELSE IF desk.timer.cancel THEN <<JobStep("cancelJob", desk.timer.account, TRUE)>>
             ELSE <<JobStep("pollJob", desk.timer.account, desk.timer.force)>>
  /\ UNCHANGED <<running, queueVars, otherVars>>

-----------------------------------------------------------------------------
\* Device logins.
\* The mark is set before the menu is built, the process started after it.
StartDeviceLogin(a) ==
  /\ Ask /\ desk.active = {}
  /\ desk' = [desk EXCEPT !.active = {a}, !.live = a]
  /\ \/ plan' = <<Spawn("login", a, FALSE, FALSE)>> /\ forgotten' = forgotten \ {a}
     \/ ~safeMode /\ UNCHANGED plan /\ forgotten' = forgotten \cup {a}
  /\ UNCHANGED <<running, queueVars, safeMode>>

LoginAnswered ==
  /\ Answered("login") /\ Then(<<>>)
  /\ desk' = [desk EXCEPT !.active = @ \ {Of.account}, !.live = Without(@, Of.account)]
  /\ UNCHANGED <<running, queueVars, otherVars>>

CancelDeviceLogin(a) ==
  LET request == Request("login", a, FALSE)
      runs == running.kind = "login" /\ desk.live = a
  IN /\ Ask /\ a \in desk.active
     /\ IF a \in desk.jobs
        THEN /\ plan' = <<JobStep("cancelJob", a, FALSE)>>
             /\ UNCHANGED <<running, deferred, desk>>
        ELSE /\ runs \/ request \in deferred
             /\ desk' = [desk EXCEPT !.active = @ \ {a}, !.live = Without(@, a)]
             /\ running' = IF runs THEN NoProcess ELSE running
             /\ deferred' = IF runs THEN deferred ELSE deferred \ {request}
             /\ plan' = <<Step("drain")>> \/ (~safeMode /\ UNCHANGED plan)
     /\ UNCHANGED <<edits, backends, queries, forgotten, safeMode>>

-----------------------------------------------------------------------------
\* What starts a callback: the periodic status, commands of the menu, answers
\* that ask for new consumption values, edits in the settings.
AuxAsked ==
  /\ Ask /\ ~safeMode
  /\ \E kind \in {"status", "other"} : plan' = <<Spawn(kind, Nobody, FALSE, FALSE)>>
  /\ UNCHANGED <<running, queueVars, forgotten, safeMode, desk>>

RefreshConsumption ==
  /\ Ask /\ ~safeMode
  /\ \E n \in 0..MaxQueries : queries' = [queries EXCEPT !.left = n]
  /\ plan' = <<Step("drainQueries")>>
  /\ UNCHANGED <<running, deferred, edits, backends, forgotten, safeMode, desk>>

AccountBackendsChanged ==
  /\ Ask /\ ~safeMode
  /\ \/ plan' = <<Step("overview")>> /\ UNCHANGED <<edits, backends>>
     \/ /\ edits.now # NoEdit \/ edits.queue # <<>>
        /\ edits' = [edits EXCEPT !.later = TRUE]
        /\ UNCHANGED <<backends, plan>>
     \/ /\ edits.now = NoEdit /\ edits.queue = <<>>
        /\ \E q \in Queues : edits' = [edits EXCEPT !.queue = q]
        /\ plan' = <<Step("drainEdits")>> /\ UNCHANGED backends
     \/ /\ edits.now = NoEdit /\ edits.queue = <<>>
        /\ \E n \in 0..MaxQueries : backends' = [backends EXCEPT !.left = n]
        /\ plan' = <<Step("drainBackends")>> /\ UNCHANGED edits
  /\ UNCHANGED <<running, deferred, queries, forgotten, safeMode, desk>>

\* _enterSafeMode drops every queue; a login that only waited stays marked.
EnterSafeMode ==
  /\ Ask /\ ~safeMode /\ safeMode' = TRUE
  /\ running' = NoProcess /\ deferred' = {}
  /\ edits' = [now |-> NoEdit, queue |-> <<>>, later |-> FALSE]
  /\ backends' = [now |-> FALSE, left |-> 0] /\ queries' = [now |-> FALSE, left |-> 0]
  /\ desk' = Displaced([desk EXCEPT !.loaded = FALSE, !.wanted = FALSE, !.resume = {},
                                    !.polling = Nobody, !.command = Nobody, !.current = FALSE,
                                    !.timer = NoTimer])
  /\ forgotten' = forgotten \cup {r.account : r \in {q \in deferred : q.kind = "login"}}
  /\ plan' = <<>>

LeaveSafeModeAndRetry ==
  /\ Quiet /\ safeMode /\ safeMode' = FALSE
  /\ plan' = <<Spawn("status", Nobody, FALSE, FALSE)>>
  /\ UNCHANGED <<running, queueVars, forgotten, asked, desk>>

Next ==
  \/ SpawnAux \/ AuxAnswers \/ StatusAnswered \/ EnableAnswered \/ ContinueStatus
  \/ LoadAccountBackends \/ OverviewAnswered \/ OtherAnswered
  \/ ReconcilePendingAccountChanges \/ ChangeAnswered \/ NextEdit \/ CreateAnswered
  \/ BackendAnswered \/ DrainAll \/ DrainOne \/ DrainNothing \/ ConsumptionAnswered
  \/ LoadProfileJobs \/ JobsAnswered \/ ResumePolls \/ PollNextProfileJob
  \/ PollProfileJob \/ CancelProfileJob \/ PollAnswered \/ CancelAnswered \/ PollTimerFires
  \/ \E a \in Users : StartDeviceLogin(a) \/ CancelDeviceLogin(a)
  \/ LoginAnswered \/ AuxAsked \/ RefreshConsumption \/ AccountBackendsChanged
  \/ EnterSafeMode \/ LeaveSafeModeAndRetry

Spec == Init /\ [][Next]_auxVars

-----------------------------------------------------------------------------
\* The values the variables can have.
TypeOK ==
  /\ running.account \in Users \cup {Nobody}
  /\ Cardinality(deferred) <= MaxDeferred
  /\ edits.now \in Edits \cup {NoEdit} /\ edits.queue \in Seq(Edits) /\ edits.later \in BOOLEAN
  /\ backends \in [now : BOOLEAN, left : 0..MaxQueries]
  /\ queries \in [now : BOOLEAN, left : 0..MaxQueries]
  /\ forgotten \subseteq Users /\ asked \in 0..MaxAsked
  /\ desk.jobs \subseteq Users /\ desk.active \subseteq Users
  /\ desk.resume \subseteq Users /\ desk.deleting \subseteq Users
  /\ {desk.live, desk.polling, desk.command, desk.timer.account} \subseteq Users \cup {Nobody}

\* A login or job shown as active is one: its job is known, its process runs or
\* its request waits.  A mark that outlived it refuses every later device login
\* (applet.js:7930).  There are two ways to leave such a mark behind, and no
\* other: a menu that cannot be built between the mark (7948) and the process
\* (7956), and the safe mode's dropping a queue in which the login waits (735).
ActiveLoginIsReal ==
  Quiet => \A a \in desk.active \ forgotten :
             \/ a \in desk.jobs
             \/ running.kind = "login" /\ running.account = a
             \/ Request("login", a, FALSE) \in deferred

\* The audit of the auxiliary commands: a displaced consumption query is put
\* back and does not block the queries after it.
DisplacedQueryIsPutBack ==
  Quiet /\ queries.now => running.kind = "consumption"
-----------------------------------------------------------------------------
(* What makes the properties inductive *)

Kinds == {"none", "status", "enable", "overview", "routing", "other", "change", "create",
          "backend", "consumption", "jobs", "job", "poll", "cancel", "login"}
Actions == {"spawn", "answer", "drain", "resume", "continue", "overview", "pendingRows", "loadJobs",
            "nextEdit", "drainEdits", "drainBackends", "drainQueries", "pollNext", "pollJob", "cancelJob"}

Requests == {r \in [kind : Kinds, account : Users \cup {Nobody}, force : BOOLEAN] :
               r.kind \in {"change", "create", "login"} => r.account \in Users}
Steps    == [do : Actions, of : Requests, flag : BOOLEAN]
Desks    == [jobs : SUBSET Users, active : SUBSET Users, live : Users \cup {Nobody},
             resume : SUBSET Users, polling : Users \cup {Nobody}, command : Users \cup {Nobody},
             current : BOOLEAN, deleting : SUBSET Users, loaded : BOOLEAN, wanted : BOOLEAN,
             timer : [account : Users \cup {Nobody}, force : BOOLEAN, cancel : BOOLEAN]]

\* What the proofs need of the constants.
AuxConstants ==
  /\ Nobody \notin Users /\ IsFiniteSet(Users)
  /\ {MaxDeferred, MaxQueries, MaxPlan, MaxAsked} \subseteq Nat

AgendaOK ==
  /\ running \in Requests /\ plan \in Seq(Steps)
  /\ deferred \subseteq Requests /\ IsFiniteSet(deferred) /\ Cardinality(deferred) <= MaxDeferred
QueuesOK ==
  /\ edits \in [now : Edits \cup {NoEdit}, queue : Seq(Edits), later : BOOLEAN]
  /\ backends \in [now : BOOLEAN, left : 0..MaxQueries]
  /\ queries \in [now : BOOLEAN, left : 0..MaxQueries]
  /\ forgotten \subseteq Users /\ safeMode \in BOOLEAN /\ asked \in 0..MaxAsked
ValuesOK == AgendaOK /\ QueuesOK /\ desk \in Desks

\* The login of a is about to start, or its answer to be heard.
LoginOf(a) == Request("login", a, FALSE)
Waiting(steps, a) ==
  \E i \in DOMAIN steps : steps[i].do \in {"spawn", "answer"} /\ steps[i].of = LoginOf(a)
InFlight(a) == running = LoginOf(a) \/ LoginOf(a) \in deferred \/ Waiting(plan, a)

\* Every mark is a job's or the live login's, and that one is on its way.
MarksAreKnown == desk.active \subseteq desk.jobs \cup forgotten \cup {desk.live}
LiveIsInFlight == desk.live # Nobody => desk.live \in forgotten \/ InFlight(desk.live)

AuxInv == ValuesOK /\ MarksAreKnown /\ LiveIsInFlight
=============================================================================

-------------------------------- MODULE Locks --------------------------------
(***************************************************************************)
(* The locks of the state, the accounts and the private paths              *)
(* (source_lock.py, account_lock.py, private_io.py), and the orders in     *)
(* which the commands nest them.                                           *)
(*                                                                         *)
(* A lock is a file under flock: two threads of one process exclude each   *)
(* other as two processes do.  A thread that holds the source lock may     *)
(* enter it again, and so may one that holds a private path, as long as no *)
(* lock file has been created in between by anybody: the lock directory's  *)
(* times are part of its identity.  An account's lock cannot be entered    *)
(* again.  No lock file is ever removed here.  The accounts are one lock;  *)
(* so are the job, usage, history and unit files, inside whose locks no    *)
(* other lock is entered ("record").                                       *)
(***************************************************************************)
EXTENDS Naturals, FiniteSets, SequencesExt

CONSTANT Threads

Source      == "source"
Maintenance == "maintenance"
Accounts    == {"all accounts", "account"}
Paths       == {"config", "owner", "creation", "record"}
Evidence    == "evidence"
Files       == {Source, Maintenance, Evidence} \cup Accounts \cup Paths
Leave       == "leave"
Idle        == "idle"

VARIABLES
  routine, todo,       \* the command a thread runs, and what is left of it
  stack,               \* the locks it is in, the innermost last
  request,             \* the lock file it has opened and waits for, or none
  known                \* the private paths that have a lock file

lockVars == <<routine, todo, stack, request, known>>

Within(locks, body) == locks \o body \o [i \in DOMAIN locks |-> Leave]
Do(lock)            == <<lock, Leave>>
\* account_lock: the source lock and the maintenance lock come before the account's own.
AccountGuard == <<Source, "maintenance (shared)">>
Account(which) == Append(AccountGuard, which)

\* An edit of the accounts writes under locks that it is in already.
Authority == Within(<<"config", "owner">>, <<>>)
Edit      == Within(<<"config">>, Do("owner") \o Do("config") \o Authority)
Record    == Within(<<"record">>, Do("record"))
Existing  == Within(<<"config (existing)", "owner (existing)">>, <<>>)

Routines == [
  fetch    |-> Within(Account("all accounts"), Within(Account("account"), <<>>)),
  store    |-> Within(Account("all accounts"), Within(<<Source>> \o Account("account"), Record)),
  history  |-> Within(<<Source, Source>>, Do("record")) \o Within(<<Source>>, Do("record")),
  login    |-> Within(Account("account"), Do("record")) \o Within(Account("all accounts"), Edit),
  publish  |-> Authority,
  create   |-> Within(Account("all accounts"), Within(<<"creation">>, Do("record"))),
  delete   |-> Within(Account("all accounts") \o <<"creation">>,
               Within(<<Source>> \o Account("account"), Edit \o Do("record"))),
  evidence |-> Within(<<Source, Evidence>>, Do("owner (existing)")),
  maintain |-> Within(<<Source>>, Existing \o Within(<<Source, Maintenance>>, Existing)),
  record   |-> Record ]

Wanted(entry) ==     \* the lock file an entry is about, and how it is to be held
  LET Of(file, shared, create) == [file |-> file, shared |-> shared, create |-> create]
  IN CASE entry = "maintenance (shared)" -> Of(Maintenance, TRUE, TRUE)
       [] entry = "config (existing)"    -> Of("config", FALSE, FALSE)
       [] entry = "owner (existing)"     -> Of("owner", FALSE, FALSE)
       [] OTHER                          -> Of(entry, FALSE, TRUE)

Nothing   == [file |-> "none"]
Namespace == Cardinality(known)      \* the lock directory's times: they move with its entries
In(t)     == {stack[t][i] : i \in DOMAIN stack[t]}
Taken(t)  == {scope \in In(t) : scope.taken}
Holds(t, file) == \E scope \in Taken(t) : scope.file = file

Init ==
  /\ routine = [t \in Threads |-> Idle] /\ todo = [t \in Threads |-> <<>>]
  /\ stack = [t \in Threads |-> <<>>] /\ request = [t \in Threads |-> Nothing]
  /\ known = {}

Start(t) ==
  /\ routine[t] = Idle
  /\ \E r \in DOMAIN Routines :
       routine' = [routine EXCEPT ![t] = r] /\ todo' = [todo EXCEPT ![t] = Routines[r]]
  /\ UNCHANGED <<stack, request, known>>

\* An error leaves every scope, the innermost first, and ends the command.
Fail(t) ==
  /\ routine' = [routine EXCEPT ![t] = Idle] /\ todo' = [todo EXCEPT ![t] = <<>>]
  /\ stack' = [stack EXCEPT ![t] = <<>>] /\ request' = [request EXCEPT ![t] = Nothing]

Coming(t) == request[t] = Nothing /\ todo[t] # <<>> /\ Head(todo[t]) # Leave
Push(t, file, shared, taken, seen) ==
  /\ stack' = [stack EXCEPT ![t] = Append(@, [file |-> file, shared |-> shared,
                                              taken |-> taken, seen |-> seen])]
  /\ todo' = [todo EXCEPT ![t] = Tail(@)]

\* Source again; maintenance again, or under the thread's own exclusive hold.
EnterAgain(t) ==
  /\ Coming(t)
  /\ LET want == Wanted(Head(todo[t])) IN
     /\ want.file \in {Source, Maintenance}
     /\ \E scope \in Taken(t) : scope.file = want.file /\ ~scope.shared
     /\ Push(t, want.file, want.shared, FALSE, 0)
  /\ UNCHANGED <<routine, request, known>>

\* A path held already: the lock directory must be as it was.
ReenterPath(t) ==
  /\ Coming(t)
  /\ LET want == Wanted(Head(todo[t])) IN
     \E scope \in Taken(t) :
       /\ scope.file = want.file /\ want.file \in Paths
       /\ \/ scope.seen = Namespace /\ Push(t, want.file, FALSE, FALSE, scope.seen)
             /\ UNCHANGED <<routine, request>>
          \/ scope.seen # Namespace /\ Fail(t)
  /\ UNCHANGED known

\* A private path not held yet: its lock file is opened, or made, before it is waited for.
Open(t) ==
  /\ Coming(t)
  /\ LET want == Wanted(Head(todo[t])) IN
     /\ want.file \in Paths /\ ~Holds(t, want.file)
     /\ \/ /\ want.file \in known \/ want.create
           /\ known' = known \cup {want.file}
           /\ request' = [request EXCEPT ![t] =
                [file |-> want.file, made |-> known' # known, seen |-> Cardinality(known')]]
           /\ UNCHANGED <<routine, todo, stack>>
        \/ want.file \notin known /\ ~want.create /\ Fail(t) /\ UNCHANGED known

\* Mutant of Waits: a lock is taken again by whoever has it.
WaitsForItself(t) ==
  \/ request[t] # Nothing
  \/ Coming(t) /\ Wanted(Head(todo[t])).file \notin Paths
\* What t waits for, or is about to, with a scope of its own.
Waits(t) ==
  \/ request[t] # Nothing
  \/ /\ Coming(t)
     /\ LET want == Wanted(Head(todo[t])) IN
        /\ want.file \notin Paths
        /\ want.file \in Accounts \/ ~\E scope \in Taken(t) : scope.file = want.file /\ ~scope.shared
\* u, which may be t itself, holds what t waits for.
Blocks(u, t) ==
  /\ Waits(t)
  /\ LET want == Wanted(Head(todo[t])) IN
     \E scope \in Taken(u) : scope.file = want.file /\ ~(scope.shared /\ want.shared)
Blocked(t) == \E u \in Threads : Blocks(u, t)

\* flock succeeds on the file of a source, maintenance, account or evidence lock.
Acquire(t) ==
  /\ Waits(t) /\ request[t] = Nothing /\ ~Blocked(t)
  /\ LET want == Wanted(Head(todo[t])) IN Push(t, want.file, want.shared, TRUE, 0)
  /\ UNCHANGED <<routine, request, known>>

\* flock succeeds on a private path: the lock directory is checked once more, and a
\* thread that made the file itself takes the new times for the paths it is in.
AcquirePath(t) ==
  /\ request[t] # Nothing /\ ~Blocked(t)
  /\ LET want == request[t] IN
     \/ /\ want.seen = Namespace
        /\ todo' = [todo EXCEPT ![t] = Tail(@)]
        /\ stack' = [stack EXCEPT ![t] = Append(
             [i \in DOMAIN @ |-> IF want.made /\ @[i].file \in Paths /\ @[i].taken
                                 THEN [@[i] EXCEPT !.seen = want.seen] ELSE @[i]],
             [file |-> want.file, shared |-> FALSE, taken |-> TRUE, seen |-> want.seen])]
        /\ request' = [request EXCEPT ![t] = Nothing] /\ UNCHANGED routine
     \/ want.seen # Namespace /\ Fail(t)
  /\ UNCHANGED known

\* The deadline has passed and the lock is still held; evidence and maintenance, which
\* allow themselves no time, fail at once.
TimeOut(t) == Blocked(t) /\ Fail(t) /\ UNCHANGED known

Exit(t) ==
  /\ request[t] = Nothing /\ todo[t] # <<>> /\ Head(todo[t]) = Leave
  /\ stack' = [stack EXCEPT ![t] = Front(@)] /\ todo' = [todo EXCEPT ![t] = Tail(@)]
  /\ routine' = [routine EXCEPT ![t] = IF Len(todo[t]) = 1 THEN Idle ELSE @]
  /\ UNCHANGED <<request, known>>

\* The process is gone: the kernel gives its locks back.
Die(t) == routine[t] # Idle /\ Fail(t) /\ UNCHANGED known

Next == \E t \in Threads :
  \/ Start(t) \/ EnterAgain(t) \/ ReenterPath(t) \/ Open(t) \/ Acquire(t) \/ AcquirePath(t)
  \/ TimeOut(t) \/ Exit(t) \/ Die(t)

Spec == Init /\ [][Next]_lockVars
-----------------------------------------------------------------------------
\* A command that is over has no scope open and waits for nothing; a path is held only
\* when its file exists.
TypeOK ==
  /\ known \subseteq Paths
  /\ \A t \in Threads :
       /\ routine[t] \in {Idle} \cup DOMAIN Routines
       /\ routine[t] = Idle => stack[t] = <<>> /\ request[t] = Nothing
       /\ \A scope \in In(t) : scope.file \in Files /\ (scope.file \in Paths => scope.file \in known)

\* However the commands meet, no threads wait for each other in a circle, and none for
\* itself: only a lock's timeout would end such a wait, after half a minute.
NoCircularWait ==
  \A waiters \in (SUBSET Threads) \ {{}} :
    \E t \in waiters : ~\E u \in waiters : Blocks(u, t)
-----------------------------------------------------------------------------
(* The order of the locks, which makes the property inductive *)

Order == <<Source, Maintenance, Evidence, "all accounts", "creation", "account", "config", "owner",
           "record">>
Rank(file) == CHOOSE i \in DOMAIN Order : Order[i] = file

Shapes == [file : Files, shared : BOOLEAN, taken : BOOLEAN]   \* a scope without its times
Scopes == [file : Files, shared : BOOLEAN, taken : BOOLEAN, seen : Nat]
Matches(scopes, shapes) ==
  /\ Len(scopes) = Len(shapes)
  /\ \A i \in DOMAIN scopes : /\ scopes[i].file = shapes[i].file
                             /\ scopes[i].shared = shapes[i].shared
                             /\ scopes[i].taken = shapes[i].taken

\* Whether a thread that is in these scopes enters a lock again and does not wait for it.
Again(shapes, want) ==
  /\ want.file \notin Accounts
  /\ \E i \in DOMAIN shapes : shapes[i].file = want.file /\ shapes[i].taken /\ ~shapes[i].shared
Entered(shapes, want) ==
  Append(shapes, [file |-> want.file, shared |-> want.shared, taken |-> ~Again(shapes, want)])

\* The scopes a routine is in before each of its entries, and at its end.
Opened == [r \in DOMAIN Routines |->
  LET entries == Routines[r]
      before[k \in 1 .. Len(entries) + 1] ==
        IF k = 1 THEN <<>>
        ELSE IF entries[k - 1] = Leave THEN Front(before[k - 1])
        ELSE Entered(before[k - 1], Wanted(entries[k - 1]))
  IN before]

\* A lock is waited for only by one who has taken earlier locks; but maintenance is
\* shared once more by one who has the source lock, without which nobody has
\* maintenance for himself.
InOrder(shapes, want) ==
  \/ Again(shapes, want)
  \/ \A i \in DOMAIN shapes : shapes[i].taken => Rank(shapes[i].file) < Rank(want.file)
  \/ /\ want.file = Maintenance /\ want.shared
     /\ \E i \in DOMAIN shapes : shapes[i].taken /\ shapes[i].file = Source

ShapesOK(shapes) ==
  /\ shapes \in Seq(Shapes)
  /\ \A i \in DOMAIN shapes :
       /\ shapes[i].file \in Paths \cup {Source} => ~shapes[i].shared
       /\ shapes[i].file = Maintenance /\ shapes[i].taken /\ ~shapes[i].shared =>
            \E j \in DOMAIN shapes : shapes[j].taken /\ shapes[j].file = Source

\* Each routine leaves what it enters, and waits in the order above.  No constant is in
\* this: it is a computation, and TLC makes it wherever it is assumed.
RoutinesOrdered ==
  \A r \in DOMAIN Routines :
    LET entries == Routines[r]
        shapes  == Opened[r]
    IN /\ r # Idle /\ entries \in Seq(STRING)
       /\ shapes[1] = <<>> /\ shapes[Len(entries) + 1] = <<>>
       /\ \A k \in 1 .. Len(entries) :
            LET want == Wanted(entries[k])
            IN /\ ShapesOK(shapes[k])
               /\ IF entries[k] = Leave
                  THEN shapes[k] # <<>> /\ shapes[k + 1] = Front(shapes[k])
                  ELSE /\ shapes[k + 1] = Entered(shapes[k], want)
                       /\ want.file \in Files /\ Rank(want.file) \in 1 .. Len(Order)
                       /\ InOrder(shapes[k], want)

Requests == [file : Paths, made : BOOLEAN, seen : Nat]
ThreadsOK ==
  /\ known \subseteq Paths
  /\ routine \in [Threads -> {Idle} \cup DOMAIN Routines] /\ todo \in [Threads -> Seq(STRING)]
  /\ stack \in [Threads -> Seq(Scopes)] /\ request \in [Threads -> {Nothing} \cup Requests]

\* A thread is at some entry of its routine, in the scopes that belong to it.
At(t, k) ==
  LET entries == Routines[routine[t]]
  IN /\ todo[t] = SubSeq(entries, k, Len(entries))
     /\ Matches(stack[t], Opened[routine[t]][k])
Placed(t) ==
  IF routine[t] = Idle
  THEN todo[t] = <<>> /\ stack[t] = <<>> /\ request[t] = Nothing
  ELSE \E k \in 1 .. Len(Routines[routine[t]]) + 1 : At(t, k)

\* It waits for the lock file of its next entry, which it has not.
RequestIsNext(t) ==
  request[t] # Nothing =>
    /\ todo[t] # <<>> /\ Head(todo[t]) # Leave
    /\ request[t].file = Wanted(Head(todo[t])).file /\ ~Holds(t, request[t].file)

\* flock
Exclusion ==
  \A t, u \in Threads : t # u =>
    \A a \in Taken(t), b \in Taken(u) : a.file = b.file => a.shared /\ b.shared

\* A path that is held or waited for has its lock file.
PathsExist ==
  \A t \in Threads :
    /\ \A i \in DOMAIN stack[t] : stack[t][i].file \in Paths => stack[t][i].file \in known
    /\ request[t] # Nothing => request[t].file \in known

LocksInv ==
  /\ ThreadsOK /\ Exclusion
  /\ \A t \in Threads : Placed(t) /\ RequestIsNext(t)
=============================================================================

------------------------------ MODULE AuthSync ------------------------------
(***************************************************************************)
(* An account's credentials and the control service's copy of them         *)
(* (masterjet_auth_sync.py, masterjet_client.py, reactivate.py, and the    *)
(* sync_required mark of config.py).                                       *)
(*                                                                         *)
(* A reactivation rewrites auth.json under the account lock, puts the old  *)
(* file back when the login fails, and marks the account as one to be      *)
(* synchronised after it has given up the lock.  A synchronisation reads   *)
(* the configuration first, then, under the account lock, plans, reads     *)
(* auth.json, uploads and applies, and clears the mark afterwards if the   *)
(* mark is still the one it read.                                          *)
(*                                                                         *)
(* A request may be refused, its answer may be lost, and a request the     *)
(* client has given up on may still arrive.  The step-up retry repeats a   *)
(* challenged request, which the service has not executed: it is part of   *)
(* the request here.  The service itself is external: it executes a        *)
(* request whose expected generation is its own, and it is only this       *)
(* account's profile that changes its credentials.                         *)
(***************************************************************************)
EXTENDS Naturals, FiniteSets

CONSTANTS MaxSyncs,      \* bound: synchronisations
          MaxLogins,     \* bound: logins that rewrite auth.json
          LastMark       \* MAX_AUTH_SYNC_GENERATION

Syncs == 1..MaxSyncs
Nobody == 0
Login == MaxSyncs + 1
Calls == <<"list", "plan", "read", "create", "put", "apply">>
Stages == {Calls[i] : i \in DOMAIN Calls} \cup {"new", "lock", "clear", "end"}

VARIABLES
  local, newest,         \* auth.json, by its number; the last number given
  login, backup,         \* the reactivation's step, and what it puts back
  unmarked,              \* a login ended before its mark, leaving a new auth.json
  flag,                  \* the account's auth_sync_required and its generation
  holder,                \* who has the account lock
  sync,                  \* each synchronisation: stage, mark read, plan's generation, secret
  server,                \* the service's credentials, generation, and uploads by plan
  late                   \* applications still on their way that nobody waits for

loginVars == <<local, newest, login, backup, unmarked>>
serverVars == <<server, late>>
authVars == <<loginVars, flag, holder, sync, serverVars>>

Init ==
  /\ local = 0 /\ newest = 0 /\ login = "none" /\ backup = 0 /\ unmarked = FALSE
  /\ flag = [required |-> FALSE, generation |-> 0]
  /\ holder = Nobody
  /\ sync = [s \in Syncs |-> [stage |-> "new", mark |-> 0, expected |-> 0, secret |-> 0]]
  /\ server = [cred |-> 0, generation |-> 0, upload |-> [s \in Syncs |-> {}]]
  /\ late = {}

-----------------------------------------------------------------------------
\* A reactivation: the lock, the copy of auth.json, codex login.
LoginStarts ==
  /\ login = "none" /\ holder = Nobody
  /\ login' = "runs" /\ backup' = local /\ holder' = Login
  /\ UNCHANGED <<local, newest, unmarked, flag, sync, serverVars>>

LoginWrites ==
  /\ login = "runs" /\ local = backup /\ newest < MaxLogins
  /\ newest' = newest + 1 /\ local' = newest + 1
  /\ UNCHANGED <<login, backup, unmarked, flag, holder, sync, serverVars>>

\* The file and the identity in it are checked, the lock is given up.
LoginSucceeds ==
  /\ login = "runs" /\ login' = "mark" /\ holder' = Nobody
  /\ UNCHANGED <<local, newest, backup, unmarked, flag, sync, serverVars>>

\* A timeout, an exit code, the wrong account: the file is put back.
RestoreBackup == local' = backup /\ UNCHANGED unmarked
LoginFails ==
  /\ login = "runs" /\ login' = "none" /\ holder' = Nobody
  /\ RestoreBackup
  /\ UNCHANGED <<newest, backup, flag, sync, serverVars>>

\* The file cannot be put back, or the process dies.
LoginBreaks ==
  /\ login \in {"runs", "mark"} /\ login' = "none"
  /\ holder' = IF login = "runs" THEN Nobody ELSE holder
  /\ unmarked' = (unmarked \/ local # backup)
  /\ UNCHANGED <<local, newest, backup, flag, sync, serverVars>>

\* mark_account_auth_sync_required; when the generations are used up it raises.
Mark ==
  /\ login = "mark" /\ login' = "none"
  /\ IF flag.generation >= LastMark THEN UNCHANGED <<flag, unmarked>>
     ELSE /\ flag' = [required |-> TRUE, generation |-> flag.generation + 1]
          /\ unmarked' = FALSE
  /\ UNCHANGED <<local, newest, backup, holder, sync, serverVars>>

-----------------------------------------------------------------------------
\* The command reads the configuration, before it has any lock.
SyncBegins(s) ==
  /\ sync[s].stage = "new"
  /\ sync' = [sync EXCEPT ![s].stage = "lock", ![s].mark = flag.generation]
  /\ UNCHANGED <<loginVars, flag, holder, serverVars>>

SyncLocks(s) ==
  /\ sync[s].stage = "lock" /\ holder = Nobody
  /\ holder' = s /\ sync' = [sync EXCEPT ![s].stage = "list"]
  /\ UNCHANGED <<loginVars, flag, serverVars>>

\* Any error, an expired plan or session, an interruption, a crash.
SyncFails(s) ==
  /\ sync[s].stage \notin {"new", "end"}
  /\ sync' = [sync EXCEPT ![s].stage = "end"]
  /\ holder' = IF holder = s THEN Nobody ELSE holder
  /\ UNCHANGED <<loginVars, flag, serverVars>>

\* The generation every later request of this run expects.
ListAccounts(s) ==
  /\ sync[s].stage = "list"
  /\ sync' = [sync EXCEPT ![s].stage = "plan", ![s].expected = server.generation]
  /\ UNCHANGED <<loginVars, flag, holder, serverVars>>

Fits(s) == server.generation = sync[s].expected

PlanSync(s) ==
  /\ sync[s].stage = "plan" /\ Fits(s)
  /\ sync' = [sync EXCEPT ![s].stage = "read"]
  /\ UNCHANGED <<loginVars, flag, holder, serverVars>>

ReadAuth(s) ==
  /\ sync[s].stage = "read"
  /\ sync' = [sync EXCEPT ![s].stage = "create", ![s].secret = local]
  /\ UNCHANGED <<loginVars, flag, holder, serverVars>>

CreateSession(s) ==
  /\ sync[s].stage = "create" /\ Fits(s)
  /\ sync' = [sync EXCEPT ![s].stage = "put"]
  /\ UNCHANGED <<loginVars, flag, holder, serverVars>>

\* The session takes the secret; its receipt is waited for, or lost.
PutSecret(s, answered) ==
  /\ sync[s].stage = "put" /\ Fits(s)
  /\ server' = [server EXCEPT !.upload[s] = {sync[s].secret}]
  /\ sync' = [sync EXCEPT ![s].stage = IF answered THEN "apply" ELSE "end"]
  /\ holder' = IF answered THEN holder ELSE Nobody
  /\ UNCHANGED <<loginVars, flag, late>>

\* What the service does with an application: external.
Applied(s) ==
  IF Fits(s) /\ server.upload[s] # {}
  THEN [server EXCEPT !.cred = CHOOSE v \in server.upload[s] : TRUE, !.generation = @ + 1]
  ELSE server

\* The service has applied the plan, and the answer says so or is lost.
Apply(s, answered) ==
  /\ sync[s].stage = "apply" /\ Fits(s)
  /\ server' = Applied(s)
  /\ sync' = [sync EXCEPT ![s].stage = IF answered THEN "clear" ELSE "end"]
  /\ holder' = Nobody
  /\ UNCHANGED <<loginVars, flag, late>>

\* The deadline passes with the request on its way.
ApplyDelayed(s) ==
  /\ sync[s].stage = "apply"
  /\ sync' = [sync EXCEPT ![s].stage = "end"]
  /\ holder' = Nobody /\ late' = late \cup {s}
  /\ UNCHANGED <<loginVars, flag, server>>

ApplyArrives(s) ==
  /\ s \in late
  /\ late' = late \ {s} /\ server' = Applied(s)
  /\ UNCHANGED <<loginVars, flag, holder, sync>>

\* compare_and_clear_account_auth_sync_required, after the lock is given up.
MayClearLast(mark) == flag.generation = mark
MayClear(mark) == flag.generation = mark /\ flag.generation # LastMark
Clear(s) ==
  /\ sync[s].stage = "clear"
  /\ sync' = [sync EXCEPT ![s].stage = "end"]
  /\ flag' = IF MayClear(sync[s].mark) THEN [flag EXCEPT !.required = FALSE] ELSE flag
  /\ UNCHANGED <<loginVars, holder, serverVars>>

Next ==
  \/ LoginStarts \/ LoginWrites \/ LoginSucceeds \/ LoginFails \/ LoginBreaks \/ Mark
  \/ \E s \in Syncs :
       \/ SyncBegins(s) \/ SyncLocks(s) \/ SyncFails(s)
       \/ ListAccounts(s) \/ PlanSync(s) \/ ReadAuth(s) \/ CreateSession(s)
       \/ \E answered \in BOOLEAN : PutSecret(s, answered) \/ Apply(s, answered)
       \/ ApplyDelayed(s) \/ ApplyArrives(s) \/ Clear(s)

Spec == Init /\ [][Next]_authVars

-----------------------------------------------------------------------------
\* The values the variables can have.
TypeOK ==
  /\ newest \in 0..MaxLogins /\ local \in 0..newest /\ backup \in 0..newest
  /\ login \in {"none", "runs", "mark"} /\ unmarked \in BOOLEAN
  /\ flag \in [required : BOOLEAN, generation : 0..LastMark]
  /\ holder \in Syncs \cup {Nobody, Login}
  /\ sync \in [Syncs -> [stage : Stages, mark : 0..LastMark, expected : 0..MaxSyncs,
                         secret : 0..newest]]
  /\ server.cred \in 0..newest /\ server.generation \in 0..MaxSyncs
  /\ server.upload \in [Syncs -> SUBSET (0..newest)]
  /\ late \subseteq Syncs

\* What the proofs assume of the bounds: one mark can be given.
SyncConstants == MaxSyncs \in Nat /\ MaxLogins \in Nat /\ LastMark \in Nat \ {0}

\* The values again, without the bounds that the proofs do not need.
ValuesOK ==
  /\ newest \in Nat /\ local \in Nat /\ backup \in Nat
  /\ login \in {"none", "runs", "mark"} /\ unmarked \in BOOLEAN
  /\ flag \in [required : BOOLEAN, generation : 0..LastMark]
  /\ sync \in [Syncs -> [stage : Stages, mark : Nat, expected : Nat, secret : Nat]]
  /\ server \in [cred : Nat, generation : Nat, upload : [Syncs -> SUBSET Nat]]
  /\ late \subseteq Syncs

\* What auth.json is if a login that is running fails, and whether it may be a
\* new one that no mark tells of.
Standing  == IF login = "runs" THEN backup ELSE local
Unsettled == unmarked \/ (login = "mark" /\ local # backup)

\* The mark is away, or a synchronisation is about to clear it.
MayVouch == \/ ~flag.required
            \/ \E s \in Syncs : sync[s].stage = "clear" /\ MayClear(sync[s].mark)

\* The account lock is held while a login runs, and from the lock of a
\* synchronisation to the end of its application.
LockHeld ==
  /\ holder = Login <=> login = "runs"
  /\ \A s \in Syncs : holder = s <=> sync[s].stage \in {Calls[i] : i \in DOMAIN Calls}

\* No mark, and no generation, is ahead of the present one; the last mark stays.
InOrder ==
  /\ \A s \in Syncs : /\ sync[s].mark <= flag.generation
                       /\ sync[s].expected <= server.generation
  /\ flag.generation = LastMark => flag.required

\* What a synchronisation sends is auth.json as long as it has the lock; a late
\* application has its secret with the service.
SecretIsLocal ==
  \A s \in Syncs :
    /\ sync[s].stage \in {"create", "put", "apply"} => sync[s].secret = local
    /\ sync[s].stage = "apply" \/ s \in late => server.upload[s] = {sync[s].secret}
    /\ s \in late => sync[s].stage = "end"

\* Whoever may vouch for the credentials of the service is right, also after a
\* late application that the service would still accept.
Vouched ==
  MayVouch /\ ~Unsettled =>
    /\ server.cred = Standing
    /\ \A s \in late : Fits(s) => sync[s].secret = Standing

\* The inductive invariant of AuthSync_proofs.
SyncInv ==
  /\ ValuesOK /\ LockHeld /\ InOrder /\ SecretIsLocal /\ Vouched

\* Whatever is a number of auth.json has been given to it.
NumbersOK ==
  /\ newest <= MaxLogins /\ local <= newest /\ backup <= newest /\ server.cred <= newest
  /\ \A s \in Syncs : sync[s].secret <= newest /\ server.upload[s] \subseteq 0..newest
  /\ holder \in Syncs \cup {Nobody, Login}

\* A synchronisation applies its plan once; these have not done it yet.
Pending == {s \in Syncs : sync[s].stage \notin {"clear", "end"} \/ s \in late}
ApplicationsCounted == server.generation + Cardinality(Pending) <= MaxSyncs

\* An account that is not marked for synchronisation has the credentials the
\* service has: a synchronisation that overlaps a login, or whose application
\* arrives late, never clears the mark of newer credentials, and when the
\* generations are used up the mark stays.  Excepted are the moment between a
\* login and its mark, and a login that died there.
FlagIsHonest ==
  ~flag.required /\ login = "none" /\ ~unmarked => server.cred = local
=============================================================================

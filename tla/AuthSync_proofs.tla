-------------------------- MODULE AuthSync_proofs --------------------------
(***************************************************************************)
(* An account that is not marked for synchronisation has the credentials   *)
(* that the service has, for any number of synchronisations and logins.    *)
(***************************************************************************)
EXTENDS AuthSync, FiniteSetTheorems, TLAPS

-----------------------------------------------------------------------------
\* Stages and holders

\* The calls of a synchronisation, in its own stages.
LEMMA CallStages ==
  {Calls[i] : i \in DOMAIN Calls} = {"list", "plan", "read", "create", "put", "apply"}
<1>1. DOMAIN Calls = 1..6
  BY DEF Calls
<1>2. \A i \in 1..6 : i = 1 \/ i = 2 \/ i = 3 \/ i = 4 \/ i = 5 \/ i = 6
  OBVIOUS
<1>3. /\ Calls[1] = "list" /\ Calls[2] = "plan" /\ Calls[3] = "read"
      /\ Calls[4] = "create" /\ Calls[5] = "put" /\ Calls[6] = "apply"
  BY DEF Calls
<1> QED
  BY <1>1, <1>2, <1>3

\* The stages of a synchronisation, and who is no synchronisation.
LEMMA StageNames ==
  ASSUME SyncConstants
  PROVE  /\ Stages = {"list", "plan", "read", "create", "put", "apply",
                      "new", "lock", "clear", "end"}
         /\ Syncs \subseteq Nat /\ Nobody \notin Syncs /\ Login \notin Syncs
         /\ Login # Nobody
  BY CallStages DEF Stages, Syncs, Nobody, Login, SyncConstants

\* One synchronisation moves, from one stage to another; the rest stay.
LEMMA StageStep ==
  ASSUME ValuesOK, NEW s \in Syncs, NEW to \in Stages,
         sync' = [sync EXCEPT ![s].stage = to]
  PROVE  /\ sync' \in [Syncs -> [stage : Stages, mark : Nat, expected : Nat, secret : Nat]]
         /\ \A r \in Syncs \ {s} : sync'[r] = sync[r]
         /\ sync'[s].stage = to /\ sync'[s].mark = sync[s].mark
         /\ sync'[s].expected = sync[s].expected /\ sync'[s].secret = sync[s].secret
  BY DEF ValuesOK

-----------------------------------------------------------------------------
\* Logins

\* A login changes auth.json under the lock, and marks the account before
\* anybody may vouch for the new one.
LEMMA LoginSteps ==
  ASSUME SyncConstants, SyncInv,
         \/ LoginStarts \/ LoginWrites \/ LoginSucceeds
         \/ LoginFails \/ LoginBreaks \/ Mark
  PROVE  SyncInv'
<1>1. ValuesOK /\ LockHeld /\ InOrder /\ SecretIsLocal /\ Vouched
  BY DEF SyncInv
<1>2. UNCHANGED <<sync, server, late>>
  BY DEF LoginStarts, LoginWrites, LoginSucceeds, LoginFails, LoginBreaks, Mark,
     serverVars
<1>3. ValuesOK'
  <2>1. flag' \in [required : BOOLEAN, generation : 0..LastMark]
    <3>1. flag.generation \in 0..LastMark
      BY <1>1 DEF ValuesOK
    <3>2. flag' = flag \/ (/\ flag.generation < LastMark
                          /\ flag' = [required |-> TRUE,
                                      generation |-> flag.generation + 1])
      BY <3>1
      DEF LoginStarts, LoginWrites, LoginSucceeds, LoginFails, LoginBreaks,
          Mark, SyncConstants
    <3>3. flag.generation < LastMark => flag.generation + 1 \in 0..LastMark
      BY <3>1 DEF SyncConstants
    <3>4. flag \in [required : BOOLEAN, generation : 0..LastMark]
      BY <1>1 DEF ValuesOK
    <3>5. ASSUME NEW g \in 0..LastMark
          PROVE  [required |-> TRUE, generation |-> g]
                   \in [required : BOOLEAN, generation : 0..LastMark]
      OBVIOUS
    <3> QED
      BY <3>2, <3>3, <3>4, <3>5, Zenon
  <2>2. unmarked' \in BOOLEAN
    <3>1. unmarked \in BOOLEAN
      BY <1>1 DEF ValuesOK
    <3>2. CASE LoginBreaks
      BY <3>2, Zenon DEF LoginBreaks
    <3>3. CASE Mark
      BY <3>1, <3>3, Zenon DEF Mark
    <3>4. CASE LoginStarts \/ LoginWrites \/ LoginSucceeds \/ LoginFails
      BY <3>1, <3>4
      DEF LoginStarts, LoginWrites, LoginSucceeds, LoginFails, RestoreBackup
    <3> QED
      BY <3>2, <3>3, <3>4
  <2>3. /\ newest' \in Nat /\ local' \in Nat /\ backup' \in Nat
        /\ login' \in {"none", "runs", "mark"}
    BY <1>1
    DEF LoginStarts, LoginWrites, LoginSucceeds, LoginFails, LoginBreaks, Mark,
        RestoreBackup, ValuesOK
  <2> QED
    BY <1>1, <1>2, <2>1, <2>2, <2>3 DEF ValuesOK
<1>4. LockHeld'
  BY <1>1, <1>2, StageNames
  DEF LoginStarts, LoginWrites, LoginSucceeds, LoginFails, LoginBreaks, Mark,
      LockHeld
<1>5. InOrder'
  BY <1>1, <1>2
  DEF LoginStarts, LoginWrites, LoginSucceeds, LoginFails, LoginBreaks, Mark,
      InOrder, ValuesOK, SyncConstants
<1>6. SecretIsLocal'
  <2>1. login = "runs" =>
          \A s \in Syncs : sync[s].stage \notin {"create", "put", "apply"}
    BY <1>1, CallStages, StageNames DEF LockHeld
  <2>2. login # "runs" => local' = local
    BY DEF LoginStarts, LoginWrites, LoginSucceeds, LoginFails, LoginBreaks, Mark
  <2> QED
    BY <1>1, <1>2, <2>1, <2>2 DEF SecretIsLocal
<1>7. Vouched'
  <2>1. CASE Mark
    <3>1. CASE flag.generation >= LastMark
      <4>1. flag.generation \in 0..LastMark
        BY <1>1 DEF ValuesOK
      <4>2. flag.generation = LastMark
        BY <3>1, <4>1 DEF SyncConstants
      <4>3. flag.required
        BY <1>1, <4>2, Zenon DEF InOrder
      <4>4. flag' = flag
        BY <2>1, <3>1 DEF Mark
      <4>5. ~MayVouch'
        BY <4>2, <4>3, <4>4, Zenon DEF MayVouch, MayClear
      <4> QED
        BY <4>5 DEF Vouched
    <3>2. CASE ~(flag.generation >= LastMark)
      <4>1. flag' = [required |-> TRUE, generation |-> flag.generation + 1]
        BY <2>1, <3>2 DEF Mark
      <4>2. \A s \in Syncs : sync'[s].mark < flag'.generation
        BY <1>1, <1>2, <4>1 DEF InOrder, ValuesOK
      <4>3. ~MayVouch'
        BY <1>1, <1>2, <4>1, <4>2 DEF MayVouch, MayClear, ValuesOK
      <4> QED
        BY <4>3 DEF Vouched
    <3> QED
      BY <3>1, <3>2
  <2>2. CASE \/ LoginStarts \/ LoginWrites \/ LoginSucceeds
             \/ LoginFails \/ LoginBreaks
    <3>1. UNCHANGED flag
      BY <2>2
      DEF LoginStarts, LoginWrites, LoginSucceeds, LoginFails, LoginBreaks
    <3>2. ~Unsettled' => ~Unsettled /\ Standing' = Standing
      BY <1>1, <2>2
      DEF LoginStarts, LoginWrites, LoginSucceeds, LoginFails, LoginBreaks,
          RestoreBackup, Unsettled, Standing, ValuesOK
    <3>3. MayVouch' <=> MayVouch
      BY <1>2, <3>1 DEF MayVouch, MayClear
    <3> QED
      BY <1>1, <1>2, <3>2, <3>3 DEF Vouched, Fits
  <2> QED
    BY <2>1, <2>2
<1> QED
  BY <1>3, <1>4, <1>5, <1>6, <1>7 DEF SyncInv

-----------------------------------------------------------------------------
\* Synchronisations

\* A step that changes nothing but the stage, and at most the lock, keeps
\* everything, if it takes up no call and gives nobody the right to vouch.
LEMMA QuietStep ==
  ASSUME SyncConstants, SyncInv, NEW s \in Syncs, NEW to \in Stages,
         sync' = [sync EXCEPT ![s].stage = to],
         UNCHANGED <<loginVars, flag, server, late>>,
         sync[s].stage # "end", to # "clear",
         to \in {"create", "put", "apply"} =>
           sync[s].stage \in {"create", "put", "apply"},
         to = "apply" => server.upload[s] = {sync[s].secret},
         LockHeld'
  PROVE  SyncInv'
<1>1. ValuesOK /\ LockHeld /\ InOrder /\ SecretIsLocal /\ Vouched
  BY DEF SyncInv
<1>2. /\ sync' \in [Syncs -> [stage : Stages, mark : Nat, expected : Nat, secret : Nat]]
      /\ \A r \in Syncs \ {s} : sync'[r] = sync[r]
      /\ sync'[s].stage = to /\ sync'[s].mark = sync[s].mark
      /\ sync'[s].expected = sync[s].expected /\ sync'[s].secret = sync[s].secret
  BY <1>1, StageStep
<1>3. \A r \in Syncs : /\ sync'[r].mark = sync[r].mark
                       /\ sync'[r].expected = sync[r].expected
                       /\ sync'[r].secret = sync[r].secret
  BY <1>2
<1>4. ValuesOK' /\ InOrder'
  BY <1>1, <1>2, <1>3 DEF ValuesOK, InOrder, loginVars
<1>5. SecretIsLocal'
  BY <1>1, <1>2, <1>3 DEF SecretIsLocal, loginVars
<1>6. Standing' = Standing /\ (Unsettled' <=> Unsettled)
  BY DEF Standing, Unsettled, loginVars
<1>7. MayVouch' => MayVouch
  BY <1>2, <1>3 DEF MayVouch, MayClear
<1>8. Vouched'
  BY <1>1, <1>3, <1>6, <1>7 DEF Vouched, Fits, ValuesOK
<1> QED
  BY <1>1, <1>4, <1>5, <1>8 DEF SyncInv

\* The steps that are quiet.
LEMMA QuietSteps ==
  ASSUME SyncConstants, SyncInv, NEW s \in Syncs,
         SyncLocks(s) \/ SyncFails(s) \/ PlanSync(s) \/ CreateSession(s)
  PROVE  SyncInv'
<1>1. ValuesOK /\ LockHeld
  BY DEF SyncInv
<1>2. ASSUME NEW to \in Stages, sync' = [sync EXCEPT ![s].stage = to],
             \/ /\ holder' = holder
                /\ sync[s].stage \in {"list", "plan", "read", "create", "put", "apply"}
                     <=> to \in {"list", "plan", "read", "create", "put", "apply"}
             \/ /\ holder = Nobody /\ holder' = s
                /\ to \in {"list", "plan", "read", "create", "put", "apply"}
             \/ /\ holder = s /\ holder' = Nobody
                /\ to \notin {"list", "plan", "read", "create", "put", "apply"},
             UNCHANGED login
      PROVE  LockHeld'
  <2>1. /\ \A r \in Syncs \ {s} : sync'[r] = sync[r]
        /\ sync'[s].stage = to
    BY <1>1, <1>2, StageStep
  <2> QED
    BY <1>1, <1>2, <2>1, CallStages, StageNames DEF LockHeld
<1>3. CASE SyncLocks(s)
  <2>1. /\ sync' = [sync EXCEPT ![s].stage = "list"] /\ sync[s].stage = "lock"
        /\ holder = Nobody /\ holder' = s
        /\ UNCHANGED <<loginVars, flag, server, late>>
    BY <1>3 DEF SyncLocks, serverVars
  <2>2. LockHeld'
    BY <1>2, <2>1, StageNames DEF loginVars
  <2> QED
    BY <2>1, <2>2, QuietStep, StageNames
<1>4. CASE SyncFails(s)
  <2>1. /\ sync' = [sync EXCEPT ![s].stage = "end"] /\ sync[s].stage # "end"
        /\ holder' = IF holder = s THEN Nobody ELSE holder
        /\ UNCHANGED <<loginVars, flag, server, late>>
    BY <1>4 DEF SyncFails, serverVars
  <2>2. holder # s =>
          sync[s].stage \notin {"list", "plan", "read", "create", "put", "apply"}
    BY <1>1, CallStages DEF LockHeld
  <2>3. LockHeld'
    BY <1>2, <2>1, <2>2, StageNames DEF loginVars
  <2> QED
    BY <2>1, <2>3, QuietStep, StageNames
<1>5. CASE PlanSync(s)
  <2>1. /\ sync' = [sync EXCEPT ![s].stage = "read"] /\ sync[s].stage = "plan"
        /\ UNCHANGED <<loginVars, flag, server, late, holder>>
    BY <1>5 DEF PlanSync, serverVars
  <2>2. LockHeld'
    BY <1>2, <2>1, StageNames DEF loginVars
  <2> QED
    BY <2>1, <2>2, QuietStep, StageNames
<1>6. CASE CreateSession(s)
  <2>1. /\ sync' = [sync EXCEPT ![s].stage = "put"] /\ sync[s].stage = "create"
        /\ UNCHANGED <<loginVars, flag, server, late, holder>>
    BY <1>6 DEF CreateSession, serverVars
  <2>2. LockHeld'
    BY <1>2, <2>1, StageNames DEF loginVars
  <2> QED
    BY <2>1, <2>2, QuietStep, StageNames
<1> QED
  BY <1>3, <1>4, <1>5, <1>6

\* Reading the mark, the generation and auth.json.
LEMMA ReadingSteps ==
  ASSUME SyncConstants, SyncInv, NEW s \in Syncs,
         SyncBegins(s) \/ ListAccounts(s) \/ ReadAuth(s)
  PROVE  SyncInv'
<1>1. ValuesOK /\ LockHeld /\ InOrder /\ SecretIsLocal /\ Vouched
  BY DEF SyncInv
<1>2. UNCHANGED <<loginVars, flag, holder, server, late>>
  BY DEF SyncBegins, ListAccounts, ReadAuth, serverVars
<1>3. /\ flag.generation \in Nat /\ server.generation \in Nat /\ local \in Nat
      /\ sync \in [Syncs -> [stage : Stages, mark : Nat, expected : Nat, secret : Nat]]
  BY <1>1 DEF ValuesOK, SyncConstants
<1>4. /\ sync' \in [Syncs -> [stage : Stages, mark : Nat, expected : Nat, secret : Nat]]
      /\ \A r \in Syncs \ {s} : sync'[r] = sync[r]
  BY <1>3, StageNames DEF SyncBegins, ListAccounts, ReadAuth
<1>5. \/ /\ sync[s].stage = "new" /\ sync'[s].stage = "lock"
         /\ sync'[s].mark = flag.generation
         /\ sync'[s].expected = sync[s].expected /\ sync'[s].secret = sync[s].secret
      \/ /\ sync[s].stage = "list" /\ sync'[s].stage = "plan"
         /\ sync'[s].expected = server.generation
         /\ sync'[s].mark = sync[s].mark /\ sync'[s].secret = sync[s].secret
      \/ /\ sync[s].stage = "read" /\ sync'[s].stage = "create"
         /\ sync'[s].secret = local
         /\ sync'[s].mark = sync[s].mark /\ sync'[s].expected = sync[s].expected
  BY <1>3 DEF SyncBegins, ListAccounts, ReadAuth
<1>6. s \notin late
  BY <1>1, <1>5 DEF SecretIsLocal
<1>7. LockHeld'
  BY <1>1, <1>2, <1>4, <1>5, CallStages DEF LockHeld, loginVars
<1>8. ValuesOK' /\ InOrder'
  BY <1>1, <1>2, <1>3, <1>4, <1>5 DEF ValuesOK, InOrder, loginVars
<1>9. SecretIsLocal'
  BY <1>1, <1>2, <1>4, <1>5, <1>6 DEF SecretIsLocal, loginVars
<1>10. Standing' = Standing /\ (Unsettled' <=> Unsettled)
  BY <1>2 DEF Standing, Unsettled, loginVars
<1>11. MayVouch' => MayVouch
  BY <1>2, <1>4, <1>5 DEF MayVouch, MayClear
<1>12. Vouched'
  BY <1>1, <1>2, <1>4, <1>5, <1>6, <1>10, <1>11 DEF Vouched, Fits, ValuesOK
<1> QED
  BY <1>7, <1>8, <1>9, <1>12 DEF SyncInv

\* The secret that is put is auth.json of the moment.
LEMMA PutStep ==
  ASSUME SyncConstants, SyncInv, NEW s \in Syncs, NEW answered \in BOOLEAN,
         PutSecret(s, answered)
  PROVE  SyncInv'
<1>1. ValuesOK /\ LockHeld /\ InOrder /\ SecretIsLocal /\ Vouched
  BY DEF SyncInv
<1>2. /\ UNCHANGED <<loginVars, flag, late>> /\ sync[s].stage = "put"
      /\ server' = [server EXCEPT !.upload[s] = {sync[s].secret}]
      /\ \/ sync' = [sync EXCEPT ![s].stage = "apply"] /\ holder' = holder
         \/ sync' = [sync EXCEPT ![s].stage = "end"] /\ holder' = Nobody
  BY DEF PutSecret
<1>3. /\ server' \in [cred : Nat, generation : Nat, upload : [Syncs -> SUBSET Nat]]
      /\ server'.cred = server.cred /\ server'.generation = server.generation
      /\ server'.upload[s] = {sync[s].secret}
      /\ \A r \in Syncs \ {s} : server'.upload[r] = server.upload[r]
  BY <1>1, <1>2 DEF ValuesOK
<1>4. /\ sync' \in [Syncs -> [stage : Stages, mark : Nat, expected : Nat, secret : Nat]]
      /\ \A r \in Syncs \ {s} : sync'[r] = sync[r]
      /\ sync'[s].mark = sync[s].mark /\ sync'[s].expected = sync[s].expected
      /\ sync'[s].secret = sync[s].secret
      /\ sync'[s].stage = "apply" \/ sync'[s].stage = "end"
      /\ sync'[s].stage = "apply" <=> holder' = s
      /\ holder = s /\ holder' \in {holder, Nobody}
  BY <1>1, <1>2, StageStep, StageNames, CallStages DEF LockHeld
<1>5. s \notin late
  BY <1>1, <1>2 DEF SecretIsLocal
<1>6. ValuesOK' /\ InOrder'
  BY <1>1, <1>2, <1>3, <1>4 DEF ValuesOK, InOrder, loginVars
<1>7. LockHeld'
  BY <1>1, <1>2, <1>4, CallStages, StageNames DEF LockHeld, loginVars
<1>8. SecretIsLocal'
  BY <1>1, <1>2, <1>3, <1>4, <1>5 DEF SecretIsLocal, loginVars
<1>9. Standing' = Standing /\ (Unsettled' <=> Unsettled)
  BY <1>2 DEF Standing, Unsettled, loginVars
<1>10. MayVouch' => MayVouch
  BY <1>2, <1>4 DEF MayVouch, MayClear
<1>11. Vouched'
  BY <1>1, <1>2, <1>3, <1>4, <1>5, <1>9, <1>10 DEF Vouched, Fits, ValuesOK
<1> QED
  BY <1>6, <1>7, <1>8, <1>11 DEF SyncInv

\* What the service has after it was asked to apply a plan with its secret.
LEMMA AppliedResult ==
  ASSUME ValuesOK, NEW s \in Syncs, server.upload[s] = {sync[s].secret}
  PROVE  IF Fits(s)
         THEN /\ Applied(s) \in [cred : Nat, generation : Nat,
                                 upload : [Syncs -> SUBSET Nat]]
              /\ Applied(s).cred = sync[s].secret
              /\ Applied(s).generation = server.generation + 1
              /\ Applied(s).upload = server.upload
         ELSE Applied(s) = server
<1>1. server.upload[s] # {} /\ (CHOOSE v \in server.upload[s] : TRUE) = sync[s].secret
  OBVIOUS
<1>2. /\ sync[s].secret \in Nat
      /\ server \in [cred : Nat, generation : Nat, upload : [Syncs -> SUBSET Nat]]
  BY DEF ValuesOK
<1>3. CASE Fits(s)
  <2>1. Applied(s) = [server EXCEPT !.cred = sync[s].secret,
                                    !.generation = server.generation + 1]
    BY <1>1, <1>3 DEF Applied
  <2> DEFINE Kind == [cred : Nat, generation : Nat, upload : [Syncs -> SUBSET Nat]]
             taken == [server EXCEPT !.cred = sync[s].secret]
  <2>2. /\ taken \in Kind /\ taken.cred = sync[s].secret
        /\ taken.generation = server.generation /\ taken.upload = server.upload
    BY <1>2
  <2>3. Applied(s) = [taken EXCEPT !.generation = server.generation + 1]
    BY <2>1
  <2>4. server.generation + 1 \in Nat
    BY <1>2
  <2> HIDE DEF taken
  <2> QED
    BY <1>3, <2>2, <2>3, <2>4
<1>4. CASE ~Fits(s)
  BY <1>4 DEF Applied
<1> QED
  BY <1>3, <1>4

\* Whoever applies under the lock applies auth.json of the moment.
LEMMA ApplyStep ==
  ASSUME SyncConstants, SyncInv, NEW s \in Syncs, NEW answered \in BOOLEAN,
         Apply(s, answered)
  PROVE  SyncInv'
<1>1. ValuesOK /\ LockHeld /\ InOrder /\ SecretIsLocal /\ Vouched
  BY DEF SyncInv
<1>2. /\ UNCHANGED <<loginVars, flag, late>> /\ sync[s].stage = "apply" /\ Fits(s)
      /\ server' = Applied(s) /\ holder' = Nobody
      /\ \E to \in {"clear", "end"} : sync' = [sync EXCEPT ![s].stage = to]
  BY DEF Apply
<1>3. /\ server' \in [cred : Nat, generation : Nat, upload : [Syncs -> SUBSET Nat]]
      /\ server'.cred = local
      /\ server'.generation = server.generation + 1
      /\ server'.upload = server.upload
  BY <1>1, <1>2, AppliedResult DEF SecretIsLocal
<1>4. /\ sync' \in [Syncs -> [stage : Stages, mark : Nat, expected : Nat, secret : Nat]]
      /\ \A r \in Syncs \ {s} : sync'[r] = sync[r]
      /\ sync'[s].mark = sync[s].mark /\ sync'[s].expected = sync[s].expected
      /\ sync'[s].secret = sync[s].secret
      /\ sync'[s].stage = "clear" \/ sync'[s].stage = "end"
      /\ holder = s /\ login # "runs"
  BY <1>1, <1>2, StageStep, StageNames, CallStages DEF LockHeld
<1>5. s \notin late
  BY <1>1, <1>2 DEF SecretIsLocal
<1>6. ValuesOK'
  BY <1>1, <1>2, <1>3, <1>4 DEF ValuesOK, loginVars
<1>7. \A r \in Syncs : sync'[r].expected < server'.generation
  BY <1>1, <1>3, <1>4 DEF InOrder, ValuesOK
<1>8. InOrder'
  BY <1>1, <1>2, <1>4, <1>6, <1>7 DEF InOrder, ValuesOK
<1>9. LockHeld'
  BY <1>1, <1>2, <1>4, CallStages, StageNames DEF LockHeld, loginVars
<1>10. SecretIsLocal'
  BY <1>1, <1>2, <1>3, <1>4, <1>5 DEF SecretIsLocal, loginVars
<1>11. server'.cred = Standing' /\ \A r \in late' : ~Fits(r)'
  BY <1>1, <1>2, <1>3, <1>4, <1>6, <1>7 DEF Standing, Fits, ValuesOK, loginVars
<1> QED
  BY <1>6, <1>8, <1>9, <1>10, <1>11 DEF SyncInv, Vouched

\* A request on its way carries auth.json of the moment it was given up.
LEMMA DelayStep ==
  ASSUME SyncConstants, SyncInv, NEW s \in Syncs, ApplyDelayed(s)
  PROVE  SyncInv'
<1>1. ValuesOK /\ LockHeld /\ InOrder /\ SecretIsLocal /\ Vouched
  BY DEF SyncInv
<1>2. /\ UNCHANGED <<loginVars, flag, server>> /\ sync[s].stage = "apply"
      /\ late' = late \cup {s} /\ holder' = Nobody
      /\ sync' = [sync EXCEPT ![s].stage = "end"]
  BY DEF ApplyDelayed
<1>3. /\ sync' \in [Syncs -> [stage : Stages, mark : Nat, expected : Nat, secret : Nat]]
      /\ \A r \in Syncs \ {s} : sync'[r] = sync[r]
      /\ sync'[s].mark = sync[s].mark /\ sync'[s].expected = sync[s].expected
      /\ sync'[s].secret = sync[s].secret /\ sync'[s].stage = "end"
  BY <1>1, <1>2, StageStep, StageNames
<1>h. holder = s /\ login # "runs" /\ sync[s].secret = local
  BY <1>1, <1>2, StageNames, CallStages DEF LockHeld, SecretIsLocal
<1>4. ValuesOK' /\ InOrder'
  BY <1>1, <1>2, <1>3 DEF ValuesOK, InOrder, loginVars
<1>5. LockHeld'
  BY <1>1, <1>2, <1>3, <1>h, CallStages, StageNames DEF LockHeld, loginVars
<1>6. SecretIsLocal'
  BY <1>1, <1>2, <1>3, <1>h DEF SecretIsLocal, loginVars
<1>7. Standing' = Standing /\ Standing = local /\ (Unsettled' <=> Unsettled)
  BY <1>2, <1>h DEF Standing, Unsettled, loginVars
<1>8. MayVouch' => MayVouch
  BY <1>2, <1>3 DEF MayVouch, MayClear
<1>9. Vouched'
  BY <1>1, <1>2, <1>3, <1>h, <1>7, <1>8 DEF Vouched, Fits, ValuesOK
<1> QED
  BY <1>4, <1>5, <1>6, <1>9 DEF SyncInv

\* A late application changes nothing that anybody may vouch for.
LEMMA ArriveStep ==
  ASSUME SyncConstants, SyncInv, NEW s \in Syncs, ApplyArrives(s)
  PROVE  SyncInv'
<1>1. ValuesOK /\ LockHeld /\ InOrder /\ SecretIsLocal /\ Vouched
  BY DEF SyncInv
<1>2. /\ UNCHANGED <<loginVars, flag, holder, sync>> /\ s \in late
      /\ late' = late \ {s} /\ server' = Applied(s)
  BY DEF ApplyArrives
<1>3. server.upload[s] = {sync[s].secret}
  BY <1>1, <1>2 DEF SecretIsLocal
<1>4. /\ Standing' = Standing /\ (Unsettled' <=> Unsettled)
      /\ (MayVouch' <=> MayVouch) /\ LockHeld'
  BY <1>1, <1>2 DEF Standing, Unsettled, MayVouch, MayClear, LockHeld, loginVars
<1>5. CASE Fits(s)
  <2>1. /\ server' \in [cred : Nat, generation : Nat, upload : [Syncs -> SUBSET Nat]]
        /\ server'.cred = sync[s].secret
        /\ server'.generation = server.generation + 1
        /\ server'.upload = server.upload
    BY <1>1, <1>2, <1>3, <1>5, AppliedResult
  <2>2. ValuesOK'
    BY <1>1, <1>2, <2>1 DEF ValuesOK, loginVars
  <2>3. \A r \in Syncs : sync'[r].expected < server'.generation
    BY <1>1, <1>2, <2>1 DEF InOrder, ValuesOK
  <2>4. InOrder'
    BY <1>1, <1>2, <2>2, <2>3 DEF InOrder, ValuesOK
  <2>5. SecretIsLocal'
    BY <1>1, <1>2, <2>1 DEF SecretIsLocal, loginVars
  <2>6. \A r \in late' : ~Fits(r)'
    BY <2>2, <2>3 DEF Fits, ValuesOK
  <2>7. Vouched'
    BY <1>1, <1>2, <1>4, <1>5, <2>1, <2>6 DEF Vouched
  <2> QED
    BY <1>4, <2>2, <2>4, <2>5, <2>7 DEF SyncInv
<1>6. CASE ~Fits(s)
  <2>1. server' = server
    BY <1>1, <1>2, <1>3, <1>6, AppliedResult
  <2> QED
    BY <1>1, <1>2, <1>4, <2>1
    DEF SyncInv, ValuesOK, InOrder, SecretIsLocal, Vouched, Fits, loginVars
<1> QED
  BY <1>5, <1>6

\* Only who may vouch clears the mark.
LEMMA ClearStep ==
  ASSUME SyncConstants, SyncInv, NEW s \in Syncs, Clear(s)
  PROVE  SyncInv'
<1>1. ValuesOK /\ LockHeld /\ InOrder /\ SecretIsLocal /\ Vouched
  BY DEF SyncInv
<1>2. /\ UNCHANGED <<loginVars, holder, server, late>> /\ sync[s].stage = "clear"
      /\ sync' = [sync EXCEPT ![s].stage = "end"]
      /\ flag' = IF MayClear(sync[s].mark) THEN [flag EXCEPT !.required = FALSE]
                 ELSE flag
  BY DEF Clear, serverVars
<1>3. /\ sync' \in [Syncs -> [stage : Stages, mark : Nat, expected : Nat, secret : Nat]]
      /\ \A r \in Syncs \ {s} : sync'[r] = sync[r]
      /\ sync'[s].mark = sync[s].mark /\ sync'[s].expected = sync[s].expected
      /\ sync'[s].secret = sync[s].secret /\ sync'[s].stage = "end"
  BY <1>1, <1>2, StageStep, StageNames
<1>4. flag \in [required : BOOLEAN, generation : 0..LastMark]
  BY <1>1 DEF ValuesOK
<1>5. /\ flag' \in [required : BOOLEAN, generation : 0..LastMark]
      /\ flag'.generation = flag.generation
  BY <1>2, <1>4
<1>6. flag'.required = flag.required \/ MayClear(sync[s].mark)
  BY <1>2
<1>7. ValuesOK'
  BY <1>1, <1>2, <1>3, <1>5 DEF ValuesOK, loginVars
<1>8. InOrder'
  BY <1>1, <1>2, <1>3, <1>5, <1>6 DEF InOrder, MayClear
<1>9. LockHeld'
  BY <1>1, <1>2, <1>3, CallStages DEF LockHeld, loginVars
<1>10. SecretIsLocal'
  BY <1>1, <1>2, <1>3 DEF SecretIsLocal, loginVars
<1>11. Standing' = Standing /\ (Unsettled' <=> Unsettled)
  BY <1>2 DEF Standing, Unsettled, loginVars
<1>12. MayVouch' => MayVouch
  <2>1. ASSUME NEW r \in Syncs, sync'[r].stage = "clear", MayClear(sync[r].mark)'
        PROVE  MayVouch
    BY <1>3, <1>5, <2>1 DEF MayVouch, MayClear
  <2>2. ASSUME ~flag'.required PROVE MayVouch
    BY <1>2, <1>6, <2>2 DEF MayVouch
  <2> QED
    BY <2>1, <2>2 DEF MayVouch
<1>13. Vouched'
  BY <1>1, <1>2, <1>3, <1>11, <1>12 DEF Vouched, Fits, ValuesOK
<1> QED
  BY <1>7, <1>8, <1>9, <1>10, <1>13 DEF SyncInv

-----------------------------------------------------------------------------
\* Every step

\* SyncInv holds initially.
LEMMA SyncInvInit == SyncConstants /\ Init => SyncInv
<1> SUFFICES ASSUME SyncConstants, Init PROVE SyncInv
  OBVIOUS
<1>1. ValuesOK
  <2>1. flag \in [required : BOOLEAN, generation : 0..LastMark]
    <3>1. 0 \in 0..LastMark
      BY DEF SyncConstants
    <3> QED
      BY <3>1 DEF Init
  <2>2. sync \in [Syncs -> [stage : Stages, mark : Nat, expected : Nat, secret : Nat]]
    BY StageNames DEF Init
  <2>3. server \in [cred : Nat, generation : Nat, upload : [Syncs -> SUBSET Nat]]
    BY DEF Init
  <2> QED
    BY <2>1, <2>2, <2>3 DEF Init, ValuesOK
<1>2. LockHeld
  BY StageNames, CallStages DEF Init, LockHeld
<1>3. InOrder
  BY DEF Init, InOrder, SyncConstants
<1>4. SecretIsLocal /\ Vouched
  BY DEF Init, SecretIsLocal, Vouched, Standing
<1> QED
  BY <1>1, <1>2, <1>3, <1>4 DEF SyncInv

\* SyncInv is preserved by every step.
LEMMA SyncInvPreserved ==
  ASSUME SyncConstants, SyncInv, [Next]_authVars
  PROVE  SyncInv'
<1>1. CASE UNCHANGED authVars
  BY <1>1
  DEF authVars, loginVars, serverVars, SyncInv, ValuesOK, LockHeld, InOrder,
      SecretIsLocal, Vouched, MayVouch, MayClear, Unsettled, Standing, Fits
<1>2. CASE Next
  BY <1>2, LoginSteps, QuietSteps, ReadingSteps, PutStep, ApplyStep, DelayStep,
     ArriveStep, ClearStep DEF Next
<1> QED
  BY <1>1, <1>2

\* An account without a mark has the credentials that the service has.
LEMMA SyncInvHonest == SyncInv => FlagIsHonest
  BY DEF SyncInv, Vouched, MayVouch, Unsettled, Standing, FlagIsHonest

-----------------------------------------------------------------------------
\* Types

\* The numbers stay what they are while nothing but stages, marks and the lock changes.
LEMMA NumbersStay ==
  ASSUME NumbersOK, newest' = newest, local' = local, backup' = backup,
         server'.cred = server.cred, server'.upload = server.upload,
         \A s \in Syncs : sync'[s].secret = sync[s].secret,
         holder' \in Syncs \cup {Nobody, Login}
  PROVE  NumbersOK'
BY DEF NumbersOK

\* Numbers are given by logins, and go from auth.json to the service.
LEMMA NumbersPreserved ==
  ASSUME SyncConstants, SyncInv, NumbersOK, [Next]_authVars
  PROVE  NumbersOK'
<1>1. ValuesOK /\ LockHeld /\ SecretIsLocal /\ SyncConstants
  BY DEF SyncInv
<1>2. ASSUME \/ LoginStarts \/ LoginWrites \/ LoginSucceeds
             \/ LoginFails \/ LoginBreaks \/ Mark
      PROVE  NumbersOK'
  <2>1. UNCHANGED <<sync, server>>
    BY <1>2 DEF LoginStarts, LoginWrites, LoginSucceeds, LoginFails, LoginBreaks, Mark,
       serverVars
  <2>2. holder' \in Syncs \cup {Nobody, Login}
    BY <1>2 DEF LoginStarts, LoginWrites, LoginSucceeds, LoginFails, LoginBreaks, Mark, NumbersOK
  <2>3. /\ newest' \in Nat /\ newest <= newest' /\ newest' <= MaxLogins
        /\ local' <= newest' /\ backup' <= newest'
    BY <1>1, <1>2 DEF LoginStarts, LoginWrites, LoginSucceeds, LoginFails, LoginBreaks, Mark,
       RestoreBackup, NumbersOK, ValuesOK, SyncConstants
  <2>4. /\ server.cred \in Nat
        /\ \A s \in Syncs : sync[s].secret \in Nat
    BY <1>1 DEF ValuesOK
  <2>5. newest \in Nat /\ 0..newest \subseteq 0..newest'
    BY <1>1, <2>3 DEF ValuesOK
  <2> QED
    BY <2>1, <2>2, <2>3, <2>4, <2>5 DEF NumbersOK
<1>3. ASSUME NEW s \in Syncs, NEW to \in Stages,
             sync' = [sync EXCEPT ![s].stage = to], UNCHANGED <<loginVars, server>>,
             holder' \in {holder, Nobody, s}
      PROVE  NumbersOK'
  <2>1. \A r \in Syncs : sync'[r].secret = sync[r].secret
    BY <1>1, <1>3, StageStep
  <2> QED
    BY <1>3, <2>1, NumbersStay DEF loginVars, NumbersOK
<1>4. ASSUME NEW s \in Syncs,
             SyncLocks(s) \/ SyncFails(s) \/ PlanSync(s) \/ CreateSession(s)
             \/ ApplyDelayed(s) \/ Clear(s)
      PROVE  NumbersOK'
  BY <1>3, <1>4, StageNames
  DEF SyncLocks, SyncFails, PlanSync, CreateSession, ApplyDelayed, Clear, serverVars
<1>5. ASSUME NEW s \in Syncs, SyncBegins(s) \/ ListAccounts(s)
      PROVE  NumbersOK'
  <2>1. \A r \in Syncs : sync'[r].secret = sync[r].secret
    BY <1>1, <1>5 DEF SyncBegins, ListAccounts, ValuesOK
  <2> QED
    BY <1>5, <2>1, NumbersStay DEF SyncBegins, ListAccounts, loginVars, serverVars, NumbersOK
<1>6. ASSUME NEW s \in Syncs, ReadAuth(s)
      PROVE  NumbersOK'
  <2>1. \A r \in Syncs : sync'[r].secret = sync[r].secret \/ sync'[r].secret = local
    BY <1>1, <1>6 DEF ReadAuth, ValuesOK
  <2> QED
    BY <1>6, <2>1 DEF ReadAuth, loginVars, serverVars, NumbersOK
<1>7. ASSUME NEW s \in Syncs, NEW answered \in BOOLEAN, PutSecret(s, answered)
      PROVE  NumbersOK'
  <2>1. PICK to \in Stages : sync' = [sync EXCEPT ![s].stage = to]
    BY <1>7, StageNames DEF PutSecret
  <2>2. \A r \in Syncs : sync'[r].secret = sync[r].secret
    BY <1>1, <2>1, StageStep
  <2>3. /\ server'.cred = server.cred
        /\ server'.upload[s] = {sync[s].secret}
        /\ \A r \in Syncs \ {s} : server'.upload[r] = server.upload[r]
    BY <1>1, <1>7 DEF PutSecret, ValuesOK
  <2>4. sync[s].secret \in 0..newest
    BY <1>1 DEF ValuesOK, NumbersOK
  <2>5. UNCHANGED loginVars /\ holder' \in {holder, Nobody}
    BY <1>7 DEF PutSecret
  <2>6. \A r \in Syncs : server'.upload[r] \subseteq 0..newest
    BY <2>3, <2>4 DEF NumbersOK
  <2> QED
    BY <2>2, <2>3, <2>5, <2>6 DEF loginVars, NumbersOK
<1>8. ASSUME NEW s \in Syncs, server' = Applied(s), server.upload[s] = {sync[s].secret},
             UNCHANGED loginVars, holder' \in {holder, Nobody},
             \A r \in Syncs : sync'[r].secret = sync[r].secret
      PROVE  NumbersOK'
  <2>1. server'.upload = server.upload /\ server'.cred \in {server.cred, sync[s].secret}
    BY <1>1, <1>8, AppliedResult
  <2> QED
    BY <1>8, <2>1 DEF loginVars, NumbersOK
<1>9. ASSUME NEW s \in Syncs, NEW answered \in BOOLEAN, Apply(s, answered)
      PROVE  NumbersOK'
  <2>1. PICK to \in Stages : sync' = [sync EXCEPT ![s].stage = to]
    BY <1>9, StageNames DEF Apply
  <2>2. \A r \in Syncs : sync'[r].secret = sync[r].secret
    BY <1>1, <2>1, StageStep
  <2> QED
    BY <1>1, <1>8, <1>9, <2>2 DEF Apply, SecretIsLocal
<1>10. ASSUME NEW s \in Syncs, ApplyArrives(s)
       PROVE  NumbersOK'
  BY <1>1, <1>8, <1>10 DEF ApplyArrives, SecretIsLocal
<1>11. CASE UNCHANGED authVars
  BY <1>11 DEF authVars, loginVars, serverVars, NumbersOK
<1> QED
  BY <1>2, <1>4, <1>5, <1>6, <1>7, <1>9, <1>10, <1>11 DEF Next

\* Fewer synchronisations that are still to apply, by one at least for an application.
LEMMA PendingFalls ==
  ASSUME SyncConstants, ApplicationsCounted, server.generation \in Nat,
         Pending' \subseteq Pending,
         \/ server'.generation = server.generation
         \/ /\ server'.generation = server.generation + 1
            /\ \E s \in Pending : s \notin Pending'
  PROVE  ApplicationsCounted'
<1>1. IsFiniteSet(Syncs)
  BY FS_Interval DEF Syncs, SyncConstants
<1>2. Pending \subseteq Syncs
  BY DEF Pending
<1>3. IsFiniteSet(Pending) /\ Cardinality(Pending) \in Nat
  BY <1>1, <1>2, FS_Subset, FS_CardinalityType
<1>4. /\ Cardinality(Pending') \in Nat /\ Cardinality(Pending') <= Cardinality(Pending)
      /\ Cardinality(Pending') = Cardinality(Pending) => Pending' = Pending
  BY <1>3, FS_Subset, FS_CardinalityType
<1>5. CASE server'.generation = server.generation
  BY <1>3, <1>4, <1>5 DEF ApplicationsCounted, SyncConstants
<1>6. CASE server'.generation = server.generation + 1 /\ \E s \in Pending : s \notin Pending'
  <2>1. Cardinality(Pending') + 1 <= Cardinality(Pending)
    BY <1>3, <1>4, <1>6
  <2> HIDE DEF Pending
  <2> QED
    BY <1>3, <1>4, <1>6, <2>1 DEF ApplicationsCounted, SyncConstants
<1> QED
  BY <1>5, <1>6

\* Each synchronisation takes the service's generation up once at most.
LEMMA CountPreserved ==
  ASSUME SyncConstants, SyncInv, ApplicationsCounted, [Next]_authVars
  PROVE  ApplicationsCounted'
<1>1. ValuesOK /\ SecretIsLocal /\ SyncConstants /\ server.generation \in Nat
  BY DEF SyncInv, ValuesOK
<1>2. ASSUME UNCHANGED <<sync, server, late>>
      PROVE  ApplicationsCounted'
  BY <1>2 DEF ApplicationsCounted, Pending
<1>3. ASSUME NEW s \in Syncs, NEW to \in Stages,
             sync' = [sync EXCEPT ![s].stage = to],
             server'.generation = server.generation,
             late' = late \/ (late' = late \cup {s} /\ s \in Pending),
             sync[s].stage \in {"clear", "end"} => to = "end"
      PROVE  ApplicationsCounted'
  <2>1. (\A r \in Syncs \ {s} : sync'[r] = sync[r]) /\ sync'[s].stage = to
    BY <1>1, <1>3, StageStep
  <2>2. Pending' \subseteq Pending
    BY <1>3, <2>1 DEF Pending
  <2> QED
    BY <1>1, <1>3, <2>2, PendingFalls
<1>4. ASSUME NEW s \in Syncs,
             SyncLocks(s) \/ SyncFails(s) \/ PlanSync(s) \/ CreateSession(s) \/ Clear(s)
      PROVE  ApplicationsCounted'
  <2>1. PICK to \in Stages : /\ sync' = [sync EXCEPT ![s].stage = to]
                             /\ sync[s].stage \in {"clear", "end"} => to = "end"
    BY <1>4, StageNames DEF SyncLocks, SyncFails, PlanSync, CreateSession, Clear
  <2>2. UNCHANGED <<server, late>>
    BY <1>4 DEF SyncLocks, SyncFails, PlanSync, CreateSession, Clear, serverVars
  <2> QED
    BY <1>3, <2>1, <2>2
<1>5. ASSUME NEW s \in Syncs, SyncBegins(s) \/ ListAccounts(s) \/ ReadAuth(s)
      PROVE  ApplicationsCounted'
  <2>1. /\ \A r \in Syncs \ {s} : sync'[r] = sync[r]
        /\ sync[s].stage \in {"new", "list", "read"}
        /\ UNCHANGED <<server, late>>
    BY <1>1, <1>5 DEF SyncBegins, ListAccounts, ReadAuth, ValuesOK, serverVars
  <2>2. Pending' \subseteq Pending
    BY <2>1 DEF Pending
  <2> QED
    BY <1>1, <2>1, <2>2, PendingFalls
<1>6. ASSUME NEW s \in Syncs, NEW answered \in BOOLEAN, PutSecret(s, answered)
      PROVE  ApplicationsCounted'
  <2>1. PICK to \in Stages : sync' = [sync EXCEPT ![s].stage = to]
    BY <1>6, StageNames DEF PutSecret
  <2>2. server'.generation = server.generation /\ late' = late /\ sync[s].stage = "put"
    BY <1>1, <1>6 DEF PutSecret, ValuesOK
  <2> QED
    BY <1>3, <2>1, <2>2
<1>7. ASSUME NEW s \in Syncs, ApplyDelayed(s)
      PROVE  ApplicationsCounted'
  <2>1. s \in Pending /\ sync[s].stage = "apply"
    BY <1>7 DEF ApplyDelayed, Pending
  <2> QED
    BY <1>3, <1>7, <2>1, StageNames DEF ApplyDelayed
<1>8. ASSUME NEW s \in Syncs, NEW answered \in BOOLEAN, Apply(s, answered)
      PROVE  ApplicationsCounted'
  <2>1. PICK to \in {"clear", "end"} : sync' = [sync EXCEPT ![s].stage = to]
    BY <1>8 DEF Apply
  <2>2. (\A r \in Syncs \ {s} : sync'[r] = sync[r]) /\ sync'[s].stage = to
    BY <1>1, <2>1, StageStep, StageNames
  <2>3. sync[s].stage = "apply" /\ late' = late /\ s \notin late
    BY <1>1, <1>8 DEF Apply, SecretIsLocal
  <2>4. server'.generation \in {server.generation, server.generation + 1}
    BY <1>1, <1>8, AppliedResult DEF Apply, SecretIsLocal
  <2>5. Pending' \subseteq Pending /\ s \in Pending /\ s \notin Pending'
    BY <2>1, <2>2, <2>3 DEF Pending
  <2> QED
    BY <1>1, <2>4, <2>5, PendingFalls
<1>9. ASSUME NEW s \in Syncs, ApplyArrives(s)
      PROVE  ApplicationsCounted'
  <2>1. sync' = sync /\ late' = late \ {s} /\ s \in late /\ sync[s].stage = "end"
    BY <1>1, <1>9 DEF ApplyArrives, SecretIsLocal
  <2>2. server'.generation \in {server.generation, server.generation + 1}
    BY <1>1, <1>9, AppliedResult DEF ApplyArrives, SecretIsLocal
  <2>3. Pending' \subseteq Pending /\ s \in Pending /\ s \notin Pending'
    BY <2>1 DEF Pending
  <2> QED
    BY <1>1, <2>2, <2>3, PendingFalls
<1>10. CASE LoginStarts \/ LoginWrites \/ LoginSucceeds \/ LoginFails \/ LoginBreaks \/ Mark
  BY <1>2, <1>10 DEF LoginStarts, LoginWrites, LoginSucceeds, LoginFails, LoginBreaks, Mark,
     serverVars
<1>11. CASE UNCHANGED authVars
  BY <1>2, <1>11 DEF authVars, serverVars
<1> QED
  BY <1>4, <1>5, <1>6, <1>7, <1>8, <1>9, <1>10, <1>11 DEF Next

\* At first no login has given a number, and every synchronisation is to come.
LEMMA SyncCountsInit == SyncConstants /\ Init => NumbersOK /\ ApplicationsCounted
<1> SUFFICES ASSUME SyncConstants, Init PROVE NumbersOK /\ ApplicationsCounted
  OBVIOUS
<1>1. NumbersOK
  BY DEF Init, NumbersOK, SyncConstants
<1>2. Pending = 1..MaxSyncs /\ server.generation = 0
  BY DEF Init, Pending, Syncs
<1>3. Cardinality(1..MaxSyncs) = MaxSyncs
  BY FS_Interval DEF SyncConstants
<1> QED
  BY <1>1, <1>2, <1>3 DEF ApplicationsCounted, SyncConstants

\* The types: no number is above those given, and the generation counts applications.
LEMMA SyncInvTypes ==
  ASSUME SyncConstants, SyncInv, NumbersOK, ApplicationsCounted
  PROVE  TypeOK
<1>1. ValuesOK /\ InOrder /\ SyncConstants
  BY DEF SyncInv
<1>2. Cardinality(Pending) \in Nat
  <2>1. IsFiniteSet(Syncs) /\ Pending \subseteq Syncs
    BY FS_Interval DEF Syncs, SyncConstants, Pending
  <2> QED
    BY <2>1, FS_Subset, FS_CardinalityType
<1>3. server.generation \in 0..MaxSyncs /\ server.cred \in 0..newest
  BY <1>1, <1>2 DEF ApplicationsCounted, ValuesOK, NumbersOK, SyncConstants
<1>4. server.upload \in [Syncs -> SUBSET (0..newest)]
  BY <1>1 DEF ValuesOK, NumbersOK
<1>5. ASSUME NEW s \in Syncs
      PROVE  sync[s] \in [stage : Stages, mark : 0..LastMark, expected : 0..MaxSyncs,
                          secret : 0..newest]
  <2>1. sync[s] \in [stage : Stages, mark : Nat, expected : Nat, secret : Nat]
    BY <1>1 DEF ValuesOK
  <2>2. flag.generation \in 0..LastMark /\ newest \in Nat
    BY <1>1 DEF ValuesOK
  <2>3. sync[s].mark <= flag.generation /\ sync[s].expected <= server.generation
    BY <1>1 DEF InOrder
  <2>4. sync[s].secret <= newest
    BY DEF NumbersOK
  <2>5. sync[s].mark \in 0..LastMark /\ sync[s].expected \in 0..MaxSyncs
        /\ sync[s].secret \in 0..newest
    BY <1>1, <1>3, <2>1, <2>2, <2>3, <2>4 DEF SyncConstants
  <2> QED
    BY <2>1, <2>5
<1>6. sync \in [Syncs -> [stage : Stages, mark : 0..LastMark, expected : 0..MaxSyncs,
                          secret : 0..newest]]
  BY <1>1, <1>5 DEF ValuesOK
<1>7. newest \in 0..MaxLogins /\ local \in 0..newest /\ backup \in 0..newest
  BY <1>1 DEF ValuesOK, NumbersOK, SyncConstants
<1> QED
  BY <1>1, <1>3, <1>4, <1>6, <1>7 DEF TypeOK, ValuesOK, NumbersOK

-----------------------------------------------------------------------------

\* However many synchronisations and logins there are, wherever they fail, and
\* however late their requests arrive.
THEOREM FlagIsHonestCorrect ==
  ASSUME SyncConstants
  PROVE  Spec => []FlagIsHonest
<1>1. SyncInv /\ [Next]_authVars => SyncInv'
  BY SyncInvPreserved
<1>2. Init => SyncInv
  BY SyncInvInit
<1> QED
  BY <1>1, <1>2, SyncInvHonest, PTL DEF Spec
=============================================================================

-------------------------- MODULE MCClients_proofs ---------------------------
(***************************************************************************)
(* The inductive invariants of the parts that talk to somebody: each holds *)
(* at first, is preserved by every step, and implies what MCSystem checks  *)
(* of its part. The lemmas are about steps, for all values of the          *)
(* constants that the assumptions of MCClients allow.                      *)
(***************************************************************************)
EXTENDS MCClients, Sequences, FiniteSetTheorems, TLAPS

-----------------------------------------------------------------------------
(***************************************************************************)
(* The calls of the control service and their resolver processes.          *)
(***************************************************************************)
\* A part that counts brings the operators of FiniteSets under names of its own; they
\* are the same operators.
LEMMA CallCounts ==
  \A S : /\ Call!IsFiniteSet(S) <=> IsFiniteSet(S)
         /\ Call!Cardinality(S) = Cardinality(S)
<1> TAKE S
<1>1. Call!IsFiniteSet(S) <=> IsFiniteSet(S)
  BY DEF Call!IsFiniteSet, IsFiniteSet
<1>2. Call!Cardinality(S) = Cardinality(S)
  BY DEF Call!Cardinality, Cardinality
<1> QED
  BY <1>1, <1>2

LEMMA CallInvInit == Call!Init => Call!CallInv
<1> SUFFICES ASSUME Call!Init PROVE Call!CallInv
  OBVIOUS
<1>1. Call!Owned /\ Call!BatchWaits /\ Call!NeverSleepsOn
  BY DEF Call!Init, Call!Owned, Call!BatchWaits, Call!NeverSleepsOn
<1>2. Call!ValuesOK
  <2>1. v11 \in BOOLEAN /\ v6 \cup v8 = {}
    BY DEF Call!Init
  <2>2. v1 \in [Callers -> {"idle"}] /\ v3 \in [Callers -> 0..v7] /\ v7 \in Nat
        /\ v9 \in Nat
    BY DEF Call!Init, Call!None
  <2> QED
    BY <2>1, <2>2 DEF Call!ValuesOK
<1>3. Call!OwnWorker
  BY DEF Call!Init, Call!OwnWorker
<1>4. Call!Holding = {} /\ Cardinality({}) = 0
  BY FS_EmptySet DEF Call!Init, Call!Holding
<1> QED
  BY <1>1, <1>2, <1>3, <1>4, CallCounts DEF Call!Init, Call!CallInv, Call!SlotsMatch

\* The sets that are counted are finite.
LEMMA CallFinite ==
  ASSUME Call!CallConstants, Call!ValuesOK
  PROVE  /\ IsFiniteSet(Call!Holding) /\ Cardinality(Call!Holding) \in Nat
         /\ IsFiniteSet(v8) /\ Cardinality(v8) \in Nat
<1>1. IsFiniteSet(Call!Holding)
  BY FS_Subset, CallCounts DEF Call!CallConstants, Call!Holding
<1>2. IsFiniteSet(v8)
  <2>1. IsFiniteSet(1..v7) /\ v8 \subseteq 1..v7
    BY FS_Interval DEF Call!ValuesOK
  <2> QED
    BY <2>1, FS_Subset
<1> QED
  BY <1>1, <1>2, FS_CardinalityType

\* A call that takes a slot, keeps what it has, or gives its slot away.
LEMMA CallGoes ==
  ASSUME Call!ValuesOK, NEW c \in Callers, NEW to, Call!Go(c, to)
  PROVE  Call!Holding' = IF to \in {"spawn", "poll", "stop", "give", "keep"}
                    THEN Call!Holding \cup {c} ELSE Call!Holding \ {c}
  BY DEF Call!ValuesOK, Call!Go, Call!Holding

\* The steps that leave the slots alone.
LEMMA CallKeepsSlots ==
  ASSUME Call!CallConstants, Call!CallInv, NEW c \in Callers,
         \/ Call!Begin(c) \/ Call!LocalExchange(c) \/ Call!Decode(c) \/ Call!Expire(c)
         \/ Call!ReserveFails(c) \/ Call!Spawn(c) \/ Call!NoProcess(c) \/ Call!Poll(c)
         \/ Call!Stop(c) \/ Call!Connect(c) \/ Call!Exchange(c)
  PROVE  Call!CallInv'
<1> USE DEF Call!CallInv
<1>1. Call!ValuesOK'
  BY DEF Call!ValuesOK, Call!Begin, Call!LocalExchange, Call!Decode, Call!Expire,
     Call!ReserveFails, Call!Spawn, Call!NoProcess, Call!Poll, Call!Stop,
     Call!Connect, Call!Exchange, Call!Go, Call!End, Call!poolVars, Call!reapVars,
     Call!None
<1>2. Call!OwnWorker'
  <2>1. CASE Call!Spawn(c)
    BY <2>1 DEF Call!ValuesOK, Call!OwnWorker, Call!Spawn, Call!Go, Call!poolVars,
       Call!reapVars, Call!None
  <2> QED
    BY <2>1 DEF Call!ValuesOK, Call!OwnWorker, Call!Begin, Call!LocalExchange,
       Call!Decode, Call!Expire, Call!ReserveFails, Call!NoProcess, Call!Poll,
       Call!Stop, Call!Connect, Call!Exchange, Call!Go, Call!End, Call!poolVars,
       Call!reapVars, Call!None
<1>3. Call!Holding' = Call!Holding
  BY DEF Call!ValuesOK, Call!Holding, Call!Begin, Call!LocalExchange, Call!Decode,
     Call!Expire, Call!ReserveFails, Call!Spawn, Call!NoProcess, Call!Poll, Call!Stop,
     Call!Connect, Call!Exchange, Call!Go, Call!End
<1>4. Call!Owned'
  <2>1. CASE Call!Spawn(c)
    BY <1>3, <2>1 DEF Call!ValuesOK, Call!OwnWorker, Call!Owned, Call!Holding,
       Call!Spawn, Call!Go, Call!poolVars, Call!reapVars, Call!None
  <2>2. CASE Call!NoProcess(c)
    BY <1>3, <2>2 DEF Call!ValuesOK, Call!OwnWorker, Call!Owned, Call!NoProcess,
       Call!Go, Call!poolVars, Call!reapVars, Call!None
  <2>3. CASE Call!Stop(c)
    BY <1>3, <2>3 DEF Call!Owned, Call!Stop, Call!poolVars, Call!reapVars
  <2> QED
    BY <1>3, <2>1, <2>2, <2>3 DEF Call!Owned, Call!Begin, Call!LocalExchange,
       Call!Decode, Call!Expire, Call!ReserveFails, Call!Poll, Call!Connect,
       Call!Exchange, Call!poolVars, Call!reapVars
<1>5. UNCHANGED <<v8, v9, v10, v11, v12>>
  BY DEF Call!Begin, Call!LocalExchange, Call!Decode, Call!Expire, Call!ReserveFails,
     Call!Spawn, Call!NoProcess, Call!Poll, Call!Stop, Call!Connect, Call!Exchange,
     Call!poolVars, Call!reapVars
<1> QED
  BY <1>1, <1>2, <1>3, <1>4, <1>5 DEF Call!SlotsMatch, Call!BatchWaits,
     Call!NeverSleepsOn

LEMMA CallReserves ==
  ASSUME Call!CallConstants, Call!CallInv, NEW c \in Callers, Call!Reserve(c)
  PROVE  Call!CallInv'
<1> USE DEF Call!CallInv
<1>1. Call!Holding' = Call!Holding \cup {c} /\ c \notin Call!Holding
  BY CallGoes DEF Call!Reserve, Call!Holding
<1>2. Cardinality(Call!Holding') = Cardinality(Call!Holding) + 1
  BY <1>1, CallFinite, FS_AddElement
<1>3. Call!SlotsMatch'
  BY <1>2, CallFinite, CallCounts DEF Call!SlotsMatch, Call!Reserve
<1>4. Call!ValuesOK' /\ Call!OwnWorker' /\ Call!BatchWaits' /\ Call!NeverSleepsOn'
  BY DEF Call!ValuesOK, Call!OwnWorker, Call!BatchWaits, Call!NeverSleepsOn,
     Call!Reserve, Call!Go
<1>5. Call!Owned'
  BY <1>1 DEF Call!Owned, Call!Reserve
<1> QED
  BY <1>3, <1>4, <1>5

\* What a call does with its slot at the end of a look-up.
LEMMA CallGivesAway ==
  ASSUME Call!CallConstants, Call!CallInv, NEW c \in Callers,
         Call!Release(c) \/ Call!Defer(c)
  PROVE  Call!CallInv'
<1> USE DEF Call!CallInv
<1>1. Call!Holding' = Call!Holding \ {c} /\ c \in Call!Holding
  BY CallGoes DEF Call!Release, Call!Defer, Call!Resolved, Call!End, Call!Holding
<1>2. /\ Cardinality(Call!Holding') = Cardinality(Call!Holding) - 1
      /\ Cardinality(Call!Holding) \in Nat /\ Cardinality(Call!Holding') \in Nat
      /\ IsFiniteSet(v8) /\ Cardinality(v8) \in Nat
  BY <1>1, CallFinite, FS_RemoveElement, FS_CardinalityType
<1>3. CASE Call!Release(c)
  <2>1. Call!ValuesOK' /\ Call!SlotsMatch'
    BY <1>2, <1>3, CallCounts DEF Call!ValuesOK, Call!SlotsMatch, Call!Release,
       Call!Resolved, Call!Go, Call!End, Call!None, Call!reapVars
  <2>2. Call!OwnWorker'
    BY <1>3 DEF Call!ValuesOK, Call!OwnWorker, Call!Release, Call!Resolved, Call!Go,
       Call!End, Call!None, Call!reapVars
  <2>3. Call!Owned'
    BY <1>1, <1>3 DEF Call!ValuesOK, Call!OwnWorker, Call!Owned, Call!Release,
       Call!reapVars
  <2> QED
    BY <1>3, <2>1, <2>2, <2>3 DEF Call!BatchWaits, Call!NeverSleepsOn, Call!Release,
       Call!reapVars
<1>4. CASE Call!Defer(c)
  <2>1. v3[c] \notin v8 /\ v3[c] \in 1..v7
    BY <1>4 DEF Call!ValuesOK, Call!OwnWorker, Call!Defer, Call!None
  <2>2. Call!ValuesOK'
    BY <1>4, <2>1 DEF Call!ValuesOK, Call!Defer, Call!Resolved, Call!Go, Call!End,
       Call!None
  <2>3. Call!SlotsMatch'
    <3>1. v8' = v8 \cup {v3[c]} /\ v9' = v9
      BY <1>4 DEF Call!Defer
    <3>2. Cardinality(v8') = Cardinality(v8) + 1
      BY <1>2, <2>1, <3>1, FS_AddElement
    <3> QED
      BY <1>2, <3>1, <3>2, CallCounts DEF Call!SlotsMatch
  <2>4. Call!OwnWorker'
    BY <1>4, <2>1 DEF Call!ValuesOK, Call!OwnWorker, Call!Defer, Call!Resolved,
       Call!Go, Call!End, Call!None
  <2>5. Call!Owned'
    BY <1>1, <1>4 DEF Call!ValuesOK, Call!Owned, Call!Defer
  <2> QED
    BY <1>4, <2>2, <2>3, <2>4, <2>5 DEF Call!BatchWaits, Call!NeverSleepsOn,
       Call!Defer
<1> QED
  BY <1>3, <1>4

LEMMA CallReaps ==
  ASSUME Call!CallConstants, Call!CallInv,
         \/ \E p \in Call!Lookups : Call!Exit(p) \/ Call!Reap(p)
         \/ Call!Wake \/ Call!Nap \/ Call!Clear \/ Call!Round \/ Call!RoundEnds
  PROVE  Call!CallInv'
<1> USE DEF Call!CallInv
<1>0. UNCHANGED Call!callVars /\ UNCHANGED v7
  BY DEF Call!Exit, Call!Reap, Call!Wake, Call!Nap, Call!Clear, Call!Round,
     Call!RoundEnds, Call!ReaperMoves
<1>1. Call!Holding' = Call!Holding
  BY <1>0 DEF Call!Holding, Call!callVars
<1>2. ASSUME NEW p \in Call!Lookups, Call!Exit(p) \/ Call!Reap(p)
      PROVE  Call!CallInv'
  <2>1. v6' \subseteq v6 /\ v8' \subseteq v8 /\ v11' = v11
    BY <1>2 DEF Call!Exit, Call!Reap, Call!poolVars, Call!reapVars
  <2>2. Call!SlotsMatch' /\ v9' \in Nat
    <3>1. CASE v8' = v8 \ {p} /\ v9' = v9 - 1 /\ p \in v12
      <4>1. /\ Cardinality(v8') = Cardinality(v8) - 1
            /\ Cardinality(v8) \in Nat /\ Cardinality(v8') \in Nat
            /\ Cardinality(Call!Holding) \in Nat
        BY <3>1, CallFinite, FS_RemoveElement, FS_CardinalityType DEF Call!BatchWaits
      <4> QED
        BY <1>1, <3>1, <4>1, CallCounts DEF Call!SlotsMatch, Call!ValuesOK
    <3> QED
      BY <1>1, <1>2, <3>1 DEF Call!SlotsMatch, Call!ValuesOK, Call!Exit, Call!Reap,
         Call!poolVars
  <2>3. Call!ValuesOK' /\ Call!OwnWorker'
    BY <1>0, <2>1, <2>2 DEF Call!ValuesOK, Call!OwnWorker, Call!callVars
  <2>4. Call!Owned' /\ Call!BatchWaits' /\ Call!NeverSleepsOn'
    BY <1>0, <1>1, <1>2, <2>1 DEF Call!Owned, Call!BatchWaits, Call!NeverSleepsOn,
       Call!Exit, Call!Reap, Call!callVars, Call!poolVars, Call!reapVars
  <2> QED
    BY <2>2, <2>3, <2>4
<1>3. CASE Call!Wake \/ Call!Nap \/ Call!Clear \/ Call!Round \/ Call!RoundEnds
  <2>1. UNCHANGED <<v6, v8, v9>>
    BY <1>3 DEF Call!Wake, Call!Nap, Call!Clear, Call!Round, Call!RoundEnds,
       Call!poolVars
  <2>2. v11' \in BOOLEAN /\ Call!BatchWaits' /\ Call!NeverSleepsOn'
    BY <1>3, <2>1 DEF Call!ValuesOK, Call!BatchWaits, Call!NeverSleepsOn, Call!Wake,
       Call!Nap, Call!Clear, Call!Round, Call!RoundEnds
  <2> QED
    BY <1>0, <1>1, <2>1, <2>2 DEF Call!ValuesOK, Call!OwnWorker, Call!Owned,
       Call!SlotsMatch, Call!callVars
<1> QED
  BY <1>2, <1>3

LEMMA CallInvPreserved ==
  ASSUME Call!CallConstants, Call!CallInv, [Call!Next]_(Call!vars)
  PROVE  Call!CallInv'
<1>1. CASE UNCHANGED Call!vars
  BY <1>1 DEF Call!vars, Call!CallInv, Call!ValuesOK, Call!OwnWorker, Call!Owned,
     Call!Holding, Call!SlotsMatch, Call!BatchWaits, Call!NeverSleepsOn
<1> QED
  BY <1>1, CallKeepsSlots, CallReserves, CallGivesAway, CallReaps DEF Call!Next

\* Each resolver process belongs to a call or waits for the reaper, with one slot.
LEMMA CallInvNotLost == Call!CallInv => Call!NoWorkerIsLost
  BY DEF Call!CallInv, Call!NoWorkerIsLost, Call!Owned, Call!SlotsMatch,
     Call!NeverSleepsOn

-----------------------------------------------------------------------------
(***************************************************************************)
(* The Google login.                                                       *)
(***************************************************************************)
LEMMA GoogleInvInit ==
  ASSUME Google!Init
  PROVE  Google!GoogleInv
<1>1. Google!ValuesOK
  <2>1. Google!TimersOK
    BY DEF Google!Init, Google!TimersOK, Google!None
  <2> QED
    BY <2>1 DEF Google!Init, Google!ValuesOK
<1>2. Google!LeaseIsAll /\ Google!FlowKnows /\ Google!Alone
  BY DEF Google!Init, Google!LeaseIsAll, Google!FlowKnows, Google!Alone,
     Google!WillClose, Google!Allowed, Google!None
<1> QED
  BY <1>1, <1>2 DEF Google!GoogleInv

\* A new timer is that of the listener.
LEMMA GoogleSchedules ==
  ASSUME Google!TimersOK, NEW transaction \in Nat, Google!Schedule(transaction),
         UNCHANGED v1, v2' = transaction
  PROVE  Google!TimersOK' /\ v3' # 0 /\ Google!TimerIsRight'
  BY DEF Google!TimersOK, Google!TimerIsRight, Google!Schedule

\* Closing a listener, successfully or not, leaves what is true outside of a login.
LEMMA GoogleCloses ==
  ASSUME Google!TimersOK, Google!LeaseIsAll, v1 # 0, Google!CloseActive
  PROVE  Google!TimersOK' /\ Google!LeaseIsAll' /\ Google!WillClose'
<1>1. CASE Google!Release
  BY <1>1 DEF Google!Release, Google!TimersOK, Google!LeaseIsAll, Google!WillClose,
     Google!Allowed, Google!None
<1>2. CASE Google!Quarantine
  BY <1>2 DEF Google!Quarantine, Google!TimersOK, Google!LeaseIsAll, Google!WillClose,
     Google!None
<1>3. CASE Google!Schedule(v2) /\ UNCHANGED <<v1, v2, v10>>
  <2>1. Google!TimersOK' /\ Google!TimerIsRight'
    BY <1>3, GoogleSchedules DEF Google!TimersOK
  <2> QED
    BY <1>3, <2>1 DEF Google!LeaseIsAll, Google!WillClose, Google!None
<1> QED
  BY <1>1, <1>2, <1>3 DEF Google!CloseActive, Google!WithoutTimer

LEMMA GoogleInvPreserved ==
  ASSUME Google!GoogleInv, [Google!Next]_(Google!vars)
  PROVE  Google!GoogleInv'
<1> USE DEF Google!GoogleInv, Google!ValuesOK, Google!TimersOK, Google!LeaseIsAll,
            Google!FlowKnows, Google!Alone, Google!WillClose, Google!TimerIsRight, Google!Allowed,
            Google!None, Google!Go
<1>1. CASE Google!Begin
  <2>1. UNCHANGED <<v1, v2, v3, v4, v5, v7, v8, v9, v10, v12, v13>>
        /\ v14' \in Nat /\ v14' > 0
    BY <1>1 DEF Google!Begin, Google!leaseVars
  <2>2. CASE v1 = 0 /\ v6' = TRUE /\ v11' = "acquire"
    BY <2>1, <2>2
  <2>3. CASE UNCHANGED <<v6, v11>>
    BY <2>1, <2>3
  <2> QED
    BY <1>1, <2>2, <2>3 DEF Google!Begin
<1>2. CASE Google!Acquire
  BY <1>2 DEF Google!Acquire, Google!flowVars
<1>3. CASE Google!Transact
  <2>1. CASE v2' = v14 /\ Google!Schedule(v14) /\ Google!Go("browser")
    <3>1. Google!TimersOK'
      BY <1>3, <2>1, GoogleSchedules DEF Google!Transact
    <3> QED
      BY <1>3, <2>1, <3>1 DEF Google!Transact, Google!flowVars
  <2> QED
    BY <1>3, <2>1 DEF Google!Transact, Google!flowVars
<1>4. CASE Google!OpenBrowser \/ Google!Receive \/ Google!Upload
  BY <1>4 DEF Google!OpenBrowser, Google!Receive, Google!Upload, Google!leaseVars,
     Google!flowVars
<1>5. CASE Google!End
  <2>1. CASE v1 # 0
    <3>1. Google!TimersOK' /\ Google!LeaseIsAll' /\ Google!WillClose'
      BY <1>5, <2>1, GoogleCloses DEF Google!End
    <3> QED
      BY <1>5, <3>1 DEF Google!End
  <2> QED
    BY <1>5, <2>1 DEF Google!End, Google!leaseVars
<1>6. ASSUME NEW t \in 1..Len(v7), Google!Fires(t)
      PROVE  Google!GoogleInv'
  BY <1>6 DEF Google!Fires, Google!flowVars
<1>7. ASSUME NEW t \in 1..Len(v7), Google!Expire(t)
      PROVE  Google!GoogleInv'
  <2>1. CASE t = v3 /\ v7[t] = <<v1, v2>>
    <3>1. v1 # 0 /\ Google!CloseActive
      BY <1>7, <2>1 DEF Google!Expire
    <3>2. Google!TimersOK' /\ Google!LeaseIsAll' /\ Google!WillClose'
      BY <3>1, GoogleCloses
    <3> QED
      BY <1>7, <3>2 DEF Google!Expire, Google!flowVars
  <2> QED
    BY <1>7, <2>1 DEF Google!Expire, Google!flowVars, Google!leaseVars
<1>8. CASE UNCHANGED Google!vars
  BY <1>8 DEF Google!vars
<1> QED
  BY <1>1, <1>2, <1>3, <1>4, <1>5, <1>6, <1>7, <1>8 DEF Google!Next

\* Each listener that is still open will be closed by a timer, or blocks every change.
LEMMA GoogleInvNotLost == Google!GoogleInv => Google!NoListenerIsLost
  BY DEF Google!GoogleInv, Google!NoListenerIsLost, Google!ValuesOK, Google!LeaseIsAll,
     Google!Alone, Google!WillClose, Google!TimerIsRight, Google!Allowed

-----------------------------------------------------------------------------
(***************************************************************************)
(* The page of the extension.                                              *)
(***************************************************************************)
\* A message more at the end of the window's messages.
LEMMA PageAppends ==
  ASSUME NEW w \in Seq(Page!Messages), NEW m \in Page!Messages
  PROVE  /\ Append(w, m) \in Seq(Page!Messages)
         /\ Len(w) \in Nat /\ DOMAIN w = 1 .. Len(w)
         /\ DOMAIN Append(w, m) = 1 .. Len(w) + 1
         /\ \A k \in 1 .. Len(w) : Append(w, m)[k] = w[k]
         /\ Append(w, m)[Len(w) + 1] = m
  OBVIOUS

\* The first one taken from them.
LEMMA PageTails ==
  ASSUME NEW w \in Seq(Page!Messages), w # <<>>
  PROVE  /\ Tail(w) \in Seq(Page!Messages)
         /\ Len(w) \in Nat /\ Len(w) >= 1 /\ DOMAIN w = 1 .. Len(w)
         /\ Head(w) = w[1] /\ w[1] \in Page!Messages
         /\ DOMAIN Tail(w) = 1 .. Len(w) - 1
         /\ \A k \in 1 .. Len(w) - 1 : Tail(w)[k] = w[k + 1]
  OBVIOUS

LEMMA PageMessages ==
  ASSUME Page!ValuesOK
  PROVE  \A k \in DOMAIN v6 :
           /\ v6[k] \in Page!Messages
           /\ v6[k].item \in Page!Items /\ v6[k].id \in Page!Ids
           /\ v6[k].to \in {"hook", "script"}
<1>1. \A k \in DOMAIN v6 : v6[k] \in Page!Messages
  BY DEF Page!ValuesOK
<1> QED
  BY <1>1 DEF Page!Messages

LEMMA PageItems ==
  ASSUME Page!PageConstants
  PROVE  Page!NoItem \in Page!Items /\ Page!NoItem.seq = 0 /\ ~Page!NoItem.main
         /\ 0 \in Page!Ids
  BY DEF Page!PageConstants, Page!NoItem, Page!Items, Page!Ids

LEMMA PageInvInit ==
  ASSUME Page!PageConstants, Page!Init
  PROVE  Page!PageInv
<1>1. v6 \in Seq(Page!Messages) /\ DOMAIN v6 = {}
  BY DEF Page!Init
<1>2. Page!TypeOK
  <2>1. v3 \in Page!Items /\ v7 \in Page!Items /\ v8 \in Page!Ids
    BY PageItems DEF Page!Init
  <2>2. v14 \in [born : 0 .. MaxSends, send : 0 .. MaxSends]
    BY DEF Page!Init, Page!NoPayload, Page!PageConstants
  <2> QED
    BY <1>1, <2>1, <2>2 DEF Page!Init, Page!TypeOK
<1>3. /\ v1 \in 0 .. MaxRequests /\ v2 \in 0 .. v1 /\ v13 \in 0 .. MaxSends
      /\ v4 = {} /\ v8 \in {0, v13}
  BY DEF Page!Init, Page!PageConstants
<1>4. v10 \in BOOLEAN /\ v11 \in BOOLEAN /\ v12 \in BOOLEAN
  BY DEF Page!Init
<1>5. Page!ValuesOK
  BY <1>1, <1>2, <1>3, <1>4 DEF Page!ValuesOK
<1>6. Page!CallsInOrder /\ Page!Before
  BY <1>1 DEF Page!CallsInOrder, Page!Called, Page!Before, Page!Outstanding
<1>7. Page!NumbersOK
  BY <1>1, <1>3, PageItems DEF Page!Init, Page!NumbersOK
<1>8. Page!After
  BY <1>1, <1>3 DEF Page!Init, Page!After
<1>9. Page!PayloadIsFresh
  BY DEF Page!Init, Page!PayloadIsFresh, Page!NoPayload
<1> QED
  BY <1>5, <1>6, <1>7, <1>8, <1>9 DEF Page!PageInv

\* What the script's flags are.
LEMMA PageFlags ==
  ASSUME Page!ValuesOK, Page!Next
  PROVE  v10' \in BOOLEAN /\ v11' \in BOOLEAN /\ v12' \in BOOLEAN
<1> USE DEF Page!ValuesOK, Page!hookVars, Page!scriptVars
<1>1. CASE Page!PageFetch \/ Page!HookRefresh \/ Page!Capture \/ Page!Flush
           \/ Page!Timeout
  BY <1>1 DEF Page!PageFetch, Page!HookRefresh, Page!Capture, Page!Flush, Page!Timeout
<1>2. CASE Page!Scheduled \/ Page!Interval
  BY <1>2 DEF Page!Scheduled, Page!Interval, Page!Call
<1>3. CASE Page!Deliver
  BY <1>3 DEF Page!Deliver, Page!Finish
<1>4. CASE Page!Probe
  BY <1>4 DEF Page!Probe, Page!Finish
<1>5. CASE Page!Halt
  BY <1>5 DEF Page!Halt
<1> QED
  BY <1>1, <1>2, <1>3, <1>4, <1>5 DEF Page!Next

\* A message of the hook to the script at the end of the others: the calls stay
\* as they are.
LEMMA PagePosts ==
  ASSUME Page!ValuesOK, Page!CallsInOrder, NEW m \in Page!Messages, m.to = "script",
         v6' = Append(v6, m), UNCHANGED v13
  PROVE  /\ v6' \in Seq(Page!Messages)
         /\ \A k \in DOMAIN v6' : v6'[k] = m \/ (k \in DOMAIN v6 /\ v6'[k] = v6[k])
         /\ Page!CallsInOrder' /\ (Page!Outstanding' <=> Page!Outstanding)
<1>1. v6 \in Seq(Page!Messages)
  BY DEF Page!ValuesOK
<1>2. /\ v6' \in Seq(Page!Messages) /\ Len(v6) \in Nat /\ DOMAIN v6 = 1 .. Len(v6)
      /\ DOMAIN v6' = 1 .. Len(v6) + 1
      /\ \A k \in 1 .. Len(v6) : v6'[k] = v6[k]
      /\ v6'[Len(v6) + 1] = m
  BY <1>1, PageAppends
<1>3. \A k \in DOMAIN v6' : k \in DOMAIN v6 \/ k = Len(v6) + 1
  BY <1>2
<1>4. \A k : Page!Called(k)' <=> Page!Called(k)
  BY <1>2, <1>3 DEF Page!Called
<1>5. \A k \in DOMAIN v6 : k \in DOMAIN v6' /\ v6'[k] = v6[k]
  BY <1>2
<1>6. Page!Outstanding' <=> Page!Outstanding
  BY <1>4 DEF Page!Outstanding, Page!Called
<1>7. Page!CallsInOrder'
  BY <1>4, <1>5 DEF Page!CallsInOrder, Page!Called
<1>8. \A k \in DOMAIN v6' : v6'[k] = m \/ (k \in DOMAIN v6 /\ v6'[k] = v6[k])
  BY <1>2, <1>3
<1> QED
  BY <1>2, <1>6, <1>7, <1>8

\* The first message is taken.
LEMMA PageReads ==
  ASSUME Page!ValuesOK, v6 # <<>>, v6' = Tail(v6)
  PROVE  /\ v6' \in Seq(Page!Messages) /\ 1 \in DOMAIN v6 /\ Head(v6) = v6[1]
         /\ v6[1] \in Page!Messages
         /\ \A k \in DOMAIN v6' : k \in Int /\ k + 1 \in DOMAIN v6
            /\ v6'[k] = v6[k + 1]
         /\ \A k \in DOMAIN v6 : k \in Int /\ (k = 1 \/ (k > 1
            /\ k - 1 \in DOMAIN v6' /\ v6'[k - 1] = v6[k]))
<1>1. v6 \in Seq(Page!Messages)
  BY DEF Page!ValuesOK
<1>2. /\ v6' \in Seq(Page!Messages)
      /\ Len(v6) \in Nat /\ Len(v6) >= 1 /\ DOMAIN v6 = 1 .. Len(v6)
      /\ Head(v6) = v6[1] /\ v6[1] \in Page!Messages
      /\ DOMAIN v6' = 1 .. Len(v6) - 1
      /\ \A k \in 1 .. Len(v6) - 1 : v6'[k] = v6[k + 1]
  BY <1>1, PageTails
<1>3. ASSUME NEW k \in DOMAIN v6'
      PROVE  k \in Int /\ k + 1 \in DOMAIN v6 /\ v6'[k] = v6[k + 1]
  BY <1>2, <1>3
<1>4. ASSUME NEW k \in DOMAIN v6, k # 1
      PROVE  k \in Int /\ k > 1 /\ k - 1 \in DOMAIN v6' /\ v6'[k - 1] = v6[k]
  <2>1. k \in Int /\ k > 1 /\ k - 1 \in 1 .. Len(v6) - 1
    BY <1>2, <1>4
  <2>2. v6'[k - 1] = v6[(k - 1) + 1] /\ (k - 1) + 1 = k
    BY <1>2, <2>1
  <2> QED
    BY <1>2, <2>1, <2>2
<1>5. 1 \in DOMAIN v6 /\ \A k \in DOMAIN v6 : k \in Int
  BY <1>2
<1> QED
  BY <1>2, <1>3, <1>4, <1>5

\* With it the calls that are left stay in order.
LEMMA PageOrderStays ==
  ASSUME Page!ValuesOK, Page!CallsInOrder, v6 # <<>>, v6' = Tail(v6), UNCHANGED v13
  PROVE  Page!CallsInOrder'
<1>1. /\ \A k \in DOMAIN v6' : k \in Int /\ k + 1 \in DOMAIN v6 /\ v6'[k] = v6[k + 1]
      /\ \A k \in DOMAIN v6 : k \in Int /\ (k = 1 \/ (k > 1 /\ k - 1 \in DOMAIN v6'
         /\ v6'[k - 1] = v6[k]))
  BY PageReads
<1>2. \A k \in DOMAIN v6' : Page!Called(k)' => Page!Called(k + 1)
  BY <1>1 DEF Page!Called
<1>3. ASSUME NEW j \in DOMAIN v6', NEW k \in DOMAIN v6', Page!Called(j)',
             Page!Called(k)', j < k
      PROVE  v6'[j].id < v6'[k].id
  BY <1>1, <1>2, <1>3 DEF Page!CallsInOrder
<1>4. \A k \in DOMAIN v6' : Page!Called(k)' => v6'[k].id \in 1 .. v13
  BY <1>1, <1>2 DEF Page!CallsInOrder
<1>5. ASSUME NEW j \in DOMAIN v6', Page!Called(j)'
      PROVE  \E k \in DOMAIN v6' : Page!Called(k)' /\ v6'[k].id = v13
  <2>1. PICK k \in DOMAIN v6 : Page!Called(k) /\ v6[k].id = v13
    BY <1>1, <1>2, <1>5 DEF Page!CallsInOrder
  <2>2. k # 1
    <3> SUFFICES ASSUME k = 1 PROVE FALSE
      OBVIOUS
    <3>1. v6[1].id < v6[j + 1].id
      BY <1>1, <1>2, <1>5, <2>1 DEF Page!CallsInOrder
    <3>2. v6[j + 1].id \in 1 .. v13 /\ v13 \in Int
      BY <1>1, <1>2, <1>5 DEF Page!CallsInOrder, Page!ValuesOK
    <3> QED
      BY <2>1, <3>1, <3>2
  <2>3. k - 1 \in DOMAIN v6' /\ v6'[k - 1] = v6[k]
    BY <1>1, <2>1, <2>2
  <2>4. Page!Called(k - 1)' /\ v6'[k - 1].id = v13
    BY <2>1, <2>3 DEF Page!Called
  <2> QED
    BY <2>3, <2>4
<1> QED
  BY <1>3, <1>4, <1>5 DEF Page!CallsInOrder

\* The responses under way have numbers.
LEMMA PageAsked ==
  ASSUME Page!ValuesOK
  PROVE  /\ \A r \in v4 :
              /\ r.seq \in 0 .. MaxRequests /\ r.born \in 0 .. MaxSends
              /\ r.id \in Page!Ids
         /\ v1 \in Nat /\ v2 \in Nat /\ v13 \in Nat
         /\ {v3, v7} \subseteq Page!Items
  BY DEF Page!ValuesOK, Page!TypeOK

LEMMA PageItemNumbers ==
  ASSUME NEW i \in Page!Items
  PROVE  i.seq \in 0 .. MaxRequests /\ i.born \in 0 .. MaxSends /\ i.main \in BOOLEAN
  BY DEF Page!Items

\* A call that has not arrived is of a send, and the sends are counted from one.
LEMMA PageCalls ==
  ASSUME Page!ValuesOK, Page!CallsInOrder, Page!Outstanding
  PROVE  v13 # 0
  BY DEF Page!ValuesOK, Page!CallsInOrder, Page!Outstanding

LEMMA PageFetches ==
  ASSUME Page!PageConstants, Page!PageInv, Page!PageFetch
  PROVE  Page!PageInv'
<1> USE DEF Page!PageInv
<1> DEFINE new == [seq |-> v1 + 1, born |-> v13, id |-> 0]
<1>1. /\ v1' = v1 + 1 /\ v1' \in 0 .. MaxRequests /\ v4' = v4 \cup {new}
      /\ UNCHANGED <<v2, v3, v5, v6, Page!scriptVars>>
  BY DEF Page!PageFetch, Page!ValuesOK, Page!PageConstants
<1>2. /\ v1 \in Nat /\ v2 \in 0 .. v1 /\ v13 \in 0 .. MaxSends
      /\ UNCHANGED <<v7, v8, v9, v10, v11, v12, v13, v14>>
  BY <1>1 DEF Page!ValuesOK, Page!PageConstants, Page!scriptVars
<1>3. new \in [seq : 0 .. MaxRequests, born : 0 .. MaxSends, id : Page!Ids]
      /\ new.seq = v1 + 1
      /\ new.born = v13 /\ new.id = 0
  BY <1>1, <1>2, PageItems
<1>4. Page!ValuesOK'
  <2>1. Page!TypeOK'
    BY <1>1, <1>2 DEF Page!ValuesOK, Page!TypeOK
  <2>2. v2' \in 0 .. v1' /\ v8' \in {0, v13'} /\ v13' \in 0 .. MaxSends
    BY <1>1, <1>2 DEF Page!ValuesOK
  <2>3. v10' \in BOOLEAN /\ v11' \in BOOLEAN /\ v12' \in BOOLEAN
    BY <1>2 DEF Page!ValuesOK
  <2>4. /\ v6' \in Seq(Page!Messages)
        /\ v4' \subseteq [seq : 0 .. MaxRequests, born : 0 .. MaxSends, id : Page!Ids]
    BY <1>1, <1>3 DEF Page!ValuesOK
  <2> QED
    BY <1>1, <2>1, <2>2, <2>3, <2>4 DEF Page!ValuesOK
<1>5. (Page!Outstanding' <=> Page!Outstanding) /\ Page!CallsInOrder'
  BY <1>1, <1>2 DEF Page!Outstanding, Page!CallsInOrder, Page!Called
<1>6. Page!NumbersOK'
  <2>1. \A r \in v4' : r.seq <= v1' /\ r.born <= v13' /\ r.id <= v13'
    BY <1>1, <1>2, <1>3, PageAsked DEF Page!NumbersOK
  <2>2. \A k \in DOMAIN v6 : v6[k].item.seq \in Int
    BY PageMessages, PageItemNumbers
  <2>3. v3.seq \in Int /\ v7.seq \in Int
    BY PageAsked, PageItemNumbers
  <2> QED
    BY <1>1, <1>2, <2>1, <2>2, <2>3 DEF Page!NumbersOK
<1>7. Page!Before'
  BY <1>1, <1>2, <1>3, <1>5, PageCalls DEF Page!Before
<1>8. Page!After'
  <2> SUFFICES ASSUME ~Page!Outstanding PROVE Page!After'
    BY <1>5 DEF Page!After
  <2>1. \A r \in v4' : Page!Recent(r)' /\ (r.id = v13' => r.seq >= v2')
    BY <1>1, <1>2, <1>3 DEF Page!After, Page!Recent
  <2> QED
    BY <1>1, <1>2, <2>1 DEF Page!After, Page!Recent
<1>9. Page!PayloadIsFresh'
  BY <1>2 DEF Page!PayloadIsFresh
<1> QED
  BY <1>4, <1>5, <1>6, <1>7, <1>8, <1>9

\* The hook refreshes: what it is asked by the last send's call is requested after
\* that send began, and everything earlier is too old.
LEMMA PageRefreshes ==
  ASSUME Page!PageConstants, Page!PageInv, Page!HookRefresh
  PROVE  Page!PageInv'
<1> USE DEF Page!PageInv
<1> DEFINE new == [seq |-> v1 + 1, born |-> v13, id |-> v6[1].id]
<1>1. /\ v6' = Tail(v6) /\ v6 # <<>> /\ Head(v6) = v6[1] /\ v6' \in Seq(Page!Messages)
      /\ 1 \in DOMAIN v6
      /\ \A k \in DOMAIN v6' : k \in Int /\ k + 1 \in DOMAIN v6 /\ v6'[k] = v6[k + 1]
      /\ \A k \in DOMAIN v6 : k \in Int /\ (k = 1 \/ (k > 1 /\ k - 1 \in DOMAIN v6'
         /\ v6'[k - 1] = v6[k]))
  BY PageReads DEF Page!HookRefresh
<1>2. /\ v1' = v1 + 1 /\ v1' \in 0 .. MaxRequests /\ v4' = v4 \cup {new}
      /\ v2' = v1 + 1 /\ v3' = Page!NoItem /\ v6[1].to = "hook"
      /\ UNCHANGED <<v7, v8, v9, v10, v11, v12, v13, v14>>
  BY <1>1 DEF Page!HookRefresh, Page!LeastAfter, Page!ValuesOK, Page!PageConstants,
     Page!scriptVars
<1>3. /\ v1 \in Nat /\ v13 \in 0 .. MaxSends /\ v6[1].id \in Page!Ids
  BY <1>1, PageMessages DEF Page!ValuesOK, Page!PageConstants
<1>4. new \in [seq : 0 .. MaxRequests, born : 0 .. MaxSends, id : Page!Ids]
      /\ new.seq = v1 + 1
      /\ new.born = v13 /\ new.id = v6[1].id
  BY <1>2, <1>3
<1>5. Page!Called(1) /\ Page!Outstanding /\ v6[1].id \in 1 .. v13
  BY <1>1, <1>2 DEF Page!Called, Page!Outstanding, Page!CallsInOrder
<1>6. Page!ValuesOK'
  <2>1. v3' \in Page!Items
    BY <1>2, PageItems
  <2>2. \A k \in DOMAIN v6' : v6'[k].item \in Page!Items /\ v6'[k].id \in Page!Ids
    BY <1>1, PageMessages
  <2>3. Page!TypeOK'
    BY <1>2, <2>1, <2>2 DEF Page!ValuesOK, Page!TypeOK
  <2>4. v2' \in 0 .. v1' /\ v8' \in {0, v13'} /\ v13' \in 0 .. MaxSends
    BY <1>2, <1>3 DEF Page!ValuesOK
  <2>5. v10' \in BOOLEAN /\ v11' \in BOOLEAN /\ v12' \in BOOLEAN
    BY <1>2 DEF Page!ValuesOK
  <2>6. v4' \subseteq [seq : 0 .. MaxRequests, born : 0 .. MaxSends, id : Page!Ids]
    BY <1>2, <1>4 DEF Page!ValuesOK
  <2> QED
    BY <1>1, <1>2, <2>3, <2>4, <2>5, <2>6 DEF Page!ValuesOK
<1>7. Page!CallsInOrder'
  BY <1>1, <1>2, PageOrderStays
<1>8. Page!NumbersOK'
  <2>1. \A r \in v4' : r.seq <= v1' /\ r.born <= v13' /\ r.id <= v13'
    BY <1>2, <1>3, <1>4, <1>5, PageAsked DEF Page!NumbersOK
  <2>2. \A k \in DOMAIN v6 : v6[k].item.seq \in Int
    BY PageMessages, PageItemNumbers
  <2>3. \A k \in DOMAIN v6' : v6'[k].item.seq <= v1' /\ v6'[k].id <= v13'
    BY <1>1, <1>2, <1>3, <2>2 DEF Page!NumbersOK
  <2>4. v3'.seq <= v1' /\ v7'.seq <= v1'
    BY <1>2, <1>3, PageAsked, PageItemNumbers, PageItems DEF Page!NumbersOK
  <2> QED
    BY <2>1, <2>3, <2>4 DEF Page!NumbersOK
<1>9. Page!Before'
  <2> SUFFICES ASSUME Page!Outstanding' PROVE Page!Before'
    BY DEF Page!Before
  <2>1. v6[1].id # v13
    <3>1. PICK k \in DOMAIN v6' : Page!Called(k)'
      BY DEF Page!Outstanding
    <3>2. k + 1 \in DOMAIN v6 /\ Page!Called(k + 1) /\ 1 < k + 1
      BY <1>1, <3>1 DEF Page!Called
    <3>3. v6[1].id < v6[k + 1].id /\ v6[k + 1].id \in 1 .. v13
      BY <1>1, <1>5, <3>2 DEF Page!CallsInOrder
    <3> QED
      BY <1>3, <1>5, <3>3
  <2>2. \A r \in v4' : r.id # v13'
    BY <1>2, <1>4, <1>5, <2>1 DEF Page!Before
  <2>3. \A k \in DOMAIN v6' : v6'[k].to = "script" => v6'[k].id # v13'
    BY <1>1, <1>2, <1>5 DEF Page!Before
  <2> QED
    BY <1>2, <1>5, <2>2, <2>3 DEF Page!Before
<1>10. Page!After'
  <2> SUFFICES ASSUME ~Page!Outstanding' PROVE Page!After'
    BY DEF Page!After
  <2>1. v6[1].id = v13
    <3>1. PICK k \in DOMAIN v6 : Page!Called(k) /\ v6[k].id = v13
      BY <1>1, <1>5 DEF Page!CallsInOrder
    <3>2. k = 1
      BY <1>1, <3>1 DEF Page!Called, Page!Outstanding
    <3> QED
      BY <3>1, <3>2
  <2>2. \A r \in v4' : Page!Recent(r)' /\ (r.id = v13' => r.seq >= v2')
    <3>1. \A r \in v4 : r.seq < v2' /\ r.id # v13
      BY <1>2, <1>3, <1>5, PageAsked DEF Page!NumbersOK, Page!Before
    <3>2. \A r \in v4 : r.seq \in Int
      BY PageAsked
    <3> QED
      BY <1>2, <1>3, <1>4, <3>1, <3>2 DEF Page!Recent
  <2>3. \A k \in DOMAIN v6 : v6[k].item.seq \in Int /\ v6[k].to \in {"hook", "script"}
    BY PageMessages, PageItemNumbers
  <2>4. \A k \in DOMAIN v6' :
           /\ v6'[k].item.seq < v2' /\ v6'[k].item.seq \in Int
           /\ v6'[k].id # v13'
    <3> SUFFICES ASSUME NEW k \in DOMAIN v6'
                 PROVE  /\ v6'[k].item.seq < v2' /\ v6'[k].item.seq \in Int
                        /\ v6'[k].id # v13'
      OBVIOUS
    <3>1. k + 1 \in DOMAIN v6 /\ v6'[k] = v6[k + 1]
      BY <1>1
    <3>2. v6[k + 1].to = "script"
      BY <2>3, <3>1 DEF Page!Outstanding, Page!Called
    <3>3. v6[k + 1].item.seq <= v1 /\ v6[k + 1].id # v13
      BY <1>5, <3>1, <3>2 DEF Page!NumbersOK, Page!Before
    <3> QED
      BY <1>2, <1>3, <2>3, <3>1, <3>3
  <2>7. \A k \in DOMAIN v6' :
           /\ v6'[k].item.seq >= v2' => v6'[k].item.born = v13'
           /\ v6'[k].id = v13' => v6'[k].item.seq >= v2'
    BY <1>2, <1>3, <2>4
  <2>5. v7'.seq >= v2' => v7'.born = v13'
    BY <1>2, <1>3, PageAsked, PageItemNumbers DEF Page!NumbersOK
  <2>6. ~(v9' = "probe" /\ ~v12')
    BY <1>2, <1>5 DEF Page!Before
  <2> QED
    BY <1>2, <2>2, <2>7, <2>5, <2>6 DEF Page!After, Page!Recent
<1>11. Page!PayloadIsFresh'
  BY <1>2 DEF Page!PayloadIsFresh
<1> QED
  BY <1>6, <1>7, <1>8, <1>9, <1>10, <1>11

\* What the hook posts, when it may be taken: the last thing to be asked for since the
\* present send began, or what answers no refresh of it.
LEMMA PageHookPosts ==
  ASSUME Page!PageConstants, Page!PageInv, NEW i \in Page!Items, NEW id \in Page!Ids,
         v6' = Append(v6, Page!Found(i, id)),
         v3' = i, i.seq <= v1, id <= v13,
         Page!Outstanding => id # v13,
         ~Page!Outstanding => i.seq >= v2 /\ i.born = v13,
         v4' \subseteq v4, UNCHANGED <<v1, v2, Page!scriptVars>>
  PROVE  Page!PageInv'
<1> USE DEF Page!PageInv
<1>0. PICK m \in Page!Messages : m = Page!Found(i, id) /\ m.to = "script"
           /\ m.item = i /\ m.id = id
  BY DEF Page!Found, Page!Messages
<1>1. /\ v6' \in Seq(Page!Messages)
      /\ \A k \in DOMAIN v6' : v6'[k] = m \/ (k \in DOMAIN v6 /\ v6'[k] = v6[k])
      /\ Page!CallsInOrder' /\ (Page!Outstanding' <=> Page!Outstanding)
  BY <1>0, PagePosts DEF Page!scriptVars
<1>2. /\ v1 \in Nat /\ v2 \in Nat /\ v13 \in Nat
      /\ i.seq \in Int /\ i.born \in Int /\ id \in Int
      /\ UNCHANGED <<v1, v2, v7, v8, v9, v10, v11, v12, v13, v14>>
  BY PageAsked, PageItemNumbers DEF Page!scriptVars, Page!Ids
<1>3. Page!ValuesOK'
  <2>1. \A k \in DOMAIN v6' : v6'[k].item \in Page!Items /\ v6'[k].id \in Page!Ids
    BY <1>0, <1>1, PageMessages
  <2>2. Page!TypeOK'
    BY <1>2, <2>1 DEF Page!ValuesOK, Page!TypeOK
  <2>3. v2' \in 0 .. v1' /\ v8' \in {0, v13'} /\ v13' \in 0 .. MaxSends
        /\ v1' \in 0 .. MaxRequests
    BY <1>2 DEF Page!ValuesOK
  <2>4. v10' \in BOOLEAN /\ v11' \in BOOLEAN /\ v12' \in BOOLEAN
    BY <1>2 DEF Page!ValuesOK
  <2>5. v4' \subseteq [seq : 0 .. MaxRequests, born : 0 .. MaxSends, id : Page!Ids]
    BY DEF Page!ValuesOK
  <2> QED
    BY <1>1, <2>2, <2>3, <2>4, <2>5 DEF Page!ValuesOK
<1>4. Page!NumbersOK'
  <2>1. \A k \in DOMAIN v6' : v6'[k].item.seq <= v1' /\ v6'[k].id <= v13'
    BY <1>0, <1>1, <1>2 DEF Page!NumbersOK
  <2> QED
    BY <1>2, <2>1 DEF Page!NumbersOK
<1>5. Page!Before'
  <2> SUFFICES ASSUME Page!Outstanding PROVE Page!Before'
    BY <1>1 DEF Page!Before
  <2>1. \A k \in DOMAIN v6' : v6'[k].to = "script" => v6'[k].id # v13'
    BY <1>0, <1>1, <1>2 DEF Page!Before
  <2> QED
    BY <1>2, <2>1 DEF Page!Before
<1>6. Page!After'
  <2> SUFFICES ASSUME ~Page!Outstanding PROVE Page!After'
    BY <1>1 DEF Page!After
  <2>1. i.seq >= v2 /\ i.born = v13
    OBVIOUS
  <2>3. \A k \in DOMAIN v6' : v6'[k].id = v13' => v6'[k].item.seq >= v2'
    BY <1>0, <1>1, <1>2 DEF Page!After
  <2>4. \A k \in DOMAIN v6' : v6'[k].item.seq >= v2' => v6'[k].item.born = v13'
    BY <1>0, <1>1, <1>2, <2>1 DEF Page!After, Page!Recent
  <2>5. \A r \in v4' : Page!Recent(r)' /\ (r.id = v13' => r.seq >= v2')
    BY <1>2 DEF Page!After, Page!Recent
  <2> QED
    BY <1>0, <1>1, <1>2, <2>1, <2>3, <2>4, <2>5 DEF Page!After, Page!Recent
<1>7. Page!PayloadIsFresh'
  BY <1>2 DEF Page!PayloadIsFresh
<1> QED
  BY <1>1, <1>3, <1>4, <1>5, <1>6, <1>7

LEMMA PageCaptures ==
  ASSUME Page!PageConstants, Page!PageInv, Page!Capture
  PROVE  Page!PageInv'
<1> USE DEF Page!PageInv
<1>1. PICK r \in v4, ok \in BOOLEAN :
         LET i == [seq |-> r.seq, born |-> r.born, main |-> ok] IN
         /\ v4' = v4 \ {r}
         /\ \/ i.seq < v2 /\ UNCHANGED <<v3, v6>>
            \/ i.seq >= v2 /\ Page!Newer(i, v3)
               /\ v3' = i /\ v6' = Append(v6, Page!Found(i, r.id))
            \/ i.seq >= v2 /\ ~Page!Newer(i, v3) /\ UNCHANGED v3
               /\ v6' = IF r.id = 0 THEN v6 ELSE Append(v6, Page!Found(v3, r.id))
  BY DEF Page!Capture
<1> DEFINE i == [seq |-> r.seq, born |-> r.born, main |-> ok]
<1>2. /\ i \in Page!Items /\ i.seq = r.seq /\ i.born = r.born /\ r.id \in Page!Ids
      /\ r.seq \in Int /\ v3 \in Page!Items /\ v3.seq \in Int /\ v2 \in Int
  BY PageAsked, PageItemNumbers DEF Page!Items
<1>3. UNCHANGED <<v1, v2, v5, Page!scriptVars>>
  BY DEF Page!Capture
<1>4. /\ Page!Outstanding => r.id # v13
      /\ ~Page!Outstanding => (r.seq >= v2 => r.born = v13)
      /\ r.seq <= v1 /\ v3.seq <= v1 /\ r.id <= v13
  BY DEF Page!Before, Page!After, Page!Recent, Page!NumbersOK
<1>5. CASE UNCHANGED <<v3, v6>>
  <2>1. v4' \subseteq v4 /\ UNCHANGED <<v7, v8, v9, v10, v11, v12, v13, v14>>
    BY <1>1, <1>3 DEF Page!scriptVars
  <2>2. Page!ValuesOK'
    BY <1>3, <1>5, <2>1 DEF Page!ValuesOK, Page!TypeOK
  <2>3. Page!CallsInOrder' /\ (Page!Outstanding' <=> Page!Outstanding)
    BY <1>3, <1>5, <2>1 DEF Page!CallsInOrder, Page!Outstanding, Page!Called
  <2>4. Page!NumbersOK' /\ Page!PayloadIsFresh'
    BY <1>3, <1>5, <2>1 DEF Page!NumbersOK, Page!PayloadIsFresh
  <2>5. Page!Before' /\ Page!After'
    BY <1>3, <1>5, <2>1, <2>3 DEF Page!Before, Page!After, Page!Recent
  <2> QED
    BY <2>2, <2>3, <2>4, <2>5
<1>6. CASE i.seq >= v2 /\ v3' = i /\ v6' = Append(v6, Page!Found(i, r.id))
  <2>1. v4' \subseteq v4
    BY <1>1
  <2>2. ~Page!Outstanding => i.seq >= v2 /\ i.born = v13
    BY <1>2, <1>4, <1>6
  <2>3. i.seq <= v1
    BY <1>2, <1>4
  <2> HIDE DEF i
  <2> QED
    BY <1>2, <1>3, <1>4, <1>6, <2>1, <2>2, <2>3, PageHookPosts
<1>7. CASE i.seq >= v2 /\ ~Page!Newer(i, v3) /\ UNCHANGED v3
           /\ v6' = Append(v6, Page!Found(v3, r.id))
  <2>1. v4' \subseteq v4
    BY <1>1
  <2>2. v3.seq > v2 /\ v3 # Page!NoItem
    <3>1. v3.seq > i.seq /\ i.seq >= v2 /\ i.seq \in Nat
      BY <1>2, <1>7, PageAsked DEF Page!Newer
    <3> HIDE DEF i
    <3> QED
      BY <1>2, <3>1, PageAsked DEF Page!NoItem
  <2>3. ~Page!Outstanding => v3.seq >= v2 /\ v3.born = v13
    BY <1>2, <2>2 DEF Page!After, Page!Recent
  <2> HIDE DEF i
  <2> QED
    BY <1>2, <1>3, <1>4, <1>7, <2>1, <2>3, PageHookPosts
<1> QED
  BY <1>1, <1>5, <1>6, <1>7

LEMMA PageFlushes ==
  ASSUME Page!PageConstants, Page!PageInv, Page!Flush
  PROVE  Page!PageInv'
<1> USE DEF Page!PageInv
<1>1. /\ v3 # Page!NoItem /\ v6' = Append(v6, Page!Found(v3, 0))
      /\ UNCHANGED <<v1, v2, v3, v4, Page!scriptVars>>
  BY DEF Page!Flush
<1>2. v3 \in Page!Items /\ v3.seq <= v1 /\ 0 \in Page!Ids /\ 0 <= v13
  BY PageAsked, PageItems DEF Page!NumbersOK
<1>3. Page!Outstanding => 0 # v13
  BY PageCalls
<1>4. ~Page!Outstanding => v3.seq >= v2 /\ v3.born = v13
  BY <1>1 DEF Page!After, Page!Recent
<1> QED
  BY <1>1, <1>2, <1>3, <1>4, PageHookPosts

\* A send begins: its call comes after those of all earlier ones.
LEMMA PageSends ==
  ASSUME Page!PageConstants, Page!PageInv, v13 < MaxSends, v9 = "idle",
         v13' = v13 + 1, v8' = v13 + 1, v9' = "refresh", v7' = Page!NoItem,
         v6' = Append(v6, Page!Refresh(v13 + 1)),
         v11' \in BOOLEAN, UNCHANGED <<v10, Page!hookVars, v12, v14>>
  PROVE  Page!PageInv'
<1> USE DEF Page!PageInv
<1>0. v13 \in Nat /\ v13 + 1 \in Page!Ids /\ v13 + 1 \in 0 .. MaxSends
  BY DEF Page!ValuesOK, Page!PageConstants, Page!Ids
<1>1. PICK m \in Page!Messages : m = Page!Refresh(v13 + 1) /\ m.to = "hook"
           /\ m.item = Page!NoItem /\ m.id = v13 + 1
  BY <1>0, PageItems DEF Page!Refresh, Page!Messages
<1>2. v6 \in Seq(Page!Messages)
  BY DEF Page!ValuesOK
<1>3. /\ v6' \in Seq(Page!Messages) /\ Len(v6) \in Nat /\ DOMAIN v6 = 1 .. Len(v6)
      /\ DOMAIN v6' = 1 .. Len(v6) + 1
      /\ \A k \in 1 .. Len(v6) : v6'[k] = v6[k]
      /\ v6'[Len(v6) + 1] = m
  BY <1>1, <1>2, PageAppends
<1>12. PICK last : last = Len(v6) + 1
  OBVIOUS
<1>4. /\ \A k \in DOMAIN v6' : (k \in DOMAIN v6 /\ k < last /\ v6'[k] = v6[k])
         \/ (k = last /\ v6'[k] = m)
      /\ last \in DOMAIN v6' /\ v6'[last] = m
      /\ \A k \in DOMAIN v6 : k \in DOMAIN v6' /\ k < last /\ k \in Int
  BY <1>3, <1>12
<1>5. \A k \in DOMAIN v6' : Page!Called(k)' => k = last \/ Page!Called(k)
  BY <1>4 DEF Page!Called
<1>6. Page!Called(last)' /\ Page!Outstanding'
  BY <1>1, <1>4 DEF Page!Called, Page!Outstanding
<1>7. Page!CallsInOrder'
  <2>1. ASSUME NEW j \in DOMAIN v6', NEW k \in DOMAIN v6', Page!Called(j)',
               Page!Called(k)', j < k
        PROVE  v6'[j].id < v6'[k].id
    <3>1. j # last /\ Page!Called(j)
      BY <1>3, <1>4, <1>5, <1>12, <2>1
    <3>2. CASE k = last
      <4>1. v6[j].id \in 1 .. v13 /\ v6'[j] = v6[j]
        BY <1>4, <3>1 DEF Page!CallsInOrder, Page!Called
      <4>2. v6'[k].id = v13 + 1
        BY <1>1, <1>4, <3>2
      <4> QED
        BY <1>0, <4>1, <4>2
    <3>3. CASE k # last
      BY <1>4, <1>5, <2>1, <3>1, <3>3 DEF Page!CallsInOrder, Page!Called
    <3> QED
      BY <3>2, <3>3
  <2>2. \A k \in DOMAIN v6' : Page!Called(k)' => v6'[k].id \in 1 .. v13'
    <3> SUFFICES ASSUME NEW k \in DOMAIN v6', Page!Called(k)' PROVE v6'[k].id
                 \in 1 .. v13 + 1
      OBVIOUS
    <3>1. CASE k = last
      BY <1>0, <1>1, <1>4, <3>1
    <3>2. CASE k # last
      <4>1. v6[k].id \in 1 .. v13 /\ v6'[k] = v6[k]
        BY <1>4, <1>5, <3>2 DEF Page!CallsInOrder, Page!Called
      <4> QED
        BY <1>0, <4>1
    <3> QED
      BY <3>1, <3>2
  <2>3. \E k \in DOMAIN v6' : Page!Called(k)' /\ v6'[k].id = v13'
    BY <1>1, <1>4, <1>6
  <2> QED
    BY <2>1, <2>2, <2>3 DEF Page!CallsInOrder
<1>8. Page!ValuesOK'
  <2>1. v7' \in Page!Items /\ v3' \in Page!Items /\ v14' = v14 /\ v8' \in Page!Ids
    BY <1>0, PageItems, PageAsked DEF Page!hookVars
  <2>2. \A k \in DOMAIN v6' : v6'[k].item \in Page!Items /\ v6'[k].id \in Page!Ids
    BY <1>0, <1>1, <1>4, PageMessages, PageItems
  <2>3. v9' = "refresh" /\ v8' # 0
    BY <1>0
  <2>4. Page!TypeOK'
    BY <2>1, <2>2, <2>3 DEF Page!ValuesOK, Page!TypeOK
  <2>5. v2' \in 0 .. v1' /\ v8' \in {0, v13'} /\ v13' \in 0 .. MaxSends
        /\ v1' \in 0 .. MaxRequests
    BY <1>0 DEF Page!ValuesOK, Page!hookVars
  <2>6. v10' \in BOOLEAN /\ v11' \in BOOLEAN /\ v12' \in BOOLEAN
    BY DEF Page!ValuesOK
  <2>7. v4' \subseteq [seq : 0 .. MaxRequests, born : 0 .. MaxSends, id : Page!Ids]
    BY DEF Page!ValuesOK, Page!hookVars
  <2> QED
    BY <1>3, <2>4, <2>5, <2>6, <2>7 DEF Page!ValuesOK
<1>9. Page!NumbersOK'
  <2>1. \A k \in DOMAIN v6' : v6'[k].item.seq <= v1' /\ v6'[k].id <= v13'
    <3>1. \A k \in DOMAIN v6 : v6[k].item.seq <= v1 /\ v6[k].id <= v13
          /\ v6[k].id \in Int
      BY PageMessages DEF Page!NumbersOK, Page!Ids
    <3>2. m.item.seq <= v1 /\ m.id <= v13 + 1
      BY <1>0, <1>1, PageItems, PageAsked
    <3> QED
      BY <1>0, <1>4, <3>1, <3>2 DEF Page!hookVars
  <2>2. \A r \in v4' : r.seq <= v1' /\ r.born <= v13' /\ r.id <= v13'
    <3>1. \A r \in v4 : r.seq <= v1 /\ r.born <= v13 /\ r.id <= v13
          /\ r.born \in Int /\ r.id \in Int
      BY PageAsked DEF Page!NumbersOK, Page!Ids
    <3> QED
      BY <1>0, <3>1 DEF Page!hookVars
  <2>3. v3'.seq <= v1' /\ v7'.seq <= v1'
    BY PageItems, PageAsked DEF Page!NumbersOK, Page!hookVars
  <2> QED
    BY <2>1, <2>2, <2>3 DEF Page!NumbersOK
<1>10. Page!Before'
  <2>1. \A r \in v4' : r.id # v13'
    <3>1. \A r \in v4 : r.id <= v13 /\ r.id \in Int
      BY PageAsked DEF Page!NumbersOK, Page!Ids
    <3> QED
      BY <1>0, <3>1 DEF Page!hookVars
  <2>2. \A k \in DOMAIN v6' : v6'[k].to = "script" => v6'[k].id # v13'
    <3>1. \A k \in DOMAIN v6 : v6[k].id <= v13 /\ v6[k].id \in Int
      BY PageMessages DEF Page!NumbersOK, Page!Ids
    <3> QED
      BY <1>0, <1>1, <1>4, <3>1
  <2> QED
    BY <2>1, <2>2 DEF Page!Before
<1>11. Page!After' /\ Page!PayloadIsFresh'
  BY <1>6 DEF Page!After, Page!PayloadIsFresh
<1> QED
  BY <1>7, <1>8, <1>9, <1>10, <1>11

\* The steps that leave the messages as they are.
LEMMA PageIdles ==
  ASSUME Page!PageConstants, Page!PageInv, UNCHANGED <<v1, v2, v3, v4, v6, v13>>,
         v10' \in BOOLEAN, v11' \in BOOLEAN, v12' \in BOOLEAN, v12 => v12',
         \/ UNCHANGED <<v9, v8, v7, v14>>
         \/ /\ v6 = <<>> /\ v9' = "probe" /\ v8' = 0 /\ v7' = Page!NoItem
            /\ UNCHANGED v14
         \/ /\ v9 = "probe" /\ v9' = "idle" /\ UNCHANGED <<v8, v7>>
            /\ v14' \in [born : 0 .. MaxSends, send : 0 .. MaxSends]
            /\ v14'.born = v14'.send
         \/ /\ v12' /\ v8' = 0 /\ v9' \in {"idle", "probe"}
            /\ UNCHANGED <<v7, v14>>
  PROVE  Page!PageInv'
<1> USE DEF Page!PageInv
<1>1. Page!TypeOK'
  <2>1. \A k \in DOMAIN v6' : v6'[k].item \in Page!Items /\ v6'[k].id \in Page!Ids
    BY PageMessages
  <2>2. v7' \in Page!Items /\ v3' \in Page!Items /\ v8' \in Page!Ids
    BY PageItems, PageAsked DEF Page!ValuesOK, Page!TypeOK
  <2>3. v14' \in [born : 0 .. MaxSends, send : 0 .. MaxSends]
    BY DEF Page!ValuesOK, Page!TypeOK
  <2>4. v9' \in {"idle", "refresh", "probe"} /\ (v9' = "refresh") = (v8' # 0)
    BY DEF Page!ValuesOK, Page!TypeOK
  <2> QED
    BY <2>1, <2>2, <2>3, <2>4 DEF Page!TypeOK
<1>2. Page!ValuesOK'
  BY <1>1 DEF Page!ValuesOK
<1>3. Page!CallsInOrder' /\ (Page!Outstanding' <=> Page!Outstanding)
  BY DEF Page!CallsInOrder, Page!Outstanding, Page!Called
<1>4. Page!NumbersOK'
  BY PageItems, PageAsked DEF Page!NumbersOK
<1>5. Page!PayloadIsFresh'
  BY DEF Page!PayloadIsFresh
<1>6. Page!Before'
  <2> SUFFICES ASSUME Page!Outstanding PROVE Page!Before'
    BY <1>3 DEF Page!Before
  <2>1. v6 # <<>>
    BY DEF Page!Outstanding, Page!Called
  <2> QED
    BY <2>1 DEF Page!Before
<1>7. Page!After'
  <2> SUFFICES ASSUME ~Page!Outstanding PROVE Page!After'
    BY <1>3 DEF Page!After
  <2>1. CASE v9' = v9 /\ v7' = v7
    BY <2>1 DEF Page!After, Page!Recent
  <2>2. CASE v6 = <<>> /\ v7' = Page!NoItem
    BY <2>2 DEF Page!After, Page!Recent
  <2>3. CASE v7' = v7 /\ (v9' # "probe" \/ v12')
    BY <2>3 DEF Page!After, Page!Recent
  <2> QED
    BY <2>1, <2>2, <2>3
<1> QED
  BY <1>2, <1>3, <1>4, <1>5, <1>6, <1>7

\* A call of sendCodexUsage.
LEMMA PageCallsSend ==
  ASSUME Page!PageConstants, Page!PageInv, Page!Call, v11' \in BOOLEAN,
         UNCHANGED <<Page!hookVars, v12, v14>>
  PROVE  Page!PageInv'
<1> USE DEF Page!PageInv
<1>1. CASE v9 # "idle" /\ v10' = TRUE /\ UNCHANGED <<v7, v8, v9, v13, v6>>
  <2>1. v12' \in BOOLEAN /\ (v12 => v12')
    BY DEF Page!ValuesOK
  <2> QED
    BY <1>1, <2>1, PageIdles DEF Page!hookVars
<1>2. CASE /\ v9 = "idle" /\ v13 < MaxSends
           /\ v13' = v13 + 1 /\ v8' = v13 + 1 /\ v9' = "refresh"
           /\ v7' = Page!NoItem /\ v6' = Append(v6, Page!Refresh(v13 + 1))
           /\ UNCHANGED v10
  BY <1>2, PageSends
<1> QED
  BY <1>1, <1>2 DEF Page!Call

\* The responses of the script's own requests were asked for during the send.
LEMMA PageProbes ==
  ASSUME Page!PageConstants, Page!PageInv, Page!Probe, v10' \in BOOLEAN,
         v11' \in BOOLEAN
  PROVE  Page!PageInv'
<1> USE DEF Page!PageInv
<1>1. PICK ok \in BOOLEAN : Page!Finish(v7, [seq |-> 0, born |-> v13, main |-> ok])
  BY DEF Page!Probe
<1> DEFINE own == [seq |-> 0, born |-> v13, main |-> ok]
<1>2. v9 = "probe" /\ UNCHANGED <<Page!hookVars, v6, v7, v8, v12, v13>>
  BY DEF Page!Probe
<1>3. v13 \in 0 .. MaxSends /\ v7 \in Page!Items /\ own.born = v13
  BY DEF Page!ValuesOK, Page!TypeOK
<1>4. /\ v14' \in [born : 0 .. MaxSends, send : 0 .. MaxSends]
      /\ v14'.born = v14'.send
  <2>1. CASE v14' = v14 \/ v14' = Page!NoPayload
    BY <2>1 DEF Page!ValuesOK, Page!TypeOK, Page!PayloadIsFresh, Page!NoPayload,
       Page!PageConstants
  <2>2. CASE ~v12 /\ Page!Chosen(v7, own).main
             /\ v14' = [born |-> Page!Chosen(v7, own).born, send |-> v13]
    <3>1. ~Page!Outstanding
      BY <1>2, <2>2 DEF Page!Before
    <3>2. Page!Chosen(v7, own).born = v13
      <4>1. CASE ~v7.main
        BY <1>3, <4>1 DEF Page!Chosen
      <4>2. CASE v7.main
        <5>1. v7 # Page!NoItem
          BY <4>2 DEF Page!NoItem
        <5>2. v7.born = v13
          BY <1>2, <2>2, <3>1, <5>1 DEF Page!After, Page!Recent
        <5> QED
          BY <4>2, <5>2 DEF Page!Chosen
      <4> QED
        BY <4>1, <4>2
    <3>3. v14' = [born |-> v13, send |-> v13]
      BY <2>2, <3>2
    <3> HIDE DEF own
    <3> QED
      BY <1>3, <3>3
  <2> QED
    BY <1>1, <2>1, <2>2 DEF Page!Finish
<1>5. v9' = "idle"
  BY <1>1 DEF Page!Finish
<1>6. v12' \in BOOLEAN /\ (v12 => v12')
  BY <1>2 DEF Page!ValuesOK
<1> QED
  BY <1>2, <1>4, <1>5, <1>6, PageIdles DEF Page!hookVars

\* The messages reach the script in order, and what ends its wait answers its send.
LEMMA PageDelivers ==
  ASSUME Page!PageConstants, Page!PageInv, Page!Deliver, v10' \in BOOLEAN,
         v11' \in BOOLEAN
  PROVE  Page!PageInv'
<1> USE DEF Page!PageInv
<1> DEFINE m == v6[1]
           kept == IF Page!Newer(m.item, v7) THEN m.item ELSE v7
<1>1. /\ v6' = Tail(v6) /\ v6 # <<>> /\ Head(v6) = m /\ v6' \in Seq(Page!Messages)
      /\ 1 \in DOMAIN v6 /\ m.to = "script"
      /\ \A k \in DOMAIN v6' : k \in Int /\ k + 1 \in DOMAIN v6 /\ v6'[k] = v6[k + 1]
      /\ \A k \in DOMAIN v6 : k \in Int /\ (k = 1 \/ (k > 1 /\ k - 1 \in DOMAIN v6'
         /\ v6'[k - 1] = v6[k]))
  BY PageReads DEF Page!Deliver
<1>2. /\ UNCHANGED <<v1, v2, v3, v4, v5, v12, v13>> /\ v7' = kept
  BY <1>1 DEF Page!Deliver, Page!hookVars
<1>3. /\ m.item \in Page!Items /\ m.id \in Page!Ids /\ v7 \in Page!Items
      /\ m.item.seq \in Nat /\ v7.seq \in Nat /\ m.id \in Nat /\ v13 \in 0 .. MaxSends
      /\ v2 \in Nat /\ v1 \in Nat /\ v1' \in 0 .. MaxRequests
  BY <1>1, <1>2, PageMessages, PageItemNumbers, PageAsked DEF Page!Ids, Page!ValuesOK
<1>4. /\ kept \in Page!Items /\ kept.seq \in Nat /\ kept.seq >= m.item.seq
         /\ kept.seq >= v7.seq
      /\ kept = m.item \/ kept = v7
  BY <1>3 DEF Page!Newer
<1>5. \/ /\ m.id # 0 /\ m.id = v8 /\ m.item.main
         /\ v8' = 0 /\ Page!Finish(kept, Page!NoItem)
      \/ /\ m.id # 0 /\ m.id = v8
         /\ v8' = 0 /\ v9' = "probe" /\ UNCHANGED v14
      \/ /\ m.id = 0 \/ m.id # v8
         /\ UNCHANGED <<v14, v9, v8>>
  BY <1>1 DEF Page!Deliver
<1> HIDE DEF kept, m
<1>6. Page!CallsInOrder'
  BY <1>1, <1>2, PageOrderStays
<1>7. Page!Outstanding' <=> Page!Outstanding
  <2>1. Page!Outstanding' => Page!Outstanding
    BY <1>1 DEF Page!Outstanding, Page!Called
  <2>2. ASSUME NEW k \in DOMAIN v6, Page!Called(k)
        PROVE  k - 1 \in DOMAIN v6' /\ Page!Called(k - 1)'
    BY <1>1, <2>2 DEF Page!Called, m
  <2> QED
    BY <2>1, <2>2 DEF Page!Outstanding
<1>8. v8 \in {0, v13} /\ v8' \in {0, v8}
  BY <1>5 DEF Page!ValuesOK
<1>9. m.id # 0 /\ m.id = v8 =>
        /\ m.id = v13 /\ ~Page!Outstanding /\ kept.seq >= v2 /\ kept.born = v13
  <2> SUFFICES ASSUME m.id # 0, m.id = v8
               PROVE  /\ m.id = v13 /\ ~Page!Outstanding /\ kept.seq >= v2
                         /\ kept.born = v13
    OBVIOUS
  <2>1. m.id = v13
    BY <1>8
  <2>2. ~Page!Outstanding
    BY <1>1, <2>1 DEF Page!Before, m
  <2>3. m.item.seq >= v2 /\ m.item.born = v13
    BY <1>1, <2>1, <2>2 DEF Page!After, Page!Recent, m
  <2>4. kept.seq >= v2
    BY <1>3, <1>4, <2>3
  <2>5. kept = v7 => Page!Recent(v7) \/ v7 = Page!NoItem
    BY <2>2 DEF Page!After
  <2>6. kept = v7 /\ kept = Page!NoItem => kept.born = v13
    <3> SUFFICES ASSUME kept = v7, kept = Page!NoItem PROVE kept.born = v13
      OBVIOUS
    <3>1. m.item.seq = 0
      BY <1>3, <1>4, PageItems
    <3>2. Page!Newer(m.item, v7)
      BY <1>3, <3>1, PageItems DEF Page!Newer
    <3>3. kept = m.item
      BY <3>2 DEF kept
    <3> QED
      BY <2>3, <3>3
  <2> QED
    BY <1>4, <2>1, <2>2, <2>3, <2>4, <2>5, <2>6 DEF Page!Recent
<1>10. v14' \in [born : 0 .. MaxSends, send : 0 .. MaxSends] /\ Page!PayloadIsFresh'
  <2>1. CASE v14' = v14 \/ v14' = Page!NoPayload
    BY <2>1 DEF Page!ValuesOK, Page!TypeOK, Page!PayloadIsFresh, Page!NoPayload,
       Page!PageConstants
  <2>2. CASE /\ m.id # 0 /\ m.id = v8 /\ Page!Chosen(kept, Page!NoItem).main
             /\ v14' = [born |-> Page!Chosen(kept, Page!NoItem).born, send |-> v13]
    <3>1. Page!Chosen(kept, Page!NoItem) = kept
      BY <2>2, PageItems DEF Page!Chosen
    <3>2. v14' = [born |-> v13, send |-> v13]
      BY <1>9, <2>2, <3>1
    <3> QED
      BY <1>3, <3>2 DEF Page!PayloadIsFresh
  <2> QED
    BY <1>5, <2>1, <2>2 DEF Page!Finish
<1>11. v9' \in {"idle", "refresh", "probe"} /\ (v9' = "refresh") = (v8' # 0)
  BY <1>5 DEF Page!ValuesOK, Page!TypeOK, Page!Finish
<1>12. Page!ValuesOK'
  <2>1. \A k \in DOMAIN v6' : v6'[k].item \in Page!Items /\ v6'[k].id \in Page!Ids
    BY <1>1, PageMessages
  <2>2. v8' \in Page!Ids /\ v7' \in Page!Items /\ v3' \in Page!Items
    BY <1>2, <1>4, <1>8, PageItems, PageAsked DEF Page!ValuesOK, Page!TypeOK
  <2>3. Page!TypeOK'
    BY <1>10, <1>11, <2>1, <2>2 DEF Page!TypeOK
  <2>4. v2' \in 0 .. v1' /\ v8' \in {0, v13'} /\ v13' \in 0 .. MaxSends
    BY <1>2, <1>8 DEF Page!ValuesOK
  <2>5. v10' \in BOOLEAN /\ v11' \in BOOLEAN /\ v12' \in BOOLEAN
    BY <1>2 DEF Page!ValuesOK
  <2>6. v4' \subseteq [seq : 0 .. MaxRequests, born : 0 .. MaxSends, id : Page!Ids]
    BY <1>2 DEF Page!ValuesOK
  <2> QED
    BY <1>1, <1>3, <2>3, <2>4, <2>5, <2>6 DEF Page!ValuesOK
<1>13. Page!NumbersOK'
  <2>1. \A k \in DOMAIN v6' : v6'[k].item.seq <= v1' /\ v6'[k].id <= v13'
    BY <1>1, <1>2 DEF Page!NumbersOK
  <2>2. v7'.seq <= v1'
    BY <1>1, <1>2, <1>4 DEF Page!NumbersOK, m
  <2> QED
    BY <1>2, <2>1, <2>2 DEF Page!NumbersOK
<1>14. Page!Before'
  <2> SUFFICES ASSUME Page!Outstanding PROVE Page!Before'
    BY <1>7 DEF Page!Before
  <2>1. UNCHANGED <<v9, v8>>
    BY <1>5, <1>9
  <2> QED
    BY <1>1, <1>2, <2>1 DEF Page!Before
<1>15. Page!After'
  <2> SUFFICES ASSUME ~Page!Outstanding PROVE Page!After'
    BY <1>7 DEF Page!After
  <2>1. Page!Recent(m.item) /\ (Page!Recent(v7) \/ v7 = Page!NoItem)
    BY <1>1 DEF Page!After, m
  <2>2. Page!Recent(kept) \/ kept = Page!NoItem
    BY <1>4, <2>1
  <2>3. \A k \in DOMAIN v6' :
           /\ v6'[k].item.seq >= v2' => v6'[k].item.born = v13'
           /\ v6'[k].id = v13' => v6'[k].item.seq >= v2'
    BY <1>1, <1>2 DEF Page!After, Page!Recent
  <2>4. v9' = "probe" /\ ~v12' =>
          \/ v7'.seq >= v2'
          \/ v7' = Page!NoItem /\ \A k \in DOMAIN v6' : v6'[k].item.seq >= v2'
    <3> SUFFICES ASSUME v9' = "probe", ~v12' PROVE kept.seq >= v2
      BY <1>2
    <3>1. CASE m.id # 0 /\ m.id = v8
      BY <1>9, <3>1
    <3>2. CASE m.id = 0 \/ m.id # v8
      <4>1. v9 = "probe"
        BY <1>5, <3>2
      <4>2. v7.seq >= v2 \/ m.item.seq >= v2
        BY <1>1, <1>2, <4>1 DEF Page!After, m
      <4> QED
        BY <1>3, <1>4, <4>2
    <3> QED
      BY <3>1, <3>2
  <2> QED
    BY <1>2, <2>2, <2>3, <2>4 DEF Page!After, Page!Recent
<1> QED
  BY <1>6, <1>10, <1>12, <1>13, <1>14, <1>15

LEMMA PageInvPreserved ==
  ASSUME Page!PageConstants, Page!PageInv, [Page!Next]_(Page!pageVars)
  PROVE  Page!PageInv'
<1>1. CASE UNCHANGED Page!pageVars
  <2>1. v10' \in BOOLEAN /\ v11' \in BOOLEAN /\ v12' \in BOOLEAN /\ (v12 => v12')
    BY <1>1 DEF Page!PageInv, Page!ValuesOK, Page!pageVars, Page!scriptVars
  <2> QED
    BY <1>1, <2>1, PageIdles DEF Page!pageVars, Page!hookVars, Page!scriptVars
<1>2. CASE Page!Next
  <2>0. v10' \in BOOLEAN /\ v11' \in BOOLEAN /\ v12' \in BOOLEAN
    BY <1>2, PageFlags DEF Page!PageInv
  <2>1. CASE Page!Scheduled \/ Page!Interval
    BY <2>0, <2>1, PageCallsSend DEF Page!Scheduled, Page!Interval
  <2>2. CASE Page!Timeout
    <3>1. UNCHANGED <<Page!hookVars, v6, v13, v14, v12>> /\ v6 = <<>> /\ v8' = 0
          /\ v7' = Page!NoItem /\ v9' = "probe"
      BY <2>2 DEF Page!Timeout, Page!TimeoutForgets
    <3> QED
      BY <2>0, <3>1, PageIdles DEF Page!hookVars
  <2>3. CASE Page!Halt
    <3>1. UNCHANGED <<Page!hookVars, v6, v13, v14, v7>> /\ v12' /\ v8' = 0
      BY <2>3 DEF Page!Halt
    <3>2. v9' \in {"idle", "probe"}
      BY <2>3 DEF Page!Halt, Page!PageInv, Page!ValuesOK, Page!TypeOK
    <3> QED
      BY <2>0, <3>1, <3>2, PageIdles DEF Page!hookVars
  <2> QED
    BY <1>2, <2>0, <2>1, <2>2, <2>3, PageFetches, PageRefreshes, PageCaptures,
       PageFlushes, PageDelivers, PageProbes DEF Page!Next
<1> QED
  BY <1>1, <1>2

LEMMA PageInvFresh == Page!PageInv => Page!PayloadIsFresh
  BY DEF Page!PageInv

-----------------------------------------------------------------------------
(***************************************************************************)
(* The bridge server.                                                      *)
(***************************************************************************)
\* The operators of FiniteSets under the names of this part.
LEMMA BridgeCounts ==
  \A S : /\ Bridge!IsFiniteSet(S) <=> IsFiniteSet(S)
         /\ Bridge!Cardinality(S) = Cardinality(S)
<1> TAKE S
<1>1. Bridge!IsFiniteSet(S) <=> IsFiniteSet(S)
  BY DEF Bridge!IsFiniteSet, IsFiniteSet
<1>2. Bridge!Cardinality(S) = Cardinality(S)
  BY DEF Bridge!Cardinality, Cardinality
<1> QED
  BY <1>1, <1>2

LEMMA BridgeInvInit ==
  ASSUME Bridge!BridgeConstants, Bridge!Init
  PROVE  Bridge!BridgeInv
<1>1. Bridge!ValuesOK
  BY DEF Bridge!BridgeConstants, Bridge!Init, Bridge!ValuesOK, Bridge!TypeOK,
     Bridge!Tokens, Bridge!Files
<1>2. Bridge!Served = {} /\ Cardinality({}) = 0
  BY FS_EmptySet DEF Bridge!Init, Bridge!Served
<1>3. Bridge!SlotsReturn
  BY <1>2, BridgeCounts DEF Bridge!BridgeConstants, Bridge!Init, Bridge!SlotsReturn
<1> QED
  BY <1>1, <1>3 DEF Bridge!Init, Bridge!BridgeInv, Bridge!WriterKnows, Bridge!OneBuild

\* What the server knows of its connections, and how many it serves.
LEMMA BridgeServed ==
  ASSUME Bridge!BridgeConstants, Bridge!ValuesOK
  PROVE  IsFiniteSet(Bridge!Served) /\ Cardinality(Bridge!Served) \in Nat
<1>1. IsFiniteSet(Clients)
  BY BridgeCounts DEF Bridge!BridgeConstants
<1> QED
  BY <1>1, FS_Subset, FS_CardinalityType DEF Bridge!Served

\* A connection that takes a slot.
LEMMA BridgeTakes ==
  ASSUME Bridge!BridgeConstants, Bridge!ValuesOK, Bridge!SlotsReturn,
         NEW c \in Clients, v1 > 0,
         v2[c] = "accepted", v2' = [v2 EXCEPT ![c] = "handshake"], v1' = v1 - 1
  PROVE  Bridge!SlotsReturn' /\ v1' \in 0 .. MaxConnections
<1>1. Bridge!Served' = Bridge!Served \cup {c} /\ c \notin Bridge!Served
  BY DEF Bridge!ValuesOK, Bridge!Served
<1>2. Cardinality(Bridge!Served') = Cardinality(Bridge!Served) + 1
  BY <1>1, BridgeServed, FS_AddElement
<1> QED
  BY <1>2, BridgeServed, BridgeCounts DEF Bridge!BridgeConstants, Bridge!ValuesOK,
     Bridge!TypeOK, Bridge!SlotsReturn

\* A connection that gives it back.
LEMMA BridgeGives ==
  ASSUME Bridge!BridgeConstants, Bridge!ValuesOK, Bridge!SlotsReturn,
         NEW c \in Clients, c \in Bridge!Served,
         Bridge!Release(c)
  PROVE  Bridge!SlotsReturn' /\ v1' \in 0 .. MaxConnections
<1>1. Bridge!Served' = Bridge!Served \ {c}
  BY DEF Bridge!ValuesOK, Bridge!Served, Bridge!Release
<1>2. IsFiniteSet(Bridge!Served')
      /\ Cardinality(Bridge!Served') = Cardinality(Bridge!Served) - 1
  BY <1>1, BridgeServed, FS_RemoveElement, FS_Subset
<1>3. Cardinality(Bridge!Served') \in Nat
  BY <1>2, FS_CardinalityType
<1> QED
  BY <1>2, <1>3, BridgeServed, BridgeCounts DEF Bridge!BridgeConstants, Bridge!ValuesOK,
     Bridge!TypeOK, Bridge!SlotsReturn, Bridge!Release

\* A connection that neither takes a slot nor gives one back.
LEMMA BridgeKeeps ==
  ASSUME Bridge!BridgeConstants, Bridge!ValuesOK, Bridge!SlotsReturn, UNCHANGED v1,
         Bridge!Served' = Bridge!Served
  PROVE  Bridge!SlotsReturn' /\ v1' \in 0 .. MaxConnections
  BY DEF Bridge!ValuesOK, Bridge!TypeOK, Bridge!SlotsReturn

\* The connections leave the files alone.
LEMMA BridgeServes ==
  ASSUME Bridge!BridgeConstants, Bridge!BridgeInv, Bridge!Serve
  PROVE  Bridge!BridgeInv'
<1> USE DEF Bridge!BridgeInv
<1>1. UNCHANGED <<Bridge!tokenVars, Bridge!writerVars>>
  BY DEF Bridge!Serve, Bridge!Connect, Bridge!Dispatch, Bridge!Handshake,
     Bridge!Headers, Bridge!Body, Bridge!Ingest, Bridge!Refuse, Bridge!Return,
     Bridge!Step, Bridge!Release
<1>2. Bridge!WriterKnows' /\ Bridge!OneBuild'
  BY <1>1 DEF Bridge!tokenVars, Bridge!writerVars, Bridge!WriterKnows,
     Bridge!OneBuild, Bridge!Progress, Bridge!Exchanging
<1>3. Bridge!SlotsReturn' /\ v1' \in 0 .. MaxConnections
  <2>1. ASSUME NEW c \in Clients,
               Bridge!Connect(c) \/ Bridge!Handshake(c) \/ Bridge!Body(c)
               \/ Bridge!Return(c)
        PROVE  UNCHANGED v1 /\ Bridge!Served' = Bridge!Served
    BY <2>1 DEF Bridge!ValuesOK, Bridge!Connect, Bridge!Handshake, Bridge!Body,
       Bridge!Return, Bridge!Step, Bridge!Served
  <2>2. ASSUME NEW c \in Clients, Bridge!Dispatch(c)
        PROVE  Bridge!SlotsReturn' /\ v1' \in 0 .. MaxConnections
    <3>1. CASE UNCHANGED v1 /\ v2' = [v2 EXCEPT ![c] = "closed"]
      <4>1. Bridge!Served' = Bridge!Served
        BY <2>2, <3>1 DEF Bridge!Dispatch, Bridge!ValuesOK, Bridge!Served
      <4> QED
        BY <3>1, <4>1, BridgeKeeps
    <3>2. CASE v1 > 0 /\ v1' = v1 - 1 /\ v2' = [v2 EXCEPT ![c] = "handshake"]
      BY <2>2, <3>2, BridgeTakes DEF Bridge!Dispatch
    <3> QED
      BY <2>2, <3>1, <3>2 DEF Bridge!Dispatch, Bridge!GiveBack
  <2>3. ASSUME NEW c \in Clients, Bridge!Headers(c)
        PROVE  Bridge!SlotsReturn' /\ v1' \in 0 .. MaxConnections
    <3>1. CASE Bridge!Step(c, "headers", "body")
      <4>1. UNCHANGED v1 /\ Bridge!Served' = Bridge!Served
        BY <3>1 DEF Bridge!ValuesOK, Bridge!Step, Bridge!Served
      <4> QED
        BY <4>1, BridgeKeeps
    <3>2. CASE v2[c] = "headers" /\ Bridge!Release(c)
      BY <3>2, BridgeGives DEF Bridge!Served
    <3> QED
      BY <2>3, <3>1, <3>2 DEF Bridge!Headers
  <2>4. ASSUME NEW c \in Clients, Bridge!Ingest(c) \/ Bridge!Refuse(c)
        PROVE  Bridge!SlotsReturn' /\ v1' \in 0 .. MaxConnections
    BY <2>4, BridgeGives DEF Bridge!Ingest, Bridge!Refuse, Bridge!Served
  <2> QED
    BY <2>1, <2>2, <2>3, <2>4, BridgeKeeps DEF Bridge!Serve
<1>4. /\ v3' \in [Clients -> Bridge!Tokens]
      /\ v2'
         \in [Clients -> {"out", "accepted", "closed", "handshake", "headers", "body", "ingest"}]
  <2>1. v7[Bridge!Background] \in Bridge!Tokens /\ 0 \in Bridge!Tokens
    BY DEF Bridge!BridgeConstants, Bridge!ValuesOK, Bridge!TypeOK, Bridge!Files,
       Bridge!Background, Bridge!Tokens
  <2> QED
    BY <2>1 DEF Bridge!ValuesOK, Bridge!TypeOK, Bridge!Serve, Bridge!Connect,
       Bridge!Dispatch, Bridge!Handshake, Bridge!Headers, Bridge!Body, Bridge!Ingest,
       Bridge!Refuse, Bridge!Return, Bridge!Step, Bridge!Release
<1> QED
  BY <1>1, <1>2, <1>3, <1>4 DEF Bridge!ValuesOK, Bridge!TypeOK, Bridge!tokenVars,
     Bridge!writerVars

\* The files that are in place are as many as the next one's number says.
LEMMA BridgeCounting ==
  ASSUME NEW n \in 0 .. 4, Bridge!Progress(n)
  PROVE  Cardinality(v10) = n
<1>1. n \in Int /\ 1 \in Int
  OBVIOUS
<1>2. Cardinality(1 .. n) = IF 1 > n THEN 0 ELSE n - 1 + 1
  BY <1>1, FS_Interval
<1>3. Cardinality(1 .. n) = n
  BY <1>2
<1> QED
  BY <1>3, BridgeCounts DEF Bridge!Progress

\* A file is put aside, and the new one is put in its place.
LEMMA BridgeExchanges ==
  ASSUME Bridge!BridgeConstants, Bridge!BridgeInv, NEW f \in Bridge!Files,
         Bridge!Backup(f) \/ Bridge!Place(f)
  PROVE  Bridge!BridgeInv'
<1> USE DEF Bridge!BridgeInv
<1>1. v8 = "exchange" /\ v8' \in {"exchange", "undo"}
      /\ UNCHANGED <<Bridge!serverVars, Bridge!tokenVars, v9>>
  BY DEF Bridge!Backup, Bridge!Place
<1>2. Bridge!SlotsReturn' /\ Bridge!OneBuild'
  BY <1>1 DEF Bridge!serverVars, Bridge!SlotsReturn, Bridge!Served, Bridge!OneBuild
<1>3. Bridge!ValuesOK'
  BY <1>1 DEF Bridge!BridgeConstants, Bridge!ValuesOK, Bridge!TypeOK, Bridge!Tokens,
     Bridge!serverVars, Bridge!tokenVars, Bridge!Backup, Bridge!Place
<1>4. PICK n \in 0 .. 4 : Bridge!Progress(n)
  BY <1>1 DEF Bridge!WriterKnows
<1>5. PICK old \in Bridge!Tokens : Bridge!Exchanging(old)
  BY <1>1 DEF Bridge!WriterKnows
<1>6. CASE UNCHANGED <<v7, v10, v11, v12>>
  BY <1>1, <1>2, <1>3, <1>4, <1>5, <1>6 DEF Bridge!WriterKnows, Bridge!Progress,
     Bridge!Exchanging
<1>7. CASE /\ v11 = v10 /\ f = Cardinality(v10) + 1
           /\ v12' = [v12 EXCEPT ![f] = v7[f]]
           /\ v7' = [v7 EXCEPT ![f] = 0]
           /\ v11' = v11 \cup {f} /\ UNCHANGED v10
  <2>1. f = n + 1 /\ f \notin v10
    BY <1>4, <1>7, BridgeCounting DEF Bridge!Progress
  <2>2. Bridge!Progress(n)'
    BY <1>4, <1>7, <2>1 DEF Bridge!Progress, Bridge!Files
  <2>3. Bridge!Exchanging(old)'
    BY <1>1, <1>5, <1>7, <2>1 DEF Bridge!Exchanging, Bridge!ValuesOK, Bridge!TypeOK
  <2> QED
    BY <1>2, <1>3, <2>2, <2>3 DEF Bridge!WriterKnows
<1>8. CASE /\ f \in v11 \ v10
           /\ v7' = [v7 EXCEPT ![f] = v9] /\ v10' = v10 \cup {f}
           /\ UNCHANGED <<v11, v12>>
  <2>1. f = n + 1 /\ n + 1 \in 0 .. 4 /\ v11 = 1 .. n + 1
    BY <1>4, <1>8 DEF Bridge!Progress, Bridge!Files
  <2>2. Bridge!Progress(n + 1)'
    BY <1>4, <1>8, <2>1 DEF Bridge!Progress
  <2>3. Bridge!Exchanging(old)'
    BY <1>1, <1>5, <1>8 DEF Bridge!Exchanging, Bridge!ValuesOK, Bridge!TypeOK
  <2> QED
    BY <1>2, <1>3, <2>1, <2>2, <2>3 DEF Bridge!WriterKnows
<1> QED
  BY <1>6, <1>7, <1>8, BridgeCounts DEF Bridge!Backup, Bridge!Place

\* A writing begins, is given up, completes and ends.
LEMMA BridgeWrites ==
  ASSUME Bridge!BridgeConstants, Bridge!BridgeInv,
         Bridge!Begin \/ Bridge!CannotStage \/ Bridge!Complete \/ Bridge!Undo
         \/ Bridge!Settle
  PROVE  Bridge!BridgeInv'
<1> USE DEF Bridge!BridgeInv
<1>1. UNCHANGED Bridge!serverVars
  BY DEF Bridge!Begin, Bridge!CannotStage, Bridge!Complete, Bridge!Undo, Bridge!Settle
<1>2. Bridge!SlotsReturn'
  BY <1>1 DEF Bridge!serverVars, Bridge!SlotsReturn, Bridge!Served
<1>3. CASE Bridge!Begin
  <2>1. UNCHANGED v7 /\ v8 = "idle" /\ v8' = "exchange" /\ v10' = {} /\ v11' = {}
        /\ UNCHANGED v12
    BY <1>3 DEF Bridge!Begin
  <2>2. PICK t \in Bridge!Tokens : Bridge!TokenFor(t) /\ v9' = t
    BY <1>3 DEF Bridge!Begin
  <2>3. v5' \in Bridge!Tokens /\ v6' \in Bridge!Tokens
    BY <2>2 DEF Bridge!BridgeConstants, Bridge!ValuesOK, Bridge!TokenFor,
       Bridge!Tokens, Bridge!tokenVars
  <2>4. Bridge!ValuesOK'
    BY <1>1, <2>1, <2>2, <2>3 DEF Bridge!ValuesOK, Bridge!TypeOK, Bridge!serverVars
  <2>5. Bridge!Progress(0)'
    BY <2>1 DEF Bridge!Progress
  <2>6. Bridge!Exchanging(v7[1])' /\ v7[1] \in Bridge!Tokens
    BY <2>1 DEF Bridge!Exchanging, Bridge!OneBuild, Bridge!ValuesOK, Bridge!TypeOK,
       Bridge!Files
  <2>7. v7'[1] = v7[1] /\ 0 \in 0 .. 4
    BY <2>1
  <2> QED
    BY <1>2, <2>1, <2>4, <2>5, <2>6, <2>7 DEF Bridge!WriterKnows, Bridge!OneBuild
<1>4. CASE Bridge!CannotStage
  <2>1. PICK old \in Bridge!Tokens : Bridge!Exchanging(old)
    BY <1>4 DEF Bridge!CannotStage, Bridge!WriterKnows
  <2>2. Bridge!OneBuild'
    BY <1>4, <2>1 DEF Bridge!CannotStage, Bridge!OneBuild, Bridge!Exchanging
  <2> QED
    BY <1>1, <1>2, <1>4, <2>2 DEF Bridge!CannotStage, Bridge!ValuesOK, Bridge!TypeOK,
       Bridge!serverVars, Bridge!tokenVars, Bridge!WriterKnows
<1>5. CASE Bridge!Complete
  <2>1. PICK old \in Bridge!Tokens : Bridge!Exchanging(old)
    BY <1>5 DEF Bridge!Complete, Bridge!WriterKnows
  <2>2. Bridge!OneBuild'
    BY <1>5, <2>1 DEF Bridge!Complete, Bridge!OneBuild, Bridge!Exchanging
  <2> QED
    BY <1>1, <1>2, <1>5, <2>2 DEF Bridge!Complete, Bridge!ValuesOK, Bridge!TypeOK,
       Bridge!serverVars, Bridge!tokenVars, Bridge!WriterKnows
<1>6. CASE Bridge!Undo
  <2>1. PICK old \in Bridge!Tokens : Bridge!Exchanging(old)
    BY <1>6 DEF Bridge!Undo, Bridge!WriterKnows
  <2>2. CASE v7' = [f \in Bridge!Files |-> IF f \in v11 THEN v12[f] ELSE v7[f]]
             /\ v8' = "failed"
    <3>1. \A f \in Bridge!Files : v7'[f] = old
      BY <2>1, <2>2 DEF Bridge!Exchanging
    <3>2. Bridge!OneBuild' /\ Bridge!WriterKnows'
          /\ v7' \in [Bridge!Files -> Bridge!Tokens]
      BY <2>2, <3>1 DEF Bridge!OneBuild, Bridge!WriterKnows
    <3> QED
      BY <1>1, <1>2, <1>6, <2>2, <3>2 DEF Bridge!Undo, Bridge!ValuesOK, Bridge!TypeOK,
         Bridge!serverVars, Bridge!tokenVars
  <2>3. CASE /\ \E broken \in SUBSET v11 :
                   v7' = [f \in Bridge!Files |-> IF f
                   \in v11 \ broken THEN v12[f] ELSE 0]
             /\ v8' = "torn"
    <3>1. v7' \in [Bridge!Files -> Bridge!Tokens]
      BY <2>3 DEF Bridge!ValuesOK, Bridge!BridgeConstants, Bridge!Tokens
    <3> QED
      BY <1>1, <1>2, <1>6, <2>3, <3>1 DEF Bridge!Undo, Bridge!ValuesOK, Bridge!TypeOK,
         Bridge!serverVars, Bridge!tokenVars, Bridge!OneBuild, Bridge!WriterKnows
  <2> QED
    BY <1>6, <2>2, <2>3 DEF Bridge!Undo
<1>7. CASE Bridge!Settle
  BY <1>1, <1>2, <1>7 DEF Bridge!Settle, Bridge!BridgeConstants, Bridge!Tokens,
     Bridge!ValuesOK, Bridge!TypeOK, Bridge!serverVars, Bridge!tokenVars,
     Bridge!OneBuild, Bridge!WriterKnows
<1> QED
  BY <1>3, <1>4, <1>5, <1>6, <1>7

LEMMA BridgeInvPreserved ==
  ASSUME Bridge!BridgeConstants, Bridge!BridgeInv, [Bridge!Next]_(Bridge!bridgeVars)
  PROVE  Bridge!BridgeInv'
<1>1. CASE UNCHANGED Bridge!bridgeVars \/ Bridge!Stop
  BY <1>1 DEF Bridge!bridgeVars, Bridge!serverVars, Bridge!tokenVars,
     Bridge!writerVars, Bridge!Stop, Bridge!BridgeInv, Bridge!ValuesOK, Bridge!TypeOK,
     Bridge!SlotsReturn, Bridge!Served, Bridge!WriterKnows, Bridge!Progress,
     Bridge!Exchanging, Bridge!OneBuild
<1>2. CASE Bridge!Revoke
  BY <1>2 DEF Bridge!BridgeConstants, Bridge!Tokens, Bridge!serverVars,
     Bridge!writerVars, Bridge!Revoke, Bridge!BridgeInv, Bridge!ValuesOK,
     Bridge!TypeOK, Bridge!SlotsReturn, Bridge!Served, Bridge!WriterKnows,
     Bridge!Progress, Bridge!Exchanging, Bridge!OneBuild
<1> QED
  BY <1>1, <1>2, BridgeServes, BridgeExchanges, BridgeWrites DEF Bridge!Next,
     Bridge!Write

LEMMA BridgeInvWhole == Bridge!BridgeInv => Bridge!SlotsReturn /\ Bridge!OneBuild
  BY DEF Bridge!BridgeInv

-----------------------------------------------------------------------------
(***************************************************************************)
(* The integration watchdog.                                               *)
(***************************************************************************)
LEMMA WatchdogInvInit ==
  ASSUME Watchdog!WatchdogConstants, Watchdog!Init
  PROVE  Watchdog!WatchdogInv
<1>1. Watchdog!FlagsOK
  BY DEF Watchdog!Init, Watchdog!FlagsOK
<1> QED
  BY <1>1 DEF Watchdog!WatchdogConstants, Watchdog!Init, Watchdog!None,
     Watchdog!WatchdogInv, Watchdog!TypeOK, Watchdog!InTime, Watchdog!NoneLeft

LEMMA WatchdogFlags ==
  ASSUME Watchdog!FlagsOK, Watchdog!Next
  PROVE  Watchdog!FlagsOK'
<1> USE DEF Watchdog!FlagsOK, Watchdog!World, Watchdog!Finish, Watchdog!Enter
<1>1. CASE \/ Watchdog!Spawn \/ Watchdog!SpawnFails \/ Watchdog!Fork
              \/ Watchdog!Exit \/ Watchdog!OthersExit \/ Watchdog!Waited
                 \/ Watchdog!WaitExpires
           \/ Watchdog!AlarmUnguarded \/ Watchdog!GroupEnds
              \/ Watchdog!CleanupFails \/ Watchdog!WatchdogDone
                 \/ Watchdog!PublisherDone
  BY <1>1 DEF Watchdog!Spawn, Watchdog!SpawnFails, Watchdog!Fork, Watchdog!Exit,
     Watchdog!OthersExit, Watchdog!Waited, Watchdog!WaitExpires,
     Watchdog!AlarmUnguarded, Watchdog!GroupEnds, Watchdog!CleanupFails,
     Watchdog!WatchdogDone, Watchdog!PublisherDone
<1>2. CASE \/ Watchdog!Start \/ Watchdog!StartRefused \/ Watchdog!Tick
              \/ Watchdog!Installation
           \/ Watchdog!Attest \/ Watchdog!AttestRefuses \/ Watchdog!AlarmFires
              \/ Watchdog!SelfBegins \/ Watchdog!SelfAttest \/ Watchdog!SelfRefuses
           \/ Watchdog!PublishBegins
  BY <1>2 DEF Watchdog!Start, Watchdog!StartRefused, Watchdog!Tick,
     Watchdog!Installation, Watchdog!Attest, Watchdog!AttestRefuses,
     Watchdog!AlarmFires, Watchdog!SelfBegins, Watchdog!SelfAttest,
     Watchdog!SelfRefuses, Watchdog!PublishBegins
<1> QED
  BY <1>1, <1>2 DEF Watchdog!Next

\* The stages of the subprocesses.
LEMMA WatchdogSubprocesses ==
  ASSUME Watchdog!WatchdogConstants, Watchdog!WatchdogInv,
         \/ Watchdog!Spawn \/ Watchdog!SpawnFails \/ Watchdog!Fork \/ Watchdog!Exit
            \/ Watchdog!OthersExit \/ Watchdog!Waited \/ Watchdog!WaitExpires
         \/ Watchdog!AlarmUnguarded \/ Watchdog!GroupEnds \/ Watchdog!CleanupFails
            \/ Watchdog!WatchdogDone \/ Watchdog!PublisherDone
  PROVE  Watchdog!WatchdogInv'
<1>0. Watchdog!FlagsOK'
  BY WatchdogFlags DEF Watchdog!Next, Watchdog!WatchdogInv, Watchdog!TypeOK
<1> USE DEF Watchdog!WatchdogConstants, Watchdog!None, Watchdog!WatchdogInv,
        Watchdog!TypeOK, Watchdog!InTime, Watchdog!NoneLeft, Watchdog!World,
        Watchdog!Children, Watchdog!Finish, Watchdog!Subprocess, Watchdog!Ending
<1>1. CASE Watchdog!Spawn \/ Watchdog!Fork \/ Watchdog!Exit \/ Watchdog!OthersExit
  BY <1>0, <1>1 DEF Watchdog!Spawn, Watchdog!Fork, Watchdog!Exit, Watchdog!OthersExit
<1>2. CASE Watchdog!SpawnFails \/ Watchdog!AlarmUnguarded \/ Watchdog!CleanupFails
  BY <1>0, <1>2 DEF Watchdog!SpawnFails, Watchdog!AlarmUnguarded,
     Watchdog!CleanupFails
<1>3. CASE Watchdog!Waited \/ Watchdog!WaitExpires
  BY <1>0, <1>3 DEF Watchdog!Waited, Watchdog!WaitExpires, Watchdog!Terminating
<1>4. CASE Watchdog!GroupEnds \/ Watchdog!PublisherDone
  BY <1>0, <1>4 DEF Watchdog!GroupEnds, Watchdog!PublisherDone
<1>5. CASE Watchdog!WatchdogDone
  BY <1>0, <1>5 DEF Watchdog!WatchdogDone, Watchdog!Enter, Watchdog!Least
<1> QED
  BY <1>1, <1>2, <1>3, <1>4, <1>5

\* The stages in the process, the beginning of a run, and time.
LEMMA WatchdogOthers ==
  ASSUME Watchdog!WatchdogConstants, Watchdog!WatchdogInv,
         \/ Watchdog!Start \/ Watchdog!StartRefused \/ Watchdog!Tick
            \/ Watchdog!Installation
         \/ Watchdog!Attest \/ Watchdog!AttestRefuses \/ Watchdog!AlarmFires
            \/ Watchdog!SelfBegins \/ Watchdog!SelfAttest \/ Watchdog!SelfRefuses
         \/ Watchdog!PublishBegins
  PROVE  Watchdog!WatchdogInv'
<1>0. Watchdog!FlagsOK'
  BY WatchdogFlags DEF Watchdog!Next, Watchdog!WatchdogInv, Watchdog!TypeOK
<1> USE DEF Watchdog!WatchdogConstants, Watchdog!None, Watchdog!WatchdogInv,
        Watchdog!TypeOK, Watchdog!InTime, Watchdog!NoneLeft, Watchdog!World,
        Watchdog!Children, Watchdog!Finish
<1>1. CASE Watchdog!StartRefused
  <2>1. v12' \in {"64", "70"}
    BY <1>1 DEF Watchdog!StartRefused
  <2> QED
    BY <1>0, <1>1, <2>1 DEF Watchdog!StartRefused
<1>5. CASE Watchdog!Start
  <2>1. CASE v3' = "both"
    <3>1. v4' = "watchdog" /\ v5' = v1 + Watchdog!Least(Generic, Total)
      BY <1>5, <2>1 DEF Watchdog!Start
    <3>2. v5' \in Nat /\ v1 <= v5' /\ v5' + CleanupTime <= v1 + Total
      BY <3>1 DEF Watchdog!Least
    <3> QED
      BY <1>0, <1>5, <2>1, <3>1, <3>2 DEF Watchdog!Start
  <2>2. CASE v3' = "publisher"
    <3>1. v4' = "attest" /\ v5' = v1 + Watchdog!Least(Attestation, Total)
      BY <1>5, <2>2 DEF Watchdog!Start
    <3>2. v5' \in Nat /\ v1 <= v5' /\ v5' <= v1 + Total
      BY <3>1 DEF Watchdog!Least
    <3> QED
      BY <1>0, <1>5, <2>2, <3>1, <3>2 DEF Watchdog!Start
  <2> QED
    BY <1>5, <2>1, <2>2 DEF Watchdog!Start
<1>2. CASE Watchdog!Tick \/ Watchdog!Installation
  BY <1>0, <1>2 DEF Watchdog!Tick, Watchdog!Installation
<1>3. CASE Watchdog!Attest \/ Watchdog!AttestRefuses \/ Watchdog!AlarmFires
           \/ Watchdog!SelfAttest \/ Watchdog!SelfRefuses
  BY <1>0, <1>3 DEF Watchdog!Attest, Watchdog!AttestRefuses, Watchdog!AlarmFires,
     Watchdog!SelfAttest, Watchdog!SelfRefuses
<1>4. CASE Watchdog!SelfBegins \/ Watchdog!PublishBegins
  BY <1>0, <1>4 DEF Watchdog!SelfBegins, Watchdog!PublishBegins, Watchdog!Enter,
     Watchdog!Least
<1> QED
  BY <1>1, <1>2, <1>3, <1>4, <1>5

LEMMA WatchdogInvPreserved ==
  ASSUME Watchdog!WatchdogConstants, Watchdog!WatchdogInv,
         [Watchdog!Next]_(Watchdog!vars)
  PROVE  Watchdog!WatchdogInv'
<1>1. CASE UNCHANGED Watchdog!vars
  BY <1>1 DEF Watchdog!vars, Watchdog!WatchdogInv, Watchdog!TypeOK, Watchdog!FlagsOK,
     Watchdog!InTime, Watchdog!NoneLeft
<1> QED
  BY <1>1, WatchdogSubprocesses, WatchdogOthers DEF Watchdog!Next

LEMMA WatchdogInvEndsClean == Watchdog!WatchdogConstants
/\ Watchdog!WatchdogInv => Watchdog!RunEndsClean
  BY DEF Watchdog!WatchdogConstants, Watchdog!WatchdogInv, Watchdog!TypeOK,
     Watchdog!InTime, Watchdog!NoneLeft, Watchdog!RunEndsClean

-----------------------------------------------------------------------------
(***************************************************************************)
(* The snapshot of the control service.                                    *)
(***************************************************************************)
\* A directory is typed, and so are the files in it.
LEMMA FoldersAreTyped ==
  ASSUME Cache!CacheConstants, NEW d \in Cache!Folder,
         NEW f \in Cache!Files \union {NoSnapshot}
  PROVE  /\ [d EXCEPT !.cache = f] \in Cache!Folder
         /\ [d EXCEPT !.temp = f] \in Cache!Folder
         /\ [d EXCEPT !.rollback = f] \in Cache!Folder
         /\ [d EXCEPT !.cache = f, !.temp = NoSnapshot] \in Cache!Folder
         /\ d.cache \in Cache!Files \union {NoSnapshot}
         /\ d.temp \in Cache!Files \union {NoSnapshot}
         /\ d.rollback \in Cache!Files \union {NoSnapshot}
  BY DEF Cache!Folder

LEMMA NumbersAreTexts ==
  ASSUME Cache!CacheConstants, NEW n \in 0..MaxSaves
  PROVE  /\ [ino |-> n, text |-> n] \in Cache!Files
            /\ [ino |-> n, text |-> Cache!Half] \in Cache!Files
         /\ [ino |-> Cache!Legacy, text |-> n] \in Cache!Files
            /\ [ino |-> Cache!Legacy, text |-> Cache!Legacy] \in Cache!Files
         /\ NoSnapshot \notin Cache!Files
  BY DEF Cache!CacheConstants, Cache!Files, Cache!Half, Cache!Legacy

LEMMA CacheInvInit ==
  ASSUME Cache!CacheConstants, Cache!Init
  PROVE  Cache!CacheInv
<1>1. 0 \in 0..MaxSaves /\ MaxSaves \in Nat
  BY DEF Cache!CacheConstants
<1>2. /\ Cache!Snapshot0 \in Cache!Files
         /\ [ino |-> Cache!Legacy, text |-> 0] \in Cache!Files
      /\ [ino |-> Cache!Legacy, text |-> Cache!Legacy] \in Cache!Files
         /\ NoSnapshot \notin Cache!Files
  BY <1>1, NumbersAreTexts DEF Cache!Snapshot0
<1>3. v1 \in Cache!Folder /\ v2 = {v1}
  BY <1>2 DEF Cache!Init, Cache!Leftovers, Cache!Started, Cache!Folder
<1>4. Cache!ValuesOK
  BY <1>1, <1>3 DEF Cache!Init, Cache!ValuesOK
<1>5. Cache!Surviving(v1) \in v7
  <2>1. /\ \A c, r : Cache!Started(c, r).cache = c /\ Cache!Started(c, r).rollback = r
        /\ Cache!Snapshot0.text = 0 /\ Cache!Snapshot0 # NoSnapshot
    BY <1>2 DEF Cache!Started, Cache!Snapshot0
  <2>2. CASE v1 = Cache!Started(NoSnapshot, NoSnapshot)
    BY <2>1, <2>2 DEF Cache!Init, Cache!Surviving
  <2>3. CASE v1 # Cache!Started(NoSnapshot, NoSnapshot)
    <3>1. Cache!Surviving(v1) = 0
      BY <1>2, <2>1, <2>3 DEF Cache!Init, Cache!Leftovers, Cache!Surviving
    <3> QED
      BY <2>3, <3>1 DEF Cache!Init
  <2> QED
    BY <2>2, <2>3
<1>6. Cache!ImagesAreDue /\ Cache!ProgressOK /\ Cache!WrittenOK /\ Cache!LoadIsDue
  BY <1>3, <1>5 DEF Cache!Init, Cache!ImagesAreDue, Cache!ProgressOK, Cache!WrittenOK,
     Cache!LoadIsDue
<1> QED
  BY <1>4, <1>6 DEF Cache!CacheInv

\* Every step is one of few kinds: it changes no directory, the present one in a way
\* that keeps what a load would find, or it syncs, or it loses all but one of them.
LEMMA CacheValuesPreserved ==
  ASSUME Cache!CacheConstants, Cache!ValuesOK, Cache!WrittenOK,
         [Cache!Next]_(Cache!vars)
  PROVE  Cache!ValuesOK'
<1> USE DEF Cache!ValuesOK, Cache!CacheConstants
<1>1. CASE Cache!BeginSave
  BY <1>1 DEF Cache!BeginSave, Cache!Still, Cache!NoFault
<1>2. CASE Cache!BeginLoad
  BY <1>2 DEF Cache!BeginLoad, Cache!Still, Cache!NoFault
<1>3. CASE Cache!DropTemp
  BY <1>3, FoldersAreTyped, NumbersAreTexts DEF Cache!DropTemp, Cache!Still,
     Cache!Change, Cache!Goto, Cache!Return, Cache!NoFault, Cache!Fault, Cache!There
<1>4. CASE Cache!SyncStale
  BY <1>4 DEF Cache!SyncStale, Cache!Still, Cache!Sync, Cache!Goto, Cache!Return,
     Cache!NoFault, Cache!Fault
<1>5. CASE Cache!NoRollback
  BY <1>5 DEF Cache!NoRollback, Cache!Still, Cache!Goto, Cache!NoFault,
     Cache!AfterRecovery, Cache!There
<1>6. CASE Cache!DropRollback
  BY <1>6, FoldersAreTyped, NumbersAreTexts DEF Cache!DropRollback, Cache!Still,
     Cache!Change, Cache!Goto, Cache!Return, Cache!NoFault, Cache!Fault, Cache!There
<1>7. CASE Cache!RefuseRollback
  BY <1>7 DEF Cache!RefuseRollback, Cache!Still, Cache!Return, Cache!NoFault,
     Cache!There
<1>8. CASE Cache!LinkRollback
  BY <1>8, FoldersAreTyped, NumbersAreTexts DEF Cache!LinkRollback, Cache!Still,
     Cache!Change, Cache!Goto, Cache!Return, Cache!NoFault, Cache!Fault, Cache!There
<1>9. CASE Cache!SyncRollback
  BY <1>9 DEF Cache!SyncRollback, Cache!Still, Cache!Sync, Cache!Goto, Cache!Return,
     Cache!NoFault, Cache!Fault, Cache!AfterRecovery
<1>10. CASE Cache!Read
  BY <1>10 DEF Cache!Read, Cache!Still, Cache!Return, Cache!NoFault, Cache!Fault,
     Cache!There
<1>11. CASE Cache!ReadExisting
  BY <1>11 DEF Cache!ReadExisting, Cache!Still, Cache!Return, Cache!NoFault,
     Cache!Fault, Cache!There
<1>12. CASE Cache!CreateTemp
  <2>1. [ino |-> v4, text |-> Cache!Half] \in Cache!Files
    BY NumbersAreTexts
  <2>2. [v1 EXCEPT !.temp = [ino |-> v4, text |-> Cache!Half]] \in Cache!Folder
    BY <2>1, FoldersAreTyped
  <2> QED
    BY <1>12, <2>2 DEF Cache!CreateTemp, Cache!Still, Cache!Change, Cache!Goto,
       Cache!Return, Cache!Fail
<1>13. CASE Cache!WriteTemp
  <2>1. CASE UNCHANGED <<v1, v2, v4, v6>>
    BY <2>1
  <2>2. CASE /\ v1' = [v1 EXCEPT !.temp.text = v4]
             /\ v2' = {IF d.temp # NoSnapshot /\ d.temp.ino = v4
                           THEN [d EXCEPT !.temp.text = v4] ELSE d : d \in v2}
             /\ UNCHANGED <<v4, v6>>
    <3>1. ASSUME NEW d \in Cache!Folder, d.temp # NoSnapshot
          PROVE  [d EXCEPT !.temp.text = v4] \in Cache!Folder
      <4>1. d.temp \in Cache!Files
        BY <3>1, FoldersAreTyped
      <4>2. [d.temp EXCEPT !.text = v4] \in Cache!Files
        BY <4>1 DEF Cache!Files, Cache!Legacy
      <4> QED
        BY <4>2 DEF Cache!Folder
    <3>2. v1.temp # NoSnapshot /\ v1.temp.ino = v4
      <4>1. v1.temp = [ino |-> v4, text |-> Cache!Half]
        BY <1>13 DEF Cache!WriteTemp, Cache!WrittenOK
      <4>2. [ino |-> v4, text |-> Cache!Half] \in Cache!Files
        BY NumbersAreTexts
      <4> QED
        BY <4>1, <4>2
    <3> QED
      BY <2>2, <3>1, <3>2
  <2> QED
    BY <1>13, <2>1, <2>2 DEF Cache!WriteTemp, Cache!Still, Cache!Goto, Cache!Return,
       Cache!Fail
<1>14. CASE Cache!SyncTemp
  BY <1>14 DEF Cache!SyncTemp, Cache!Still, Cache!Sync, Cache!Goto, Cache!Fail,
     Cache!NoFault, Cache!Fault, Cache!Return
<1>15. CASE Cache!Publish
  BY <1>15, FoldersAreTyped, NumbersAreTexts DEF Cache!Publish, Cache!Still,
     Cache!Change, Cache!Goto, Cache!Fail, Cache!NoFault, Cache!Fault, Cache!Return
<1>16. CASE Cache!UnlinkTemp
  <2>1. [v1 EXCEPT !.temp = NoSnapshot] \in Cache!Folder
    BY FoldersAreTyped
  <2> QED
    BY <1>16, <2>1 DEF Cache!UnlinkTemp, Cache!Still, Cache!Change, Cache!Goto,
       Cache!Fail, Cache!NoFault, Cache!Fault, Cache!Return
<1>17. CASE Cache!SyncUnlink
  BY <1>17 DEF Cache!SyncUnlink, Cache!Still, Cache!Sync, Cache!Goto, Cache!Fail,
     Cache!NoFault, Cache!Fault, Cache!Return
<1>18. CASE Cache!SyncPublished
  BY <1>18 DEF Cache!SyncPublished, Cache!Still, Cache!Sync, Cache!Fail,
     Cache!NoFault, Cache!Fault, Cache!Succeed, Cache!Goto, Cache!Return
<1>19. CASE Cache!RemoveTemp
  BY <1>19, FoldersAreTyped, NumbersAreTexts DEF Cache!RemoveTemp, Cache!Still,
     Cache!Change, Cache!Return, Cache!NoFault, Cache!There
<1>20. CASE Cache!LeaveTemp
  BY <1>20 DEF Cache!LeaveTemp, Cache!Still, Cache!Return, Cache!Fault, Cache!There
<1>21. CASE Cache!Die
  BY <1>21 DEF Cache!Die, Cache!Still, Cache!Return, Cache!Fault
<1>22. CASE Cache!PowerLoss
  BY <1>22 DEF Cache!PowerLoss, Cache!Return, Cache!Fault
<1>23. CASE UNCHANGED Cache!vars
  BY <1>23 DEF Cache!vars
<1> QED
  BY <1>1, <1>2, <1>3, <1>4, <1>5, <1>6, <1>7, <1>8, <1>9, <1>10, <1>11, <1>12, <1>13,
     <1>14, <1>15, <1>16, <1>17, <1>18, <1>19, <1>20, <1>21, <1>22, <1>23
     DEF Cache!Next

\* What a load would find does not depend on the temporary file, and a rollback file
\* takes the place of a snapshot that is not there.
LEMMA KeptStays ==
  ASSUME NEW d \in Cache!Folder, NEW f
  PROVE  /\ Cache!Surviving([d EXCEPT !.temp = f]) = Cache!Surviving(d)
         /\ f # NoSnapshot =>
              /\ Cache!Surviving([d EXCEPT !.cache = f]) = f.text
              /\ Cache!Surviving([d EXCEPT !.cache = f, !.temp = NoSnapshot]) = f.text
         /\ d.cache # NoSnapshot
            => Cache!Surviving([d EXCEPT !.rollback = NoSnapshot]) = Cache!Surviving(d)
         /\ d.cache = NoSnapshot
            /\ d.rollback # NoSnapshot => Cache!Surviving(d) = d.rollback.text
  BY DEF Cache!Surviving, Cache!Folder

LEMMA CacheImagesPreserved ==
  ASSUME Cache!CacheConstants, Cache!ValuesOK, Cache!ImagesAreDue, Cache!ProgressOK,
         Cache!WrittenOK, [Cache!Next]_(Cache!vars)
  PROVE  Cache!ImagesAreDue'
<1> USE DEF Cache!ImagesAreDue
<1>1. v1 \in Cache!Folder /\ v2 \subseteq Cache!Folder /\ v1 \in v2
      /\ Cache!Surviving(v1) \in v7
  BY DEF Cache!ValuesOK
<1>2. CASE UNCHANGED v2 /\ v7 \subseteq v7'
  BY <1>2
<1>3. CASE UNCHANGED v7 /\ \E d \in v2 : v2' = {d}
  BY <1>3
<1>4. ASSUME NEW d, Cache!Surviving(d) \in v7, Cache!Change(d), UNCHANGED v7
      PROVE  Cache!ImagesAreDue'
  BY <1>4 DEF Cache!Change
<1>5. CASE Cache!DropTemp \/ Cache!CreateTemp \/ Cache!UnlinkTemp \/ Cache!RemoveTemp
  <2>1. \A f : Cache!Surviving([v1 EXCEPT !.temp = f]) \in v7
    BY <1>1, KeptStays
  <2> QED
    BY <1>2, <1>4, <1>5, <2>1 DEF Cache!DropTemp, Cache!CreateTemp, Cache!UnlinkTemp,
       Cache!RemoveTemp, Cache!Still, Cache!Goto, Cache!Return, Cache!Fail
<1>6. CASE Cache!DropRollback
  <2>1. v1.cache # NoSnapshot
    BY <1>6 DEF Cache!DropRollback, Cache!There
  <2>2. Cache!Surviving([v1 EXCEPT !.rollback = NoSnapshot]) \in v7
    BY <1>1, <2>1, KeptStays
  <2> QED
    BY <1>2, <1>4, <1>6, <2>2 DEF Cache!DropRollback, Cache!Still, Cache!Goto,
       Cache!Return
<1>7. CASE Cache!LinkRollback
  <2>1. v1.cache = NoSnapshot /\ v1.rollback # NoSnapshot
    BY <1>7 DEF Cache!LinkRollback, Cache!There
  <2>2. Cache!Surviving([v1 EXCEPT !.cache = v1.rollback]) \in v7
    BY <1>1, <2>1, KeptStays
  <2> QED
    BY <1>2, <1>4, <1>7, <2>2 DEF Cache!LinkRollback, Cache!Still, Cache!Goto,
       Cache!Return
<1>8. CASE Cache!Publish
  <2>1. v3 = "publish" /\ v1.temp = Cache!Written /\ v4 \in v7
    BY <1>8 DEF Cache!Publish, Cache!WrittenOK, Cache!ProgressOK
  <2>2. Cache!Written # NoSnapshot /\ Cache!Written.text = v4
    BY NumbersAreTexts DEF Cache!Written, Cache!ValuesOK
  <2>3. /\ Cache!Surviving([v1 EXCEPT !.cache = v1.temp]) \in v7
        /\ Cache!Surviving([v1 EXCEPT !.cache = v1.temp, !.temp = NoSnapshot]) \in v7
    BY <1>1, <2>1, <2>2, KeptStays
  <2> QED
    BY <1>2, <1>4, <1>8, <2>3 DEF Cache!Publish, Cache!Still, Cache!Goto,
       Cache!Return, Cache!Fail
<1>9. CASE Cache!WriteTemp
  <2>1. CASE UNCHANGED <<v2, v7>>
    BY <2>1
  <2>2. CASE /\ v2' = {IF d.temp # NoSnapshot /\ d.temp.ino = v4
                           THEN [d EXCEPT !.temp.text = v4] ELSE d : d \in v2}
             /\ UNCHANGED v7
    <3>1. \A d \in v2 : Cache!Surviving([d EXCEPT !.temp.text = v4]) \in v7
      <4>1. \A d \in Cache!Folder : \A f :
              Cache!Surviving([d EXCEPT !.temp = f]) = Cache!Surviving(d)
        BY KeptStays
      <4> QED
        BY <1>1, <4>1
    <3> QED
      BY <2>2, <3>1
  <2> QED
    BY <1>9, <2>1, <2>2 DEF Cache!WriteTemp, Cache!Still, Cache!Goto, Cache!Return,
       Cache!Fail
<1>10. CASE Cache!SyncPublished
  <2>1. CASE v2' = {v1} /\ v7' = {v4}
    <3>1. v1.cache = Cache!Written
      BY <1>10 DEF Cache!SyncPublished, Cache!WrittenOK
    <3>2. Cache!Written # NoSnapshot /\ Cache!Written.text = v4
      BY NumbersAreTexts DEF Cache!Written, Cache!ValuesOK
    <3>3. Cache!Surviving(v1) = v4
      BY <3>1, <3>2 DEF Cache!Surviving
    <3> QED
      BY <2>1, <3>3
  <2>2. CASE UNCHANGED <<v2, v7>>
    BY <2>2
  <2> QED
    BY <1>10, <2>1, <2>2 DEF Cache!SyncPublished, Cache!Sync, Cache!Succeed,
       Cache!Still, Cache!Goto, Cache!Return, Cache!Fail
<1>11. CASE Cache!SyncStale \/ Cache!SyncRollback \/ Cache!SyncTemp \/ Cache!SyncUnlink
  BY <1>1, <1>2, <1>3, <1>11 DEF Cache!SyncStale, Cache!SyncRollback, Cache!SyncTemp,
     Cache!SyncUnlink, Cache!Sync, Cache!Still, Cache!Goto, Cache!Return, Cache!Fail
<1>12. CASE Cache!PowerLoss
  BY <1>3, <1>12 DEF Cache!PowerLoss, Cache!Return
<1>13. CASE Cache!BeginSave \/ Cache!BeginLoad \/ Cache!NoRollback
            \/ Cache!RefuseRollback \/ Cache!Read \/ Cache!ReadExisting
            \/ Cache!LeaveTemp \/ Cache!Die \/ UNCHANGED Cache!vars
  BY <1>2, <1>13 DEF Cache!BeginSave, Cache!BeginLoad, Cache!NoRollback,
     Cache!RefuseRollback, Cache!Read, Cache!ReadExisting, Cache!LeaveTemp, Cache!Die,
     Cache!vars, Cache!Still, Cache!Goto, Cache!Return
<1> QED
  BY <1>5, <1>6, <1>7, <1>8, <1>9, <1>10, <1>11, <1>12, <1>13 DEF Cache!Next

LEMMA CacheProgressPreserved ==
  ASSUME Cache!CacheConstants, Cache!ValuesOK, Cache!ImagesAreDue, Cache!ProgressOK,
         [Cache!Next]_(Cache!vars)
  PROVE  Cache!ProgressOK'
<1> USE DEF Cache!ProgressOK
<1>1. CASE Cache!BeginSave
  BY <1>1 DEF Cache!BeginSave, Cache!Still, Cache!NoFault
<1>2. CASE Cache!BeginLoad
  BY <1>2 DEF Cache!BeginLoad, Cache!Still, Cache!NoFault
<1>3. CASE Cache!DropTemp
  BY <1>3 DEF Cache!DropTemp, Cache!Still, Cache!Change, Cache!Goto, Cache!Return,
     Cache!NoFault, Cache!Fault, Cache!There
<1>4. CASE Cache!SyncStale
  BY <1>4 DEF Cache!SyncStale, Cache!Still, Cache!Sync, Cache!Goto, Cache!Return,
     Cache!NoFault, Cache!Fault
<1>5. CASE Cache!NoRollback
  BY <1>5 DEF Cache!NoRollback, Cache!Still, Cache!Goto, Cache!NoFault,
     Cache!AfterRecovery, Cache!There
<1>6. CASE Cache!DropRollback
  BY <1>6 DEF Cache!DropRollback, Cache!Still, Cache!Change, Cache!Goto, Cache!Return,
     Cache!NoFault, Cache!Fault, Cache!There, Cache!ValuesOK, Cache!Folder
<1>7. CASE Cache!RefuseRollback
  BY <1>7 DEF Cache!RefuseRollback, Cache!Still, Cache!Return, Cache!NoFault,
     Cache!There
<1>8. CASE Cache!LinkRollback
  BY <1>8 DEF Cache!LinkRollback, Cache!Still, Cache!Change, Cache!Goto, Cache!Return,
     Cache!NoFault, Cache!Fault, Cache!There
<1>9. CASE Cache!SyncRollback
  BY <1>9 DEF Cache!SyncRollback, Cache!Still, Cache!Sync, Cache!Goto, Cache!Return,
     Cache!NoFault, Cache!Fault, Cache!AfterRecovery
<1>10. CASE Cache!Read
  BY <1>10 DEF Cache!Read, Cache!Still, Cache!Return, Cache!NoFault, Cache!Fault,
     Cache!There
<1>11. CASE Cache!ReadExisting
  BY <1>11 DEF Cache!ReadExisting, Cache!Still, Cache!Return, Cache!NoFault,
     Cache!Fault, Cache!There
<1>12. CASE Cache!CreateTemp
  BY <1>12 DEF Cache!CreateTemp, Cache!Still, Cache!Change, Cache!Goto, Cache!Fail,
     Cache!NoFault, Cache!Fault, Cache!Return
<1>13. CASE Cache!WriteTemp
  BY <1>13 DEF Cache!WriteTemp, Cache!Still, Cache!Goto, Cache!Fail, Cache!NoFault,
     Cache!Fault, Cache!Return
<1>14. CASE Cache!SyncTemp
  BY <1>14 DEF Cache!SyncTemp, Cache!Still, Cache!Sync, Cache!Goto, Cache!Fail,
     Cache!NoFault, Cache!Fault, Cache!Return
<1>15. CASE Cache!Publish
  BY <1>15 DEF Cache!Publish, Cache!Still, Cache!Change, Cache!Goto, Cache!Fail,
     Cache!NoFault, Cache!Fault, Cache!Return
<1>16. CASE Cache!UnlinkTemp
  BY <1>16 DEF Cache!UnlinkTemp, Cache!Still, Cache!Change, Cache!Goto, Cache!Fail,
     Cache!NoFault, Cache!Fault, Cache!Return
<1>17. CASE Cache!SyncUnlink
  BY <1>17 DEF Cache!SyncUnlink, Cache!Still, Cache!Sync, Cache!Goto, Cache!Fail,
     Cache!NoFault, Cache!Fault, Cache!Return
<1>18. CASE Cache!SyncPublished
  BY <1>18 DEF Cache!SyncPublished, Cache!Still, Cache!Sync, Cache!Fail,
     Cache!NoFault, Cache!Fault, Cache!Succeed, Cache!Goto, Cache!Return
<1>19. CASE Cache!RemoveTemp
  BY <1>19 DEF Cache!RemoveTemp, Cache!Still, Cache!Change, Cache!Return,
     Cache!NoFault, Cache!There
<1>20. CASE Cache!LeaveTemp
  BY <1>20 DEF Cache!LeaveTemp, Cache!Still, Cache!Return, Cache!Fault, Cache!There
<1>21. CASE Cache!Die
  BY <1>21 DEF Cache!Die, Cache!Still, Cache!Return, Cache!Fault
<1>22. CASE Cache!PowerLoss
  BY <1>22 DEF Cache!PowerLoss, Cache!Return, Cache!Fault
<1>23. CASE UNCHANGED Cache!vars
  BY <1>23 DEF Cache!vars
<1> QED
  BY <1>1, <1>2, <1>3, <1>4, <1>5, <1>6, <1>7, <1>8, <1>9, <1>10, <1>11, <1>12, <1>13,
     <1>14, <1>15, <1>16, <1>17, <1>18, <1>19, <1>20, <1>21, <1>22, <1>23
     DEF Cache!Next

LEMMA CacheWrittenPreserved ==
  ASSUME Cache!CacheConstants, Cache!ValuesOK, Cache!WrittenOK,
         [Cache!Next]_(Cache!vars)
  PROVE  Cache!WrittenOK'
<1> USE DEF Cache!WrittenOK, Cache!Written
<1>1. CASE Cache!BeginSave
  BY <1>1 DEF Cache!BeginSave, Cache!Still, Cache!NoFault, Cache!ValuesOK,
     Cache!Folder
<1>2. CASE Cache!BeginLoad
  BY <1>2 DEF Cache!BeginLoad, Cache!Still, Cache!NoFault, Cache!ValuesOK,
     Cache!Folder
<1>3. CASE Cache!DropTemp
  BY <1>3 DEF Cache!DropTemp, Cache!Still, Cache!Change, Cache!Goto, Cache!Return,
     Cache!NoFault, Cache!Fault, Cache!There, Cache!ValuesOK, Cache!Folder
<1>4. CASE Cache!SyncStale
  BY <1>4 DEF Cache!SyncStale, Cache!Still, Cache!Sync, Cache!Goto, Cache!Return,
     Cache!NoFault, Cache!Fault, Cache!ValuesOK, Cache!Folder
<1>5. CASE Cache!NoRollback
  BY <1>5 DEF Cache!NoRollback, Cache!Still, Cache!Goto, Cache!NoFault,
     Cache!AfterRecovery, Cache!There, Cache!ValuesOK, Cache!Folder
<1>6. CASE Cache!DropRollback
  BY <1>6 DEF Cache!DropRollback, Cache!Still, Cache!Change, Cache!Goto, Cache!Return,
     Cache!NoFault, Cache!Fault, Cache!There, Cache!ValuesOK, Cache!Folder
<1>7. CASE Cache!RefuseRollback
  BY <1>7 DEF Cache!RefuseRollback, Cache!Still, Cache!Return, Cache!NoFault,
     Cache!There, Cache!ValuesOK, Cache!Folder
<1>8. CASE Cache!LinkRollback
  BY <1>8 DEF Cache!LinkRollback, Cache!Still, Cache!Change, Cache!Goto, Cache!Return,
     Cache!NoFault, Cache!Fault, Cache!There, Cache!ValuesOK, Cache!Folder
<1>9. CASE Cache!SyncRollback
  BY <1>9 DEF Cache!SyncRollback, Cache!Still, Cache!Sync, Cache!Goto, Cache!Return,
     Cache!NoFault, Cache!Fault, Cache!AfterRecovery, Cache!ValuesOK, Cache!Folder
<1>10. CASE Cache!Read
  BY <1>10 DEF Cache!Read, Cache!Still, Cache!Return, Cache!NoFault, Cache!Fault,
     Cache!There, Cache!ValuesOK, Cache!Folder
<1>11. CASE Cache!ReadExisting
  BY <1>11 DEF Cache!ReadExisting, Cache!Still, Cache!Return, Cache!NoFault,
     Cache!Fault, Cache!There, Cache!ValuesOK, Cache!Folder
<1>12. CASE Cache!CreateTemp
  BY <1>12 DEF Cache!CreateTemp, Cache!Still, Cache!Change, Cache!Goto, Cache!Fail,
     Cache!NoFault, Cache!Fault, Cache!Return, Cache!ValuesOK, Cache!Folder
<1>13. CASE Cache!WriteTemp
  BY <1>13 DEF Cache!WriteTemp, Cache!Still, Cache!Goto, Cache!Fail, Cache!NoFault,
     Cache!Fault, Cache!Return, Cache!ValuesOK, Cache!Folder
<1>14. CASE Cache!SyncTemp
  BY <1>14 DEF Cache!SyncTemp, Cache!Still, Cache!Sync, Cache!Goto, Cache!Fail,
     Cache!NoFault, Cache!Fault, Cache!Return, Cache!ValuesOK, Cache!Folder
<1>15. CASE Cache!Publish
  BY <1>15 DEF Cache!Publish, Cache!Still, Cache!Change, Cache!Goto, Cache!Fail,
     Cache!NoFault, Cache!Fault, Cache!Return, Cache!ValuesOK, Cache!Folder
<1>16. CASE Cache!UnlinkTemp
  BY <1>16 DEF Cache!UnlinkTemp, Cache!Still, Cache!Change, Cache!Goto, Cache!Fail,
     Cache!NoFault, Cache!Fault, Cache!Return, Cache!ValuesOK, Cache!Folder
<1>17. CASE Cache!SyncUnlink
  BY <1>17 DEF Cache!SyncUnlink, Cache!Still, Cache!Sync, Cache!Goto, Cache!Fail,
     Cache!NoFault, Cache!Fault, Cache!Return, Cache!ValuesOK, Cache!Folder
<1>18. CASE Cache!SyncPublished
  BY <1>18 DEF Cache!SyncPublished, Cache!Still, Cache!Sync, Cache!Fail,
     Cache!NoFault, Cache!Fault, Cache!Succeed, Cache!Goto, Cache!Return,
     Cache!ValuesOK, Cache!Folder
<1>19. CASE Cache!RemoveTemp
  BY <1>19 DEF Cache!RemoveTemp, Cache!Still, Cache!Change, Cache!Return,
     Cache!NoFault, Cache!There, Cache!ValuesOK, Cache!Folder
<1>20. CASE Cache!LeaveTemp
  BY <1>20 DEF Cache!LeaveTemp, Cache!Still, Cache!Return, Cache!Fault, Cache!There,
     Cache!ValuesOK, Cache!Folder
<1>21. CASE Cache!Die
  BY <1>21 DEF Cache!Die, Cache!Still, Cache!Return, Cache!Fault, Cache!ValuesOK,
     Cache!Folder
<1>22. CASE Cache!PowerLoss
  BY <1>22 DEF Cache!PowerLoss, Cache!Return, Cache!Fault, Cache!ValuesOK,
     Cache!Folder
<1>23. CASE UNCHANGED Cache!vars
  BY <1>23 DEF Cache!vars
<1> QED
  BY <1>1, <1>2, <1>3, <1>4, <1>5, <1>6, <1>7, <1>8, <1>9, <1>10, <1>11, <1>12, <1>13,
     <1>14, <1>15, <1>16, <1>17, <1>18, <1>19, <1>20, <1>21, <1>22, <1>23
     DEF Cache!Next

LEMMA CacheFindsPreserved ==
  ASSUME Cache!CacheConstants, Cache!ValuesOK, Cache!ImagesAreDue, Cache!ProgressOK,
         Cache!LoadIsDue, [Cache!Next]_(Cache!vars)
  PROVE  Cache!LoadIsDue'
<1> USE DEF Cache!LoadIsDue, Cache!ProgressOK
<1>1. CASE Cache!BeginSave
  BY <1>1 DEF Cache!BeginSave, Cache!Still, Cache!NoFault, Cache!ValuesOK,
     Cache!ImagesAreDue, Cache!Surviving
<1>2. CASE Cache!BeginLoad
  BY <1>2 DEF Cache!BeginLoad, Cache!Still, Cache!NoFault, Cache!ValuesOK,
     Cache!ImagesAreDue, Cache!Surviving
<1>3. CASE Cache!DropTemp
  BY <1>3 DEF Cache!DropTemp, Cache!Still, Cache!Change, Cache!Goto, Cache!Return,
     Cache!NoFault, Cache!Fault, Cache!There, Cache!ValuesOK, Cache!ImagesAreDue,
     Cache!Surviving
<1>4. CASE Cache!SyncStale
  BY <1>4 DEF Cache!SyncStale, Cache!Still, Cache!Sync, Cache!Goto, Cache!Return,
     Cache!NoFault, Cache!Fault, Cache!ValuesOK, Cache!ImagesAreDue, Cache!Surviving
<1>5. CASE Cache!NoRollback
  BY <1>5 DEF Cache!NoRollback, Cache!Still, Cache!Goto, Cache!NoFault,
     Cache!AfterRecovery, Cache!There, Cache!ValuesOK, Cache!ImagesAreDue,
     Cache!Surviving
<1>6. CASE Cache!DropRollback
  BY <1>6 DEF Cache!DropRollback, Cache!Still, Cache!Change, Cache!Goto, Cache!Return,
     Cache!NoFault, Cache!Fault, Cache!There, Cache!ValuesOK, Cache!ImagesAreDue,
     Cache!Surviving
<1>7. CASE Cache!RefuseRollback
  BY <1>7 DEF Cache!RefuseRollback, Cache!Still, Cache!Return, Cache!NoFault,
     Cache!There, Cache!ValuesOK, Cache!ImagesAreDue, Cache!Surviving
<1>8. CASE Cache!LinkRollback
  BY <1>8 DEF Cache!LinkRollback, Cache!Still, Cache!Change, Cache!Goto, Cache!Return,
     Cache!NoFault, Cache!Fault, Cache!There, Cache!ValuesOK, Cache!ImagesAreDue,
     Cache!Surviving
<1>9. CASE Cache!SyncRollback
  BY <1>9 DEF Cache!SyncRollback, Cache!Still, Cache!Sync, Cache!Goto, Cache!Return,
     Cache!NoFault, Cache!Fault, Cache!AfterRecovery, Cache!ValuesOK,
     Cache!ImagesAreDue, Cache!Surviving
<1>10. CASE Cache!Read
  BY <1>10 DEF Cache!Read, Cache!Still, Cache!Return, Cache!NoFault, Cache!Fault,
     Cache!There, Cache!ValuesOK, Cache!ImagesAreDue, Cache!Surviving
<1>11. CASE Cache!ReadExisting
  BY <1>11 DEF Cache!ReadExisting, Cache!Still, Cache!Return, Cache!NoFault,
     Cache!Fault, Cache!There, Cache!ValuesOK, Cache!ImagesAreDue, Cache!Surviving
<1>12. CASE Cache!CreateTemp
  BY <1>12 DEF Cache!CreateTemp, Cache!Still, Cache!Change, Cache!Goto, Cache!Fail,
     Cache!NoFault, Cache!Fault, Cache!Return, Cache!ValuesOK, Cache!ImagesAreDue,
     Cache!Surviving
<1>13. CASE Cache!WriteTemp
  BY <1>13 DEF Cache!WriteTemp, Cache!Still, Cache!Goto, Cache!Fail, Cache!NoFault,
     Cache!Fault, Cache!Return, Cache!ValuesOK, Cache!ImagesAreDue, Cache!Surviving
<1>14. CASE Cache!SyncTemp
  BY <1>14 DEF Cache!SyncTemp, Cache!Still, Cache!Sync, Cache!Goto, Cache!Fail,
     Cache!NoFault, Cache!Fault, Cache!Return, Cache!ValuesOK, Cache!ImagesAreDue,
     Cache!Surviving
<1>15. CASE Cache!Publish
  BY <1>15 DEF Cache!Publish, Cache!Still, Cache!Change, Cache!Goto, Cache!Fail,
     Cache!NoFault, Cache!Fault, Cache!Return, Cache!ValuesOK, Cache!ImagesAreDue,
     Cache!Surviving
<1>16. CASE Cache!UnlinkTemp
  BY <1>16 DEF Cache!UnlinkTemp, Cache!Still, Cache!Change, Cache!Goto, Cache!Fail,
     Cache!NoFault, Cache!Fault, Cache!Return, Cache!ValuesOK, Cache!ImagesAreDue,
     Cache!Surviving
<1>17. CASE Cache!SyncUnlink
  BY <1>17 DEF Cache!SyncUnlink, Cache!Still, Cache!Sync, Cache!Goto, Cache!Fail,
     Cache!NoFault, Cache!Fault, Cache!Return, Cache!ValuesOK, Cache!ImagesAreDue,
     Cache!Surviving
<1>18. CASE Cache!SyncPublished
  BY <1>18 DEF Cache!SyncPublished, Cache!Still, Cache!Sync, Cache!Fail,
     Cache!NoFault, Cache!Fault, Cache!Succeed, Cache!Goto, Cache!Return,
     Cache!ValuesOK, Cache!ImagesAreDue, Cache!Surviving
<1>19. CASE Cache!RemoveTemp
  BY <1>19 DEF Cache!RemoveTemp, Cache!Still, Cache!Change, Cache!Return,
     Cache!NoFault, Cache!There, Cache!ValuesOK, Cache!ImagesAreDue, Cache!Surviving
<1>20. CASE Cache!LeaveTemp
  BY <1>20 DEF Cache!LeaveTemp, Cache!Still, Cache!Return, Cache!Fault, Cache!There,
     Cache!ValuesOK, Cache!ImagesAreDue, Cache!Surviving
<1>21. CASE Cache!Die
  BY <1>21 DEF Cache!Die, Cache!Still, Cache!Return, Cache!Fault, Cache!ValuesOK,
     Cache!ImagesAreDue, Cache!Surviving
<1>22. CASE Cache!PowerLoss
  BY <1>22 DEF Cache!PowerLoss, Cache!Return, Cache!Fault, Cache!ValuesOK,
     Cache!ImagesAreDue, Cache!Surviving
<1>23. CASE UNCHANGED Cache!vars
  BY <1>23 DEF Cache!vars
<1> QED
  BY <1>1, <1>2, <1>3, <1>4, <1>5, <1>6, <1>7, <1>8, <1>9, <1>10, <1>11, <1>12, <1>13,
     <1>14, <1>15, <1>16, <1>17, <1>18, <1>19, <1>20, <1>21, <1>22, <1>23
     DEF Cache!Next

LEMMA CacheInvPreserved ==
  ASSUME Cache!CacheConstants, Cache!CacheInv, [Cache!Next]_(Cache!vars)
  PROVE  Cache!CacheInv'
  BY CacheValuesPreserved, CacheImagesPreserved, CacheProgressPreserved,
     CacheWrittenPreserved, CacheFindsPreserved DEF Cache!CacheInv

LEMMA CacheInvDue == Cache!CacheInv => Cache!LoadIsDue
  BY DEF Cache!CacheInv

-----------------------------------------------------------------------------
(***************************************************************************)
(* An authenticated fetch.                                                 *)
(***************************************************************************)
LEMMA FetchInvInit ==
  ASSUME Fetch!FetchConstants, Fetch!Init
  PROVE  Fetch!FetchInv
<1>1. Fetch!ValuesOK
  BY DEF Fetch!Init, Fetch!ValuesOK, Fetch!Talking, Fetch!AuthFiles
<1>2. Fetch!ServerKnown /\ Fetch!DirectKnown /\ Fetch!StrictnessHolds
      /\ Fetch!AnswerIsOwn
  BY DEF Fetch!Init, Fetch!ServerKnown, Fetch!DirectKnown, Fetch!StrictnessHolds,
     Fetch!AnswerIsOwn, Fetch!Stages, Fetch!Talking
<1> QED
  BY <1>1, <1>2 DEF Fetch!FetchInv

\* Whoever was met is met when another one is.
LEMMA MetGrows ==
  ASSUME Fetch!ValuesOK, NEW l, v7' = Append(v7, l), l \in Fetch!AuthFiles
  PROVE  /\ v7' \in Seq(Fetch!AuthFiles) /\ Fetch!Met \subseteq Fetch!Met'
         /\ v7'[Len(v7')] = l /\ v7' # <<>>
         /\ v7 # <<>> => Head(v7') = Head(v7)
<1>1. /\ v7 \in Seq(Fetch!AuthFiles) /\ Len(v7') = Len(v7) + 1 /\ Len(v7) \in Nat
      /\ \A i \in 1..Len(v7) : v7'[i] = v7[i]
      /\ v7'[Len(v7')] = l
  BY DEF Fetch!ValuesOK
<1>2. Fetch!Met \subseteq Fetch!Met'
  BY <1>1 DEF Fetch!Met
<1> QED
  BY <1>1, <1>2

LEMMA BeginKeeps ==
  ASSUME Fetch!FetchConstants, Fetch!FetchInv, Fetch!Begin
  PROVE  Fetch!FetchInv'
<1> USE DEF Fetch!FetchInv
<1>1. Fetch!ValuesOK'
  BY DEF Fetch!Begin, Fetch!ValuesOK, Fetch!Go, Fetch!Talking, Fetch!fileVars,
     Fetch!heldVars, Fetch!serverVars
<1>2. Fetch!ServerKnown' /\ Fetch!DirectKnown'
  BY DEF Fetch!Begin, Fetch!Go, Fetch!ServerKnown, Fetch!DirectKnown, Fetch!Stages,
     Fetch!Talking
<1>3. Fetch!StrictnessHolds'
  BY DEF Fetch!Begin, Fetch!Go, Fetch!StrictnessHolds, Fetch!Ambiguous
<1>4. Fetch!AnswerIsOwn'
  BY DEF Fetch!Begin, Fetch!Go, Fetch!AnswerIsOwn, Fetch!ValuesOK
<1> QED
  BY <1>1, <1>2, <1>3, <1>4

LEMMA ContextKeeps ==
  ASSUME Fetch!FetchConstants, Fetch!FetchInv, Fetch!Context
  PROVE  Fetch!FetchInv'
<1> USE DEF Fetch!FetchInv
<1>1. /\ UNCHANGED <<Fetch!fileVars, v10, v11, Fetch!serverVars, v20>>
         /\ v9 = "context"
      /\ v7' = <<v1>> /\ v9' \in {"done", "start"}
      /\ v9' = "start" => v12' = v1 /\ UNCHANGED v21
      /\ v9' = "done" => UNCHANGED v12
      /\ v21'.status # "ok"
  <2>1. CASE ~Fetch!Readable(v1)
    <3>1. /\ UNCHANGED <<Fetch!fileVars, v10, v11, Fetch!serverVars, v20>>
             /\ v9 = "context"
          /\ v7' = <<v1>> /\ v9' = "done" /\ UNCHANGED v12
          /\ v21' = [status |-> "login_required", of |-> Fetch!NoFile]
      BY <2>1 DEF Fetch!Context, Fetch!Fail, Fetch!Finish, Fetch!heldVars
    <3> QED
      BY <3>1
  <2>2. CASE Fetch!Readable(v1)
    BY <2>2 DEF Fetch!Context, Fetch!Go, Fetch!ValuesOK
  <2> QED
    BY <2>1, <2>2
<1>2. Fetch!ValuesOK'
  BY <1>1 DEF Fetch!ValuesOK, Fetch!fileVars, Fetch!serverVars, Fetch!Talking
<1>3. Fetch!ServerKnown'
  <2>1. CASE v9' = "start"
    <3>1. /\ v7' # <<>> /\ v7'[Len(v7')] = v1 /\ Head(v7') = v1
      BY <1>1
    <3>2. v17' = 0 /\ v1' = v1 /\ v12' = v1 /\ v9' \notin Fetch!Talking
      BY <1>1, <2>1 DEF Fetch!ValuesOK, Fetch!Talking, Fetch!fileVars,
         Fetch!serverVars
    <3>3. v11' = "app-server"
      BY <1>1 DEF Fetch!ValuesOK
    <3> QED
      BY <2>1, <3>1, <3>2, <3>3 DEF Fetch!ServerKnown
  <2>2. CASE v9' = "done"
    BY <2>2 DEF Fetch!ServerKnown, Fetch!Stages, Fetch!Talking
  <2> QED
    BY <1>1, <2>1, <2>2
<1>4. Fetch!DirectKnown'
  BY <1>1 DEF Fetch!DirectKnown
<1>5. Fetch!StrictnessHolds' /\ Fetch!AnswerIsOwn'
  BY <1>1 DEF Fetch!StrictnessHolds, Fetch!AnswerIsOwn, Fetch!Ambiguous,
     Fetch!fileVars
<1> QED
  BY <1>2, <1>3, <1>4, <1>5

LEMMA StartServerKeeps ==
  ASSUME Fetch!FetchConstants, Fetch!FetchInv, Fetch!StartServer
  PROVE  Fetch!FetchInv'
<1> USE DEF Fetch!FetchInv
<1>1. /\ UNCHANGED <<Fetch!fileVars, v7, v10, Fetch!heldVars, v20, v21>>
         /\ v9 = "start"
      /\ \/ /\ v9' = "initialize" /\ v11' = v11 /\ v16' = v1
            /\ v17' = 1 /\ v18' = <<>> /\ v19' = v19
         \/ /\ v9' = "load" /\ v11' = "direct" /\ v16' = Fetch!NoFile
            /\ v17' = 0 /\ v18' = <<>> /\ v19' = v19
  BY DEF Fetch!StartServer, Fetch!FallBack, Fetch!StopServer, Fetch!Go
<1>2. Fetch!ValuesOK'
  <2>1. v16' \in Fetch!AuthFiles
    BY <1>1 DEF Fetch!ValuesOK, Fetch!AuthFiles
  <2>2. v17' \in Nat
    BY <1>1
  <2>3. v18' \in Seq(Fetch!Messages)
    <3>1. v18' = <<>>
      BY <1>1
    <3> QED
      BY <3>1
  <2> QED
    BY <1>1, <2>1, <2>2, <2>3 DEF Fetch!ValuesOK, Fetch!fileVars, Fetch!heldVars,
       Fetch!Talking
<1>3. v1 \in Fetch!Met
  BY <1>1 DEF Fetch!ServerKnown, Fetch!ValuesOK, Fetch!Stages, Fetch!Met
<1>4. Fetch!ServerKnown'
  BY <1>1, <1>3 DEF Fetch!ServerKnown, Fetch!Stages, Fetch!Talking, Fetch!fileVars,
     Fetch!heldVars, Fetch!Met
<1>5. Fetch!DirectKnown'
  BY <1>1 DEF Fetch!DirectKnown
<1>6. Fetch!StrictnessHolds' /\ Fetch!AnswerIsOwn'
  BY <1>1 DEF Fetch!StrictnessHolds, Fetch!AnswerIsOwn, Fetch!Ambiguous,
     Fetch!fileVars, Fetch!ValuesOK
<1> QED
  BY <1>2, <1>4, <1>5, <1>6

LEMMA AnswersKeep ==
  ASSUME Fetch!FetchConstants, Fetch!FetchInv, Fetch!Answers
  PROVE  Fetch!FetchInv'
<1> USE DEF Fetch!FetchInv
<1>1. /\ UNCHANGED <<Fetch!fileVars, v7, v9, v10, v11, Fetch!heldVars, v20, v21>>
      /\ v17 # 0 /\ v17' = 0 /\ v9 \in Fetch!Talking
      /\ v16' \in {v16, v1}
  BY DEF Fetch!Answers, Fetch!ValuesOK
<1>2. PICK kind \in Fetch!Kinds, extra \in 0..(MaxRepeats - v19) :
         /\ v19' = v19 + extra
         /\ v18' = v18 \o [i
            \in 1..(1 + extra) |-> [id |-> v17, kind |-> kind, of |-> v16']]
  BY DEF Fetch!Answers, Fetch!Kinds
<1>3. v16' \in Fetch!AuthFiles /\ extra \in Nat
  BY <1>1, <1>2 DEF Fetch!ValuesOK, Fetch!FetchConstants
<1>4. v16' \in Fetch!Met
  BY <1>1 DEF Fetch!ServerKnown, Fetch!ValuesOK, Fetch!Stages, Fetch!Met
<1> DEFINE m == [id |-> v17, kind |-> kind, of |-> v16']
           more == [i \in 1..(1 + extra) |-> m]
<1>5. m \in Fetch!Messages /\ m.of \in Fetch!Met
  BY <1>3, <1>4 DEF Fetch!Messages, Fetch!ValuesOK
<1>6. more \in Seq(Fetch!Messages) /\ Len(more) = 1 + extra
      /\ \A i \in 1..Len(more) : more[i] = m
  <2> HIDE DEF m
  <2> QED
    BY <1>3, <1>5
<1>7. /\ v18' \in Seq(Fetch!Messages)
      /\ \A k \in DOMAIN v18' : (k \in DOMAIN v18 /\ v18'[k] = v18[k]) \/ v18'[k] = m
  <2> HIDE DEF m, more
  <2>1. v18' = v18 \o more /\ v18 \in Seq(Fetch!Messages)
    BY <1>2 DEF m, more, Fetch!ValuesOK
  <2> QED
    BY <1>6, <2>1
<1>8. Fetch!ValuesOK'
  <2>1. v19' \in Nat
    BY <1>2, <1>3 DEF Fetch!ValuesOK
  <2> HIDE DEF m
  <2> QED
    BY <1>1, <1>3, <1>7, <2>1 DEF Fetch!ValuesOK, Fetch!fileVars, Fetch!heldVars
<1>9. Fetch!ServerKnown'
  <2>1. Fetch!Met' = Fetch!Met /\ UNCHANGED <<v1, v7, v12>>
    BY <1>1 DEF Fetch!Met, Fetch!fileVars, Fetch!heldVars
  <2>2. \A k \in DOMAIN v18' : v18'[k].kind # "end" => v18'[k].of \in Fetch!Met
    <3> HIDE DEF m
    <3> QED
      BY <1>1, <1>5, <1>7 DEF Fetch!ServerKnown, Fetch!Stages
  <2> HIDE DEF m, more
  <2> QED
    BY <1>1, <1>4, <2>1, <2>2 DEF Fetch!ServerKnown, Fetch!Stages
<1>10. Fetch!DirectKnown' /\ Fetch!StrictnessHolds' /\ Fetch!AnswerIsOwn'
  BY <1>1 DEF Fetch!DirectKnown, Fetch!StrictnessHolds, Fetch!AnswerIsOwn,
     Fetch!Ambiguous, Fetch!fileVars, Fetch!heldVars
<1> QED
  BY <1>8, <1>9, <1>10

LEMMA ExitsKeeps ==
  ASSUME Fetch!FetchConstants, Fetch!FetchInv, Fetch!Exits
  PROVE  Fetch!FetchInv'
<1> USE DEF Fetch!FetchInv
<1>1. /\ UNCHANGED <<Fetch!fileVars, v7, v9, v10, v11, Fetch!heldVars, v16, v19, v20, v21>>
      /\ v17 # 0 /\ v17' = 0 /\ v9 \in Fetch!Talking
  BY DEF Fetch!Exits, Fetch!ValuesOK
<1>2. [id |-> 0, kind |-> "end", of |-> Fetch!NoFile] \in Fetch!Messages
  BY DEF Fetch!Messages, Fetch!AuthFiles
<1>3. /\ v18' \in Seq(Fetch!Messages)
      /\ \A k \in DOMAIN v18' :
           (k \in DOMAIN v18 /\ v18'[k] = v18[k]) \/ v18'[k].kind = "end"
  BY <1>2 DEF Fetch!Exits, Fetch!ValuesOK
<1>4. Fetch!ValuesOK'
  BY <1>1, <1>3 DEF Fetch!ValuesOK, Fetch!fileVars, Fetch!heldVars
<1>5. Fetch!ServerKnown'
  <2>1. Fetch!Met' = Fetch!Met /\ UNCHANGED <<v1, v7, v12>>
    BY <1>1 DEF Fetch!Met, Fetch!fileVars, Fetch!heldVars
  <2> QED
    BY <1>1, <1>3, <2>1 DEF Fetch!ServerKnown, Fetch!Stages
<1>6. Fetch!DirectKnown' /\ Fetch!StrictnessHolds' /\ Fetch!AnswerIsOwn'
  BY <1>1 DEF Fetch!DirectKnown, Fetch!StrictnessHolds, Fetch!AnswerIsOwn,
     Fetch!Ambiguous, Fetch!fileVars, Fetch!heldVars
<1> QED
  BY <1>4, <1>5, <1>6

\* A fetch that does not succeed, and stops the server, keeps the invariant.
LEMMA FailureKeeps ==
  ASSUME Fetch!FetchConstants, Fetch!FetchInv, NEW s \in {"error", "login_required"},
         Fetch!Fail(s),
         UNCHANGED <<Fetch!fileVars, v7, v10, v11, v20>>,
         v9 \notin {"idle", "done"},
         v12' \in Fetch!AuthFiles, v18' \in Seq(Fetch!Messages),
         v16' \in Fetch!AuthFiles, v17' = 0, v19' = v19
  PROVE  Fetch!FetchInv'
<1> USE DEF Fetch!FetchInv
<1>1. v9' = "done" /\ v21'.status # "ok"
  BY DEF Fetch!Fail, Fetch!Finish
<1>2. Fetch!ValuesOK'
  BY <1>1 DEF Fetch!ValuesOK, Fetch!fileVars, Fetch!Talking
<1>3. Fetch!ServerKnown' /\ Fetch!DirectKnown' /\ Fetch!StrictnessHolds'
      /\ Fetch!AnswerIsOwn'
  BY <1>1 DEF Fetch!ServerKnown, Fetch!DirectKnown, Fetch!StrictnessHolds,
     Fetch!AnswerIsOwn, Fetch!Ambiguous, Fetch!fileVars, Fetch!Stages, Fetch!Talking
<1> QED
  BY <1>2, <1>3

\* Answers are taken one by one.
LEMMA RestIsKnown ==
  ASSUME Fetch!FetchInv, v9 \in Fetch!Talking, v18 # <<>>
  PROVE  /\ Tail(v18) \in Seq(Fetch!Messages) /\ <<>> \in Seq(Fetch!Messages)
         /\ Head(v18) \in Fetch!Messages
         /\ Head(v18).kind # "end" => Head(v18).of \in Fetch!Met
         /\ \A k \in DOMAIN Tail(v18) :
              Tail(v18)[k].kind # "end" => Tail(v18)[k].of \in Fetch!Met
<1>1. /\ v18 \in Seq(Fetch!Messages)
      /\ \A k \in DOMAIN v18 : v18[k].kind # "end" => v18[k].of \in Fetch!Met
  BY DEF Fetch!FetchInv, Fetch!ValuesOK, Fetch!ServerKnown, Fetch!Stages
<1>2. /\ Tail(v18) \in Seq(Fetch!Messages) /\ Head(v18) = v18[1] /\ 1 \in DOMAIN v18
      /\ \A k \in DOMAIN Tail(v18) : k + 1 \in DOMAIN v18 /\ Tail(v18)[k] = v18[k + 1]
  BY <1>1
<1>3. Head(v18) \in Fetch!Messages /\ <<>> \in Seq(Fetch!Messages)
  BY <1>1, <1>2
<1> QED
  BY <1>1, <1>2, <1>3

\* The fetch goes on talking to the server.
LEMMA TalkKeeps ==
  ASSUME Fetch!FetchConstants, Fetch!FetchInv, v9 \in Fetch!Talking,
         UNCHANGED <<Fetch!fileVars, v7, v10, v11, v12, v21, v16, v19>>,
         v9' \in Fetch!Talking, v17' \in Nat,
         v18' \in Seq(Fetch!Messages),
         \A k \in DOMAIN v18' : v18'[k].kind # "end" => v18'[k].of \in Fetch!Met,
         v9' = "models" => v20'.of \in Fetch!Met
  PROVE  Fetch!FetchInv'
<1> USE DEF Fetch!FetchInv
<1>1. Fetch!ValuesOK'
  BY DEF Fetch!ValuesOK, Fetch!fileVars, Fetch!Talking
<1>2. Fetch!ServerKnown'
  <2>1. Fetch!Met' = Fetch!Met /\ UNCHANGED <<v1, v7, v12, v16>>
        /\ "reread" \notin Fetch!Talking
    BY DEF Fetch!Met, Fetch!fileVars, Fetch!Talking
  <2> QED
    BY <2>1 DEF Fetch!ServerKnown, Fetch!Stages
<1>3. Fetch!DirectKnown' /\ Fetch!StrictnessHolds' /\ Fetch!AnswerIsOwn'
  BY DEF Fetch!ValuesOK, Fetch!DirectKnown, Fetch!StrictnessHolds, Fetch!AnswerIsOwn,
     Fetch!Ambiguous, Fetch!fileVars, Fetch!Talking
<1> QED
  BY <1>1, <1>2, <1>3

LEMMA IdsAreNumbers ==
  ASSUME NEW request \in Fetch!Talking, NEW second
  PROVE  Fetch!IdOf(request, second) \in Nat /\ Fetch!IdOf(request, second) # 0
  BY DEF Fetch!IdOf, Fetch!Talking

LEMMA ReceiveKeeps ==
  ASSUME Fetch!FetchConstants, Fetch!FetchInv, Fetch!Receive
  PROVE  Fetch!FetchInv'
<1> DEFINE m == Head(v18)
           mine == m.id = Fetch!IdOf(v9, v15)
           fits == m.kind \in {"result", "bare"}
           /\ (v9 = "account" => Fetch!AccountFits(m))
           rest == Tail(v18)
<1>1. /\ v9 \in Fetch!Talking /\ v18 # <<>>
      /\ UNCHANGED <<Fetch!fileVars, v7, v10, v12, v13, v14>>
  BY DEF Fetch!Receive
<1>2. /\ rest \in Seq(Fetch!Messages) /\ <<>> \in Seq(Fetch!Messages)
         /\ m \in Fetch!Messages
      /\ m.kind # "end" => m.of \in Fetch!Met
      /\ \A k \in DOMAIN rest : rest[k].kind # "end" => rest[k].of \in Fetch!Met
  BY <1>1, RestIsKnown
<1>3. /\ v17 \in Nat /\ v12 \in Fetch!AuthFiles /\ Fetch!NoFile \in Fetch!AuthFiles
         /\ v16 \in Fetch!Met
      /\ v9 \notin {"idle", "done", "reread"} /\ "reread" \notin Fetch!Talking
      /\ v9 = "models" => v20.of \in Fetch!Met
  BY <1>1 DEF Fetch!FetchInv, Fetch!ValuesOK, Fetch!AuthFiles, Fetch!ServerKnown,
     Fetch!Stages, Fetch!Talking
<1> HIDE DEF m, mine, fits, rest
<1>4. CASE /\ m.kind # "end" /\ ~mine /\ v18' = rest
           /\ UNCHANGED <<v9, v21, v16, v17, v19, v11, v15, v20>>
  <2>1. v9' \in Fetch!Talking /\ v17' \in Nat
        /\ (v9' = "models" => v20'.of \in Fetch!Met)
    BY <1>1, <1>3, <1>4
  <2> QED
    BY <1>1, <1>2, <1>4, <2>1, TalkKeeps
<1>5. CASE /\ mine /\ fits /\ v18' = rest
           /\ UNCHANGED <<v19, v11, v15>> /\ Fetch!TakeResult(m)
  <2>1. m.of \in Fetch!Met
    BY <1>2, <1>5 DEF fits
  <2>2. CASE v9 \in {"initialize", "account", "limits"}
    <3>1. /\ UNCHANGED <<v21, v16>> /\ v9' \in Fetch!Talking
          /\ v17' = Fetch!IdOf(v9', v15')
          /\ v9' = "models" => v20'.of \in Fetch!Met
      <4>1. CASE v9 = "initialize"
        BY <1>5, <4>1 DEF Fetch!TakeResult, Fetch!Ask, Fetch!Go, Fetch!Talking
      <4>2. CASE v9 = "account"
        BY <1>5, <4>2 DEF Fetch!TakeResult, Fetch!Ask, Fetch!Go, Fetch!Talking
      <4>3. CASE v9 = "limits"
        <5>1. v20' = [of |-> m.of, account |-> Fetch!Unknown, plan |-> Fetch!Unknown]
          BY <1>5, <4>3 DEF Fetch!TakeResult
        <5>2. v9' = "models" /\ UNCHANGED <<v21, v16>>
              /\ v17' = Fetch!IdOf("models", v15')
          BY <1>5, <4>3 DEF Fetch!TakeResult, Fetch!Ask, Fetch!Go
        <5> QED
          BY <2>1, <5>1, <5>2 DEF Fetch!Talking
      <4> QED
        BY <2>2, <4>1, <4>2, <4>3
    <3>2. v17' \in Nat
      BY <3>1, IdsAreNumbers
    <3> QED
      BY <1>1, <1>2, <1>5, <3>1, <3>2, TalkKeeps
  <2>3. CASE v9 = "models"
    <3>1. /\ v9' = "reread" /\ UNCHANGED <<v21, v20>> /\ v17' = 0
          /\ v16' = Fetch!NoFile
      BY <1>5, <2>3 DEF Fetch!TakeResult, Fetch!Go
    <3>2. Fetch!ValuesOK'
      BY <1>1, <1>2, <1>3, <1>5, <3>1 DEF Fetch!FetchInv, Fetch!ValuesOK,
         Fetch!fileVars, Fetch!Talking
    <3>3. Fetch!ServerKnown'
      <4>1. Fetch!Met' = Fetch!Met /\ UNCHANGED <<v1, v7, v12>>
        BY <1>1 DEF Fetch!Met, Fetch!fileVars
      <4> QED
        BY <1>1, <1>3, <1>5, <2>3, <3>1, <4>1 DEF Fetch!FetchInv, Fetch!ServerKnown,
           Fetch!Stages
    <3>4. Fetch!DirectKnown' /\ Fetch!StrictnessHolds' /\ Fetch!AnswerIsOwn'
      BY <1>1, <1>5, <2>3, <3>1
         DEF Fetch!FetchInv, Fetch!ValuesOK, Fetch!DirectKnown, Fetch!StrictnessHolds,
         Fetch!AnswerIsOwn, Fetch!Ambiguous, Fetch!fileVars
    <3> QED
      BY <3>2, <3>3, <3>4 DEF Fetch!FetchInv
  <2> QED
    BY <1>1, <2>2, <2>3 DEF Fetch!Talking
<1>6. CASE /\ mine /\ ~fits /\ m.kind \in {"result", "bare", "auth"}
           /\ v18' = IF v14 \/ v15 \/ v9 = "initialize" THEN <<>> ELSE rest
           /\ UNCHANGED <<v19, v11, v20>> /\ Fetch!AuthError
  <2>1. CASE v9 = "initialize" \/ v14 \/ v15
    <3>1. /\ Fetch!Fail("login_required") /\ v18' \in Seq(Fetch!Messages)
          /\ v17' = 0 /\ v16' \in Fetch!AuthFiles /\ v12' \in Fetch!AuthFiles
      BY <1>1, <1>2, <1>3, <1>6, <2>1 DEF Fetch!AuthError, Fetch!StopServer
    <3> QED
      BY <1>1, <1>3, <1>6, <3>1, FailureKeeps
  <2>2. CASE ~(v9 = "initialize" \/ v14 \/ v15)
    <3>1. /\ v9' = "account" /\ UNCHANGED <<v21, v16>> /\ v18' = rest
          /\ v17' = Fetch!IdOf("account", v15') /\ v9' \in Fetch!Talking
      BY <1>6, <2>2 DEF Fetch!AuthError, Fetch!Ask, Fetch!Go, Fetch!Talking
    <3>2. v17' \in Nat
      BY <3>1, IdsAreNumbers
    <3> QED
      BY <1>1, <1>2, <1>6, <3>1, <3>2, TalkKeeps
  <2> QED
    BY <2>1, <2>2
<1>7. CASE /\ m.kind = "end" \/ (mine /\ m.kind = "unsupported")
           /\ Fetch!FallBack /\ UNCHANGED <<v15, v20>>
  <2>1. /\ v11' = "direct" /\ v9' = "load" /\ UNCHANGED v21
        /\ v16' = Fetch!NoFile /\ v17' = 0 /\ v18' = <<>> /\ v19' = v19
    BY <1>7 DEF Fetch!FallBack, Fetch!Go, Fetch!StopServer
  <2>2. Fetch!ValuesOK'
    BY <1>1, <1>2, <1>3, <2>1 DEF Fetch!FetchInv, Fetch!ValuesOK, Fetch!fileVars,
       Fetch!Talking
  <2>3. Fetch!ServerKnown' /\ Fetch!DirectKnown' /\ Fetch!StrictnessHolds'
    BY <1>1, <1>3, <2>1 DEF Fetch!FetchInv, Fetch!ServerKnown, Fetch!DirectKnown,
       Fetch!StrictnessHolds, Fetch!Ambiguous, Fetch!fileVars, Fetch!Stages,
       Fetch!Talking
  <2>4. Fetch!AnswerIsOwn'
    BY <1>1, <1>3, <2>1 DEF Fetch!FetchInv, Fetch!ValuesOK, Fetch!AnswerIsOwn
  <2> QED
    BY <2>2, <2>3, <2>4 DEF Fetch!FetchInv
<1>8. CASE /\ mine /\ m.kind = "failed"
           /\ Fetch!Fail("error") /\ Fetch!StopServer /\ UNCHANGED <<v11, v15, v20>>
  <2>1. /\ v18' \in Seq(Fetch!Messages) /\ v17' = 0 /\ v16' \in Fetch!AuthFiles
           /\ v19' = v19
        /\ v12' \in Fetch!AuthFiles
    BY <1>1, <1>2, <1>3, <1>8 DEF Fetch!StopServer
  <2> QED
    BY <1>1, <1>3, <1>8, <2>1, FailureKeeps
<1> QED
  BY <1>4, <1>5, <1>6, <1>7, <1>8 DEF Fetch!Receive, m, mine, fits, rest

LEMMA TimeOutKeeps ==
  ASSUME Fetch!FetchConstants, Fetch!FetchInv, Fetch!TimeOut
  PROVE  Fetch!FetchInv'
<1>1. /\ Fetch!Fail("error") /\ UNCHANGED <<Fetch!fileVars, v7, v10, v11, v20>>
      /\ UNCHANGED v12 /\ v9 \notin {"idle", "done"}
      /\ v17' = 0 /\ v19' = v19 /\ v18' = <<>> /\ v16' = Fetch!NoFile
  BY DEF Fetch!TimeOut, Fetch!StopServer, Fetch!heldVars, Fetch!Talking
<1>2. v18' \in Seq(Fetch!Messages) /\ v16' \in Fetch!AuthFiles
      /\ v12' \in Fetch!AuthFiles
  BY <1>1 DEF Fetch!FetchInv, Fetch!ValuesOK, Fetch!AuthFiles
<1> QED
  BY <1>1, <1>2, FailureKeeps

\* What the server told is of a login met since the first look, which was of the
\* present one.
LEMMA CompareKeeps ==
  ASSUME Fetch!FetchConstants, Fetch!FetchInv, Fetch!Compare
  PROVE  Fetch!FetchInv'
<1>1. /\ v9 = "reread"
      /\ UNCHANGED <<Fetch!fileVars, v7, v10, v11, Fetch!heldVars, Fetch!serverVars, v20>>
  BY DEF Fetch!Compare
<1>2. CASE Fetch!Readable(v1) /\ Fetch!SameLogin(v12, v1) /\ v12.email = v1.email
  <2>1. v9' = "done" /\ v21' = [status |-> "ok", of |-> v1]
    BY <1>2 DEF Fetch!Compare, Fetch!Finish
  <2>2. v12 = v1
    <3>1. v12 \in Fetch!AuthFiles /\ v1 \in Fetch!AuthFiles
      BY DEF Fetch!FetchInv, Fetch!ValuesOK
    <3>2. Fetch!AuthFiles \subseteq [user : Nat, account : Nat, plan : Nat, email : Nat]
      BY DEF Fetch!AuthFiles, Fetch!NoFile, Fetch!Unknown, Fetch!FetchConstants
    <3>3. /\ v12.user = v1.user /\ v12.account = v1.account
          /\ v12.plan = v1.plan /\ v12.email = v1.email
      BY <1>2 DEF Fetch!SameLogin
    <3> HIDE DEF Fetch!AuthFiles
    <3>4. /\ v12 \in [user : Nat, account : Nat, plan : Nat, email : Nat]
          /\ v1 \in [user : Nat, account : Nat, plan : Nat, email : Nat]
      BY <3>1, <3>2
    <3> QED
      BY <3>3, <3>4
  <2>3. v11 = "app-server" /\ v12 = Head(v7) /\ v20.of \in Fetch!Met
    BY <1>1 DEF Fetch!FetchInv, Fetch!ServerKnown, Fetch!Stages
  <2>4. Fetch!AnswerIsOwn'
    <3>1. PICK i \in 1..Len(v7) : v7[i] = v20.of
      BY <2>3 DEF Fetch!Met
    <3> QED
      BY <1>1, <2>1, <2>2, <2>3, <3>1 DEF Fetch!AnswerIsOwn
  <2>5. Fetch!ValuesOK'
    BY <1>1, <2>1 DEF Fetch!FetchInv, Fetch!ValuesOK, Fetch!fileVars, Fetch!heldVars,
       Fetch!serverVars, Fetch!Talking
  <2>6. Fetch!ServerKnown' /\ Fetch!DirectKnown' /\ Fetch!StrictnessHolds'
    BY <1>1, <2>1 DEF Fetch!FetchInv, Fetch!ServerKnown, Fetch!DirectKnown,
       Fetch!StrictnessHolds, Fetch!Ambiguous, Fetch!fileVars, Fetch!Stages,
       Fetch!Talking
  <2> QED
    BY <2>4, <2>5, <2>6 DEF Fetch!FetchInv
<1>3. CASE ~(Fetch!Readable(v1) /\ Fetch!SameLogin(v12, v1) /\ v12.email = v1.email)
  <2>1. Fetch!Fail("login_required")
    BY <1>3 DEF Fetch!Compare
  <2>2. /\ v12' \in Fetch!AuthFiles /\ v18' \in Seq(Fetch!Messages)
           /\ v16' \in Fetch!AuthFiles
        /\ v17' = 0 /\ v19' = v19
    BY <1>1 DEF Fetch!FetchInv, Fetch!ValuesOK, Fetch!heldVars, Fetch!serverVars,
       Fetch!Talking
  <2> QED
    BY <1>1, <2>1, <2>2, FailureKeeps
<1> QED
  BY <1>2, <1>3

LEMMA LoadKeeps ==
  ASSUME Fetch!FetchConstants, Fetch!FetchInv, Fetch!Load
  PROVE  Fetch!FetchInv'
<1>1. /\ v9 = "load" /\ v7' = <<v1>>
      /\ UNCHANGED <<Fetch!fileVars, v10, v11, Fetch!serverVars, v20>>
  BY DEF Fetch!Load
<1>2. /\ \/ /\ v9' = "done" /\ UNCHANGED v12
            /\ v21' = [status |-> "login_required", of |-> Fetch!NoFile]
         \/ v9' = "sample" /\ v12' = v1 /\ UNCHANGED v21
  BY DEF Fetch!Load, Fetch!Fail, Fetch!Finish, Fetch!Go, Fetch!heldVars
<1>3. v21'.status # "ok" /\ v9' \in {"done", "sample"} /\ v12' \in Fetch!AuthFiles
  BY <1>1, <1>2 DEF Fetch!FetchInv, Fetch!ValuesOK
<1>4. v1 \in Fetch!AuthFiles /\ v7' \in Seq(Fetch!AuthFiles)
  BY <1>1 DEF Fetch!FetchInv, Fetch!ValuesOK
<1>5. Fetch!ValuesOK'
  BY <1>1, <1>3, <1>4 DEF Fetch!FetchInv, Fetch!ValuesOK, Fetch!fileVars,
     Fetch!serverVars, Fetch!Talking
<1>6. Fetch!ServerKnown' /\ Fetch!StrictnessHolds'
  BY <1>1, <1>3 DEF Fetch!FetchInv, Fetch!ServerKnown, Fetch!StrictnessHolds,
     Fetch!Ambiguous, Fetch!fileVars, Fetch!Stages, Fetch!Talking
<1>7. Fetch!DirectKnown'
  BY <1>1, <1>3 DEF Fetch!FetchInv, Fetch!DirectKnown
<1>8. Fetch!AnswerIsOwn'
  BY <1>3 DEF Fetch!AnswerIsOwn
<1> QED
  BY <1>5, <1>6, <1>7, <1>8 DEF Fetch!FetchInv

LEMMA SampleKeeps ==
  ASSUME Fetch!FetchConstants, Fetch!FetchInv, Fetch!Sample
  PROVE  Fetch!FetchInv'
<1>1. v9 = "sample"
      /\ UNCHANGED <<Fetch!fileVars, v7, v10, v11, Fetch!heldVars, Fetch!serverVars>>
  BY DEF Fetch!Sample
<1>2. CASE Fetch!Fail("error") /\ UNCHANGED v20
  <2>1. /\ v12' \in Fetch!AuthFiles /\ v18' \in Seq(Fetch!Messages)
           /\ v16' \in Fetch!AuthFiles
        /\ v17' = 0 /\ v19' = v19
    BY <1>1 DEF Fetch!FetchInv, Fetch!ValuesOK, Fetch!heldVars, Fetch!serverVars,
       Fetch!Talking
  <2> QED
    BY <1>1, <1>2, <2>1, FailureKeeps
<1>3. ASSUME NEW l \in {r \in Fetch!Real : r.user = v12.user},
             NEW account \in {l.account, l.user}, NEW plan \in {l.plan, Fetch!Unknown},
             v20' = [of |-> l, account |-> account, plan |-> plan], Fetch!Go("check")
      PROVE  Fetch!FetchInv'
  <2>1. v9' = "check" /\ UNCHANGED v21
    BY <1>3 DEF Fetch!Go
  <2>2. /\ v20'.of = l /\ v20'.account = account /\ v20'.plan = plan
    BY <1>3
  <2>3. Fetch!ValuesOK'
    BY <1>1, <2>1 DEF Fetch!FetchInv, Fetch!ValuesOK, Fetch!fileVars, Fetch!heldVars,
       Fetch!serverVars, Fetch!Talking
  <2>4. Fetch!DirectKnown'
    <3>1. Fetch!Real' = Fetch!Real /\ v12' = v12 /\ v11' = "direct"
      BY <1>1 DEF Fetch!Real, Fetch!heldVars, Fetch!FetchInv, Fetch!DirectKnown
    <3> QED
      BY <1>3, <2>1, <2>2, <3>1 DEF Fetch!DirectKnown
  <2>5. Fetch!ServerKnown' /\ Fetch!StrictnessHolds'
    BY <1>1, <2>1 DEF Fetch!FetchInv, Fetch!ServerKnown, Fetch!StrictnessHolds,
       Fetch!Ambiguous, Fetch!fileVars, Fetch!Stages, Fetch!Talking
  <2>6. Fetch!AnswerIsOwn'
    BY <1>1, <2>1 DEF Fetch!FetchInv, Fetch!ValuesOK, Fetch!AnswerIsOwn
  <2> QED
    BY <2>3, <2>4, <2>5, <2>6 DEF Fetch!FetchInv
<1> QED
  BY <1>2, <1>3 DEF Fetch!Sample

LEMMA RefusedKeeps ==
  ASSUME Fetch!FetchConstants, Fetch!FetchInv, Fetch!Refused
  PROVE  Fetch!FetchInv'
<1>1. /\ v9 = "sample"
      /\ UNCHANGED <<Fetch!fileVars, v7, v10, v11, v14, Fetch!serverVars, v20>>
  BY DEF Fetch!Refused
<1>2. v12' \in Fetch!AuthFiles
  BY DEF Fetch!Refused, Fetch!FetchInv, Fetch!ValuesOK
<1>3. CASE Fetch!Fail("login_required")
  <2>1. /\ v18' \in Seq(Fetch!Messages) /\ v16' \in Fetch!AuthFiles
        /\ v17' = 0 /\ v19' = v19
    BY <1>1 DEF Fetch!FetchInv, Fetch!ValuesOK, Fetch!serverVars, Fetch!Talking
  <2> QED
    BY <1>1, <1>2, <1>3, <2>1, FailureKeeps
<1>4. CASE Fetch!Go("sample")
  <2>1. v9' = "sample" /\ UNCHANGED v21
    BY <1>4 DEF Fetch!Go
  <2>2. Fetch!ValuesOK'
    BY <1>1, <1>2, <2>1 DEF Fetch!FetchInv, Fetch!ValuesOK, Fetch!fileVars,
       Fetch!serverVars, Fetch!Talking
  <2>3. Fetch!ServerKnown' /\ Fetch!DirectKnown' /\ Fetch!StrictnessHolds'
    BY <1>1, <2>1 DEF Fetch!FetchInv, Fetch!ServerKnown, Fetch!DirectKnown,
       Fetch!StrictnessHolds, Fetch!Ambiguous, Fetch!fileVars, Fetch!Stages,
       Fetch!Talking
  <2>4. Fetch!AnswerIsOwn'
    BY <1>1, <2>1 DEF Fetch!FetchInv, Fetch!ValuesOK, Fetch!AnswerIsOwn
  <2> QED
    BY <2>2, <2>3, <2>4 DEF Fetch!FetchInv
<1> QED
  BY <1>3, <1>4 DEF Fetch!Refused

\* An answer that fits the login may be of another account only if nothing that was
\* configured when the fetch began tells them apart.
LEMMA FitsIsOwn ==
  ASSUME Fetch!FetchConstants, Fetch!FetchInv, v9 = "check",
         Fetch!Readable(v1), Fetch!SameLogin(v12, v1), Fetch!Fits(v1, v20), ~v5
  PROVE  /\ v20.of.user = v1.user
         /\ \/ v20.of.account = v1.account
            \/ /\ ~v10
               /\ \/ ~Fetch!Distinguish(v20.of.plan, v1.plan)
                  \/ v1.account = Fetch!Unknown /\ v20.plan = Fetch!Unknown
               /\ v20.of # v4 \/ v8
<1> DEFINE whose == v20.of
<1>1. /\ v1 \in FetchLogins /\ whose \in FetchLogins /\ whose.account # Fetch!Unknown
      /\ whose.user = v12.user
      /\ v20.account \in {whose.account, whose.user}
      /\ v20.plan \in {whose.plan, Fetch!Unknown}
      /\ ~v8 => v10 = Fetch!Ambiguous
  BY DEF Fetch!FetchInv, Fetch!ValuesOK, Fetch!DirectKnown, Fetch!StrictnessHolds,
     Fetch!Readable, Fetch!AuthFiles, Fetch!Real
<1>2. whose.user = v1.user
  BY <1>1 DEF Fetch!SameLogin
<1>3. /\ v1.user # Fetch!Unknown /\ whose.account # v1.user /\ v1.account # whose.user
  BY <1>1 DEF Fetch!FetchConstants
<1>4. CASE v20.account = v1.account
  BY <1>1, <1>2, <1>3, <1>4
<1>5. CASE v20.account = v1.user /\ v20.account # v1.account
  <2>1. ~v10
    BY <1>5 DEF Fetch!Fits
  <2>2. \/ ~Fetch!Distinguish(whose.plan, v1.plan)
        \/ v1.account = Fetch!Unknown /\ v20.plan = Fetch!Unknown
    BY <1>1, <1>5 DEF Fetch!Fits, Fetch!Distinguish
  <2>3. CASE v8
    BY <1>2, <2>1, <2>2, <2>3
  <2>4. CASE ~v8 /\ whose = v4
    <3>1. ~Fetch!Ambiguous
      BY <1>1, <2>1, <2>4
    <3>2. Fetch!Readable(v4)
      BY <1>1, <1>3, <2>4 DEF Fetch!Readable, Fetch!NoFile
    <3>3. /\ v1.account # Fetch!Unknown
          /\ \/ v1.account = v4.account
             \/ Fetch!Distinguish(v1.plan, v4.plan)
      BY <1>2, <2>4, <3>1, <3>2 DEF Fetch!Ambiguous
    <3> QED
      BY <1>2, <2>2, <2>4, <3>3 DEF Fetch!Distinguish
  <2> QED
    BY <1>2, <2>1, <2>2, <2>3, <2>4
<1> QED
  BY <1>4, <1>5 DEF Fetch!Fits

LEMMA CheckKeeps ==
  ASSUME Fetch!FetchConstants, Fetch!FetchInv, Fetch!Check
  PROVE  Fetch!FetchInv'
<1>1. /\ v9 = "check"
      /\ UNCHANGED <<Fetch!fileVars, v7, v10, v11, Fetch!heldVars, Fetch!serverVars, v20>>
  BY DEF Fetch!Check
<1>2. CASE \E s \in {"error", "login_required"} : Fetch!Fail(s)
  <2>1. /\ v12' \in Fetch!AuthFiles /\ v18' \in Seq(Fetch!Messages)
           /\ v16' \in Fetch!AuthFiles
        /\ v17' = 0 /\ v19' = v19
    BY <1>1 DEF Fetch!FetchInv, Fetch!ValuesOK, Fetch!heldVars, Fetch!serverVars,
       Fetch!Talking
  <2> QED
    BY <1>1, <1>2, <2>1, FailureKeeps
<1>3. CASE /\ Fetch!Readable(v1) /\ Fetch!SameLogin(v12, v1) /\ Fetch!Fits(v1, v20)
              /\ ~v5
           /\ Fetch!Finish("ok", v1)
  <2>1. v9' = "done" /\ v21' = [status |-> "ok", of |-> v1]
    BY <1>3 DEF Fetch!Finish
  <2>2. Fetch!AnswerIsOwn'
    <3>1. v11' = "direct" /\ UNCHANGED <<v20, v10, v4, v8>> /\ v21'.of = v1
      BY <1>1, <2>1 DEF Fetch!FetchInv, Fetch!DirectKnown, Fetch!fileVars
    <3> QED
      BY <1>1, <1>3, <3>1, FitsIsOwn DEF Fetch!AnswerIsOwn
  <2>3. Fetch!ValuesOK'
    BY <1>1, <2>1 DEF Fetch!FetchInv, Fetch!ValuesOK, Fetch!fileVars, Fetch!heldVars,
       Fetch!serverVars, Fetch!Talking
  <2>4. Fetch!ServerKnown' /\ Fetch!DirectKnown' /\ Fetch!StrictnessHolds'
    BY <1>1, <2>1 DEF Fetch!FetchInv, Fetch!ServerKnown, Fetch!DirectKnown,
       Fetch!StrictnessHolds, Fetch!Ambiguous, Fetch!fileVars, Fetch!Stages,
       Fetch!Talking
  <2> QED
    BY <2>2, <2>3, <2>4 DEF Fetch!FetchInv
<1> QED
  BY <1>2, <1>3 DEF Fetch!Check

\* Whatever happens to the files, the fetch meets it, and a change of them is noted.
LEMMA SwitchKeeps ==
  ASSUME Fetch!FetchConstants, Fetch!FetchInv, Fetch!Switch
  PROVE  Fetch!FetchInv'
<1>1. /\ v9 \notin {"idle", "done"}
      /\ UNCHANGED <<v5, v9, v10, v11, Fetch!heldVars, Fetch!serverVars, v20, v21>>
  BY DEF Fetch!Switch
<1>2. Fetch!AnswerIsOwn'
  BY <1>1 DEF Fetch!FetchInv, Fetch!ValuesOK, Fetch!AnswerIsOwn
<1>3. Fetch!DirectKnown'
  BY <1>1 DEF Fetch!FetchInv, Fetch!DirectKnown, Fetch!Real, Fetch!heldVars
<1>4. CASE /\ v1' \in Fetch!AuthFiles
           /\ v4' = IF v5 THEN v1' ELSE v4
           /\ v7' = Append(v7, v1') /\ v8' = (v8 \/ (v1' # v1))
  <2>1. /\ v7' \in Seq(Fetch!AuthFiles) /\ Fetch!Met \subseteq Fetch!Met'
        /\ v7'[Len(v7')] = v1' /\ v7' # <<>>
        /\ v7 # <<>> => Head(v7') = Head(v7)
    BY <1>4, MetGrows DEF Fetch!FetchInv
  <2>2. Fetch!ValuesOK'
    BY <1>1, <1>4, <2>1 DEF Fetch!FetchInv, Fetch!ValuesOK, Fetch!heldVars,
       Fetch!serverVars
  <2>3. Fetch!ServerKnown'
    BY <1>1, <1>4, <2>1 DEF Fetch!FetchInv, Fetch!ServerKnown, Fetch!heldVars,
       Fetch!serverVars
  <2>4. Fetch!StrictnessHolds'
    <3>1. CASE v1' = v1
      <4>1. v4' = v4 /\ (v8' <=> v8)
        BY <1>4, <3>1 DEF Fetch!FetchInv, Fetch!ValuesOK
      <4> QED
        BY <1>1, <3>1, <4>1 DEF Fetch!FetchInv, Fetch!StrictnessHolds, Fetch!Ambiguous
    <3>2. CASE v1' # v1
      BY <1>4, <3>2 DEF Fetch!StrictnessHolds
    <3> QED
      BY <3>1, <3>2
  <2> QED
    BY <1>2, <1>3, <2>2, <2>3, <2>4 DEF Fetch!FetchInv
<1>5. CASE UNCHANGED <<v1, v2, v4, v7, v8>>
  <2>1. Fetch!ValuesOK'
    BY <1>1, <1>5 DEF Fetch!FetchInv, Fetch!ValuesOK, Fetch!heldVars, Fetch!serverVars
  <2>2. Fetch!ServerKnown' /\ Fetch!StrictnessHolds'
    BY <1>1, <1>5 DEF Fetch!FetchInv, Fetch!ServerKnown, Fetch!StrictnessHolds,
       Fetch!Ambiguous, Fetch!heldVars, Fetch!serverVars, Fetch!Met
  <2> QED
    BY <1>2, <1>3, <2>1, <2>2 DEF Fetch!FetchInv
<1>6. CASE /\ ~v5 /\ v4' \in Fetch!AuthFiles \ {v4}
           /\ v8' = TRUE /\ UNCHANGED <<v1, v3, v2, v7>>
  <2>1. Fetch!ValuesOK'
    BY <1>1, <1>6 DEF Fetch!FetchInv, Fetch!ValuesOK, Fetch!heldVars, Fetch!serverVars
  <2>2. Fetch!ServerKnown' /\ Fetch!StrictnessHolds'
    BY <1>1, <1>6 DEF Fetch!FetchInv, Fetch!ServerKnown, Fetch!StrictnessHolds,
       Fetch!heldVars, Fetch!serverVars, Fetch!Met
  <2> QED
    BY <1>2, <1>3, <2>1, <2>2 DEF Fetch!FetchInv
<1> QED
  BY <1>4, <1>5, <1>6 DEF Fetch!Switch, Fetch!AuthFiles

LEMMA FetchInvPreserved ==
  ASSUME Fetch!FetchConstants, Fetch!FetchInv, [Fetch!Next]_(Fetch!vars)
  PROVE  Fetch!FetchInv'
<1>1. CASE UNCHANGED Fetch!vars
  <2>1. Fetch!ValuesOK'
    BY <1>1 DEF Fetch!FetchInv, Fetch!ValuesOK, Fetch!vars
  <2>2. Fetch!ServerKnown' /\ Fetch!DirectKnown'
    BY <1>1 DEF Fetch!FetchInv, Fetch!ServerKnown, Fetch!DirectKnown, Fetch!vars,
       Fetch!Met, Fetch!Real
  <2>3. Fetch!StrictnessHolds' /\ Fetch!AnswerIsOwn'
    BY <1>1 DEF Fetch!FetchInv, Fetch!StrictnessHolds, Fetch!Ambiguous,
       Fetch!AnswerIsOwn, Fetch!vars
  <2> QED
    BY <2>1, <2>2, <2>3 DEF Fetch!FetchInv
<1> QED
  BY <1>1, BeginKeeps, ContextKeeps, StartServerKeeps, AnswersKeep, ExitsKeeps,
     ReceiveKeeps, TimeOutKeeps, CompareKeeps, LoadKeeps, SampleKeeps, RefusedKeeps,
     CheckKeeps, SwitchKeeps
     DEF Fetch!Next

LEMMA FetchInvOwn == Fetch!FetchInv => Fetch!AnswerIsOwn
  BY DEF Fetch!FetchInv

-----------------------------------------------------------------------------
(***************************************************************************)
(* The samples of a direct answer.                                         *)
(***************************************************************************)
\* The operators of FiniteSets under the names of this part.
LEMMA ChoiceCounts ==
  \A S : /\ Choice!IsFiniteSet(S) <=> IsFiniteSet(S)
         /\ Choice!Cardinality(S) = Cardinality(S)
<1> TAKE S
<1>1. Choice!IsFiniteSet(S) <=> IsFiniteSet(S)
  BY DEF Choice!IsFiniteSet, IsFiniteSet
<1>2. Choice!Cardinality(S) = Cardinality(S)
  BY DEF Choice!Cardinality, Cardinality
<1> QED
  BY <1>1, <1>2

\* Of up to four numbers one is the largest.
LEMMA SomeIsLargest ==
  ASSUME NEW n \in 1 .. 4, NEW r \in [1 .. n -> Int]
  PROVE  \E i \in 1 .. n : \A j \in 1 .. n : r[i] >= r[j]
<1>1. CASE n = 1  BY <1>1
<1>2. CASE n = 2  BY <1>2
<1>3. CASE n \in 3 .. 4
  <2>1. \A i \in 1 .. n : r[i] \in Int  OBVIOUS
  <2>2. PICK a \in {1, 2} : r[a] >= r[1] /\ r[a] >= r[2]  BY <1>3, <2>1
  <2>3. PICK b \in {a, 3} : r[b] >= r[1] /\ r[b] >= r[2] /\ r[b] >= r[3]
    <3>1. r[1] \in Int /\ r[2] \in Int /\ r[3] \in Int /\ r[a] \in Int  BY <1>3, <2>1
    <3>2. CASE r[a] >= r[3]  BY <2>2, <3>2
    <3>3. CASE r[3] >= r[a]  BY <2>2, <3>1, <3>3
    <3> QED  BY <3>1, <3>2, <3>3
  <2>4. b \in 1 .. n /\ r[b] \in Int  BY <1>3, <2>1
  <2>5. CASE n = 3
    <3>1. \A j \in 1 .. n : j = 1 \/ j = 2 \/ j = 3  BY <2>5
    <3> QED  BY <2>3, <2>4, <3>1
  <2>6. CASE n = 4
    <3>1. \A j \in 1 .. n : j = 1 \/ j = 2 \/ j = 3 \/ j = 4  BY <2>6
    <3>2. r[1] \in Int /\ r[2] \in Int /\ r[3] \in Int /\ r[4] \in Int /\ 4 \in 1 .. n
      BY <2>1, <2>6
    <3>3. CASE r[b] >= r[4]  BY <2>3, <2>4, <3>1, <3>3
    <3>4. CASE r[4] >= r[b]
      <4>1. r[4] >= r[1] /\ r[4] >= r[2] /\ r[4] >= r[3] /\ r[4] >= r[4]
        BY <2>3, <2>4, <3>2, <3>4
      <4> QED  BY <3>1, <3>2, <4>1
    <3> QED  BY <2>4, <3>2, <3>3, <3>4
  <2> QED  BY <1>3, <2>5, <2>6
<1> QED  BY <1>1, <1>2, <1>3

\* A set of places has a first one.
LEMMA FirstIsIn ==
  ASSUME NEW n \in 1 .. 4, NEW S \in SUBSET (1 .. n), S # {}
  PROVE  Choice!First(S) \in S
<1>1. S \subseteq {1, 2, 3, 4}  OBVIOUS
<1>2. \E i \in S : \A j \in S : i <= j
  <2>1. CASE 1 \in S  BY <2>1
  <2>2. CASE 1 \notin S /\ 2 \in S  BY <1>1, <2>2
  <2>3. CASE 1 \notin S /\ 2 \notin S /\ 3 \in S  BY <1>1, <2>3
  <2>4. CASE 1 \notin S /\ 2 \notin S /\ 3 \notin S
    <3>1. \A i \in S : i = 4  BY <1>1, <2>4
    <3>2. 4 \in S  BY <3>1
    <3> QED  BY <3>1, <3>2
  <2> QED  BY <2>1, <2>2, <2>3, <2>4
<1> QED  BY <1>2 DEF Choice!First

\* The places of a batch and of its subsets can be counted.
LEMMA PlacesCount ==
  ASSUME NEW n \in 1 .. 4, NEW S \in SUBSET (1 .. n)
  PROVE  Choice!Cardinality(S) \in Nat
<1>1. n \in Int /\ 1 \in Int  OBVIOUS
<1>2. IsFiniteSet(1 .. n)  BY <1>1, FS_Interval, ChoiceCounts
<1> QED  BY <1>2, FS_Subset, FS_CardinalityType, ChoiceCounts

\* The group that Best chooses is one of the groups of equal samples.
LEMMA BestIsAGroup ==
  ASSUME NEW s \in Seq(Choice!Answer), Len(s) \in 1 .. 4
  PROVE  \E i \in DOMAIN s : Choice!Best(s) = {j \in DOMAIN s :
           Choice!Signature(s[j]) = Choice!Signature(s[i])}
<1> DEFINE n == Len(s)
           equal(i) == {j \in DOMAIN s :
             Choice!Signature(s[j]) = Choice!Signature(s[i])}
           groups   == {equal(i) : i \in DOMAIN s}
           rank(g)  == (Choice!Cardinality(Choice!Complete(s[Choice!First(g)])) * (Len(s) + 1) + Choice!Cardinality(g)) * (Len(s) + 1)
                         - Choice!First(g)
           r == [i \in 1 .. n |-> rank(equal(i))]
<1>1. DOMAIN s = 1 .. n /\ n \in 1 .. 4  OBVIOUS
<1>2. ASSUME NEW i \in 1 .. n  PROVE  rank(equal(i)) \in Int
  <2>1. equal(i) \in SUBSET (1 .. n) /\ i \in equal(i)  BY <1>1
  <2>2. Choice!First(equal(i)) \in 1 .. n  BY <1>1, <2>1, FirstIsIn
  <2>3. Choice!Cardinality(equal(i)) \in Nat  BY <1>1, <2>1, PlacesCount
  <2>4. Choice!Cardinality(Choice!Complete(s[Choice!First(equal(i))])) \in Nat
    <3> DEFINE C == Choice!Complete(s[Choice!First(equal(i))])
    <3>1. C \subseteq {"primary_window", "secondary_window"}  BY DEF Choice!Complete, Choice!Slots
    <3>2. IsFiniteSet({"primary_window"} \cup {"secondary_window"})
      BY FS_Singleton, FS_AddElement, ChoiceCounts
    <3>3. C \subseteq {"primary_window"} \cup {"secondary_window"}  BY <3>1
    <3> QED  BY <3>2, <3>3, FS_Subset, FS_CardinalityType, ChoiceCounts
  <2> HIDE DEF equal
  <2>5. Len(s) \in Int /\ Choice!First(equal(i)) \in Int  BY <1>1, <2>2
  <2> QED  BY <2>3, <2>4, <2>5
<1>3. r \in [1 .. n -> Int]
  <2> HIDE DEF rank, equal
  <2> QED  BY <1>2
<1>4. PICK i \in 1 .. n : \A j \in 1 .. n : r[i] >= r[j]
  <2> HIDE DEF r, n
  <2> QED  BY <1>1, <1>3, SomeIsLargest
<1>5. \A j \in 1 .. n : rank(equal(i)) >= rank(equal(j))
  <2> HIDE DEF rank, equal
  <2> QED  BY <1>4
<1>6. \E g \in groups : \A h \in groups : rank(g) >= rank(h)
  <2> HIDE DEF rank, equal
  <2> QED  BY <1>1, <1>5
<1>7. (CHOOSE g \in groups : \A h \in groups : rank(g) >= rank(h)) \in groups
  <2> HIDE DEF groups, rank
  <2> QED  BY <1>6
<1>8. Choice!Best(s) \in groups
  <2>1. Choice!Best(s) = CHOOSE g \in groups : \A h \in groups :
          rank(g) >= rank(h)  BY DEF Choice!Best
  <2> HIDE DEF groups, rank
  <2> QED  BY <1>7, <2>1
<1> QED  BY <1>8

\* More than half of up to four places, but not the last one, include the one before it.
LEMMA MostReachTheEnd ==
  ASSUME NEW n \in 1 .. 4, NEW S \in SUBSET (1 .. n),
         n \notin S, Choice!Cardinality(S) * 2 > n
  PROVE  n - 1 \in S
<1>1. SUFFICES ASSUME n - 1 \notin S  PROVE FALSE
  OBVIOUS
<1>2. S \subseteq {1, 2} /\ (S # {} => n \in 3 .. 4)
  <2>1. CASE n = 1
    <3>1. \A i \in S : i = 1  BY <2>1
    <3> QED  BY <2>1, <3>1
  <2>2. CASE n = 2
    <3>1. \A i \in S : i = 1 \/ i = 2  BY <2>2
    <3>2. n - 1 = 1  BY <2>2
    <3>3. 1 \notin S /\ 2 \notin S  BY <1>1, <2>2, <3>2
    <3> QED  BY <3>1, <3>3
  <2>3. CASE n = 3
    <3>1. \A i \in S : i = 1 \/ i = 2 \/ i = 3  BY <2>3
    <3> QED  BY <2>3, <3>1
  <2>4. CASE n = 4
    <3>1. \A i \in S : i = 1 \/ i = 2 \/ i = 3 \/ i = 4  BY <2>4
    <3> QED  BY <1>1, <2>4, <3>1
  <2> QED  BY <2>1, <2>2, <2>3, <2>4
<1>3. CASE S = {}
  <2>1. Choice!Cardinality(S) = 0  BY <1>3, FS_EmptySet, ChoiceCounts
  <2> QED  BY <2>1
<1>4. CASE n = 4
  <2>1. IsFiniteSet(1 .. 2) /\ Choice!Cardinality(1 .. 2) = 2
    <3>1. IsFiniteSet({1}) /\ Choice!Cardinality({1}) = 1  BY FS_Singleton, ChoiceCounts
    <3>2. 2 \notin {1}  OBVIOUS
    <3>3. IsFiniteSet({1} \cup {2}) /\ Choice!Cardinality({1} \cup {2}) = 2
      BY <3>1, <3>2, FS_AddElement, ChoiceCounts
    <3>4. {1} \cup {2} = 1 .. 2  OBVIOUS
    <3> QED  BY <3>3, <3>4
  <2>2. Choice!Cardinality(S) <= 2
    <3>1. S \subseteq 1 .. 2  BY <1>2
    <3>2. Choice!Cardinality(S) <= Choice!Cardinality(1 .. 2)  BY <2>1, <3>1, FS_Subset, ChoiceCounts
    <3> QED  BY <2>1, <3>2
  <2>3. Choice!Cardinality(S) \in Nat  BY PlacesCount
  <2> QED  BY <1>4, <2>2, <2>3
<1>5. CASE n = 3
  <2>1. S \subseteq {1}  BY <1>1, <1>2, <1>5
  <2>2. IsFiniteSet({1}) /\ Choice!Cardinality({1}) = 1  BY FS_Singleton, ChoiceCounts
  <2>3. Choice!Cardinality(S) <= 1  BY <2>1, <2>2, FS_Subset, ChoiceCounts
  <2>4. Choice!Cardinality(S) \in Nat  BY PlacesCount
  <2> QED  BY <1>5, <2>3, <2>4
<1> QED  BY <1>2, <1>3, <1>4, <1>5

\* What a batch chooses is its latest sample or one that most of its samples repeat,
\* with no window less than the latest one has, and no more used of any.
LEMMA SelectIsCurrent ==
  ASSUME NEW s \in Seq(Choice!Answer), Len(s) \in 1 .. 4, Choice!Select(s) # 0
  PROVE  /\ Choice!Select(s) \in DOMAIN s
         /\ \/ s[Choice!Select(s)] = Choice!Latest(s)
            \/ 2 * Choice!Cardinality({i \in DOMAIN s :
                 Choice!Signature(s[i]) = Choice!Signature(s[Choice!Select(s)])}) > Len(s)
         /\ Choice!Complete(Choice!Latest(s)) \subseteq Choice!Complete(s[Choice!Select(s)])
         /\ \A slot \in Choice!Complete(Choice!Latest(s)) :
              s[Choice!Select(s)][slot].used <= Choice!Latest(s)[slot].used
<1> DEFINE n == Len(s)
           best == Choice!Best(s)
           first == Choice!First(best)
<1>1. PICK g \in DOMAIN s : best = {j \in DOMAIN s :
             Choice!Signature(s[j]) = Choice!Signature(s[g])}
  BY BestIsAGroup
<1>2. DOMAIN s = 1 .. n /\ n \in 1 .. 4 /\ n \in Int  OBVIOUS
<1>3. best \in SUBSET (1 .. n) /\ first \in best /\ first \in 1 .. n
  <2>1. best \in SUBSET (1 .. n) /\ g \in best  BY <1>1, <1>2
  <2> HIDE DEF best, n
  <2> QED  BY <1>2, <2>1, FirstIsIn
<1>4. \A i \in best : Choice!Signature(s[i]) = Choice!Signature(s[first])
  BY <1>1, <1>3
<1>5. best = {j \in DOMAIN s : Choice!Signature(s[j]) = Choice!Signature(s[first])}
  BY <1>1, <1>3
<1>6. \A i \in 1 .. n, slot \in Choice!Slots : s[i][slot].used \in Int
  BY <1>2 DEF Choice!Answer
<1>7. CASE Choice!Select(s) = n
  <2>1. Choice!Complete(Choice!Latest(s)) \subseteq Choice!Slots  BY DEF Choice!Complete
  <2> QED  BY <1>2, <1>6, <1>7, <2>1 DEF Choice!Latest
<1>8. CASE Choice!Select(s) # n
  <2>1. /\ Choice!Select(s) = first /\ ~ Choice!DropsWindow(s, best)
        /\ n \in best \/ ~ Choice!Regresses(s)
        /\ ~ (Choice!Cardinality(best) * 2 <= n)
    <3> HIDE DEF best
    <3>1. Choice!Best(s) = best  BY DEF best
    <3> QED  BY <1>8, <3>1 DEF Choice!Select
  <2>2. Choice!Cardinality(best) \in Nat
    <3> HIDE DEF best, n
    <3> QED  BY <1>2, <1>3, PlacesCount
  <2>3. 2 * Choice!Cardinality(best) > n  BY <1>2, <2>1, <2>2
  <2>4. Choice!Complete(Choice!Latest(s)) \subseteq Choice!Complete(s[first])
    <3> HIDE DEF best
    <3>1. Choice!Complete(Choice!Latest(s)) \subseteq Choice!Slots  BY DEF Choice!Complete
    <3>2. Choice!Latest(s) = s[n] /\ n \in DOMAIN s  BY <1>2 DEF Choice!Latest
    <3> QED  BY <2>1, <3>1, <3>2 DEF Choice!DropsWindow
  <2>5. ASSUME NEW slot \in Choice!Complete(Choice!Latest(s))
        PROVE  s[first][slot].used <= Choice!Latest(s)[slot].used
    <3>1. slot \in Choice!Slots /\ Choice!Present(s[n][slot])
          /\ Choice!Present(s[first][slot])
      BY <2>4, <2>5 DEF Choice!Complete, Choice!Latest
    <3>2. CASE n \in best
      <4>1. Choice!Signature(s[n])[slot] = Choice!Signature(s[first])[slot]  BY <1>4, <3>2
      <4>2. s[n][slot].used = s[first][slot].used
        BY <3>1, <4>1 DEF Choice!Signature
      <4> QED  BY <1>2, <1>3, <1>6, <3>1, <4>2 DEF Choice!Latest
    <3>3. CASE n \notin best
      <4> DEFINE k == n - 1
      <4>1. k \in best
        <5> HIDE DEF best, n
        <5> QED  BY <1>2, <1>3, <2>2, <2>3, <3>3, MostReachTheEnd
      <4>2. k \in 1 .. (Len(s) - 1) /\ k + 1 = n /\ k \in 1 .. n  BY <1>2, <1>3, <4>1
      <4>3. Choice!Signature(s[k])[slot] = Choice!Signature(s[first])[slot]  BY <1>4, <4>1
      <4>4. s[k][slot].used = s[first][slot].used /\ Choice!Present(s[k][slot])
        BY <3>1, <4>3 DEF Choice!Signature
      <4>5. ~ (s[n][slot].used < s[k][slot].used)
        <5> HIDE DEF k, n, best
        <5>1. ~ Choice!Regresses(s)  BY <2>1, <3>3
        <5>2. s[k + 1] = s[n]  BY <4>2
        <5> QED  BY <3>1, <4>2, <4>4, <5>1, <5>2 DEF Choice!Regresses
      <4>6. s[k][slot].used \in Int /\ s[n][slot].used \in Int
        BY <1>2, <1>6, <3>1, <4>2
      <4> QED  BY <4>4, <4>5, <4>6 DEF Choice!Latest
    <3> QED  BY <3>2, <3>3
  <2> QED  BY <1>2, <1>3, <1>5, <2>1, <2>3, <2>4, <2>5
<1> QED  BY <1>7, <1>8

LEMMA SampleInvInit ==
  ASSUME Choice!SampleConstants, Choice!Init
  PROVE  Choice!SampleInv
  BY DEF Choice!SampleConstants, Choice!Init, Choice!SampleInv, Choice!Answer,
     Choice!NoBatch, Choice!Slots

LEMMA SampleInvPreserved ==
  ASSUME Choice!SampleConstants, Choice!SampleInv, [Choice!Next]_(Choice!vars)
  PROVE  Choice!SampleInv'
<1> USE DEF Choice!SampleConstants, Choice!SampleInv
<1>1. CASE Choice!Sample
  <2>1. PICK a \in Choice!Answer : v4' = Append(v4, a)
    <3>1. \A r \in Choice!Answer :
            [slot \in Choice!Slots |-> Choice!Told(r[slot])] \in Choice!Answer
      BY DEF Choice!Answer, Choice!Told, Choice!None
    <3>2. \A left :
            [slot
            \in Choice!Slots |-> IF slot = left THEN Choice!Absent ELSE Choice!Told(v1[slot])] \in Choice!Answer
      BY DEF Choice!Answer, Choice!Told, Choice!None, Choice!Absent
    <3> QED  BY <1>1, <3>1, <3>2 DEF Choice!Sample
  <2>2. v4' \in Seq(Choice!Answer)  BY <2>1
  <2>3. v1' = v1 /\ v2' = v2 /\ v6' = v6 /\ v6 = Choice!Nothing
    BY <1>1 DEF Choice!Sample
  <2> QED  BY <2>2, <2>3
<1>2. CASE Choice!Choose
  <2>1. Len(v4) = Samples /\ v6 = Choice!Nothing /\ v1' = v1 /\ v2' = v2
    BY <1>2 DEF Choice!Choose
  <2>2. CASE Choice!Select(v4) # 0 /\ v6' = v4[Choice!Select(v4)] /\ v4' = v4
    <3>1. Len(v4) \in 1 .. 4  BY <2>1
    <3>2. Choice!ChosenIsCurrent'
      BY <2>2, <3>1, SelectIsCurrent DEF Choice!ChosenIsCurrent
    <3> QED  BY <2>1, <2>2, <3>2
  <2>3. CASE v4' = Choice!NoBatch /\ v6' = v6
    BY <2>1, <2>3 DEF Choice!NoBatch
  <2> QED  BY <1>2, <2>2, <2>3 DEF Choice!Choose
<1>3. CASE Choice!Move
  <2>1. UNCHANGED <<v2, v4, v6>>  BY <1>3 DEF Choice!Move
  <2>2. v1' \in Choice!Answer
    <3>1. /\ \A slot \in Choice!Slots : /\ v1[slot].used \in Int
                                /\ v1[slot].at \in Int
                                /\ v1[slot].after \in Int
          /\ Span \in Int
      BY DEF Choice!Answer
    <3>2. ASSUME NEW slot \in Choice!Slots,
                 v1' = [v1 EXCEPT ![slot].used = @ + 1]
          PROVE  v1' \in Choice!Answer
      BY <3>1, <3>2 DEF Choice!Answer
    <3>3. ASSUME NEW slot \in Choice!Slots,
                 v1' = [v1 EXCEPT ![slot] = [used |-> 0, at |-> @.at + 1,
                 after |-> Span]]
          PROVE  v1' \in Choice!Answer
      BY <3>1, <3>3 DEF Choice!Answer
    <3>4. CASE v1' = [slot
               \in Choice!Slots |-> [v1[slot] EXCEPT !.after = IF @ > 0 THEN @ - 1 ELSE @]]
      BY <3>1, <3>4 DEF Choice!Answer
    <3> QED  BY <1>3, <3>2, <3>3, <3>4 DEF Choice!Move
  <2> QED  BY <2>1, <2>2 DEF Choice!ChosenIsCurrent
<1>4. CASE UNCHANGED Choice!vars
  BY <1>4 DEF Choice!vars, Choice!ChosenIsCurrent
<1> QED  BY <1>1, <1>2, <1>3, <1>4 DEF Choice!Next

LEMMA SampleInvCurrent == Choice!SampleInv => Choice!ChosenIsCurrent
  BY DEF Choice!SampleInv, Choice!ChosenIsCurrent

-----------------------------------------------------------------------------
(***************************************************************************)
(* The applet's other commands.                                            *)
(***************************************************************************)
\* The operators of FiniteSets under the names of this part.
LEMMA AuxCounts ==
  \A S : /\ Aux!IsFiniteSet(S) <=> IsFiniteSet(S)
         /\ Aux!Cardinality(S) = Cardinality(S)
<1> TAKE S
<1>1. Aux!IsFiniteSet(S) <=> IsFiniteSet(S)
  BY DEF Aux!IsFiniteSet, IsFiniteSet
<1>2. Aux!Cardinality(S) = Cardinality(S)
  BY DEF Aux!Cardinality, Cardinality
<1> QED
  BY <1>1, <1>2

\* The steps a callback is made of.
LEMMA AuxSteps ==
  ASSUME Aux!AuxConstants
  PROVE  /\ Aux!NoProcess \in Aux!Requests
         /\ \A x \in Aux!Actions : Aux!Step(x) \in Aux!Steps
         /\ \A k \in Aux!Kinds, a \in Users \cup {NoUser}, f \in BOOLEAN :
              (k \in {"change", "create", "login"} => a \in Users) =>
                /\ Aux!Request(k, a, f) \in Aux!Requests
                /\ \A g \in BOOLEAN : Aux!Spawn(k, a, f, g) \in Aux!Steps
         /\ \A r \in Aux!Requests, ok \in BOOLEAN : Aux!Answer(r, ok) \in Aux!Steps
         /\ \A a \in Users \cup {NoUser} :
              /\ Aux!JobStep("pollJob", a, FALSE) \in Aux!Steps
                 /\ Aux!JobStep("pollJob", a, TRUE) \in Aux!Steps
              /\ Aux!JobStep("cancelJob", a, FALSE) \in Aux!Steps
                 /\ Aux!JobStep("cancelJob", a, TRUE) \in Aux!Steps
<1>1. Aux!NoProcess \in Aux!Requests
  BY DEF Aux!NoProcess, Aux!Requests, Aux!Kinds
<1>2. \A x \in Aux!Actions : Aux!Step(x) \in Aux!Steps
  BY <1>1 DEF Aux!Step, Aux!Steps
<1>3. \A k \in Aux!Kinds, a \in Users \cup {NoUser}, f \in BOOLEAN :
        (k \in {"change", "create", "login"} => a \in Users)
        => Aux!Request(k, a, f) \in Aux!Requests
  BY DEF Aux!Request, Aux!Requests
<1>4. \A k \in Aux!Kinds, a \in Users \cup {NoUser}, f, g \in BOOLEAN :
        (k \in {"change", "create", "login"} => a \in Users)
        => Aux!Spawn(k, a, f, g) \in Aux!Steps
  BY <1>3 DEF Aux!Spawn, Aux!Steps, Aux!Actions
<1>5. \A r \in Aux!Requests, ok \in BOOLEAN : Aux!Answer(r, ok) \in Aux!Steps
  BY DEF Aux!Answer, Aux!Steps, Aux!Actions
<1>6. ASSUME NEW a \in Users \cup {NoUser}, NEW f \in BOOLEAN
      PROVE  Aux!JobStep("pollJob", a, f) \in Aux!Steps
             /\ Aux!JobStep("cancelJob", a, f) \in Aux!Steps
  <2>1. Aux!Request("job", a, f) \in Aux!Requests
    BY <1>3 DEF Aux!Kinds
  <2> QED
    BY <2>1 DEF Aux!JobStep, Aux!Steps, Aux!Actions
<1> QED
  BY <1>1, <1>2, <1>3, <1>4, <1>5, <1>6

\* What waits on an agenda that is put together.
LEMMA AuxJoined ==
  ASSUME NEW s \in Seq(Aux!Steps), NEW t \in Seq(Aux!Steps)
  PROVE  /\ s \o t \in Seq(Aux!Steps)
         /\ \A a : Aux!Waiting(s \o t, a) <=> Aux!Waiting(s, a) \/ Aux!Waiting(t, a)
<1>1. /\ s \o t \in Seq(Aux!Steps) /\ Len(s) \in Nat /\ Len(t) \in Nat
      /\ DOMAIN (s \o t) = 1 .. Len(s) + Len(t) /\ DOMAIN s = 1 .. Len(s)
         /\ DOMAIN t = 1 .. Len(t)
      /\ \A i \in 1 .. Len(s) : (s \o t)[i] = s[i]
      /\ \A i \in 1 .. Len(t) : (s \o t)[Len(s) + i] = t[i]
  OBVIOUS
<1>2. ASSUME NEW a, Aux!Waiting(s, a)
      PROVE  Aux!Waiting(s \o t, a)
  BY <1>1, <1>2 DEF Aux!Waiting
<1>3. ASSUME NEW a, Aux!Waiting(t, a)
      PROVE  Aux!Waiting(s \o t, a)
  <2>1. PICK i \in 1 .. Len(t) : t[i].do \in {"spawn", "answer"}
             /\ t[i].of = Aux!LoginOf(a)
    BY <1>1, <1>3 DEF Aux!Waiting
  <2>2. Len(s) + i \in DOMAIN (s \o t) /\ (s \o t)[Len(s) + i] = t[i]
    BY <1>1
  <2> QED
    BY <2>1, <2>2 DEF Aux!Waiting
<1>4. ASSUME NEW a, Aux!Waiting(s \o t, a)
      PROVE  Aux!Waiting(s, a) \/ Aux!Waiting(t, a)
  <2>1. PICK i \in 1 .. Len(s) + Len(t) :
          (s \o t)[i].do \in {"spawn", "answer"} /\ (s \o t)[i].of = Aux!LoginOf(a)
    BY <1>1, <1>4 DEF Aux!Waiting
  <2>2. CASE i <= Len(s)
    <3>1. i \in DOMAIN s /\ (s \o t)[i] = s[i]
      BY <1>1, <2>2
    <3> QED
      BY <2>1, <3>1 DEF Aux!Waiting
  <2>3. CASE i > Len(s)
    <3>1. i - Len(s) \in DOMAIN t /\ (s \o t)[i] = t[i - Len(s)]
      BY <1>1, <2>3
    <3> QED
      BY <2>1, <3>1 DEF Aux!Waiting
  <2> QED
    BY <1>1, <2>2, <2>3
<1> QED
  BY <1>1, <1>2, <1>3, <1>4

LEMMA AuxSplit ==
  ASSUME NEW p \in Seq(Aux!Steps), p # <<>>
  PROVE  /\ Head(p) \in Aux!Steps /\ Tail(p) \in Seq(Aux!Steps)
         /\ \A a : Aux!Waiting(p, a) =>
              \/ Aux!Waiting(Tail(p), a)
              \/ Head(p).do \in {"spawn", "answer"} /\ Head(p).of = Aux!LoginOf(a)
<1>1. /\ Head(p) \in Aux!Steps /\ Tail(p) \in Seq(Aux!Steps) /\ Head(p) = p[1]
      /\ Len(p) \in Nat /\ DOMAIN p = 1 .. Len(p) /\ DOMAIN Tail(p) = 1 .. Len(p) - 1
      /\ \A i \in 1 .. Len(p) - 1 : Tail(p)[i] = p[i + 1]
  OBVIOUS
<1>2. ASSUME NEW a, Aux!Waiting(p, a), ~Aux!Waiting(Tail(p), a)
      PROVE  Head(p).do \in {"spawn", "answer"} /\ Head(p).of = Aux!LoginOf(a)
  <2>1. PICK i \in 1 .. Len(p) : p[i].do \in {"spawn", "answer"}
             /\ p[i].of = Aux!LoginOf(a)
    BY <1>1, <1>2 DEF Aux!Waiting
  <2>2. CASE i = 1
    BY <1>1, <2>1, <2>2
  <2>3. CASE i # 1
    <3>1. i - 1 \in DOMAIN Tail(p) /\ Tail(p)[i - 1] = p[i]
      BY <1>1, <2>3
    <3> QED
      BY <1>2, <2>1, <3>1 DEF Aux!Waiting
  <2> QED
    BY <2>2, <2>3
<1> QED
  BY <1>1, <1>2

LEMMA AuxFew ==
  ASSUME NEW s \in Aux!Steps, NEW t \in Aux!Steps, NEW u \in Aux!Steps
  PROVE  /\ <<>> \in Seq(Aux!Steps) /\ <<s>> \in Seq(Aux!Steps)
            /\ <<s, t>> \in Seq(Aux!Steps)
         /\ <<s, t, u>> \in Seq(Aux!Steps)
         /\ \A a : s.do \in {"spawn", "answer"} /\ s.of = Aux!LoginOf(a) =>
              /\ Aux!Waiting(<<s>>, a) /\ Aux!Waiting(<<s, t, u>>, a)
<1>1. <<>> \in Seq(Aux!Steps) /\ <<s>> \in Seq(Aux!Steps)
      /\ <<s, t>> \in Seq(Aux!Steps) /\ <<s, t, u>> \in Seq(Aux!Steps)
  OBVIOUS
<1>2. /\ 1 \in DOMAIN <<s>> /\ <<s>>[1] = s
      /\ 1 \in DOMAIN <<s, t, u>> /\ <<s, t, u>>[1] = s
  OBVIOUS
<1> QED
  BY <1>1, <1>2 DEF Aux!Waiting

LEMMA AuxOne ==
  ASSUME NEW s \in Aux!Steps
  PROVE  <<s>> \in Seq(Aux!Steps)
  OBVIOUS

\* A callback goes on: what waited waits, unless it was the first of its steps.
LEMMA AuxGoesOn ==
  ASSUME Aux!ValuesOK, v10 # <<>>, NEW s \in Seq(Aux!Steps), Aux!Then(s)
  PROVE  /\ v10' \in Seq(Aux!Steps)
         /\ \A a : Aux!Waiting(s, a) => Aux!Waiting(v10', a)
         /\ \A a : Aux!Waiting(v10, a) =>
              \/ Aux!Waiting(v10', a)
              \/ Head(v10).do \in {"spawn", "answer"} /\ Aux!Of = Aux!LoginOf(a)
<1>1. v10' = s \o Tail(v10)
  BY DEF Aux!Then, Aux!Later
<1>2. /\ Tail(v10) \in Seq(Aux!Steps)
      /\ \A a : Aux!Waiting(v10, a) =>
           \/ Aux!Waiting(Tail(v10), a)
           \/ Head(v10).do \in {"spawn", "answer"} /\ Head(v10).of = Aux!LoginOf(a)
  BY AuxSplit DEF Aux!ValuesOK, Aux!AgendaOK
<1>3. /\ s \o Tail(v10) \in Seq(Aux!Steps)
      /\ \A a : Aux!Waiting(s \o Tail(v10), a) <=> Aux!Waiting(s, a)
         \/ Aux!Waiting(Tail(v10), a)
  BY <1>2, AuxJoined
<1> QED
  BY <1>1, <1>2, <1>3 DEF Aux!Of

\* The live login stays known as long as it is on its way.
LEMMA AuxLive ==
  ASSUME Aux!AuxInv, v6'.live \in {v6.live, NoUser}, v7 \subseteq v7',
         \A a : a = v6.live /\ Aux!InFlight(a) => Aux!InFlight(a)'
  PROVE  Aux!LiveIsInFlight'
<1>1. CASE v6'.live = NoUser
  BY <1>1 DEF Aux!LiveIsInFlight
<1>2. CASE v6'.live = v6.live
  <2>1. PICK a : a = v6.live
    OBVIOUS
  <2>2. Aux!InFlight(a) => Aux!InFlight(a)'
    BY <2>1
  <2>3. Aux!LiveIsInFlight <=> (a # NoUser => a \in v7 \/ Aux!InFlight(a))
    BY <2>1 DEF Aux!LiveIsInFlight
  <2>4. Aux!LiveIsInFlight' <=> (a # NoUser => a \in v7' \/ Aux!InFlight(a)')
    BY <1>2, <2>1 DEF Aux!LiveIsInFlight
  <2> QED
    BY <2>2, <2>3, <2>4 DEF Aux!AuxInv
<1> QED
  BY <1>1, <1>2

\* A step of a callback that is about no login's process.
LEMMA AuxPlain ==
  ASSUME Aux!AuxConstants, Aux!AuxInv, v10 # <<>>, NEW s \in Seq(Aux!Steps),
         Aux!Then(s),
         Head(v10).do \in {"spawn", "answer"} => Aux!Of.kind # "login",
         UNCHANGED <<v1, v2, v7>>,
         v6' \in Aux!Desks, v6'.live
         \in {v6.live, NoUser}, Aux!MarksAreKnown', Aux!QueuesOK'
  PROVE  Aux!AuxInv'
<1>1. /\ v10' \in Seq(Aux!Steps)
      /\ \A a : Aux!Waiting(v10, a) =>
           \/ Aux!Waiting(v10', a)
           \/ Head(v10).do \in {"spawn", "answer"} /\ Aux!Of = Aux!LoginOf(a)
  BY AuxGoesOn DEF Aux!AuxInv
<1>2. \A a : Aux!LoginOf(a).kind = "login"
  BY DEF Aux!LoginOf, Aux!Request
<1>3. \A a : Aux!Waiting(v10, a) => Aux!Waiting(v10', a)
  BY <1>1, <1>2
<1>4. Aux!ValuesOK'
  BY <1>1 DEF Aux!AuxInv, Aux!ValuesOK, Aux!AgendaOK
<1>5. \A a : Aux!InFlight(a) => Aux!InFlight(a)'
  BY <1>3 DEF Aux!InFlight
<1>6. Aux!LiveIsInFlight'
  BY <1>5, AuxLive
<1> QED
  BY <1>4, <1>6 DEF Aux!AuxInv

\* One that only goes on.
LEMMA AuxOnly ==
  ASSUME Aux!AuxConstants, Aux!AuxInv, v10 # <<>>, NEW s \in Seq(Aux!Steps),
         Aux!Then(s),
         Head(v10).do \in {"spawn", "answer"} => Aux!Of.kind # "login",
         UNCHANGED <<v1, Aux!queueVars, Aux!otherVars, v6>>
  PROVE  Aux!AuxInv'
<1>1. Aux!QueuesOK' /\ v6' \in Aux!Desks /\ Aux!MarksAreKnown'
  BY DEF Aux!AuxInv, Aux!ValuesOK, Aux!QueuesOK, Aux!MarksAreKnown, Aux!queueVars,
     Aux!otherVars
<1>2. UNCHANGED <<v1, v2, v7>>
  BY DEF Aux!queueVars, Aux!otherVars
<1> QED
  BY <1>1, <1>2, AuxPlain

\* One that changes the queues.
LEMMA AuxQueued ==
  ASSUME Aux!AuxConstants, Aux!AuxInv, v10 # <<>>, NEW s \in Seq(Aux!Steps),
         Aux!Then(s),
         Head(v10).do \in {"spawn", "answer"} => Aux!Of.kind # "login",
         UNCHANGED <<v1, v2, Aux!otherVars, v6>>,
         v3'
         \in [now : Aux!Edits \cup {Aux!NoEdit}, queue : Seq(Aux!Edits), later : BOOLEAN],
         v4' \in [now : BOOLEAN, left : 0..MaxQueries],
         v5' \in [now : BOOLEAN, left : 0..MaxQueries]
  PROVE  Aux!AuxInv'
<1>1. Aux!QueuesOK' /\ v6' \in Aux!Desks /\ Aux!MarksAreKnown'
  BY DEF Aux!AuxInv, Aux!ValuesOK, Aux!QueuesOK, Aux!MarksAreKnown, Aux!otherVars
<1>2. UNCHANGED <<v1, v2, v7>>
  BY DEF Aux!otherVars
<1> QED
  BY <1>1, <1>2, AuxPlain

LEMMA AuxAnswersPlain ==
  ASSUME Aux!AuxConstants, Aux!AuxInv,
         \/ Aux!StatusAnswered \/ Aux!EnableAnswered \/ Aux!LoadAccountBackends
            \/ Aux!OverviewAnswered
         \/ Aux!OtherAnswered \/ Aux!NextEdit \/ Aux!DrainNothing \/ Aux!ResumePolls
  PROVE  Aux!AuxInv'
<1> DEFINE Few(s) == s \in Seq(Aux!Steps)
<1>1. /\ Few(<<>>) /\ \A x \in Aux!Actions : Few(<<Aux!Step(x)>>)
      /\ Few(<<Aux!Spawn("enable", NoUser, FALSE, FALSE)>>)
      /\ Few(<<Aux!Spawn("overview", NoUser, FALSE, FALSE)>>)
      /\ Few(<<Aux!Spawn("routing", NoUser, FALSE, FALSE), Aux!Step("pendingRows"), Aux!Step("loadJobs")>>)
  <2>1. /\ Aux!Spawn("enable", NoUser, FALSE, FALSE) \in Aux!Steps
        /\ Aux!Spawn("overview", NoUser, FALSE, FALSE) \in Aux!Steps
        /\ Aux!Spawn("routing", NoUser, FALSE, FALSE) \in Aux!Steps
    BY AuxSteps DEF Aux!Kinds
  <2>2. \A x \in Aux!Actions : Aux!Step(x) \in Aux!Steps
    BY AuxSteps
  <2>3. "pendingRows" \in Aux!Actions /\ "loadJobs" \in Aux!Actions
    BY DEF Aux!Actions
  <2> QED
    BY <2>1, <2>2, <2>3, AuxFew
<1>2. {"continue", "overview", "drainEdits", "pollNext"} \subseteq Aux!Actions
  BY DEF Aux!Actions
<1>3. /\ v10 # <<>> /\ UNCHANGED <<v1, Aux!queueVars, Aux!otherVars, v6>>
      /\ Head(v10).do \in {"spawn", "answer"} => Aux!Of.kind # "login"
      /\ \E s : Few(s) /\ Aux!Then(s)
  <2>1. CASE Aux!StatusAnswered
    BY <1>1, <1>2, <2>1 DEF Aux!StatusAnswered, Aux!Answered, Aux!Now
  <2>2. CASE Aux!EnableAnswered
    BY <1>1, <1>2, <2>2 DEF Aux!EnableAnswered, Aux!Answered, Aux!Now
  <2>3. CASE Aux!LoadAccountBackends
    BY <1>1, <1>2, <2>3 DEF Aux!LoadAccountBackends, Aux!Now
  <2>4. CASE Aux!OverviewAnswered
    BY <1>1, <1>2, <2>4 DEF Aux!OverviewAnswered, Aux!Answered, Aux!Now
  <2>5. CASE Aux!OtherAnswered
    BY <1>1, <1>2, <2>5 DEF Aux!OtherAnswered, Aux!Answered, Aux!Now
  <2>6. CASE Aux!NextEdit
    BY <1>1, <1>2, <2>6 DEF Aux!NextEdit, Aux!Now
  <2>7. CASE Aux!DrainNothing
    BY <1>1, <1>2, <2>7 DEF Aux!DrainNothing, Aux!Now
  <2>8. CASE Aux!ResumePolls
    BY <1>1, <1>2, <2>8 DEF Aux!ResumePolls, Aux!Now
  <2> QED
    BY <2>1, <2>2, <2>3, <2>4, <2>5, <2>6, <2>7, <2>8
<1> QED
  BY <1>3, AuxOnly

\* What a change of the accounts or of the backends leaves waiting.
LEMMA AuxQueues ==
  ASSUME Aux!AuxConstants, NEW q \in Aux!Queues
  PROVE  q \in Seq(Aux!Edits)
<1>1. Aux!Cardinality(Users) \in Nat
  BY FS_CardinalityType, AuxCounts DEF Aux!AuxConstants
<1>2. PICK n \in 0 .. Aux!Cardinality(Users) : q \in [1 .. n -> Aux!Edits]
  BY DEF Aux!Queues
<1>3. n \in Nat
  BY <1>1, <1>2
<1> QED
  BY <1>2, <1>3

LEMMA AuxReconciles ==
  ASSUME Aux!AuxConstants, Aux!AuxInv, Aux!ReconcilePendingAccountChanges
  PROVE  Aux!AuxInv'
<1>1. /\ v10 # <<>> /\ UNCHANGED <<v1, v2, v4, v5, Aux!otherVars, v6>>
      /\ Head(v10).do \in {"spawn", "answer"} => Aux!Of.kind # "login"
  BY DEF Aux!ReconcilePendingAccountChanges, Aux!Now
<1>2. <<>> \in Seq(Aux!Steps) /\ <<Aux!Step("drainEdits")>> \in Seq(Aux!Steps)
  BY AuxSteps, AuxFew DEF Aux!Actions
<1>3. /\ \E s \in Seq(Aux!Steps) : Aux!Then(s)
      /\ v3'
         \in [now : Aux!Edits \cup {Aux!NoEdit}, queue : Seq(Aux!Edits), later : BOOLEAN]
  <2>1. CASE \E q \in Aux!Queues : v3' = [v3 EXCEPT !.later = FALSE, !.queue = q]
    <3>1. PICK q \in Aux!Queues : v3' = [v3 EXCEPT !.later = FALSE, !.queue = q]
      BY <2>1
    <3>2. v3'
          \in [now : Aux!Edits \cup {Aux!NoEdit}, queue : Seq(Aux!Edits), later : BOOLEAN]
      BY <3>1, AuxQueues DEF Aux!AuxInv, Aux!ValuesOK, Aux!QueuesOK
    <3> QED
      BY <1>2, <3>2 DEF Aux!ReconcilePendingAccountChanges
  <2>2. CASE UNCHANGED v3
    BY <1>2, <2>2 DEF Aux!ReconcilePendingAccountChanges, Aux!AuxInv, Aux!ValuesOK,
       Aux!QueuesOK
  <2> QED
    BY <2>1, <2>2 DEF Aux!ReconcilePendingAccountChanges
<1> QED
  BY <1>1, <1>3, AuxQueued DEF Aux!AuxInv, Aux!ValuesOK, Aux!QueuesOK

LEMMA AuxChanges ==
  ASSUME Aux!AuxConstants, Aux!AuxInv, Aux!ChangeAnswered
  PROVE  Aux!AuxInv'
<1>1. /\ v10 # <<>> /\ UNCHANGED <<v1, v2, v4, v5, Aux!otherVars, v6>>
      /\ Head(v10).do \in {"spawn", "answer"} => Aux!Of.kind # "login"
  BY DEF Aux!ChangeAnswered, Aux!Answered, Aux!Now
<1>2. Aux!Of \in Aux!Requests /\ Aux!Of.kind = "change"
  BY <1>1, AuxSplit DEF Aux!AuxInv, Aux!ValuesOK, Aux!AgendaOK, Aux!Of, Aux!Steps,
     Aux!ChangeAnswered, Aux!Answered
<1>3. Aux!Spawn("create", Aux!Of.account, FALSE, TRUE) \in Aux!Steps
      /\ Aux!Step("nextEdit") \in Aux!Steps
  <2>1. Aux!Of.account \in Users
    BY <1>2 DEF Aux!Requests
  <2> QED
    BY <2>1, AuxSteps DEF Aux!Kinds, Aux!Actions
<1>4. \E s \in Seq(Aux!Steps) : Aux!Then(s)
  BY <1>3, AuxFew, AuxJoined DEF Aux!ChangeAnswered
<1>5. v3'
      \in [now : Aux!Edits \cup {Aux!NoEdit}, queue : Seq(Aux!Edits), later : BOOLEAN]
  BY DEF Aux!ChangeAnswered, Aux!AuxInv, Aux!ValuesOK, Aux!QueuesOK
<1> QED
  BY <1>1, <1>4, <1>5, AuxQueued DEF Aux!AuxInv, Aux!ValuesOK, Aux!QueuesOK

LEMMA AuxTakesUp ==
  ASSUME Aux!AuxConstants, Aux!AuxInv, v10 # <<>>,
         Head(v10).do \in {"spawn", "answer"} => Aux!Of.kind # "login",
         Aux!DrainBackendChanges \/ Aux!DrainConsumptionRequests
  PROVE  Aux!AuxInv'
<1>1. Aux!Spawn("backend", NoUser, FALSE, TRUE) \in Aux!Steps
  BY AuxSteps DEF Aux!Kinds
<1>2. Aux!Spawn("consumption", NoUser, FALSE, TRUE) \in Aux!Steps
  BY AuxSteps DEF Aux!Kinds
<1>3. UNCHANGED <<v1, v2, v3, Aux!otherVars, v6>>
      /\ \E s \in Seq(Aux!Steps) : Aux!Then(s)
  BY <1>1, <1>2, AuxFew DEF Aux!DrainBackendChanges, Aux!DrainConsumptionRequests
<1>4. /\ v4.left \in 0 .. MaxQueries
         /\ (v4.left > 0 => v4.left - 1 \in 0 .. MaxQueries)
      /\ v5.left \in 0 .. MaxQueries
         /\ (v5.left > 0 => v5.left - 1 \in 0 .. MaxQueries)
  <2>1. v4.left \in 0 .. MaxQueries /\ v5.left \in 0 .. MaxQueries
    BY DEF Aux!AuxInv, Aux!ValuesOK, Aux!QueuesOK
  <2> QED
    BY <2>1 DEF Aux!AuxConstants
<1>5. \A S, n : n \in S => [now |-> TRUE, left |-> n] \in [now : BOOLEAN, left : S]
  OBVIOUS
<1>6. v4' \in [now : BOOLEAN, left : 0 .. MaxQueries]
  <2>1. CASE Aux!DrainBackendChanges
    BY <1>4, <1>5, <2>1 DEF Aux!DrainBackendChanges, Aux!CanChangeBackend
  <2>2. CASE Aux!DrainConsumptionRequests
    BY <2>2 DEF Aux!DrainConsumptionRequests, Aux!AuxInv, Aux!ValuesOK, Aux!QueuesOK
  <2> QED
    BY <2>1, <2>2
<1>7. v5' \in [now : BOOLEAN, left : 0 .. MaxQueries]
  <2>1. CASE Aux!DrainConsumptionRequests
    BY <1>4, <1>5, <2>1 DEF Aux!DrainConsumptionRequests, Aux!CanQuery
  <2>2. CASE Aux!DrainBackendChanges
    BY <2>2 DEF Aux!DrainBackendChanges, Aux!AuxInv, Aux!ValuesOK, Aux!QueuesOK
  <2> QED
    BY <2>1, <2>2
<1> QED
  BY <1>3, <1>6, <1>7, AuxQueued DEF Aux!AuxInv, Aux!ValuesOK, Aux!QueuesOK

LEMMA AuxFinishes ==
  ASSUME Aux!AuxConstants, Aux!AuxInv, Aux!BackendAnswered \/ Aux!ConsumptionAnswered
  PROVE  Aux!AuxInv'
<1>1. /\ v10 # <<>> /\ UNCHANGED <<v1, v2, v3, Aux!otherVars, v6>>
      /\ Head(v10).do \in {"spawn", "answer"} => Aux!Of.kind # "login"
  BY DEF Aux!BackendAnswered, Aux!ConsumptionAnswered, Aux!Answered, Aux!Now
<1>2. /\ Aux!Step("drainBackends") \in Aux!Steps /\ Aux!Step("overview") \in Aux!Steps
      /\ Aux!Step("drainQueries") \in Aux!Steps
  BY AuxSteps DEF Aux!Actions
<1>3. \E s \in Seq(Aux!Steps) : Aux!Then(s)
  BY <1>2, AuxFew DEF Aux!BackendAnswered, Aux!ConsumptionAnswered
<1>4. /\ v4' \in [now : BOOLEAN, left : 0 .. MaxQueries]
      /\ v5' \in [now : BOOLEAN, left : 0 .. MaxQueries]
  BY DEF Aux!BackendAnswered, Aux!ConsumptionAnswered, Aux!AuxInv, Aux!ValuesOK,
     Aux!QueuesOK
<1> QED
  BY <1>1, <1>3, <1>4, AuxQueued DEF Aux!AuxInv, Aux!ValuesOK, Aux!QueuesOK

\* What becomes of the jobs, the marks and the live login.
LEMMA AuxMakesWay ==
  ASSUME Aux!AuxConstants, NEW d \in Aux!Desks, NEW a \in Users
  PROVE  /\ Aux!MakeWay(d, a) \in Aux!Desks /\ Aux!MakeWay(d, a).jobs = d.jobs
         /\ Aux!MakeWay(d, a).active = d.active /\ Aux!MakeWay(d, a).live = d.live
         /\ Aux!MakeWay(d, a).polling = d.polling
<1>1. Aux!NoTimer
      \in [account : Users \cup {NoUser}, force : BOOLEAN, cancel : BOOLEAN]
  BY DEF Aux!NoTimer
<1>2. {d.polling} \ {NoUser, a} \subseteq Users
  BY DEF Aux!Desks
<1> QED
  BY <1>1, <1>2 DEF Aux!MakeWay, Aux!Desks

LEMMA AuxUnpolls ==
  ASSUME Aux!AuxConstants, NEW d \in Aux!Desks, NEW a \in Users
  PROVE  /\ Aux!Unpolled(d, a) \in Aux!Desks /\ Aux!Unpolled(d, a).jobs = d.jobs
         /\ Aux!Unpolled(d, a).active = d.active /\ Aux!Unpolled(d, a).live = d.live
<1>1. Aux!NoTimer
      \in [account : Users \cup {NoUser}, force : BOOLEAN, cancel : BOOLEAN]
  BY DEF Aux!NoTimer
<1>2. Aux!Without(d.polling, a) \in Users \cup {NoUser}
      /\ Aux!Without(d.command, a) \in Users \cup {NoUser}
  BY DEF Aux!Without, Aux!Desks
<1> QED
  BY <1>1, <1>2 DEF Aux!Unpolled, Aux!Desks

LEMMA AuxEnds ==
  ASSUME Aux!AuxConstants, NEW d \in Aux!Desks, NEW a \in Users,
         NEW success \in BOOLEAN
  PROVE  /\ Aux!Ended(d, a, success) \in Aux!Desks
            /\ Aux!Ended(d, a, success).jobs = d.jobs \ {a}
         /\ Aux!Ended(d, a, success).active = d.active \ {a}
         /\ Aux!Ended(d, a, success).live = Aux!Without(d.live, a)
<1> DEFINE u == Aux!Unpolled(d, a)
<1>1. u \in Aux!Desks /\ u.jobs = d.jobs /\ u.active = d.active /\ u.live = d.live
  BY AuxUnpolls
<1>2. Aux!Without(u.live, a) \in Users \cup {NoUser}
      /\ (IF success THEN FALSE ELSE u.loaded) \in BOOLEAN
  BY <1>1 DEF Aux!Without, Aux!Desks
<1>3. Aux!Ended(d, a, success) = [u EXCEPT !.deleting = @ \ {a}, !.resume = @ \ {a},
                         !.jobs = @ \ {a}, !.active = @ \ {a}, !.live = Aux!Without(@, a),
                         !.loaded = IF success THEN FALSE ELSE @]
  BY DEF Aux!Ended
<1> HIDE DEF u
<1>4. PICK l \in Users \cup {NoUser}, o \in BOOLEAN :
        l = Aux!Without(u.live, a) /\ o = (IF success THEN FALSE ELSE u.loaded)
  BY <1>2
<1>5. PICK k \in SUBSET Users, r \in SUBSET Users, j \in SUBSET Users, m
           \in SUBSET Users :
        k = u.deleting \ {a} /\ r = u.resume \ {a} /\ j = u.jobs \ {a}
        /\ m = u.active \ {a}
  <2>1. /\ u.deleting \ {a} \in SUBSET Users /\ u.resume \ {a} \in SUBSET Users
        /\ u.jobs \ {a} \in SUBSET Users /\ u.active \ {a} \in SUBSET Users
    BY <1>1 DEF Aux!Desks
  <2> QED
    BY <2>1
<1>6. Aux!Ended(d, a, success) = [u EXCEPT !.deleting = k, !.resume = r, !.jobs = j, !.active = m,
                                       !.live = l, !.loaded = o]
  BY <1>3, <1>4, <1>5
<1>7. /\ Aux!Ended(d, a, success) \in Aux!Desks /\ Aux!Ended(d, a, success).jobs = j
      /\ Aux!Ended(d, a, success).active = m /\ Aux!Ended(d, a, success).live = l
  BY <1>1, <1>6 DEF Aux!Desks
<1> QED
  BY <1>1, <1>4, <1>5, <1>7

LEMMA AuxDiscovers ==
  ASSUME Aux!AuxConstants, NEW d \in Aux!Desks, NEW found \in SUBSET Users
  PROVE  /\ Aux!Discovered(d, found) \in Aux!Desks
            /\ Aux!Discovered(d, found).jobs = found
         /\ Aux!Discovered(d, found).active = (d.active \ ((d.jobs \ found) \ {d.live})) \cup found
         /\ Aux!Discovered(d, found).live = d.live
<1>1. Aux!NoTimer
      \in [account : Users \cup {NoUser}, force : BOOLEAN, cancel : BOOLEAN]
  BY DEF Aux!NoTimer
<1> DEFINE gone == d.jobs \ found
           lost == d.polling # NoUser /\ d.polling \notin found
<1>2. /\ (d.active \ (gone \ {d.live})) \cup found \subseteq Users
         /\ d.deleting \ gone \subseteq Users
      /\ (IF lost THEN FALSE ELSE d.current) \in BOOLEAN
      /\ (IF lost THEN NoUser ELSE d.polling) \in Users \cup {NoUser}
      /\ (IF lost THEN Aux!NoTimer ELSE d.timer)
           \in [account : Users \cup {NoUser}, force : BOOLEAN, cancel : BOOLEAN]
  BY <1>1 DEF Aux!Desks
<1>3. Aux!Discovered(d, found) =
        [d EXCEPT !.jobs = found, !.resume = found,
               !.active = (d.active \ (gone \ {d.live})) \cup found,
               !.deleting = d.deleting \ gone,
               !.polling = IF lost THEN NoUser ELSE d.polling,
               !.current = IF lost THEN FALSE ELSE d.current,
               !.timer = IF lost THEN Aux!NoTimer ELSE d.timer]
  BY DEF Aux!Discovered
<1> HIDE DEF gone, lost
<1>4. PICK m \in SUBSET Users, k \in SUBSET Users :
        m = (d.active \ (gone \ {d.live})) \cup found /\ k = d.deleting \ gone
  BY <1>2
<1>5. PICK p \in Users \cup {NoUser}, c \in BOOLEAN,
           t \in [account : Users \cup {NoUser}, force : BOOLEAN, cancel : BOOLEAN] :
        /\ p = (IF lost THEN NoUser ELSE d.polling)
           /\ c = (IF lost THEN FALSE ELSE d.current)
        /\ t = (IF lost THEN Aux!NoTimer ELSE d.timer)
  BY <1>2
<1>6. Aux!Discovered(d, found) =
        [d EXCEPT !.jobs = found, !.resume = found, !.active = m, !.deleting = k,
                           !.polling = p, !.current = c, !.timer = t]
  BY <1>3, <1>4, <1>5
<1>7. /\ Aux!Discovered(d, found) \in Aux!Desks
         /\ Aux!Discovered(d, found).jobs = found
      /\ Aux!Discovered(d, found).active = m /\ Aux!Discovered(d, found).live = d.live
  BY <1>6 DEF Aux!Desks
<1> QED
  BY <1>4, <1>7 DEF gone

LEMMA AuxDrops ==
  ASSUME Aux!AuxConstants, v1 \in Aux!Requests, NEW d \in Aux!Desks
  PROVE  /\ Aux!Displaced(d) \in Aux!Desks /\ Aux!Displaced(d).jobs = d.jobs
         /\ v1.kind = "login" =>
               /\ Aux!Displaced(d).live = NoUser
               /\ Aux!Displaced(d).active = (IF d.live
                  \in d.jobs THEN d.active ELSE d.active \ {d.live})
         /\ v1.kind # "login" => Aux!Displaced(d).live = d.live
            /\ Aux!Displaced(d).active = d.active
<1>1. Aux!NoTimer
      \in [account : Users \cup {NoUser}, force : BOOLEAN, cancel : BOOLEAN]
  BY DEF Aux!NoTimer
<1> DEFINE account == IF d.command # NoUser THEN d.command ELSE d.polling
<1>2. CASE v1.kind \in {"poll", "cancel"}
  <2>1. Aux!Displaced(d) = [d EXCEPT !.resume = d.resume \cup ({account} \cap d.jobs),
                      !.polling = NoUser, !.command = NoUser,
                      !.current = FALSE, !.timer = Aux!NoTimer]
    BY <1>2 DEF Aux!Displaced
  <2>2. d.resume \cup ({account} \cap d.jobs) \subseteq Users
    BY DEF Aux!Desks
  <2> HIDE DEF account
  <2>3. /\ Aux!Displaced(d) \in Aux!Desks /\ Aux!Displaced(d).jobs = d.jobs
        /\ Aux!Displaced(d).live = d.live /\ Aux!Displaced(d).active = d.active
    BY <1>1, <2>1, <2>2 DEF Aux!Desks
  <2>4. v1.kind # "login"
    BY <1>2
  <2> QED
    BY <2>3, <2>4
<1>3. CASE v1.kind = "jobs"
  <2>1. Aux!Displaced(d) = [d EXCEPT !.loaded = FALSE]
    BY <1>3 DEF Aux!Displaced
  <2> QED
    BY <1>3, <2>1 DEF Aux!Desks
<1>4. CASE v1.kind = "login"
  <2>1. Aux!Displaced(d) = [d EXCEPT !.live = NoUser,
                                 !.active = IF d.live
                                 \in d.jobs THEN d.active ELSE d.active \ {d.live}]
    BY <1>4 DEF Aux!Displaced, Aux!DropLogin
  <2>2. (IF d.live \in d.jobs THEN d.active ELSE d.active \ {d.live}) \in SUBSET Users
    BY DEF Aux!Desks
  <2>3. \A m \in SUBSET Users :
          LET e == [d EXCEPT !.live = NoUser, !.active = m]
          IN e \in Aux!Desks /\ e.jobs = d.jobs /\ e.live = NoUser /\ e.active = m
    BY DEF Aux!Desks
  <2> QED
    BY <1>4, <2>1, <2>2, <2>3
<1>5. CASE v1.kind \notin {"poll", "cancel", "jobs", "login"}
  BY <1>5 DEF Aux!Displaced
<1> QED
  BY <1>2, <1>3, <1>4, <1>5

\* A step that changes only the jobs and logins.
LEMMA AuxDesked ==
  ASSUME Aux!AuxConstants, Aux!AuxInv, v10 # <<>>, NEW s \in Seq(Aux!Steps),
         Aux!Then(s),
         Head(v10).do \in {"spawn", "answer"} => Aux!Of.kind # "login",
         UNCHANGED <<v1, Aux!queueVars, Aux!otherVars>>,
         v6' \in Aux!Desks, v6'.live \in {v6.live, NoUser}, Aux!MarksAreKnown'
  PROVE  Aux!AuxInv'
<1>1. Aux!QueuesOK'
  BY DEF Aux!AuxInv, Aux!ValuesOK, Aux!QueuesOK, Aux!queueVars, Aux!otherVars
<1>2. UNCHANGED <<v1, v2, v7>>
  BY DEF Aux!queueVars, Aux!otherVars
<1> QED
  BY <1>1, <1>2, AuxPlain

LEMMA AuxMarks ==
  ASSUME Aux!AuxInv, UNCHANGED v7, v6'.jobs = v6.jobs, v6'.active = v6.active,
         v6'.live = v6.live
  PROVE  Aux!MarksAreKnown'
  BY DEF Aux!AuxInv, Aux!MarksAreKnown

LEMMA AuxOverviews ==
  ASSUME Aux!AuxConstants, Aux!AuxInv, Aux!ContinueStatus \/ Aux!LoadProfileJobs
  PROVE  Aux!AuxInv'
<1>1. /\ v10 # <<>> /\ UNCHANGED <<v1, Aux!queueVars, Aux!otherVars>>
      /\ Head(v10).do \in {"spawn", "answer"} => Aux!Of.kind # "login"
  BY DEF Aux!ContinueStatus, Aux!LoadProfileJobs, Aux!Now
<1>2. Aux!Step("overview") \in Aux!Steps
      /\ Aux!Spawn("jobs", NoUser, FALSE, FALSE) \in Aux!Steps
  BY AuxSteps DEF Aux!Actions, Aux!Kinds
<1>3. \E s \in Seq(Aux!Steps) : Aux!Then(s)
  BY <1>2, AuxFew DEF Aux!ContinueStatus, Aux!LoadProfileJobs
<1>4. /\ v6' \in Aux!Desks /\ v6'.jobs = v6.jobs /\ v6'.active = v6.active
      /\ v6'.live = v6.live
  BY DEF Aux!ContinueStatus, Aux!LoadProfileJobs, Aux!AuxInv, Aux!ValuesOK, Aux!Desks
<1>5. Aux!MarksAreKnown'
  BY <1>1, <1>4, AuxMarks DEF Aux!otherVars
<1> QED
  BY <1>1, <1>3, <1>4, <1>5, AuxDesked

LEMMA AuxFindsJobs ==
  ASSUME Aux!AuxConstants, Aux!AuxInv, Aux!JobsAnswered
  PROVE  Aux!AuxInv'
<1>1. /\ v10 # <<>> /\ UNCHANGED <<v1, Aux!queueVars, Aux!otherVars>>
      /\ Head(v10).do \in {"spawn", "answer"} => Aux!Of.kind # "login"
  BY DEF Aux!JobsAnswered, Aux!Answered, Aux!Now
<1>2. Aux!Step("pollNext") \in Aux!Steps
  BY AuxSteps DEF Aux!Actions
<1>3. \E s \in Seq(Aux!Steps) : Aux!Then(s)
  BY <1>2, AuxFew DEF Aux!JobsAnswered, Aux!MenuFails
<1>4. CASE \E found \in SUBSET Users : v6' = Aux!Discovered(v6, found)
  <2>1. PICK found \in SUBSET Users : v6' = Aux!Discovered(v6, found)
    BY <1>4
  <2>2. /\ v6' \in Aux!Desks /\ v6'.jobs = found
        /\ v6'.active = (v6.active \ ((v6.jobs \ found) \ {v6.live})) \cup found
        /\ v6'.live = v6.live
    BY <2>1, AuxDiscovers DEF Aux!AuxInv, Aux!ValuesOK
  <2>3. Aux!MarksAreKnown'
    BY <1>1, <2>2 DEF Aux!AuxInv, Aux!MarksAreKnown, Aux!otherVars
  <2> QED
    BY <1>1, <1>3, <2>2, <2>3, AuxDesked
<1>5. CASE v6' = [v6 EXCEPT !.loaded = FALSE]
  <2>1. /\ v6' \in Aux!Desks /\ v6'.jobs = v6.jobs /\ v6'.active = v6.active
        /\ v6'.live = v6.live
    BY <1>5 DEF Aux!AuxInv, Aux!ValuesOK, Aux!Desks
  <2>2. Aux!MarksAreKnown'
    BY <1>1, <2>1, AuxMarks DEF Aux!otherVars
  <2> QED
    BY <1>1, <1>3, <2>1, <2>2, AuxDesked
<1> QED
  BY <1>4, <1>5 DEF Aux!JobsAnswered

LEMMA AuxPollsNext ==
  ASSUME Aux!AuxConstants, Aux!AuxInv, Aux!PollNextProfileJob
  PROVE  Aux!AuxInv'
<1>1. /\ v10 # <<>> /\ UNCHANGED <<v1, Aux!queueVars, Aux!otherVars>>
      /\ Head(v10).do \in {"spawn", "answer"} => Aux!Of.kind # "login"
  BY DEF Aux!PollNextProfileJob, Aux!Now
<1>2. \A a \in Users : Aux!JobStep("pollJob", a, FALSE) \in Aux!Steps
  BY AuxSteps DEF Aux!Actions
<1>3. v6.jobs \subseteq Users
  BY DEF Aux!AuxInv, Aux!ValuesOK, Aux!Desks
<1>4. \E s \in Seq(Aux!Steps) : Aux!Then(s)
  <2>1. ASSUME NEW a \in Users
        PROVE  <<Aux!JobStep("pollJob", a, FALSE)>> \in Seq(Aux!Steps)
    BY <1>2, AuxOne
  <2>2. Aux!Then(<<>>)
        \/ \E a \in v6.jobs : Aux!Then(<<Aux!JobStep("pollJob", a, FALSE)>>)
    BY DEF Aux!PollNextProfileJob
  <2>3. <<>> \in Seq(Aux!Steps)
    OBVIOUS
  <2> QED
    BY <1>3, <2>1, <2>2, <2>3
<1>5. /\ v6' \in Aux!Desks /\ v6'.jobs = v6.jobs /\ v6'.active = v6.active
      /\ v6'.live = v6.live
  BY DEF Aux!PollNextProfileJob, Aux!AuxInv, Aux!ValuesOK, Aux!Desks
<1>6. Aux!MarksAreKnown'
  BY <1>1, <1>5, AuxMarks DEF Aux!otherVars
<1> QED
  BY <1>1, <1>4, <1>5, <1>6, AuxDesked

LEMMA AuxPolls ==
  ASSUME Aux!AuxConstants, Aux!AuxInv, Aux!PollProfileJob \/ Aux!CancelProfileJob
  PROVE  Aux!AuxInv'
<1>1. /\ v10 # <<>> /\ UNCHANGED <<v1, Aux!queueVars, Aux!otherVars>>
      /\ Head(v10).do \in {"spawn", "answer"} => Aux!Of.kind # "login"
  BY DEF Aux!PollProfileJob, Aux!CancelProfileJob, Aux!Now
<1>2. Aux!Of \in Aux!Requests /\ v6 \in Aux!Desks
  BY <1>1, AuxSplit DEF Aux!AuxInv, Aux!ValuesOK, Aux!AgendaOK, Aux!Of, Aux!Steps
<1>3. Aux!Of.account \in Users \cup {NoUser} /\ Aux!Of.force \in BOOLEAN
  BY <1>2 DEF Aux!Requests
<1>4. /\ Aux!Spawn("poll", Aux!Of.account, Aux!Of.force, Aux!Of.force) \in Aux!Steps
      /\ Aux!Spawn("cancel", Aux!Of.account, Aux!Of.force, Aux!Of.force) \in Aux!Steps
  BY <1>3, AuxSteps DEF Aux!Kinds
<1>5. \E s \in Seq(Aux!Steps) : Aux!Then(s)
  BY <1>4, AuxFew DEF Aux!PollProfileJob, Aux!CancelProfileJob
<1>6. CASE UNCHANGED v6
  <2>1. Aux!MarksAreKnown'
    BY <1>1, <1>6, AuxMarks DEF Aux!otherVars
  <2> QED
    BY <1>1, <1>2, <1>5, <1>6, <2>1, AuxDesked
<1>7. CASE Aux!Of.account \in v6.jobs /\ ~UNCHANGED v6
  <2>1. Aux!Of.account \in Users
    BY <1>2, <1>7 DEF Aux!Desks
  <2>2. Aux!Without(v6.polling, Aux!Of.account) \in Users \cup {NoUser}
    BY <1>2 DEF Aux!Without, Aux!Desks
  <2> DEFINE w == Aux!MakeWay(v6, Aux!Of.account)
  <2>3. /\ w \in Aux!Desks /\ w.jobs = v6.jobs /\ w.active = v6.active
           /\ w.live = v6.live
        /\ w.polling = v6.polling
    BY <1>2, <2>1, AuxMakesWay
  <2>4. \/ v6' = [v6 EXCEPT !.resume = @ \cup {Aux!Of.account}, !.polling = Aux!Without(@, Aux!Of.account)]
        \/ v6' = [w EXCEPT !.polling = Aux!Of.account, !.current = TRUE]
        \/ v6' = [w EXCEPT !.polling = IF @ = Aux!Of.account THEN @ ELSE NoUser, !.current = FALSE]
    BY <1>7 DEF Aux!PollProfileJob, Aux!CancelProfileJob
  <2> HIDE DEF w
  <2>5. /\ v6' \in Aux!Desks /\ v6'.jobs = v6.jobs /\ v6'.active = v6.active
        /\ v6'.live = v6.live
    <3>1. CASE v6' = [v6 EXCEPT !.resume = @ \cup {Aux!Of.account},
                                    !.polling = Aux!Without(@, Aux!Of.account)]
      BY <1>2, <2>1, <2>2, <3>1 DEF Aux!Desks
    <3>2. CASE v6' = [w EXCEPT !.polling = Aux!Of.account, !.current = TRUE]
      BY <2>1, <2>3, <3>2 DEF Aux!Desks
    <3>3. CASE v6' = [w EXCEPT !.polling = IF @ = Aux!Of.account THEN @ ELSE NoUser,
                                 !.current = FALSE]
      BY <2>1, <2>3, <3>3 DEF Aux!Desks
    <3> QED
      BY <2>4, <3>1, <3>2, <3>3
  <2>6. Aux!MarksAreKnown'
    BY <1>1, <2>5, AuxMarks DEF Aux!otherVars
  <2> QED
    BY <1>1, <1>5, <2>5, <2>6, AuxDesked
<1> QED
  BY <1>6, <1>7 DEF Aux!PollProfileJob, Aux!CancelProfileJob

\* A retry keeps the job, an end forgets it.
LEMMA AuxRetries ==
  ASSUME Aux!AuxConstants, Aux!AuxInv, v10 # <<>>, UNCHANGED <<v1, Aux!queueVars,
         Aux!otherVars>>,
         Head(v10).do \in {"spawn", "answer"} => Aux!Of.kind # "login",
         NEW a \in v6.jobs, NEW force \in BOOLEAN, NEW cancel \in BOOLEAN,
         Aux!RetryJob(a, force, cancel) \/ Aux!KeepPolling(a, force)
  PROVE  Aux!AuxInv'
<1>1. v6 \in Aux!Desks /\ a \in Users
  BY DEF Aux!AuxInv, Aux!ValuesOK, Aux!Desks
<1>2. <<>> \in Seq(Aux!Steps) /\ Aux!Then(<<>>)
  BY DEF Aux!RetryJob, Aux!KeepPolling, Aux!MenuFails
<1> DEFINE u == Aux!Unpolled(v6, a)
           t == [account |-> a, force |-> force, cancel |-> cancel]
<1>3. u \in Aux!Desks /\ u.jobs = v6.jobs /\ u.active = v6.active /\ u.live = v6.live
  BY <1>1, AuxUnpolls
<1>4. /\ t \in [account : Users \cup {NoUser}, force : BOOLEAN, cancel : BOOLEAN]
      /\ [account |-> a, force |-> force, cancel |-> FALSE]
           \in [account : Users \cup {NoUser}, force : BOOLEAN, cancel : BOOLEAN]
  BY <1>1
<1>5. CASE Aux!RetryJob(a, force, cancel)
  <2>1. \/ v6' = [[u EXCEPT !.active = @ \cup {a}] EXCEPT !.timer = t]
        \/ v6' = [[u EXCEPT !.active = @ \cup {a}] EXCEPT !.loaded = FALSE, !.wanted = TRUE]
        \/ v6' = [u EXCEPT !.active = @ \cup {a}]
    BY <1>5 DEF Aux!RetryJob
  <2> HIDE DEF u, t
  <2>2. PICK m \in SUBSET Users : m = u.active \cup {a}
    BY <1>1, <1>3 DEF Aux!Desks
  <2>3. \/ v6' = [u EXCEPT !.active = m, !.timer = t]
        \/ v6' = [u EXCEPT !.active = m, !.loaded = FALSE, !.wanted = TRUE]
        \/ v6' = [u EXCEPT !.active = m]
    BY <2>1, <2>2
  <2>4. /\ v6' \in Aux!Desks /\ v6'.jobs = u.jobs /\ v6'.active = m
           /\ v6'.live = u.live
    BY <1>3, <1>4, <2>3 DEF Aux!Desks
  <2>5. Aux!MarksAreKnown'
    BY <1>3, <2>2, <2>4 DEF Aux!AuxInv, Aux!MarksAreKnown, Aux!otherVars
  <2> QED
    BY <1>2, <1>3, <2>4, <2>5, AuxDesked
<1>6. CASE Aux!KeepPolling(a, force)
  <2>1. Aux!Without(v6.command, a) \in Users \cup {NoUser}
    BY <1>1 DEF Aux!Without, Aux!Desks
  <2>2. /\ v6' \in Aux!Desks /\ v6'.jobs = v6.jobs /\ v6'.active = v6.active
        /\ v6'.live = v6.live
    BY <1>1, <1>4, <1>6, <2>1 DEF Aux!KeepPolling, Aux!Desks
  <2>3. Aux!MarksAreKnown'
    BY <2>2, AuxMarks DEF Aux!otherVars
  <2> QED
    BY <1>2, <2>2, <2>3, AuxDesked
<1> QED
  BY <1>5, <1>6

LEMMA AuxEndsJob ==
  ASSUME Aux!AuxConstants, Aux!AuxInv, v10 # <<>>, UNCHANGED <<v1, Aux!queueVars,
         Aux!otherVars>>,
         Head(v10).do \in {"spawn", "answer"} => Aux!Of.kind # "login",
         NEW a \in v6.jobs, Aux!FinishJob(a)
  PROVE  Aux!AuxInv'
<1>1. v6 \in Aux!Desks /\ a \in Users
  BY DEF Aux!AuxInv, Aux!ValuesOK, Aux!Desks
<1>2. Aux!Step("drainEdits") \in Aux!Steps /\ Aux!Step("pollNext") \in Aux!Steps
  BY AuxSteps DEF Aux!Actions
<1>3. \E s \in Seq(Aux!Steps) : Aux!Then(s)
  BY <1>2, AuxFew, AuxJoined DEF Aux!FinishJob, Aux!MenuFails
<1>4. PICK success \in BOOLEAN : v6' = Aux!Ended(v6, a, success)
  BY DEF Aux!FinishJob
<1>5. /\ v6' \in Aux!Desks /\ v6'.jobs = v6.jobs \ {a} /\ v6'.active = v6.active \ {a}
      /\ v6'.live = (IF v6.live = a THEN NoUser ELSE v6.live)
  BY <1>1, <1>4, AuxEnds DEF Aux!Without
<1>6. Aux!MarksAreKnown'
  BY <1>5 DEF Aux!AuxInv, Aux!MarksAreKnown, Aux!otherVars
<1> QED
  BY <1>3, <1>5, <1>6, AuxDesked

LEMMA AuxJobAnswers ==
  ASSUME Aux!AuxConstants, Aux!AuxInv, Aux!PollAnswered \/ Aux!CancelAnswered
  PROVE  Aux!AuxInv'
<1>1. /\ v10 # <<>> /\ UNCHANGED <<v1, Aux!queueVars, Aux!otherVars>>
      /\ Head(v10).do \in {"spawn", "answer"} => Aux!Of.kind # "login"
  BY DEF Aux!PollAnswered, Aux!CancelAnswered, Aux!Answered, Aux!Now
<1>2. Aux!Of \in Aux!Requests /\ v6 \in Aux!Desks
  BY <1>1, AuxSplit DEF Aux!AuxInv, Aux!ValuesOK, Aux!AgendaOK, Aux!Of, Aux!Steps
<1>3. Aux!Of.account \in Users \cup {NoUser} /\ Aux!Of.force \in BOOLEAN
  BY <1>2 DEF Aux!Requests
<1>4. CASE UNCHANGED v6 /\ Aux!Then(<<>>)
  <2>1. <<>> \in Seq(Aux!Steps) /\ UNCHANGED <<v1, Aux!queueVars, Aux!otherVars, v6>>
    BY <1>1, <1>4
  <2> QED
    BY <1>1, <1>4, <2>1, AuxOnly
<1>5. CASE /\ Aux!Of.account \in v6.jobs
           /\ \/ Aux!RetryJob(Aux!Of.account, Aux!Of.force, FALSE)
              \/ Aux!RetryJob(Aux!Of.account, FALSE, TRUE)
              \/ Aux!KeepPolling(Aux!Of.account, Aux!Of.force)
  BY <1>1, <1>3, <1>5, AuxRetries
<1>6. CASE Aux!Of.account \in v6.jobs /\ Aux!FinishJob(Aux!Of.account)
  BY <1>1, <1>6, AuxEndsJob
<1>7. CASE /\ Aux!Of.account \in v6.jobs
           /\ v6' = [v6 EXCEPT !.command = Aux!Without(@, Aux!Of.account)]
           /\ \/ Aux!Then(<<Aux!JobStep("pollJob", Aux!Of.account, TRUE)>>)
              \/ Aux!Then(<<>>)
  <2>1. Aux!Of.account \in Users
    BY <1>2, <1>7 DEF Aux!Desks
  <2>2. Aux!JobStep("pollJob", Aux!Of.account, TRUE) \in Aux!Steps
    BY <2>1, AuxSteps DEF Aux!Actions
  <2>3. \E t \in Seq(Aux!Steps) : Aux!Then(t)
    <3>1. <<Aux!JobStep("pollJob", Aux!Of.account, TRUE)>> \in Seq(Aux!Steps)
      BY <2>2, AuxOne
    <3>2. <<>> \in Seq(Aux!Steps)
      OBVIOUS
    <3> QED
      BY <1>7, <3>1, <3>2
  <2>4. Aux!Without(v6.command, Aux!Of.account) \in Users \cup {NoUser}
    BY <1>2 DEF Aux!Without, Aux!Desks
  <2>5. /\ v6' \in Aux!Desks /\ v6'.jobs = v6.jobs /\ v6'.active = v6.active
        /\ v6'.live = v6.live
    BY <1>2, <1>7, <2>4 DEF Aux!Desks
  <2>6. Aux!MarksAreKnown'
    BY <1>1, <2>5, AuxMarks DEF Aux!otherVars
  <2> QED
    BY <1>1, <2>3, <2>5, <2>6, AuxDesked
<1> QED
  BY <1>4, <1>5, <1>6, <1>7 DEF Aux!PollAnswered, Aux!CancelAnswered, Aux!MenuFails

LEMMA AuxCreates ==
  ASSUME Aux!AuxConstants, Aux!AuxInv, Aux!CreateAnswered
  PROVE  Aux!AuxInv'
<1>1. /\ v10 # <<>> /\ UNCHANGED <<v1, Aux!queueVars, Aux!otherVars>>
         /\ Aux!Of.kind = "create"
      /\ Head(v10).do \in {"spawn", "answer"} => Aux!Of.kind # "login"
  BY DEF Aux!CreateAnswered, Aux!Answered, Aux!Now
<1>2. Aux!Of \in Aux!Requests /\ v6 \in Aux!Desks
  BY <1>1, AuxSplit DEF Aux!AuxInv, Aux!ValuesOK, Aux!AgendaOK, Aux!Of, Aux!Steps
<1>3. Aux!Of.account \in Users
  BY <1>1, <1>2 DEF Aux!Requests
<1>4. CASE UNCHANGED v6 /\ Aux!Then(<<>>)
  <2>1. <<>> \in Seq(Aux!Steps) /\ UNCHANGED <<v1, Aux!queueVars, Aux!otherVars, v6>>
    BY <1>1, <1>4
  <2> QED
    BY <1>1, <1>4, <2>1, AuxOnly
<1>5. CASE /\ v6' = [v6 EXCEPT !.jobs = @ \cup {Aux!Of.account}, !.active = @ \cup {Aux!Of.account}]
           /\ \/ Aux!Then(<<Aux!JobStep("pollJob", Aux!Of.account, TRUE)>>)
              \/ Aux!Then(<<>>)
  <2>1. Aux!JobStep("pollJob", Aux!Of.account, TRUE) \in Aux!Steps
    BY <1>3, AuxSteps DEF Aux!Actions
  <2>2. \E t \in Seq(Aux!Steps) : Aux!Then(t)
    <3>1. <<Aux!JobStep("pollJob", Aux!Of.account, TRUE)>> \in Seq(Aux!Steps)
      BY <2>1, AuxOne
    <3>2. <<>> \in Seq(Aux!Steps)
      OBVIOUS
    <3> QED
      BY <1>5, <3>1, <3>2
  <2>3. /\ v6' \in Aux!Desks /\ v6'.jobs = v6.jobs \cup {Aux!Of.account}
        /\ v6'.active = v6.active \cup {Aux!Of.account} /\ v6'.live = v6.live
    BY <1>2, <1>3, <1>5 DEF Aux!Desks
  <2>4. Aux!MarksAreKnown'
    BY <1>1, <2>3 DEF Aux!AuxInv, Aux!MarksAreKnown, Aux!otherVars
  <2> QED
    BY <1>1, <2>2, <2>3, <2>4, AuxDesked
<1> QED
  BY <1>4, <1>5 DEF Aux!CreateAnswered, Aux!MenuFails

LEMMA AuxEdits ==
  ASSUME Aux!AuxConstants, Aux!AuxInv, v10 # <<>>,
         Head(v10).do \in {"spawn", "answer"} => Aux!Of.kind # "login",
         Aux!DrainAccountChanges
  PROVE  Aux!AuxInv'
<1> DEFINE edit == Head(v3.queue)
<1>1. UNCHANGED <<v1, v2, v4, v5, Aux!otherVars>> /\ v3.queue # <<>>
  BY DEF Aux!DrainAccountChanges, Aux!CanEdit
<1>2. /\ v6 \in Aux!Desks /\ v3.queue \in Seq(Aux!Edits)
      /\ v3
         \in [now : Aux!Edits \cup {Aux!NoEdit}, queue : Seq(Aux!Edits), later : BOOLEAN]
  BY DEF Aux!AuxInv, Aux!ValuesOK, Aux!QueuesOK
<1>3. edit \in Aux!Edits /\ Tail(v3.queue) \in Seq(Aux!Edits)
  BY <1>1, <1>2
<1>4. edit.account \in Users
  BY <1>3 DEF Aux!Edits
<1>5. /\ Aux!JobStep("cancelJob", edit.account, TRUE) \in Aux!Steps
      /\ Aux!Spawn("change", edit.account, FALSE, TRUE) \in Aux!Steps
  BY <1>4, AuxSteps DEF Aux!Actions, Aux!Kinds
<1>6. \E s \in Seq(Aux!Steps) : Aux!Then(s)
  BY <1>5, AuxFew DEF Aux!DrainAccountChanges
<1>7. /\ v6' \in Aux!Desks /\ v6'.jobs = v6.jobs /\ v6'.active = v6.active
      /\ v6'.live = v6.live
  <2>1. \/ v6' = [v6 EXCEPT !.deleting = @ \cup {edit.account}]
        \/ v6' = [v6 EXCEPT !.deleting = @ \ {edit.account}]
        \/ v6' = v6
    BY DEF Aux!DrainAccountChanges
  <2> HIDE DEF edit
  <2> QED
    BY <1>2, <1>4, <2>1 DEF Aux!Desks
<1>8. v3'
      \in [now : Aux!Edits \cup {Aux!NoEdit}, queue : Seq(Aux!Edits), later : BOOLEAN]
  <2>1. v3' = v3 \/ v3' = [v3 EXCEPT !.now = edit, !.queue = Tail(@)]
    BY DEF Aux!DrainAccountChanges
  <2> HIDE DEF edit
  <2> QED
    BY <1>2, <1>3, <2>1
<1>9. Aux!QueuesOK' /\ UNCHANGED <<v1, v2, v7>>
  BY <1>1, <1>8 DEF Aux!AuxInv, Aux!ValuesOK, Aux!QueuesOK, Aux!otherVars
<1>10. Aux!MarksAreKnown'
  BY <1>7, <1>9, AuxMarks
<1> HIDE DEF edit
<1> QED
  BY <1>6, <1>7, <1>9, <1>10, AuxPlain

\* A login is answered, a request is taken up, a process ends or is displaced.
LEMMA AuxLoginEnds ==
  ASSUME Aux!AuxConstants, Aux!AuxInv, Aux!LoginAnswered
  PROVE  Aux!AuxInv'
<1>1. /\ v10 # <<>> /\ UNCHANGED <<v1, Aux!queueVars, Aux!otherVars>> /\ Aux!Then(<<>>)
      /\ v6' = [v6 EXCEPT !.active = @ \ {Aux!Of.account}, !.live = Aux!Without(@, Aux!Of.account)]
  BY DEF Aux!LoginAnswered, Aux!Answered, Aux!Now
<1>2. Aux!Of \in Aux!Requests /\ v6 \in Aux!Desks
  BY <1>1, AuxSplit DEF Aux!AuxInv, Aux!ValuesOK, Aux!AgendaOK, Aux!Of, Aux!Steps
<1>3. <<>> \in Seq(Aux!Steps)
  OBVIOUS
<1>4. /\ v10' \in Seq(Aux!Steps)
      /\ \A a : Aux!Waiting(v10, a) => Aux!Waiting(v10', a) \/ Aux!Of = Aux!LoginOf(a)
  BY <1>1, <1>3, AuxGoesOn DEF Aux!AuxInv
<1>5. /\ v6' \in Aux!Desks /\ v6'.jobs = v6.jobs
         /\ v6'.active = v6.active \ {Aux!Of.account}
      /\ v6'.live = (IF v6.live = Aux!Of.account THEN NoUser ELSE v6.live)
  <2>1. Aux!Without(v6.live, Aux!Of.account) \in Users \cup {NoUser}
    BY <1>2 DEF Aux!Without, Aux!Desks
  <2> QED
    BY <1>1, <1>2, <2>1 DEF Aux!Desks, Aux!Without
<1>6. Aux!ValuesOK'
  BY <1>1, <1>4, <1>5 DEF Aux!AuxInv, Aux!ValuesOK, Aux!AgendaOK, Aux!QueuesOK,
     Aux!queueVars, Aux!otherVars
<1>7. Aux!MarksAreKnown'
  BY <1>1, <1>5 DEF Aux!AuxInv, Aux!MarksAreKnown, Aux!otherVars
<1>8. Aux!LiveIsInFlight'
  <2>1. CASE v6'.live = NoUser
    BY <2>1 DEF Aux!LiveIsInFlight
  <2>2. CASE v6.live # Aux!Of.account
    <3>1. \A a : Aux!Of = Aux!LoginOf(a) => Aux!Of.account = a
      BY DEF Aux!LoginOf, Aux!Request
    <3>2. \A a : a = v6.live /\ Aux!InFlight(a) => Aux!InFlight(a)'
      BY <1>1, <1>4, <2>2, <3>1 DEF Aux!InFlight, Aux!queueVars
    <3> QED
      BY <1>1, <1>5, <2>2, <3>2, AuxLive DEF Aux!otherVars
  <2> QED
    BY <1>5, <2>1, <2>2
<1> QED
  BY <1>6, <1>7, <1>8 DEF Aux!AuxInv

LEMMA AuxTakesDeferred ==
  ASSUME Aux!AuxConstants, Aux!AuxInv, v10 # <<>>,
         Head(v10).do \in {"spawn", "answer"} => Aux!Of.kind # "login",
         Aux!DrainDeferredAuxRequests
  PROVE  Aux!AuxInv'
<1>1. PICK r \in v2 : /\ v2' = v2 \ {r}
                            /\ Aux!Then(<<Aux!Spawn(r.kind, r.account, r.force, FALSE)>>)
  BY DEF Aux!DrainDeferredAuxRequests
<1>2. UNCHANGED <<v1, v3, v4, v5, Aux!otherVars, v6>>
  BY DEF Aux!DrainDeferredAuxRequests
<1> DEFINE x == Aux!Spawn(r.kind, r.account, r.force, FALSE)
<1>3. r \in Aux!Requests
  BY <1>1 DEF Aux!AuxInv, Aux!ValuesOK, Aux!AgendaOK
<1>4. x.do = "spawn" /\ x.of = r /\ x \in Aux!Steps
  <2>1. Aux!Request(r.kind, r.account, r.force) = r
    BY <1>3 DEF Aux!Requests, Aux!Request
  <2> QED
    BY <1>3, <2>1 DEF Aux!Spawn, Aux!Steps, Aux!Actions
<1>5. <<x>> \in Seq(Aux!Steps) /\ \A a : r = Aux!LoginOf(a) => Aux!Waiting(<<x>>, a)
  BY <1>4, AuxFew
<1> HIDE DEF x
<1>6. /\ v10' \in Seq(Aux!Steps)
         /\ \A a : Aux!Waiting(<<x>>, a) => Aux!Waiting(v10', a)
      /\ \A a : Aux!Waiting(v10, a) =>
           \/ Aux!Waiting(v10', a)
           \/ Head(v10).do \in {"spawn", "answer"} /\ Aux!Of = Aux!LoginOf(a)
  BY <1>1, <1>5, AuxGoesOn DEF Aux!AuxInv, x
<1>7. \A a : Aux!LoginOf(a).kind = "login"
  BY DEF Aux!LoginOf, Aux!Request
<1>8. \A a : Aux!InFlight(a) => Aux!InFlight(a)'
  BY <1>1, <1>2, <1>5, <1>6, <1>7 DEF Aux!InFlight
<1>9. Aux!IsFiniteSet(v2') /\ Aux!Cardinality(v2') <= MaxDeferred
  <2>1. /\ Aux!IsFiniteSet(v2) /\ Aux!Cardinality(v2) <= MaxDeferred
        /\ Aux!Cardinality(v2) \in Nat
    BY FS_CardinalityType, AuxCounts DEF Aux!AuxInv, Aux!ValuesOK, Aux!AgendaOK
  <2>2. /\ Aux!IsFiniteSet(v2 \ {r})
        /\ Aux!Cardinality(v2 \ {r}) = IF r \in v2 THEN Aux!Cardinality(v2) - 1
                                                            ELSE Aux!Cardinality(v2)
    BY <2>1, FS_RemoveElement, AuxCounts
  <2> QED
    BY <1>1, <2>1, <2>2 DEF Aux!AuxConstants
<1>10. Aux!ValuesOK' /\ Aux!MarksAreKnown'
  BY <1>1, <1>2, <1>6, <1>9 DEF Aux!AuxInv, Aux!ValuesOK, Aux!AgendaOK, Aux!QueuesOK,
     Aux!otherVars, Aux!MarksAreKnown
<1>11. Aux!LiveIsInFlight'
  BY <1>2, <1>8, AuxLive DEF Aux!otherVars
<1> QED
  BY <1>10, <1>11 DEF Aux!AuxInv

LEMMA AuxProcessEnds ==
  ASSUME Aux!AuxConstants, Aux!AuxInv, Aux!AuxAnswers
  PROVE  Aux!AuxInv'
<1>1. PICK ok \in BOOLEAN : v10' = <<Aux!Answer(v1, ok)>> \o Aux!After
  BY DEF Aux!AuxAnswers
<1>2. v10 = <<>> /\ v1' = Aux!NoProcess
      /\ UNCHANGED <<Aux!queueVars, Aux!otherVars, v6>>
  BY DEF Aux!AuxAnswers, Aux!Quiet
<1>3. Aux!Answer(v1, ok) \in Aux!Steps /\ Aux!Answer(v1, ok).do = "answer"
      /\ Aux!Answer(v1, ok).of = v1
  BY DEF Aux!Answer, Aux!Steps, Aux!Actions, Aux!AuxInv, Aux!ValuesOK, Aux!AgendaOK
<1>4. Aux!After \in Seq(Aux!Steps)
  BY AuxSteps, AuxFew DEF Aux!After, Aux!Actions
<1>5. <<Aux!Answer(v1, ok)>> \in Seq(Aux!Steps)
      /\ \A a : v1 = Aux!LoginOf(a) => Aux!Waiting(<<Aux!Answer(v1, ok)>>, a)
  BY <1>3, AuxFew
<1>6. v10' \in Seq(Aux!Steps) /\ \A a : v1 = Aux!LoginOf(a) => Aux!Waiting(v10', a)
  BY <1>1, <1>4, <1>5, AuxJoined
<1>7. \A a : ~Aux!Waiting(v10, a)
  BY <1>2 DEF Aux!Waiting
<1>8. \A a : Aux!InFlight(a) => Aux!InFlight(a)'
  BY <1>2, <1>6, <1>7 DEF Aux!InFlight, Aux!queueVars
<1>9. Aux!ValuesOK' /\ Aux!MarksAreKnown'
  BY <1>2, <1>6, AuxSteps DEF Aux!AuxInv, Aux!ValuesOK, Aux!AgendaOK, Aux!QueuesOK,
     Aux!otherVars, Aux!queueVars, Aux!MarksAreKnown
<1>10. Aux!LiveIsInFlight'
  BY <1>2, <1>8, AuxLive DEF Aux!otherVars
<1> QED
  BY <1>9, <1>10 DEF Aux!AuxInv

\* A process is asked for: it is deferred, refused, started or fails to start, and
\* displaces the one that runs.
LEMMA AuxSpawns ==
  ASSUME Aux!AuxConstants, Aux!AuxInv, Aux!SpawnAux
  PROVE  Aux!AuxInv'
<1>1. /\ v10 # <<>> /\ UNCHANGED <<v3, v4, v5, Aux!otherVars>>
      /\ Head(v10).do = "spawn"
  BY DEF Aux!SpawnAux, Aux!Now
<1>2. Aux!Of \in Aux!Requests /\ v6 \in Aux!Desks /\ v1 \in Aux!Requests
  BY <1>1, AuxSplit DEF Aux!AuxInv, Aux!ValuesOK, Aux!AgendaOK, Aux!Of, Aux!Steps
<1>3. Aux!Answer(Aux!Of, FALSE) \in Aux!Steps
      /\ Aux!Answer(Aux!Of, FALSE).do = "answer"
         /\ Aux!Answer(Aux!Of, FALSE).of = Aux!Of
  BY <1>2 DEF Aux!Answer, Aux!Steps, Aux!Actions
<1>4. /\ <<Aux!Answer(Aux!Of, FALSE)>> \in Seq(Aux!Steps) /\ <<>> \in Seq(Aux!Steps)
      /\ \A a : Aux!Of = Aux!LoginOf(a)
         => Aux!Waiting(<<Aux!Answer(Aux!Of, FALSE)>>, a)
  BY <1>3, AuxFew
<1>5. Aux!After \in Seq(Aux!Steps)
  BY AuxSteps, AuxFew DEF Aux!After, Aux!Actions
<1>6. /\ <<Aux!Answer(Aux!Of, FALSE)>> \o Aux!After \in Seq(Aux!Steps)
      /\ \A a : Aux!Of = Aux!LoginOf(a)
         => Aux!Waiting(<<Aux!Answer(Aux!Of, FALSE)>> \o Aux!After, a)
  BY <1>4, <1>5, AuxJoined
<1>7. ASSUME NEW s \in Seq(Aux!Steps), Aux!Then(s)
      PROVE  /\ v10' \in Seq(Aux!Steps)
             /\ \A a : Aux!Waiting(s, a) => Aux!Waiting(v10', a)
             /\ \A a : Aux!Waiting(v10, a) => Aux!Waiting(v10', a)
                \/ Aux!Of = Aux!LoginOf(a)
  BY <1>1, <1>7, AuxGoesOn DEF Aux!AuxInv
<1>8. CASE UNCHANGED <<v1, v6, v2>> /\ Aux!Then(<<Aux!Answer(Aux!Of, FALSE)>>)
  <2>1. v10' \in Seq(Aux!Steps) /\ \A a : Aux!InFlight(a) => Aux!InFlight(a)'
    BY <1>4, <1>7, <1>8 DEF Aux!InFlight
  <2>2. Aux!ValuesOK' /\ Aux!MarksAreKnown'
    BY <1>1, <1>8, <2>1 DEF Aux!AuxInv, Aux!ValuesOK, Aux!AgendaOK, Aux!QueuesOK,
       Aux!otherVars, Aux!MarksAreKnown
  <2>3. Aux!LiveIsInFlight'
    BY <1>1, <1>8, <2>1, AuxLive DEF Aux!otherVars
  <2> QED
    BY <2>2, <2>3 DEF Aux!AuxInv
<1>9. CASE /\ UNCHANGED <<v1, v6>> /\ Aux!Then(<<>>) /\ v2' = v2 \cup {Aux!Of}
           /\ Aux!Of \in v2 \/ Aux!Cardinality(v2) < MaxDeferred
  <2>1. v10' \in Seq(Aux!Steps) /\ \A a : Aux!InFlight(a) => Aux!InFlight(a)'
    BY <1>4, <1>7, <1>9 DEF Aux!InFlight
  <2>2. Aux!IsFiniteSet(v2') /\ Aux!Cardinality(v2') <= MaxDeferred
    <3>1. /\ Aux!IsFiniteSet(v2) /\ Aux!Cardinality(v2) <= MaxDeferred
          /\ Aux!Cardinality(v2) \in Nat
      BY FS_CardinalityType, AuxCounts DEF Aux!AuxInv, Aux!ValuesOK, Aux!AgendaOK
    <3>2. /\ Aux!IsFiniteSet(v2 \cup {Aux!Of})
          /\ Aux!Cardinality(v2 \cup {Aux!Of}) = IF Aux!Of \in v2 THEN Aux!Cardinality(v2)
                                                 ELSE Aux!Cardinality(v2) + 1
      BY <3>1, FS_AddElement, AuxCounts
    <3> QED
      BY <1>9, <3>1, <3>2 DEF Aux!AuxConstants
  <2>3. Aux!ValuesOK' /\ Aux!MarksAreKnown'
    BY <1>1, <1>2, <1>9, <2>1, <2>2 DEF Aux!AuxInv, Aux!ValuesOK, Aux!AgendaOK,
       Aux!QueuesOK, Aux!otherVars, Aux!MarksAreKnown
  <2>4. Aux!LiveIsInFlight'
    BY <1>1, <1>9, <2>1, AuxLive DEF Aux!otherVars
  <2> QED
    BY <2>3, <2>4 DEF Aux!AuxInv
<1>10. CASE /\ v6' = Aux!Displaced(v6) /\ UNCHANGED v2
            /\ \/ v1' = Aux!Of /\ Aux!Then(<<>>)
               \/ v1' = Aux!NoProcess
                  /\ Aux!Then(<<Aux!Answer(Aux!Of, FALSE)>> \o Aux!After)
  <2>1. /\ v6' \in Aux!Desks /\ v6'.jobs = v6.jobs
        /\ v1.kind = "login" =>
              /\ v6'.live = NoUser
              /\ v6'.active = (IF v6.live
                 \in v6.jobs THEN v6.active ELSE v6.active \ {v6.live})
        /\ v1.kind # "login" => v6'.live = v6.live /\ v6'.active = v6.active
    BY <1>2, <1>10, AuxDrops
  <2>2. v10' \in Seq(Aux!Steps) /\ v1' \in Aux!Requests
    BY <1>2, <1>4, <1>6, <1>7, <1>10, AuxSteps
  <2>3. Aux!ValuesOK'
    BY <1>1, <1>10, <2>1, <2>2 DEF Aux!AuxInv, Aux!ValuesOK, Aux!AgendaOK,
       Aux!QueuesOK, Aux!otherVars
  <2>4. Aux!MarksAreKnown'
    BY <1>1, <2>1 DEF Aux!AuxInv, Aux!MarksAreKnown, Aux!otherVars
  <2>5. CASE v1.kind = "login"
    <3>1. Aux!LiveIsInFlight'
      BY <2>1, <2>5 DEF Aux!LiveIsInFlight
    <3> QED
      BY <2>3, <2>4, <3>1 DEF Aux!AuxInv
  <2>6. CASE v1.kind # "login"
    <3>1. \A a : v1 # Aux!LoginOf(a)
      BY <2>6 DEF Aux!LoginOf, Aux!Request
    <3>2. \A a : Aux!InFlight(a) => Aux!InFlight(a)'
      BY <1>4, <1>6, <1>7, <1>10, <3>1 DEF Aux!InFlight
    <3>3. Aux!LiveIsInFlight'
      BY <1>1, <2>1, <2>6, <3>2, AuxLive DEF Aux!otherVars
    <3> QED
      BY <2>3, <2>4, <3>3 DEF Aux!AuxInv
  <2> QED
    BY <2>5, <2>6
<1> QED
  BY <1>8, <1>9, <1>10 DEF Aux!SpawnAux

\* A callback begins that is about no login.
LEMMA AuxBegins ==
  ASSUME Aux!AuxConstants, Aux!AuxInv, Aux!Quiet, v10' \in Seq(Aux!Steps),
         Aux!QueuesOK',
         UNCHANGED <<v1, v2, v7>>, v6' \in Aux!Desks,
         v6'.jobs = v6.jobs, v6'.active = v6.active, v6'.live = v6.live
  PROVE  Aux!AuxInv'
<1>1. \A a : ~Aux!Waiting(v10, a)
  BY DEF Aux!Waiting, Aux!Quiet
<1>2. \A a : Aux!InFlight(a) => Aux!InFlight(a)'
  BY <1>1 DEF Aux!InFlight
<1>3. Aux!ValuesOK'
  BY DEF Aux!AuxInv, Aux!ValuesOK, Aux!AgendaOK
<1>4. Aux!MarksAreKnown' /\ Aux!LiveIsInFlight'
  BY <1>2, AuxMarks, AuxLive
<1> QED
  BY <1>3, <1>4 DEF Aux!AuxInv

LEMMA AuxAsks ==
  ASSUME Aux!AuxConstants, Aux!AuxInv, Aux!Ask
  PROVE  v9' \in 0 .. MaxAsked /\ Aux!Quiet
<1>1. v9 \in 0 .. MaxAsked /\ v9 < MaxAsked /\ v9' = v9 + 1 /\ MaxAsked \in Nat
  BY DEF Aux!Ask, Aux!AuxInv, Aux!ValuesOK, Aux!QueuesOK, Aux!AuxConstants
<1>2. v9' \in 0 .. MaxAsked
  BY <1>1
<1> QED
  BY <1>2 DEF Aux!Ask

LEMMA AuxTimers ==
  ASSUME Aux!AuxConstants, Aux!AuxInv, Aux!PollTimerFires \/ Aux!LeaveSafeModeAndRetry
  PROVE  Aux!AuxInv'
<1>1. Aux!Quiet /\ UNCHANGED <<v1, Aux!queueVars, v7, v9>>
  BY DEF Aux!PollTimerFires, Aux!LeaveSafeModeAndRetry, Aux!otherVars
<1>2. v6 \in Aux!Desks
  BY DEF Aux!AuxInv, Aux!ValuesOK
<1>3. v6.timer.account \in Users \cup {NoUser} /\ v6.timer.force \in BOOLEAN
  BY <1>2 DEF Aux!Desks
<1>4. Aux!NoTimer
      \in [account : Users \cup {NoUser}, force : BOOLEAN, cancel : BOOLEAN]
  BY DEF Aux!NoTimer
<1>5. /\ v6' \in Aux!Desks /\ v6'.jobs = v6.jobs /\ v6'.active = v6.active
      /\ v6'.live = v6.live
  BY <1>2, <1>4 DEF Aux!PollTimerFires, Aux!LeaveSafeModeAndRetry, Aux!Desks
<1>6. /\ Aux!JobStep("cancelJob", v6.timer.account, TRUE) \in Aux!Steps
      /\ Aux!JobStep("pollJob", v6.timer.account, v6.timer.force) \in Aux!Steps
      /\ Aux!Spawn("status", NoUser, FALSE, FALSE) \in Aux!Steps
  <2>1. Aux!JobStep("pollJob", v6.timer.account, v6.timer.force) \in Aux!Steps
    BY <1>3, AuxSteps
  <2>2. Aux!Spawn("status", NoUser, FALSE, FALSE) \in Aux!Steps
    BY AuxSteps DEF Aux!Kinds
  <2> QED
    BY <1>3, <2>1, <2>2, AuxSteps
<1>7. <<>> \in Seq(Aux!Steps)
  OBVIOUS
<1>8. v10' \in Seq(Aux!Steps)
  BY <1>6, <1>7, AuxOne DEF Aux!PollTimerFires, Aux!LeaveSafeModeAndRetry
<1>9. Aux!QueuesOK'
  BY <1>1 DEF Aux!PollTimerFires, Aux!LeaveSafeModeAndRetry, Aux!AuxInv, Aux!ValuesOK,
     Aux!QueuesOK, Aux!otherVars, Aux!queueVars
<1> QED
  BY <1>1, <1>5, <1>8, <1>9, AuxBegins DEF Aux!queueVars

LEMMA AuxCommands ==
  ASSUME Aux!AuxConstants, Aux!AuxInv,
         Aux!AuxAsked \/ Aux!RefreshConsumption \/ Aux!AccountBackendsChanged
  PROVE  Aux!AuxInv'
<1>1. Aux!Ask /\ UNCHANGED <<v1, v2, v7, v8, v6>>
  BY DEF Aux!AuxAsked, Aux!RefreshConsumption, Aux!AccountBackendsChanged,
     Aux!queueVars
<1>2. v9' \in 0 .. MaxAsked /\ Aux!Quiet
  BY <1>1, AuxAsks
<1>3. /\ Aux!Step("drainQueries") \in Aux!Steps
         /\ Aux!Step("overview") \in Aux!Steps /\ Aux!Step("drainEdits") \in Aux!Steps
      /\ Aux!Step("drainBackends") \in Aux!Steps
  BY AuxSteps DEF Aux!Actions
<1>4. Aux!Spawn("status", NoUser, FALSE, FALSE) \in Aux!Steps
      /\ Aux!Spawn("other", NoUser, FALSE, FALSE) \in Aux!Steps
  BY AuxSteps DEF Aux!Kinds
<1>5. v10 \in Seq(Aux!Steps)
  BY DEF Aux!AuxInv, Aux!ValuesOK, Aux!AgendaOK
<1>6. v10' \in Seq(Aux!Steps)
  BY <1>3, <1>4, <1>5, AuxOne DEF Aux!AuxAsked, Aux!RefreshConsumption,
     Aux!AccountBackendsChanged
<1>7. Aux!QueuesOK'
  <2>1. Aux!QueuesOK
    BY DEF Aux!AuxInv, Aux!ValuesOK
  <2>2. \A n \in 0 .. MaxQueries :
          /\ [v5 EXCEPT !.left = n] \in [now : BOOLEAN, left : 0 .. MaxQueries]
          /\ [v4 EXCEPT !.left = n] \in [now : BOOLEAN, left : 0 .. MaxQueries]
    BY <2>1 DEF Aux!QueuesOK
  <2>3. /\ [v3 EXCEPT !.later = TRUE]
           \in [now : Aux!Edits \cup {Aux!NoEdit}, queue : Seq(Aux!Edits), later : BOOLEAN]
        /\ \A q \in Aux!Queues :
             [v3 EXCEPT !.queue = q]
             \in [now : Aux!Edits \cup {Aux!NoEdit}, queue : Seq(Aux!Edits), later : BOOLEAN]
    BY <2>1, AuxQueues DEF Aux!QueuesOK
  <2>4. /\ v5' \in [now : BOOLEAN, left : 0 .. MaxQueries]
        /\ v4' \in [now : BOOLEAN, left : 0 .. MaxQueries]
    BY <2>1, <2>2 DEF Aux!QueuesOK, Aux!AuxAsked, Aux!RefreshConsumption,
       Aux!AccountBackendsChanged, Aux!queueVars
  <2>5. v3'
        \in [now : Aux!Edits \cup {Aux!NoEdit}, queue : Seq(Aux!Edits), later : BOOLEAN]
    BY <2>1, <2>3 DEF Aux!QueuesOK, Aux!AuxAsked, Aux!RefreshConsumption,
       Aux!AccountBackendsChanged, Aux!queueVars
  <2> QED
    BY <1>1, <1>2, <2>1, <2>4, <2>5 DEF Aux!QueuesOK
<1> QED
  BY <1>1, <1>2, <1>6, <1>7, AuxBegins DEF Aux!AuxInv, Aux!ValuesOK

LEMMA AuxLogins ==
  ASSUME Aux!AuxConstants, Aux!AuxInv, NEW a \in Users, Aux!StartDeviceLogin(a)
  PROVE  Aux!AuxInv'
<1>1. /\ Aux!Ask /\ UNCHANGED <<v1, Aux!queueVars, v8>>
      /\ v6' = [v6 EXCEPT !.active = {a}, !.live = a]
      /\ \/ v10' = <<Aux!Spawn("login", a, FALSE, FALSE)>> /\ v7' = v7 \ {a}
         \/ v10' = v10 /\ v7' = v7 \cup {a}
  BY DEF Aux!StartDeviceLogin
<1>2. v9' \in 0 .. MaxAsked
  BY <1>1, AuxAsks
<1>3. Aux!Spawn("login", a, FALSE, FALSE) \in Aux!Steps
  BY AuxSteps DEF Aux!Kinds
<1>4. /\ Aux!Spawn("login", a, FALSE, FALSE).do = "spawn"
      /\ Aux!Spawn("login", a, FALSE, FALSE).of = Aux!LoginOf(a)
  BY DEF Aux!Spawn, Aux!LoginOf
<1>5. v10' \in Seq(Aux!Steps) /\ (Aux!Waiting(v10', a) \/ a \in v7')
  BY <1>1, <1>3, <1>4, AuxFew DEF Aux!AuxInv, Aux!ValuesOK, Aux!AgendaOK
<1>6. /\ v6' \in Aux!Desks /\ v6'.active = {a} /\ v6'.live = a
  BY <1>1 DEF Aux!AuxInv, Aux!ValuesOK, Aux!Desks
<1>7. Aux!ValuesOK'
  BY <1>1, <1>2, <1>5, <1>6 DEF Aux!AuxInv, Aux!ValuesOK, Aux!AgendaOK, Aux!QueuesOK,
     Aux!queueVars
<1>8. Aux!MarksAreKnown'
  BY <1>6 DEF Aux!MarksAreKnown
<1>9. a \in v7' \/ Aux!InFlight(a)'
  BY <1>5 DEF Aux!InFlight
<1>10. Aux!LiveIsInFlight'
  BY <1>6, <1>9 DEF Aux!LiveIsInFlight
<1> QED
  BY <1>7, <1>8, <1>10 DEF Aux!AuxInv

LEMMA AuxCancels ==
  ASSUME Aux!AuxConstants, Aux!AuxInv, NEW a \in Users, Aux!CancelDeviceLogin(a)
  PROVE  Aux!AuxInv'
<1>1. /\ Aux!Ask /\ UNCHANGED <<v3, v4, v5, v7, v8>>
  BY DEF Aux!CancelDeviceLogin
<1>2. v9' \in 0 .. MaxAsked /\ Aux!Quiet
  BY <1>1, AuxAsks
<1>3. Aux!QueuesOK'
  BY <1>1, <1>2 DEF Aux!AuxInv, Aux!ValuesOK, Aux!QueuesOK
<1>4. Aux!JobStep("cancelJob", a, FALSE) \in Aux!Steps
      /\ Aux!Step("drain") \in Aux!Steps
  BY AuxSteps DEF Aux!Actions
<1>5. v10' \in Seq(Aux!Steps)
  BY <1>4, AuxOne DEF Aux!CancelDeviceLogin, Aux!AuxInv, Aux!ValuesOK, Aux!AgendaOK
<1>6. CASE UNCHANGED <<v1, v2, v6>>
  BY <1>1, <1>2, <1>3, <1>5, <1>6, AuxBegins DEF Aux!AuxInv, Aux!ValuesOK
<1>7. CASE /\ v6' = [v6 EXCEPT !.active = @ \ {a}, !.live = Aux!Without(@, a)]
           /\ \/ v6.live = a /\ v1' = Aux!NoProcess /\ v2' = v2
              \/ v1' = v1 /\ v2' = v2 \ {Aux!LoginOf(a)}
  <2>1. v6 \in Aux!Desks
    BY DEF Aux!AuxInv, Aux!ValuesOK
  <2>2. Aux!Without(v6.live, a) \in Users \cup {NoUser}
    BY <2>1 DEF Aux!Without, Aux!Desks
  <2>3. /\ v6' \in Aux!Desks /\ v6'.jobs = v6.jobs /\ v6'.active = v6.active \ {a}
        /\ v6'.live = (IF v6.live = a THEN NoUser ELSE v6.live)
    BY <1>7, <2>1, <2>2 DEF Aux!Desks, Aux!Without
  <2>4. Aux!IsFiniteSet(v2') /\ Aux!Cardinality(v2') <= MaxDeferred
    <3>1. /\ Aux!IsFiniteSet(v2) /\ Aux!Cardinality(v2) <= MaxDeferred
          /\ Aux!Cardinality(v2) \in Nat
      BY FS_CardinalityType, AuxCounts DEF Aux!AuxInv, Aux!ValuesOK, Aux!AgendaOK
    <3>2. /\ Aux!IsFiniteSet(v2 \ {Aux!LoginOf(a)})
          /\ Aux!Cardinality(v2 \ {Aux!LoginOf(a)}) =
               IF Aux!LoginOf(a) \in v2 THEN Aux!Cardinality(v2) - 1 ELSE Aux!Cardinality(v2)
      BY <3>1, FS_RemoveElement, AuxCounts
    <3>3. v2' = v2 \/ v2' = v2 \ {Aux!LoginOf(a)}
      BY <1>7
    <3>4. Aux!Cardinality(v2 \ {Aux!LoginOf(a)}) <= MaxDeferred
      BY <3>1, <3>2 DEF Aux!AuxConstants
    <3> QED
      BY <3>1, <3>2, <3>3, <3>4
  <2>5. v1' \in Aux!Requests /\ v2' \subseteq Aux!Requests
    BY <1>7, AuxSteps DEF Aux!AuxInv, Aux!ValuesOK, Aux!AgendaOK
  <2>6. Aux!ValuesOK'
    BY <1>3, <1>5, <2>3, <2>4, <2>5 DEF Aux!ValuesOK, Aux!AgendaOK
  <2>7. Aux!MarksAreKnown'
    BY <1>1, <2>3 DEF Aux!AuxInv, Aux!MarksAreKnown
  <2>8. Aux!LiveIsInFlight'
    <3>1. CASE v6.live = a
      BY <2>3, <3>1 DEF Aux!LiveIsInFlight
    <3>2. CASE v6.live # a
      <4>1. \A b : b # a => Aux!LoginOf(b) # Aux!LoginOf(a)
        BY DEF Aux!LoginOf, Aux!Request
      <4>2. \A b : ~Aux!Waiting(v10, b)
        BY <1>2 DEF Aux!Waiting, Aux!Quiet
      <4>3. \A b : b = v6.live /\ Aux!InFlight(b) => Aux!InFlight(b)'
        BY <1>7, <3>2, <4>1, <4>2 DEF Aux!InFlight
      <4> QED
        BY <1>1, <2>3, <3>2, <4>3, AuxLive
    <3> QED
      BY <3>1, <3>2
  <2> QED
    BY <2>6, <2>7, <2>8 DEF Aux!AuxInv
<1>8. \/ UNCHANGED <<v1, v2, v6>>
      \/ /\ v6' = [v6 EXCEPT !.active = @ \ {a}, !.live = Aux!Without(@, a)]
         /\ \/ v6.live = a /\ v1' = Aux!NoProcess /\ v2' = v2
            \/ v1' = v1 /\ v2' = v2 \ {Aux!LoginOf(a)}
  BY DEF Aux!CancelDeviceLogin, Aux!LoginOf
<1> QED
  BY <1>6, <1>7, <1>8

\* The safe mode forgets everything but the marks.
LEMMA AuxSafe ==
  ASSUME Aux!AuxConstants, Aux!AuxInv, Aux!EnterSafeMode
  PROVE  Aux!AuxInv'
<1> DEFINE d == [v6 EXCEPT !.loaded = FALSE, !.wanted = FALSE, !.resume = {},
                             !.polling = NoUser, !.command = NoUser, !.current = FALSE,
                             !.timer = Aux!NoTimer]
<1>1. /\ Aux!Ask /\ v8' = TRUE /\ v1' = Aux!NoProcess /\ v2' = {} /\ v10' = <<>>
      /\ v3' = [now |-> Aux!NoEdit, queue |-> <<>>, later |-> FALSE]
      /\ v4' = [now |-> FALSE, left |-> 0] /\ v5' = [now |-> FALSE, left |-> 0]
      /\ v6' = Aux!Displaced(d)
      /\ v7' = v7 \cup {r.account : r \in {q \in v2 : q.kind = "login"}}
  BY DEF Aux!EnterSafeMode
<1>2. v9' \in 0 .. MaxAsked /\ Aux!Quiet
  BY <1>1, AuxAsks
<1>3. v6 \in Aux!Desks /\ v1 \in Aux!Requests /\ v2 \subseteq Aux!Requests
  BY DEF Aux!AuxInv, Aux!ValuesOK, Aux!AgendaOK
<1>4. Aux!NoTimer
      \in [account : Users \cup {NoUser}, force : BOOLEAN, cancel : BOOLEAN]
  BY DEF Aux!NoTimer
<1>5. d \in Aux!Desks /\ d.jobs = v6.jobs /\ d.active = v6.active /\ d.live = v6.live
  BY <1>3, <1>4 DEF Aux!Desks
<1> HIDE DEF d
<1>6. /\ v6' \in Aux!Desks /\ v6'.jobs = v6.jobs
      /\ v1.kind = "login" =>
            /\ v6'.live = NoUser
            /\ v6'.active = (IF v6.live
               \in v6.jobs THEN v6.active ELSE v6.active \ {v6.live})
      /\ v1.kind # "login" => v6'.live = v6.live /\ v6'.active = v6.active
  BY <1>1, <1>3, <1>5, AuxDrops
<1>7. v7' \subseteq Users
  <2>1. \A r \in v2 : r.kind = "login" => r.account \in Users
    BY <1>3 DEF Aux!Requests
  <2> QED
    BY <1>1, <2>1 DEF Aux!AuxInv, Aux!ValuesOK, Aux!QueuesOK
<1>8. Aux!QueuesOK'
  <2>1. v3'
        \in [now : Aux!Edits \cup {Aux!NoEdit}, queue : Seq(Aux!Edits), later : BOOLEAN]
    BY <1>1
  <2>2. 0 \in 0 .. MaxQueries
    BY DEF Aux!AuxConstants
  <2>3. /\ v4' \in [now : BOOLEAN, left : 0 .. MaxQueries]
        /\ v5' \in [now : BOOLEAN, left : 0 .. MaxQueries]
    BY <1>1, <2>2
  <2> QED
    BY <1>1, <1>2, <1>7, <2>1, <2>3 DEF Aux!QueuesOK
<1>9. Aux!ValuesOK'
  <2>1. Aux!IsFiniteSet(v2') /\ Aux!Cardinality(v2') <= MaxDeferred
    BY <1>1, FS_EmptySet, AuxCounts DEF Aux!AuxConstants
  <2>2. v1' \in Aux!Requests /\ v10' \in Seq(Aux!Steps) /\ v2' \subseteq Aux!Requests
    BY <1>1, AuxSteps
  <2> QED
    BY <1>6, <1>8, <2>1, <2>2 DEF Aux!ValuesOK, Aux!AgendaOK
<1>10. Aux!MarksAreKnown'
  BY <1>1, <1>6 DEF Aux!AuxInv, Aux!MarksAreKnown
<1>11. Aux!LiveIsInFlight'
  <2>1. CASE v1.kind = "login"
    BY <1>6, <2>1 DEF Aux!LiveIsInFlight
  <2>2. CASE v1.kind # "login"
    <3>1. \A a : Aux!LoginOf(a).kind = "login" /\ Aux!LoginOf(a).account = a
      BY DEF Aux!LoginOf, Aux!Request
    <3>2. \A a : ~Aux!Waiting(v10, a) /\ v1 # Aux!LoginOf(a)
      BY <1>2, <2>2, <3>1 DEF Aux!Waiting, Aux!Quiet
    <3>3. \A a : Aux!InFlight(a) => a \in v7'
      BY <1>1, <3>1, <3>2 DEF Aux!InFlight
    <3> QED
      BY <1>1, <1>6, <2>2, <3>3 DEF Aux!AuxInv, Aux!LiveIsInFlight
  <2> QED
    BY <2>1, <2>2
<1> QED
  BY <1>9, <1>10, <1>11 DEF Aux!AuxInv

LEMMA AuxInvInit ==
  ASSUME Aux!AuxConstants, Aux!Init
  PROVE  Aux!AuxInv
<1>1. /\ v1 \in Aux!Requests /\ <<>> \in Seq(Aux!Steps) /\ v2 = {} /\ v10 = <<>>
  BY AuxSteps DEF Aux!Init
<1>2. Aux!IsFiniteSet(v2) /\ Aux!Cardinality(v2) <= MaxDeferred
  BY <1>1, FS_EmptySet, AuxCounts DEF Aux!AuxConstants
<1>3. v6 \in Aux!Desks /\ v6.active = {} /\ v6.live = NoUser
  BY DEF Aux!Init, Aux!Desks, Aux!NoTimer
<1>4. Aux!QueuesOK
  <2>1. v3
        \in [now : Aux!Edits \cup {Aux!NoEdit}, queue : Seq(Aux!Edits), later : BOOLEAN]
    BY DEF Aux!Init
  <2>2. 0 \in 0 .. MaxQueries /\ 0 \in 0 .. MaxAsked
    BY DEF Aux!AuxConstants
  <2>3. /\ v4 \in [now : BOOLEAN, left : 0 .. MaxQueries]
        /\ v5 \in [now : BOOLEAN, left : 0 .. MaxQueries]
    BY <2>2 DEF Aux!Init
  <2> QED
    BY <2>1, <2>2, <2>3 DEF Aux!Init, Aux!QueuesOK
<1> QED
  BY <1>1, <1>2, <1>3, <1>4 DEF Aux!AuxInv, Aux!ValuesOK, Aux!AgendaOK,
     Aux!MarksAreKnown, Aux!LiveIsInFlight

LEMMA AuxInvPreserved ==
  ASSUME Aux!AuxConstants, Aux!AuxInv, [Aux!Next]_(Aux!auxVars)
  PROVE  Aux!AuxInv'
<1>1. CASE Aux!SpawnAux \/ Aux!AuxAnswers \/ Aux!LoginAnswered
  BY <1>1, AuxSpawns, AuxProcessEnds, AuxLoginEnds
<1>2. CASE \/ Aux!StatusAnswered \/ Aux!EnableAnswered \/ Aux!LoadAccountBackends
              \/ Aux!OverviewAnswered
           \/ Aux!OtherAnswered \/ Aux!NextEdit \/ Aux!DrainNothing \/ Aux!ResumePolls
  BY <1>2, AuxAnswersPlain
<1>3. CASE \/ Aux!ReconcilePendingAccountChanges \/ Aux!ChangeAnswered
              \/ Aux!CreateAnswered
           \/ Aux!BackendAnswered \/ Aux!ConsumptionAnswered
  BY <1>3, AuxReconciles, AuxChanges, AuxCreates, AuxFinishes
<1>4. CASE Aux!DrainAll \/ Aux!DrainOne
  <2>1. /\ v10 # <<>>
        /\ Head(v10).do \in {"spawn", "answer"} => Aux!Of.kind # "login"
    BY <1>4 DEF Aux!DrainAll, Aux!DrainOne, Aux!Now
  <2>2. \/ Aux!DrainBackendChanges \/ Aux!DrainAccountChanges
           \/ Aux!DrainDeferredAuxRequests
        \/ Aux!DrainConsumptionRequests
    BY <1>4 DEF Aux!DrainAll, Aux!DrainOne
  <2> QED
    BY <2>1, <2>2, AuxTakesUp, AuxEdits, AuxTakesDeferred
<1>5. CASE \/ Aux!ContinueStatus \/ Aux!LoadProfileJobs \/ Aux!JobsAnswered
              \/ Aux!PollNextProfileJob
           \/ Aux!PollProfileJob \/ Aux!CancelProfileJob \/ Aux!PollAnswered
              \/ Aux!CancelAnswered
  BY <1>5, AuxOverviews, AuxFindsJobs, AuxPollsNext, AuxPolls, AuxJobAnswers
<1>6. CASE \E a \in Users : Aux!StartDeviceLogin(a) \/ Aux!CancelDeviceLogin(a)
  BY <1>6, AuxLogins, AuxCancels
<1>7. CASE \/ Aux!PollTimerFires \/ Aux!AuxAsked \/ Aux!RefreshConsumption
              \/ Aux!AccountBackendsChanged
           \/ Aux!EnterSafeMode \/ Aux!LeaveSafeModeAndRetry
  BY <1>7, AuxTimers, AuxCommands, AuxSafe
<1>8. CASE UNCHANGED Aux!auxVars
  <2>1. /\ UNCHANGED <<v1, v2, v3, v4, v5, v7, v8, v9>>
        /\ UNCHANGED <<v6, v10>>
    BY <1>8 DEF Aux!auxVars, Aux!queueVars, Aux!otherVars
  <2>2. Aux!ValuesOK' /\ Aux!MarksAreKnown'
    BY <2>1 DEF Aux!AuxInv, Aux!ValuesOK, Aux!AgendaOK, Aux!QueuesOK,
       Aux!MarksAreKnown
  <2>3. \A a : Aux!InFlight(a) => Aux!InFlight(a)'
    BY <2>1 DEF Aux!InFlight
  <2>4. Aux!LiveIsInFlight'
    BY <2>1, <2>3, AuxLive
  <2> QED
    BY <2>2, <2>4 DEF Aux!AuxInv
<1> QED
  BY <1>1, <1>2, <1>3, <1>4, <1>5, <1>6, <1>7, <1>8 DEF Aux!Next

LEMMA AuxInvReal ==
  ASSUME Aux!AuxConstants, Aux!AuxInv
  PROVE  Aux!ActiveLoginIsReal /\ Aux!TypeOK
<1>1. ASSUME Aux!Quiet, NEW a \in v6.active \ v7, a \notin v6.jobs
      PROVE  \/ v1.kind = "login" /\ v1.account = a
             \/ Aux!Request("login", a, FALSE) \in v2
  <2>1. a = v6.live /\ a # NoUser
    BY <1>1 DEF Aux!AuxInv, Aux!ValuesOK, Aux!Desks, Aux!MarksAreKnown,
       Aux!AuxConstants
  <2>2. Aux!InFlight(a)
    BY <1>1, <2>1 DEF Aux!AuxInv, Aux!LiveIsInFlight
  <2>3. ~Aux!Waiting(v10, a)
    BY <1>1 DEF Aux!Waiting, Aux!Quiet
  <2> QED
    BY <2>2, <2>3 DEF Aux!InFlight, Aux!LoginOf, Aux!Request
<1>2. Aux!TypeOK
  <2>1. Aux!QueuesOK /\ Aux!AgendaOK /\ v6 \in Aux!Desks
    BY DEF Aux!AuxInv, Aux!ValuesOK
  <2>2. v1.account \in Users \cup {NoUser} /\ Aux!Cardinality(v2) <= MaxDeferred
    BY <2>1 DEF Aux!AgendaOK, Aux!Requests
  <2>3. /\ v6.jobs \subseteq Users /\ v6.active \subseteq Users
        /\ v6.resume \subseteq Users /\ v6.deleting \subseteq Users
        /\ {v6.live, v6.polling, v6.command, v6.timer.account} \subseteq Users \cup {NoUser}
    BY <2>1 DEF Aux!Desks
  <2> QED
    BY <2>1, <2>2, <2>3 DEF Aux!TypeOK, Aux!QueuesOK
<1> QED
  BY <1>1, <1>2 DEF Aux!ActiveLoginIsReal

-----------------------------------------------------------------------------
(*****************************************************************************)
(* The types of the clients.                                               *)
(***************************************************************************)

\* The requests have numbers up to 6.
LEMMA FetchNumbers ==
  ASSUME NEW request \in Fetch!Talking, NEW second
  PROVE  Fetch!IdOf(request, second) \in 1 .. 6
  BY DEF Fetch!IdOf, Fetch!Talking

\* Where a fetch is has a name, whatever happens.
LEMMA FetchNamed ==
  ASSUME Fetch!Named, [Fetch!Next]_(Fetch!vars)
  PROVE  Fetch!Named'
<1> USE DEF Fetch!Named, Fetch!Talking
<1>1. CASE Fetch!Begin \/ Fetch!Context \/ Fetch!StartServer
  <2>1. /\ v11' \in {v11, "app-server", "direct"}
        /\ \/ Fetch!Fail("login_required") \/ Fetch!Go("context") \/ Fetch!Go("load")
           \/ Fetch!Go("start") \/ Fetch!Go("initialize")
    BY <1>1 DEF Fetch!Begin, Fetch!Context, Fetch!StartServer, Fetch!FallBack
  <2> QED
    BY <2>1 DEF Fetch!Fail, Fetch!Finish, Fetch!Go
<1>2. CASE Fetch!Answers \/ Fetch!Exits \/ Fetch!Switch
  BY <1>2 DEF Fetch!Answers, Fetch!Exits, Fetch!Switch
<1>3. CASE Fetch!Receive
  <2>1. /\ v11' \in {v11, "direct"}
        /\ \/ UNCHANGED <<v9, v21>> \/ Fetch!Fail("login_required") \/ Fetch!Fail("error")
           \/ Fetch!Go("account") \/ Fetch!Go("limits") \/ Fetch!Go("models")
           \/ Fetch!Go("reread") \/ Fetch!Go("load")
    BY <1>3 DEF Fetch!Receive, Fetch!TakeResult, Fetch!AuthError, Fetch!FallBack, Fetch!Ask
  <2> QED
    BY <2>1 DEF Fetch!Fail, Fetch!Finish, Fetch!Go
<1>4. CASE Fetch!TimeOut \/ Fetch!Compare
  BY <1>4 DEF Fetch!TimeOut, Fetch!Compare, Fetch!Fail, Fetch!Finish
<1>5. CASE Fetch!Load \/ Fetch!Sample
  BY <1>5 DEF Fetch!Load, Fetch!Sample, Fetch!Fail, Fetch!Finish, Fetch!Go
<1>6. CASE Fetch!Refused \/ Fetch!Check
  BY <1>6 DEF Fetch!Refused, Fetch!Check, Fetch!Fail, Fetch!Finish, Fetch!Go
<1>7. CASE UNCHANGED Fetch!vars
  BY <1>7 DEF Fetch!vars
<1> QED
  BY <1>1, <1>2, <1>3, <1>4, <1>5, <1>6, <1>7 DEF Fetch!Next

\* An answer that waits belongs to a request that is no longer worked on, or was
\* sent twice.
LEMMA FetchCounted ==
  ASSUME Fetch!FetchConstants, Fetch!FetchInv, Fetch!AnswersCounted, [Fetch!Next]_(Fetch!vars)
  PROVE  Fetch!AnswersCounted'
<1>0. MaxRepeats \in Nat /\ v18 \in Seq(Fetch!Messages) /\ Len(v18) \in Nat
  BY DEF Fetch!FetchConstants, Fetch!FetchInv, Fetch!ValuesOK
<1>1. CASE \/ Fetch!Begin \/ Fetch!Context \/ Fetch!Compare \/ Fetch!Load \/ Fetch!Sample
           \/ Fetch!Refused \/ Fetch!Check \/ Fetch!Switch \/ UNCHANGED Fetch!vars
  <2>1. UNCHANGED <<v17, v18, v19>>
    BY <1>1 DEF Fetch!Begin, Fetch!Context, Fetch!Compare, Fetch!Load, Fetch!Sample,
       Fetch!Refused, Fetch!Check, Fetch!Switch, Fetch!vars, Fetch!serverVars
  <2> QED
    BY <2>1 DEF Fetch!AnswersCounted
<1>2. ASSUME v18' = <<>>, v17' \in 0 .. 6, v19' = v19
      PROVE  Fetch!AnswersCounted'
  BY <1>2 DEF Fetch!AnswersCounted
<1>3. CASE Fetch!StartServer \/ Fetch!TimeOut
  BY <1>2, <1>3 DEF Fetch!StartServer, Fetch!TimeOut, Fetch!FallBack, Fetch!StopServer
<1>4. CASE Fetch!Answers
  <2>1. PICK extra \in 0 .. (MaxRepeats - v19), kind \in Fetch!Kinds :
          /\ v19' = v19 + extra /\ v17 # 0 /\ v17' = 0
          /\ v18' = v18 \o [i \in 1 .. (1 + extra) |-> [id |-> v17, kind |-> kind, of |-> v16']]
    BY <1>4 DEF Fetch!Answers, Fetch!Kinds
  <2> DEFINE more == [i \in 1 .. (1 + extra) |-> [id |-> v17, kind |-> kind, of |-> v16']]
  <2>2. extra \in Nat /\ v19 \in 0 .. MaxRepeats /\ v19 + extra \in 0 .. MaxRepeats
    BY <1>0 DEF Fetch!AnswersCounted
  <2>3. Len(v18) <= v19
    BY <2>1 DEF Fetch!AnswersCounted
  <2>4. more \in Seq({[id |-> v17, kind |-> kind, of |-> v16']}) /\ Len(more) = 1 + extra
    BY <2>2
  <2> HIDE DEF more
  <2>5. Len(v18') = Len(v18) + Len(more)
    BY <1>0, <2>1, <2>4 DEF more
  <2> QED
    BY <1>0, <2>1, <2>2, <2>3, <2>4, <2>5 DEF Fetch!AnswersCounted
<1>5. CASE Fetch!Exits
  <2>1. Len(v18') = Len(v18) + 1
    BY <1>0, <1>5 DEF Fetch!Exits
  <2> QED
    BY <1>0, <1>5, <2>1 DEF Fetch!Exits, Fetch!AnswersCounted
<1>6. CASE Fetch!Receive
  <2>1. v18 # <<>> /\ v19' = v19 /\ v9 \in Fetch!Talking
    BY <1>6 DEF Fetch!Receive, Fetch!FallBack, Fetch!StopServer
  <2>2. ASSUME v18' = Tail(v18), v17' \in 0 .. 6
        PROVE  Fetch!AnswersCounted'
    <3>1. Len(v18') = Len(v18) - 1
      BY <1>0, <2>1, <2>2
    <3> QED
      BY <1>0, <2>1, <2>2, <3>1 DEF Fetch!AnswersCounted
  <2>3. ASSUME NEW request \in Fetch!Talking, Fetch!Ask(request)
        PROVE  v17' \in 1 .. 6
    BY <2>3, FetchNumbers DEF Fetch!Ask
  <2>4. \/ v18' \in {<<>>, Tail(v18)} /\ v17' = v17
        \/ v18' \in {<<>>, Tail(v18)} /\ v17' = 0
        \/ /\ v18' \in {<<>>, Tail(v18)}
           /\ Fetch!Ask("account") \/ Fetch!Ask("limits") \/ Fetch!Ask("models")
    BY <1>6 DEF Fetch!Receive, Fetch!TakeResult, Fetch!AuthError, Fetch!FallBack,
       Fetch!StopServer, Fetch!Talking
  <2>5. {"account", "limits", "models"} \subseteq Fetch!Talking
    BY DEF Fetch!Talking
  <2>6. v17' \in 0 .. 6
    BY <2>3, <2>4, <2>5 DEF Fetch!AnswersCounted
  <2> QED
    BY <1>2, <2>1, <2>2, <2>4, <2>6
<1> QED
  BY <1>1, <1>3, <1>4, <1>5, <1>6 DEF Fetch!Next

\* At first nothing has been asked.
LEMMA FetchCountedInit ==
  ASSUME Fetch!FetchConstants, Fetch!Init
  PROVE  Fetch!AnswersCounted /\ Fetch!Named
  BY DEF Fetch!FetchConstants, Fetch!Init, Fetch!AnswersCounted, Fetch!Named

\* The types of a fetch.
LEMMA FetchInvTypes ==
  ASSUME Fetch!FetchConstants, Fetch!FetchInv, Fetch!AnswersCounted, Fetch!Named
  PROVE  Fetch!TypeOK
<1>1. Len(v18) <= MaxRepeats + 1
  BY DEF Fetch!FetchConstants, Fetch!AnswersCounted, Fetch!FetchInv, Fetch!ValuesOK
<1> QED
  BY <1>1 DEF Fetch!TypeOK, Fetch!FetchInv, Fetch!ValuesOK, Fetch!AuthFiles,
     Fetch!AnswersCounted, Fetch!Named

\* masterjet_client.py: the codes of the calls, their processes and the reaper.
LEMMA CallTypes ==
  ASSUME Call!CallInv, Call!CallInv', Call!TypeOK, [Call!Next]_(Call!vars)
  PROVE  Call!TypeOK'
<1> DEFINE Rest ==
             /\ v2 \in [Callers -> 0 .. 1] /\ v4 \subseteq Callers
             /\ v5 \in [Callers -> {"none", "timeout", "unavailable", "problem", "answered",
                                    "invalid"}]
             /\ v7 \in 0 .. MaxLookups /\ v9 \in 0 .. MaxWorkers
             /\ v10 \in {"unborn", "asleep", "clear", "round", "reap", "nap"}
<1>1. v9 \in Nat /\ v9' \in Nat
  BY DEF Call!CallInv, Call!ValuesOK
<1>2. Rest'
  <2>1. ASSUME NEW c \in Callers, Call!Begin(c)
        PROVE  Rest'
    BY <2>1, ClientBounds, <1>1 DEF Call!TypeOK, Call!Begin, Call!Code,
       Call!poolVars, Call!reapVars
  <2>2. ASSUME NEW c \in Callers, Call!LocalExchange(c)
        PROVE  Rest'
    BY <2>2, ClientBounds, <1>1 DEF Call!TypeOK, Call!LocalExchange, Call!End,
       Call!poolVars, Call!reapVars, Call!Code
  <2>3. ASSUME NEW c \in Callers, Call!Decode(c)
        PROVE  Rest'
    BY <2>3, ClientBounds, <1>1 DEF Call!TypeOK, Call!Decode, Call!Code,
       Call!poolVars, Call!reapVars
  <2>4. ASSUME NEW c \in Callers, Call!Expire(c)
        PROVE  Rest'
    BY <2>4, ClientBounds, <1>1 DEF Call!TypeOK, Call!Expire, Call!poolVars,
       Call!reapVars
  <2>5. ASSUME NEW c \in Callers, Call!Reserve(c)
        PROVE  Rest'
    BY <2>5, ClientBounds, <1>1 DEF Call!TypeOK, Call!Reserve
  <2>6. ASSUME NEW c \in Callers, Call!ReserveFails(c)
        PROVE  Rest'
    BY <2>6, ClientBounds, <1>1 DEF Call!TypeOK, Call!ReserveFails, Call!End,
       Call!poolVars, Call!reapVars, Call!Code
  <2>7. ASSUME NEW c \in Callers, Call!Spawn(c)
        PROVE  Rest'
    BY <2>7, ClientBounds, <1>1 DEF Call!TypeOK, Call!Spawn, Call!Code,
       Call!poolVars, Call!reapVars
  <2>8. ASSUME NEW c \in Callers, Call!NoProcess(c)
        PROVE  Rest'
    BY <2>8, ClientBounds, <1>1 DEF Call!TypeOK, Call!NoProcess, Call!Code,
       Call!poolVars, Call!reapVars
  <2>9. ASSUME NEW c \in Callers, Call!Poll(c)
        PROVE  Rest'
    BY <2>9, ClientBounds, <1>1 DEF Call!TypeOK, Call!Poll, Call!Code,
       Call!poolVars, Call!reapVars
  <2>10. ASSUME NEW c \in Callers, Call!Stop(c)
        PROVE  Rest'
    BY <2>10, ClientBounds, <1>1 DEF Call!TypeOK, Call!Stop, Call!Code,
       Call!poolVars, Call!reapVars
  <2>11. ASSUME NEW c \in Callers, Call!Release(c)
        PROVE  Rest'
    BY <2>11, ClientBounds, <1>1 DEF Call!TypeOK, Call!Release, Call!Resolved,
       Call!reapVars, Call!End, Call!Code
  <2>12. ASSUME NEW c \in Callers, Call!Defer(c)
        PROVE  Rest'
    BY <2>12, ClientBounds, <1>1 DEF Call!TypeOK, Call!Defer, Call!Resolved,
       Call!End, Call!Code
  <2>13. ASSUME NEW c \in Callers, Call!Connect(c)
        PROVE  Rest'
    BY <2>13, ClientBounds, <1>1 DEF Call!TypeOK, Call!Connect, Call!End,
       Call!poolVars, Call!reapVars, Call!Code
  <2>14. ASSUME NEW c \in Callers, Call!Exchange(c)
        PROVE  Rest'
    BY <2>14, ClientBounds, <1>1 DEF Call!TypeOK, Call!Exchange, Call!End,
       Call!poolVars, Call!reapVars, Call!Code
  <2>15. ASSUME NEW p \in Call!Lookups, Call!Exit(p)
        PROVE  Rest'
    BY <2>15, ClientBounds, <1>1 DEF Call!TypeOK, Call!Exit, Call!callVars,
       Call!poolVars, Call!reapVars
  <2>16. ASSUME NEW p \in Call!Lookups, Call!Reap(p)
        PROVE  Rest'
    BY <2>16, ClientBounds, <1>1 DEF Call!TypeOK, Call!Reap, Call!poolVars,
       Call!ReaperMoves, Call!callVars
  <2>17. CASE Call!Wake
    BY <2>17, ClientBounds, <1>1 DEF Call!TypeOK, Call!Wake, Call!ReaperMoves,
       Call!poolVars, Call!callVars
  <2>18. CASE Call!Nap
    BY <2>18, ClientBounds, <1>1 DEF Call!TypeOK, Call!Nap, Call!ReaperMoves,
       Call!poolVars, Call!callVars
  <2>19. CASE Call!Clear
    BY <2>19, ClientBounds, <1>1 DEF Call!TypeOK, Call!Clear, Call!ReaperMoves,
       Call!poolVars, Call!callVars
  <2>20. CASE Call!Round
    BY <2>20, ClientBounds, <1>1 DEF Call!TypeOK, Call!Round, Call!ReaperMoves,
       Call!poolVars, Call!callVars
  <2>21. CASE Call!RoundEnds
    BY <2>21, ClientBounds, <1>1 DEF Call!TypeOK, Call!RoundEnds, Call!ReaperMoves,
       Call!poolVars, Call!callVars
  <2>22. CASE UNCHANGED Call!vars
    BY <2>22, ClientBounds, <1>1 DEF Call!TypeOK, Call!vars
  <2> QED
    BY <2>1, <2>2, <2>3, <2>4, <2>5, <2>6, <2>7, <2>8, <2>9, <2>10, <2>11, <2>12,
       <2>13, <2>14, <2>15, <2>16, <2>17, <2>18, <2>19, <2>20, <2>21, <2>22 DEF Call!Next
<1> QED
  BY <1>2, ClientBounds DEF Call!CallInv, Call!ValuesOK, Call!BatchWaits, Call!Lookups,
     Call!None, Call!TypeOK

\* The bound of the failures is kept.
LEMMA CacheFailures ==
  ASSUME v9 \in 0 .. MaxFailures, Cache!Fault \/ Cache!NoFault
  PROVE  v9' \in 0 .. MaxFailures
  BY ClientBounds DEF Cache!Fault, Cache!NoFault

\* masterjet_cache.py: what was found, what is due and what is reported.
LEMMA CacheTypes ==
  ASSUME Cache!CacheInv, Cache!CacheInv', Cache!TypeOK, [Cache!Next]_(Cache!vars)
  PROVE  Cache!TypeOK'
<1> DEFINE Rest ==
             /\ v5 \in Cache!Files \cup {NoSnapshot}
             /\ v7 \subseteq 0 .. MaxSaves \cup {NoSnapshot}
             /\ v8 \in {"none", "read", "missing", "invalid", "failed", "saved"}
             /\ v9 \in 0 .. MaxFailures
<1>1. /\ v1' \in Cache!Folder /\ v2' \subseteq Cache!Folder /\ v1' \in v2'
      /\ v4' \in 0 .. MaxSaves /\ v6' \in 0 .. MaxSaves
  BY DEF Cache!CacheInv, Cache!ValuesOK
<1>2. Rest'
  <2>1. CASE Cache!BeginSave
    BY <2>1, CacheFailures, <1>1 DEF Cache!TypeOK, Cache!BeginSave
  <2>2. CASE Cache!BeginLoad
    BY <2>2, CacheFailures DEF Cache!TypeOK, Cache!BeginLoad
  <2>3. CASE Cache!DropTemp
    BY <2>3, CacheFailures DEF Cache!TypeOK, Cache!DropTemp, Cache!Goto,
       Cache!Return
  <2>4. CASE Cache!SyncStale
    BY <2>4, CacheFailures DEF Cache!TypeOK, Cache!SyncStale, Cache!Goto,
       Cache!Return
  <2>5. CASE Cache!NoRollback
    BY <2>5, CacheFailures DEF Cache!TypeOK, Cache!NoRollback, Cache!Goto
  <2>6. CASE Cache!DropRollback
    BY <2>6, CacheFailures DEF Cache!TypeOK, Cache!DropRollback, Cache!Goto,
       Cache!Return
  <2>7. CASE Cache!RefuseRollback
    BY <2>7, CacheFailures DEF Cache!TypeOK, Cache!RefuseRollback, Cache!Return
  <2>8. CASE Cache!LinkRollback
    BY <2>8, CacheFailures DEF Cache!TypeOK, Cache!LinkRollback, Cache!Goto,
       Cache!Return
  <2>9. CASE Cache!SyncRollback
    BY <2>9, CacheFailures DEF Cache!TypeOK, Cache!SyncRollback, Cache!Goto,
       Cache!Return
  <2>10. CASE Cache!Read
    BY <2>10, CacheFailures DEF Cache!TypeOK, Cache!Read, Cache!Return, Cache!Folder
  <2>11. CASE Cache!ReadExisting
    BY <2>11, CacheFailures DEF Cache!TypeOK, Cache!ReadExisting, Cache!Return,
       Cache!Folder
  <2>12. CASE Cache!CreateTemp
    BY <2>12, CacheFailures DEF Cache!TypeOK, Cache!CreateTemp, Cache!Goto,
       Cache!Fail, Cache!Return
  <2>13. CASE Cache!WriteTemp
    BY <2>13, CacheFailures DEF Cache!TypeOK, Cache!WriteTemp, Cache!Goto,
       Cache!Fail, Cache!Return
  <2>14. CASE Cache!SyncTemp
    BY <2>14, CacheFailures DEF Cache!TypeOK, Cache!SyncTemp, Cache!Goto,
       Cache!Fail, Cache!Return
  <2>15. CASE Cache!Publish
    BY <2>15, CacheFailures DEF Cache!TypeOK, Cache!Publish, Cache!Goto, Cache!Fail,
       Cache!Return
  <2>16. CASE Cache!UnlinkTemp
    BY <2>16, CacheFailures DEF Cache!TypeOK, Cache!UnlinkTemp, Cache!Goto,
       Cache!Fail, Cache!Return
  <2>17. CASE Cache!SyncUnlink
    BY <2>17, CacheFailures DEF Cache!TypeOK, Cache!SyncUnlink, Cache!Goto,
       Cache!Fail, Cache!Return
  <2>18. CASE Cache!SyncPublished
    BY <2>18, CacheFailures DEF Cache!TypeOK, Cache!SyncPublished, Cache!Succeed,
       Cache!Fail, Cache!Goto, Cache!Return
  <2>19. CASE Cache!RemoveTemp
    BY <2>19, CacheFailures DEF Cache!TypeOK, Cache!RemoveTemp, Cache!Return
  <2>20. CASE Cache!LeaveTemp
    BY <2>20, CacheFailures DEF Cache!TypeOK, Cache!LeaveTemp, Cache!Return
  <2>21. CASE Cache!Die
    BY <2>21, CacheFailures DEF Cache!TypeOK, Cache!Die, Cache!Return
  <2>22. CASE Cache!PowerLoss
    BY <2>22, CacheFailures DEF Cache!TypeOK, Cache!PowerLoss, Cache!Return
  <2>23. CASE UNCHANGED Cache!vars
    BY <2>23, CacheFailures DEF Cache!TypeOK, Cache!vars
  <2> QED
    BY <2>1, <2>2, <2>3, <2>4, <2>5, <2>6, <2>7, <2>8, <2>9, <2>10, <2>11, <2>12,
       <2>13, <2>14, <2>15, <2>16, <2>17, <2>18, <2>19, <2>20, <2>21, <2>22, <2>23 DEF Cache!Next
<1> QED
  BY <1>1, <1>2 DEF Cache!TypeOK

\* applet.js: the types are part of what is shown of a login.
LEMMA AuxInvTypes == Aux!AuxInv => Aux!TypeOK
  BY DEF Aux!AuxInv, Aux!ValuesOK, Aux!AgendaOK, Aux!QueuesOK, Aux!Desks, Aux!Requests,
     Aux!TypeOK

\* A sample more, or a choice among them, keeps the types.
LEMMA ChoiceTypes ==
  ASSUME Choice!SampleConstants, Choice!SampleInv, Choice!TypeOK, [Choice!Next]_(Choice!vars)
  PROVE  Choice!TypeOK'
<1> USE DEF Choice!SampleConstants, Choice!SampleInv, Choice!TypeOK
<1>1. CASE Choice!Sample
  <2>1. PICK a : v4' = Append(v4, a)
    BY <1>1 DEF Choice!Sample
  <2>2. Len(v4') = Len(v4) + 1 /\ Len(v4) < Samples /\ v6 = Choice!Nothing
    BY <1>1, <2>1 DEF Choice!Sample
  <2> QED
    BY <1>1, <2>2 DEF Choice!Sample
<1>2. CASE Choice!Choose
  <2>1. Len(v4) \in 1 .. 4 /\ v6 = Choice!Nothing
    BY <1>2 DEF Choice!Choose
  <2>2. CASE Choice!Select(v4) # 0 /\ v6' = v4[Choice!Select(v4)] /\ UNCHANGED <<v4, v5>>
    BY <2>1, <2>2, SelectIsCurrent
  <2>3. CASE v5 <= Attempts /\ v5' = v5 + 1 /\ v4' = Choice!NoBatch /\ UNCHANGED v6
    BY <2>1, <2>3, ClientBounds DEF Choice!NoBatch
  <2> QED
    BY <1>2, <2>2, <2>3 DEF Choice!Choose
<1>3. CASE Choice!Move
  BY <1>3 DEF Choice!Move
<1>4. CASE UNCHANGED Choice!vars
  BY <1>4 DEF Choice!vars
<1> QED
  BY <1>1, <1>2, <1>3, <1>4 DEF Choice!Next

\* A timer that is made is the last one, and runs.
LEMMA GoogleScheduleTypes ==
  ASSUME Google!TimersOK, Google!TypeOK, v9' \subseteq v9,
         NEW transaction \in Nat, Google!Schedule(transaction)
  PROVE  /\ v3' \in 0 .. Len(v7') /\ v8' \cup v9' \subseteq 1 .. Len(v7')
         /\ v8' \cap v9' = {}
<1>1. Len(v7') = Len(v7) + 1 /\ Len(v7) \in Nat
  BY DEF Google!TimersOK, Google!Schedule
<1> QED
  BY <1>1 DEF Google!TypeOK, Google!Schedule

\* Closing a listener keeps the types.
LEMMA GoogleCloseTypes ==
  ASSUME Google!TimersOK, Google!TypeOK, v9' \subseteq v9, Google!CloseActive
  PROVE  Google!TypeOK'
<1>0. MaxTries \in Nat /\ MaxRounds \in Nat /\ Len(v7) \in Nat
  BY ClientBounds DEF Google!TimersOK
<1>1. CASE Google!Release
  <2>1. v3' \in 0 .. Len(v7') /\ v4' \in 0 .. MaxTries /\ {v1', v2'} \subseteq 0 .. MaxRounds
    BY <1>0, <1>1 DEF Google!Release, Google!None
  <2>2. /\ v10' \subseteq 1 .. MaxRounds /\ v8' \cup v9' \subseteq 1 .. Len(v7')
        /\ v8' \cap v9' = {}
    BY <1>1 DEF Google!TypeOK, Google!Release
  <2> QED
    BY <2>1, <2>2 DEF Google!TypeOK
<1>2. CASE Google!Quarantine
  <2>1. v3' \in 0 .. Len(v7') /\ v4' \in 0 .. MaxTries
    BY <1>0, <1>2 DEF Google!Quarantine, Google!None
  <2>2. /\ {v1', v2'} \subseteq 0 .. MaxRounds /\ v10' \subseteq 1 .. MaxRounds
        /\ v8' \cup v9' \subseteq 1 .. Len(v7') /\ v8' \cap v9' = {}
    BY <1>2 DEF Google!TypeOK, Google!Quarantine
  <2> QED
    BY <2>1, <2>2 DEF Google!TypeOK
<1>3. CASE v4 + 1 < MaxTries /\ Google!Schedule(v2) /\ v4' = v4 + 1 /\ UNCHANGED <<v1, v2, v10>>
  <2>1. /\ v3' \in 0 .. Len(v7') /\ v8' \cup v9' \subseteq 1 .. Len(v7')
        /\ v8' \cap v9' = {}
    BY <1>3, GoogleScheduleTypes DEF Google!TimersOK
  <2> QED
    BY <1>3, <2>1, ClientBounds DEF Google!TypeOK
<1> QED
  BY <1>1, <1>2, <1>3 DEF Google!CloseActive, Google!WithoutTimer

\* The logins are counted, and everything bears one of their numbers.
LEMMA GoogleTypes ==
  ASSUME Google!GoogleInv, Google!TypeOK, v14 \in 0 .. MaxRounds, [Google!Next]_(Google!vars)
  PROVE  Google!TypeOK' /\ v14' \in 0 .. MaxRounds
<1>0. Google!TimersOK /\ (v11 # "idle" => v14 \in 1 .. MaxRounds)
  BY ClientBounds DEF Google!GoogleInv, Google!ValuesOK, Google!FlowKnows
<1>1. CASE Google!Begin
  BY <1>1, ClientBounds DEF Google!TypeOK, Google!Begin, Google!leaseVars
<1>2. CASE Google!Acquire
  <2>1. v14 \in 1 .. MaxRounds /\ v4' \in 0 .. MaxTries /\ UNCHANGED <<v3, v7, v8, v9, v2, v14>>
    BY <1>0, <1>2, ClientBounds DEF Google!TypeOK, Google!Acquire, Google!flowVars
  <2>2. v1' \in {v1, v14} /\ v10' \subseteq v10 \cup {v14}
    BY <1>2 DEF Google!Acquire
  <2> QED
    BY <2>1, <2>2 DEF Google!TypeOK
<1>3. CASE Google!Transact
  <2>1. CASE v2' = v14 /\ Google!Schedule(v14)
    <3>1. /\ v3' \in 0 .. Len(v7') /\ v8' \cup v9' \subseteq 1 .. Len(v7')
          /\ v8' \cap v9' = {}
      BY <1>0, <1>3, <2>1, GoogleScheduleTypes DEF Google!Transact
    <3> QED
      BY <1>3, <2>1, <3>1 DEF Google!TypeOK, Google!Transact, Google!flowVars
  <2>2. CASE v2' \in {v2, v14} /\ UNCHANGED <<v7, v3, v8>>
    BY <1>3, <2>2 DEF Google!TypeOK, Google!Transact, Google!flowVars
  <2> QED
    BY <1>3, <2>1, <2>2 DEF Google!Transact
<1>4. CASE Google!OpenBrowser \/ Google!Receive \/ Google!Upload
  BY <1>4 DEF Google!TypeOK, Google!OpenBrowser, Google!Receive, Google!Upload,
     Google!leaseVars, Google!flowVars
<1>5. CASE Google!End
  <2>1. CASE v1 # 0
    BY <1>0, <1>5, <2>1, GoogleCloseTypes DEF Google!End, Google!None
  <2>2. CASE v1 = 0
    BY <1>5, <2>2 DEF Google!TypeOK, Google!End, Google!None, Google!leaseVars
  <2> QED
    BY <1>5, <2>1, <2>2 DEF Google!End
<1>6. ASSUME NEW t \in 1 .. Len(v7), Google!Fires(t)
      PROVE  Google!TypeOK' /\ v14' \in 0 .. MaxRounds
  BY <1>6 DEF Google!TypeOK, Google!Fires, Google!flowVars
<1>7. ASSUME NEW t \in 1 .. Len(v7), Google!Expire(t)
      PROVE  Google!TypeOK' /\ v14' \in 0 .. MaxRounds
  <2>1. CASE Google!CloseActive
    BY <1>0, <1>7, <2>1, GoogleCloseTypes DEF Google!Expire, Google!flowVars
  <2>2. CASE UNCHANGED Google!leaseVars
    BY <1>7, <2>2 DEF Google!TypeOK, Google!Expire, Google!leaseVars, Google!flowVars
  <2> QED
    BY <1>7, <2>1, <2>2 DEF Google!Expire
<1>8. CASE UNCHANGED Google!vars
  BY <1>8 DEF Google!TypeOK, Google!vars
<1> QED
  BY <1>1, <1>2, <1>3, <1>4, <1>5, <1>6, <1>7, <1>8 DEF Google!Next

\* The types hold at first.
LEMMA ClientTypesInit ==
  /\ Call!Init => Call!TypeOK
  /\ Cache!Init => Cache!TypeOK
  /\ Choice!Init => Choice!TypeOK
  /\ Google!Init => Google!TypeOK /\ v14 \in 0 .. MaxRounds
<1>1. ASSUME Call!Init PROVE Call!TypeOK
  <2>1. v11 \in BOOLEAN /\ v4 = {} /\ v6 = {} /\ v8 = {} /\ v12 = {}
    BY <1>1 DEF Call!Init
  <2>2. v7 \in 0 .. MaxLookups /\ v9 \in 0 .. MaxWorkers /\ v10 = "unborn"
    BY <1>1, ClientBounds DEF Call!Init
  <2>3. /\ v1 \in [Callers -> {"idle"}] /\ v2 \in [Callers -> {0}]
        /\ v3 \in [Callers -> {Call!None}] /\ v5 \in [Callers -> {"none"}]
    BY <1>1 DEF Call!Init
  <2> QED
    BY <2>1, <2>2, <2>3 DEF Call!TypeOK
<1>2. ASSUME Cache!Init PROVE Cache!TypeOK
  <2>1. Cache!CacheInv
    BY <1>2, CacheAssumption, CacheInvInit
  <2> QED
    BY <1>2, <2>1, ClientBounds, CacheAssumption
    DEF Cache!Init, Cache!TypeOK, Cache!CacheInv, Cache!ValuesOK, Cache!CacheConstants
<1>3. ASSUME Choice!Init PROVE Choice!TypeOK
  BY <1>3, ClientBounds, ChoiceAssumption
  DEF Choice!Init, Choice!TypeOK, Choice!NoBatch, Choice!SampleConstants
<1>4. ASSUME Google!Init PROVE Google!TypeOK /\ v14 \in 0 .. MaxRounds
  BY <1>4, ClientBounds DEF Google!Init, Google!TypeOK, Google!None
<1> QED
  BY <1>1, <1>2, <1>3, <1>4
=============================================================================

---------------------------- MODULE GoogleLogin ----------------------------
(***************************************************************************)
(* The Google login of the control service (google_accounts.py,            *)
(* GoogleAccountsController._oauth_authorize, google_oauth_loopback.py).   *)
(*                                                                         *)
(* A login opens a listener on this machine, begins a transaction, starts  *)
(* a browser, waits for the callback, hands the code it brings to the      *)
(* service and ends the transaction.  At the end the code is wiped, and    *)
(* the browser and the listener are closed.  A listener that cannot be     *)
(* closed is tried again by timers, and after the last try the controller  *)
(* refuses everything that changes something.  A browser that cannot be    *)
(* killed is left: its failure is swallowed and nobody tries again.        *)
(*                                                                         *)
(* The lock is held for the whole of a login; the timers take it too, and  *)
(* a timer that has fired can no longer be cancelled.  The steps that run  *)
(* under the lock are atomic for the other threads, so closing is one      *)
(* step.  External: the service, the browser, the timers' threads.         *)
(***************************************************************************)
EXTENDS Naturals, Sequences

CONSTANTS MaxTries,      \* _CALLBACK_CLOSE_MAX_ATTEMPTS
          MaxRounds      \* bound: logins

VARIABLES
  lease, deal, present,  \* _callback_lease, _callback_transaction, _callback_timer
  closes, cleanup,       \* _callback_close_attempts, _callback_cleanup_failed
  mutex,                 \* _callback_lock is held
  timers,                \* the timers made: the lease and transaction of each
  armed, fired,          \* those that run, those that wait for the lock
  opened,                \* listeners that are open
  flow,                  \* where the login is
  browserOpen,           \* a browser of this login, or left by an earlier one, runs
  codeHeld,              \* it holds the code
  rounds                 \* number of logins so far

leaseVars == <<lease, deal, present, closes, cleanup, timers, armed, opened>>
flowVars  == <<browserOpen, codeHeld, rounds>>
vars == <<lease, deal, present, closes, cleanup, mutex, timers, armed, fired, opened,
          flow, browserOpen, codeHeld, rounds>>

None == 0

Init ==
  /\ lease = None /\ deal = None /\ present = None /\ closes = 0 /\ cleanup = FALSE
  /\ mutex = FALSE /\ timers = <<>> /\ armed = {} /\ fired = {} /\ opened = {}
  /\ flow = "idle" /\ browserOpen = FALSE /\ codeHeld = FALSE /\ rounds = 0

Go(to) == flow' = to

(***************************************************************************)
(* The timers and the closing of the listener.                             *)
(***************************************************************************)
\* _schedule_callback_timer, when the thread starts: the old timer is cancelled.
Schedule(transaction) ==
  /\ timers' = Append(timers, <<lease, transaction>>)
  /\ present' = Len(timers')
  /\ armed' = (armed \ {present}) \union {Len(timers')}

\* _release_callback
Release ==
  /\ opened' = opened \ {lease} /\ armed' = armed \ {present}
  /\ lease' = None /\ deal' = None /\ present' = None
  /\ closes' = 0 /\ cleanup' = FALSE /\ UNCHANGED timers

\* _quarantine_callback
Quarantine ==
  /\ armed' = armed \ {present} /\ present' = None /\ cleanup' = TRUE
  /\ closes' = MaxTries /\ UNCHANGED <<lease, deal, timers, opened>>

\* _close_callback_synchronously: all tries at once.
WithoutTimer == Release \/ Quarantine

\* _close_active_callback: closed, given up, tried again later or at once.  (It
\* is never reached again after it has given up.)
CloseActive ==
  \/ Release
  \/ closes + 1 >= MaxTries /\ Quarantine
  \/ /\ closes + 1 < MaxTries
     /\ \/ Schedule(deal) /\ closes' = closes + 1 /\ UNCHANGED <<lease, deal, cleanup, opened>>
        \/ WithoutTimer

Fires(t) ==
  /\ t \in armed
  /\ armed' = armed \ {t} /\ fired' = fired \union {t}
  /\ UNCHANGED <<lease, deal, present, closes, cleanup, mutex, timers, opened, flow, flowVars>>

\* _expire_callback: only for the timer, the lease and the transaction of now.
Expire(t) ==
  /\ t \in fired /\ ~mutex
  /\ fired' = fired \ {t}
  /\ IF t = present /\ timers[t] = <<lease, deal>> THEN CloseActive ELSE UNCHANGED leaseVars
  /\ UNCHANGED <<mutex, flow, flowVars>>

(***************************************************************************)
(* A login.                                                                *)
(***************************************************************************)
\* _require_mutation_allowed
Allowed == ~cleanup /\ closes = 0

Begin ==
  /\ flow = "idle" /\ ~mutex /\ rounds < MaxRounds
  /\ rounds' = rounds + 1
  /\ \/ Allowed /\ lease = None /\ mutex' = TRUE /\ Go("acquire")
     \/ ~(Allowed /\ lease = None) /\ UNCHANGED <<mutex, flow>>
  /\ UNCHANGED <<leaseVars, fired, browserOpen, codeHeld>>

\* LoopbackOAuthCallbackProvider.acquire
Acquire ==
  /\ flow = "acquire"
  /\ \/ /\ lease' = rounds /\ opened' = opened \union {rounds} /\ closes' = 0
        /\ Go("begin")
     \/ Go("end") /\ UNCHANGED <<lease, opened, closes>>
  /\ UNCHANGED <<deal, present, cleanup, mutex, timers, armed, fired, flowVars>>

\* google.oauth.begin, and a timer for the life of the transaction.
Transact ==
  /\ flow = "begin"
  /\ \/ /\ deal' = rounds /\ Schedule(rounds) /\ Go("browser")
     \/ deal' = rounds /\ Go("end") /\ UNCHANGED <<timers, present, armed>>
     \/ Go("end") /\ UNCHANGED <<deal, timers, present, armed>>
  /\ UNCHANGED <<lease, closes, cleanup, mutex, fired, opened, flowVars>>

\* prepare_authorization and GoogleOAuthBrowserLauncher.open
OpenBrowser ==
  /\ flow = "browser"
  /\ \/ browserOpen' = TRUE /\ Go("receive")
     \/ Go("end") /\ UNCHANGED browserOpen
  /\ UNCHANGED <<leaseVars, mutex, fired, codeHeld, rounds>>

\* LoopbackOAuthCallbackLease.receive: a code, a refused request or a timeout.
Receive ==
  /\ flow = "receive"
  /\ \/ codeHeld' = TRUE /\ Go("upload")
     \/ Go("end") /\ UNCHANGED codeHeld
  /\ UNCHANGED <<leaseVars, mutex, fired, browserOpen, rounds>>

\* secret.ingress.create, put_secret and google.oauth.complete, or a failure.
Upload ==
  /\ flow = "upload" /\ Go("end")
  /\ UNCHANGED <<leaseVars, mutex, fired, flowVars>>

\* The finally block.
End ==
  /\ flow = "end" /\ Go("idle") /\ mutex' = FALSE
  /\ codeHeld' = FALSE /\ browserOpen' \in {FALSE, browserOpen}
  /\ IF lease # None THEN CloseActive ELSE UNCHANGED leaseVars
  /\ UNCHANGED <<fired, rounds>>

Next ==
  \/ Begin \/ Acquire \/ Transact \/ OpenBrowser \/ Receive \/ Upload \/ End
  \/ \E t \in 1..Len(timers) : Fires(t) \/ Expire(t)

Spec == Init /\ [][Next]_vars

(***************************************************************************)
(* Properties.                                                             *)
(***************************************************************************)
TypeOK ==
  /\ {lease, deal} \subseteq 0..MaxRounds /\ opened \subseteq 1..MaxRounds
  /\ closes \in 0..MaxTries /\ present \in 0..Len(timers)
  /\ armed \union fired \subseteq 1..Len(timers) /\ armed \intersect fired = {}

\* Outside a login a listener that is still open is the controller's own and
\* somebody will close it: a timer that runs or waits for the lock, made for this
\* very listener and transaction, or else the controller refuses every change
\* (google_accounts.py:475-545).  Of the browser the code promises nothing.
NoListenerIsLost ==
  ~mutex =>
    /\ opened \subseteq {lease}
    /\ lease # None =>
         \/ cleanup /\ ~Allowed
         \/ present \in armed \union fired /\ timers[present] = <<lease, deal>>
    /\ lease = None => Allowed
-----------------------------------------------------------------------------
(* What makes the property inductive *)

TimersOK == {lease, deal} \subseteq Nat /\ timers \in Seq(Nat \X Nat)
ValuesOK == TimersOK /\ rounds \in Nat /\ mutex \in BOOLEAN /\ (mutex <=> flow # "idle")

\* The timer that is present will close this listener.
TimerIsRight == present \in armed \union fired /\ timers[present] = <<lease, deal>>

\* A listener that is open is the one of the lease, and without a lease nothing is
\* left of it.
LeaseIsAll ==
  /\ opened \subseteq {lease}
  /\ lease = None => opened = {} /\ Allowed /\ present = None

\* A login has no listener before it is there; its number is above 0.
FlowKnows ==
  /\ flow = "acquire" => lease = None
  /\ flow = "begin" => lease # None
  /\ flow # "idle" => rounds > 0

\* Somebody will close the listener, or nothing else is allowed.
WillClose == lease # None => cleanup \/ TimerIsRight

\* Outside of a login.
Alone == flow = "idle" => WillClose

GoogleInv == ValuesOK /\ LeaseIsAll /\ FlowKnows /\ Alone
=============================================================================

------------------------------ MODULE MCClients ------------------------------
(***************************************************************************)
(* The parts of MCSystem that talk to somebody: the page and its bridge,   *)
(* the applet, the client of the control service, the watchdog, a fetch    *)
(* and its samples, and the Google login.                                  *)
(***************************************************************************)
EXTENDS MCPlaces

CONSTANTS
    MaxSends, MaxRequests, MaxFlushes, Clients, MaxConnections, MaxTokens,
    MaxUpsets, MaxAgenda, Users, NoUser, MaxDeferred, MaxQueries, MaxPlan,
    MaxAsked, NoSnapshot, MaxSaves, MaxFailures, Callers, MaxWorkers,
    MaxLookups, Generic, Attestation, Self, PublishTime, CleanupTime, Total,
    MaxInstallations, MaxSwitches, MaxRepeats, Samples, Attempts, Span,
    Margin, Jump, MaxUsed, MaxMoves, MaxOddities, MaxTries, MaxRounds

\* What MCClients_proofs takes from the bounds.
ASSUME ClientBounds == {MaxLookups, MaxWorkers, MaxFailures, Attempts, MaxTries, MaxRounds} \subseteq Nat

-----------------------------------------------------------------------------
\* The page of the extension.

Page == INSTANCE PageCapture WITH
    issued <- v1, least <- v2, caught <- v3, asked <- v4, flushes <- v5, wire <- v6,
    taken <- v7, waiter <- v8, sending <- v9, again <- v10, timer <- v11, halted <- v12,
    sends <- v13, payload <- v14

\* What MCClients_proofs takes from the constants.
ASSUME PageAssumption == Page!PageConstants

PageInit == part = "page" /\ Page!Init /\ Spare15
PageMoves == part = "page" /\ Page!Next /\ UNCHANGED part /\ Keep15

-----------------------------------------------------------------------------
\* The bridge server.

Bridge == INSTANCE BridgeServer WITH
    slots <- v1, link <- v2, sent <- v3, serving <- v4, issuedTo <- v5, minted <- v6,
    bundle <- v7, writer <- v8, fresh <- v9, ready <- v10, saved <- v11, stock <- v12,
    upsets <- v13

\* What MCClients_proofs takes from the constants.
ASSUME BridgeAssumption == Bridge!BridgeConstants

BridgeInit == part = "bridge" /\ Bridge!Init /\ Spare14
BridgeMoves == part = "bridge" /\ Bridge!Next /\ UNCHANGED part /\ Keep14

-----------------------------------------------------------------------------
\* The applet's fetches.

Refresh == INSTANCE AppletRefresh WITH
    request <- v1, after <- v2, refreshing <- v3, waits <- v4, health <- v5, internal <- v6,
    refused <- v7, circuit <- v8, owner <- v9, agenda <- v10

RefreshInit == part = "refresh" /\ Refresh!Init /\ Spare11
RefreshMoves == part = "refresh" /\ Refresh!Next /\ UNCHANGED part /\ Keep11

-----------------------------------------------------------------------------
\* The applet's other commands.

Aux == INSTANCE AppletAux WITH
    Nobody <- NoUser, running <- v1, deferred <- v2, edits <- v3, backends <- v4,
    queries <- v5, desk <- v6, forgotten <- v7, safeMode <- v8, asked <- v9, plan <- v10

\* What MCClients_proofs takes from the constants.
ASSUME AuxAssumption == Aux!AuxConstants

AuxInit == part = "aux" /\ Aux!Init /\ Spare11
AuxMoves == part = "aux" /\ Aux!Next /\ UNCHANGED part /\ Keep11

-----------------------------------------------------------------------------
\* The control client's cache.

Cache == INSTANCE ControlCache WITH
    folder <- v1, images <- v2, spot <- v3, saving <- v4, found <- v5, saves <- v6, due <- v7,
    outcome <- v8, broken <- v9

\* What MCClients_proofs takes from the constants.
ASSUME CacheAssumption == Cache!CacheConstants

CacheInit == part = "cache" /\ Cache!Init /\ Spare10
CacheMoves == part = "cache" /\ Cache!Next /\ UNCHANGED part /\ Keep10

-----------------------------------------------------------------------------
\* The control client's calls.

Call == INSTANCE ControlCall WITH
    Calls <- Callers, call <- v1, step <- v2, worker <- v3, late <- v4, code <- v5,
    alive <- v6, begun <- v7, pending <- v8, reserved <- v9, reaper <- v10, wake <- v11,
    batch <- v12

\* What MCClients_proofs takes from the constants.
ASSUME CallAssumption == Call!CallConstants

CallInit == part = "call" /\ Call!Init /\ Spare13
CallMoves == part = "call" /\ Call!Next /\ UNCHANGED part /\ Keep13

-----------------------------------------------------------------------------
\* The integration watchdog.

Watchdog == INSTANCE WatchdogStages WITH
    Publish <- PublishTime, Cleanup <- CleanupTime, now <- v1, deadline <- v2,
    form <- v3, stage <- v4, until <- v5, alarmed <- v6, leader <- v7, others <- v8,
    verdict <- v9, edition <- v10, seen <- v11, status <- v12, unguarded <- v13,
    installs <- v14

\* What MCClients_proofs takes from the constants.
ASSUME WatchdogAssumption == Watchdog!WatchdogConstants

WatchdogInit == part = "watchdog" /\ Watchdog!Init /\ Spare15
WatchdogMoves == part = "watchdog" /\ Watchdog!Next /\ UNCHANGED part /\ Keep15

-----------------------------------------------------------------------------
\* A fetch by app-server or direct.

\* Logins that fetch may find: two accounts of one user that their plans tell
\* apart, and one whose account is not known.
Login(account, plan) == [user |-> 1, account |-> account, plan |-> plan, email |-> 1]
FetchLogins == {Login(11, 7), Login(13, 8), Login(0, 7)}

Fetch == INSTANCE UsageFetch WITH
    Logins <- FetchLogins, login <- v1, token <- v2, life <- v3, neighbour <- v4,
    sharing <- v5, switches <- v6, met <- v7, moved <- v8, fetching <- v9, strict <- v10,
    route <- v11, held <- v12, heldToken <- v13, renew <- v14, again <- v15, serves <- v16,
    asked <- v17, inbox <- v18, repeats <- v19, payload <- v20, record <- v21

\* What MCClients_proofs takes from the constants.
ASSUME FetchAssumption == Fetch!FetchConstants

FetchInit == part = "fetch" /\ Fetch!Init
FetchMoves == part = "fetch" /\ Fetch!Next /\ UNCHANGED part

-----------------------------------------------------------------------------
\* The samples of a direct answer.

Choice == INSTANCE UsageSamples WITH
    windows <- v1, copy <- v2, form <- v3, samples <- v4, attempt <- v5, chosen <- v6,
    moves <- v7, oddities <- v8

\* What MCClients_proofs takes from the constants.
ASSUME ChoiceAssumption == Choice!SampleConstants

ChoiceInit == part = "samples" /\ Choice!Init /\ Spare9
ChoiceMoves == part = "samples" /\ Choice!Next /\ UNCHANGED part /\ Keep9

-----------------------------------------------------------------------------
\* The Google login.

Google == INSTANCE GoogleLogin WITH
    lease <- v1, deal <- v2, present <- v3, closes <- v4, cleanup <- v5, mutex <- v6,
    timers <- v7, armed <- v8, fired <- v9, opened <- v10, flow <- v11, browserOpen <- v12,
    codeHeld <- v13, rounds <- v14

GoogleInit == part = "google" /\ Google!Init /\ Spare15
GoogleMoves == part = "google" /\ Google!Next /\ UNCHANGED part /\ Keep15

=============================================================================

---------------------------- MODULE BridgeServer ----------------------------
(***************************************************************************)
(* The bridge's server (bridge.py): a bounded number of connections, each  *)
(* served by a thread of its own, the token file of an account, and the    *)
(* extension's files, whose background script holds a token.               *)
(*                                                                         *)
(* What an accepted payload does to the account's state is in AccountState *)
(* (Ingest...); here a request is accepted or refused.                     *)
(***************************************************************************)
EXTENDS Naturals, FiniteSets

CONSTANTS Clients,         \* the connections
          MaxConnections,  \* the slots (BRIDGE_MAX_CONNECTIONS)
          MaxTokens,       \* the tokens that are ever made
          MaxUpsets        \* the system calls, threads and peers that fail

Files == 1 .. 4                  \* manifest, background, content and page hook, in this order
Background == 2
Tokens == 0 .. MaxTokens                        \* 0: there is none

VARIABLES
  slots,       \* the semaphore of the server
  link,        \* where a connection is
  sent,        \* the token of its request
  serving,     \* the server takes connections
  issuedTo,    \* the content of the token file, and the last token made
  minted,
  bundle,      \* the token each file of the extension was made for
  writer,      \* where the writing of an extension is, and the token it is for
  fresh,
  ready, saved,\* the files that are in place, and those that have a backup
  stock,       \* the backups
  upsets

serverVars == <<slots, link, sent, serving>>
tokenVars  == <<issuedTo, minted>>
writerVars == <<bundle, writer, fresh, ready, saved, stock>>
bridgeVars == <<serverVars, tokenVars, writerVars, upsets>>

Init ==
  /\ slots = MaxConnections /\ link = [c \in Clients |-> "out"]
  /\ sent = [c \in Clients |-> 0] /\ serving = TRUE
  /\ issuedTo = 1 /\ minted = 1 /\ bundle = [f \in Files |-> 1]
  /\ writer = "idle" /\ fresh = 0 /\ ready = {} /\ saved = {}
  /\ stock = [f \in Files |-> 0] /\ upsets = 0

Upset == upsets < MaxUpsets /\ upsets' = upsets + 1
Calm  == UNCHANGED upsets

-----------------------------------------------------------------------------
\* get_request: the browser connects, and a failing TLS wrapping closes the connection.
Connect(c) ==
  /\ serving /\ link[c] = "out"
  /\ \/ link' = [link EXCEPT ![c] = "accepted"] /\ Calm
     \/ link' = [link EXCEPT ![c] = "closed"] /\ Upset
  /\ sent' = [sent EXCEPT ![c] = bundle[Background]]
  /\ UNCHANGED <<slots, serving, tokenVars, writerVars>>

\* process_request: without a slot the connection is closed at once; a thread that
\* cannot be started gives its slot back.
LoseSlot(n) == n - 1
GiveBack(n) == n
Dispatch(c) ==
  /\ link[c] = "accepted"
  /\ \/ slots = 0 /\ link' = [link EXCEPT ![c] = "closed"] /\ UNCHANGED slots /\ Calm
     \/ slots > 0 /\ link' = [link EXCEPT ![c] = "handshake"] /\ slots' = slots - 1 /\ Calm
     \/ slots > 0 /\ link' = [link EXCEPT ![c] = "closed"] /\ slots' = GiveBack(slots) /\ Upset
  /\ UNCHANGED <<sent, serving, tokenVars, writerVars>>

\* process_request_thread: however the request ends, its slot is free again.
Release(c) ==
  /\ link' = [link EXCEPT ![c] = "closed"] /\ slots' = slots + 1
  /\ UNCHANGED <<sent, serving, tokenVars, writerVars>>
Step(c, from, to) ==
  /\ link[c] = from /\ link' = [link EXCEPT ![c] = to]
  /\ UNCHANGED <<slots, sent, serving, tokenVars, writerVars>>

Handshake(c) == Step(c, "handshake", "headers") /\ Calm
\* do_POST up to the body: the origin, the path, the size and the configuration of this
\* request, then the account's token as it is now (bridge_token_matches).
Matches(t) == t # 0 /\ t = issuedTo
Headers(c) ==
  \/ Step(c, "headers", "body") /\ Matches(sent[c]) /\ Calm
  \/ link[c] = "headers" /\ ~Matches(sent[c]) /\ Release(c) /\ Calm
\* The body is read and taken in, and the answer is sent.
Body(c)   == Step(c, "body", "ingest") /\ Calm
Ingest(c) == link[c] = "ingest" /\ Release(c) /\ Calm
\* The handshake fails; a header, the configuration, the body or the payload is refused;
\* the peer goes away or is too slow; the account's state cannot be saved.
Refuse(c) == link[c] \in {"handshake", "headers", "body", "ingest"} /\ Release(c) /\ Upset
\* The browser's next request is a new connection.
Return(c) ==
  /\ link[c] = "closed" /\ link' = [link EXCEPT ![c] = "out"]
  /\ sent' = [sent EXCEPT ![c] = 0]
  /\ UNCHANGED <<slots, serving, tokenVars, writerVars>> /\ Calm
\* serve_forever ends: no new connection is taken; the threads are daemons.
Stop ==
  /\ serving /\ serving' = FALSE
  /\ UNCHANGED <<slots, link, sent, tokenVars, writerVars>> /\ Calm

-----------------------------------------------------------------------------
\* bridge_token_for_account and revoke_bridge_token, each under the token's path lock.
TokenFor(t) ==
  IF issuedTo # 0 THEN t = issuedTo /\ UNCHANGED tokenVars
  ELSE /\ minted < MaxTokens /\ t = minted + 1
       /\ minted' = minted + 1 /\ issuedTo' = minted + 1
Revoke ==
  /\ issuedTo # 0 /\ issuedTo' = 0
  /\ UNCHANGED <<minted, serverVars, writerVars>> /\ Calm

\* write_bridge_extension: the token is read before the lock of the output directory; the
\* files are staged, then exchanged one by one.
Begin ==
  /\ writer = "idle" /\ (\E t \in Tokens : TokenFor(t) /\ fresh' = t)
  /\ writer' = "exchange" /\ ready' = {} /\ saved' = {} /\ UNCHANGED stock
  /\ UNCHANGED <<serverVars, bundle>> /\ Calm
\* A staged file that cannot be written, before anything is exchanged.
CannotStage ==
  /\ writer = "exchange" /\ ready = {} /\ saved = {} /\ writer' = "failed"
  /\ UNCHANGED <<serverVars, tokenVars, bundle, fresh, ready, saved, stock>> /\ Upset

Backup(f) ==
  /\ writer = "exchange" /\ saved = ready /\ f = Cardinality(ready) + 1
  /\ \/ stock' = [stock EXCEPT ![f] = bundle[f]] /\ bundle' = [bundle EXCEPT ![f] = 0]
        /\ saved' = saved \cup {f} /\ UNCHANGED writer /\ Calm
     \/ writer' = "undo" /\ UNCHANGED <<stock, bundle, saved>> /\ Upset
  /\ UNCHANGED <<serverVars, tokenVars, fresh, ready>>
Place(f) ==
  /\ writer = "exchange" /\ f \in saved \ ready
  /\ \/ bundle' = [bundle EXCEPT ![f] = fresh] /\ ready' = ready \cup {f}
        /\ UNCHANGED writer /\ Calm
     \/ writer' = "undo" /\ UNCHANGED <<bundle, ready>> /\ Upset
  /\ UNCHANGED <<serverVars, tokenVars, fresh, saved, stock>>
Complete ==
  /\ writer = "exchange" /\ ready = Files /\ writer' = "written"
  /\ UNCHANGED <<serverVars, tokenVars, bundle, fresh, ready, saved, stock>> /\ Calm

\* The rollback goes on after an error of its own, and reports it.
Undo ==
  /\ writer = "undo"
  /\ \/ bundle' = [f \in Files |-> IF f \in saved THEN stock[f] ELSE bundle[f]]
        /\ writer' = "failed" /\ Calm
     \/ (\E broken \in SUBSET saved : broken # {} /\
           bundle' = [f \in Files |-> IF f \in saved \ broken THEN stock[f] ELSE 0])
        /\ writer' = "torn" /\ Upset
  /\ UNCHANGED <<serverVars, tokenVars, fresh, ready, saved, stock>>
\* The next writing, or a new browser session with the files as they are.
Settle ==
  /\ writer \in {"written", "failed"} /\ writer' = "idle" /\ fresh' = 0
  /\ ready' = {} /\ saved' = {} /\ stock' = [f \in Files |-> 0]
  /\ UNCHANGED <<serverVars, tokenVars, bundle>> /\ Calm

Serve == \E c \in Clients : Connect(c) \/ Dispatch(c) \/ Handshake(c) \/ Headers(c) \/ Body(c)
                            \/ Ingest(c) \/ Refuse(c) \/ Return(c)
Write == Begin \/ CannotStage \/ (\E f \in Files : Backup(f) \/ Place(f)) \/ Complete \/ Undo \/ Settle
Next == Serve \/ Stop \/ Revoke \/ Write
Spec == Init /\ [][Next]_bridgeVars
-----------------------------------------------------------------------------
Served == {c \in Clients : link[c] \in {"handshake", "headers", "body", "ingest"}}

TypeOK ==
  /\ slots \in 0 .. MaxConnections /\ sent \in [Clients -> Tokens]
  /\ bundle \in [Files -> Tokens] /\ ready \subseteq saved

\* Every way a connection can end gives its slot back, so that the server never runs out
\* of them while nobody is served.
SlotsReturn == slots + Cardinality(Served) = MaxConnections

\* Outside of an exchange the extension's files are of one build: the old one or the new
\* one, unless the failed rollback was reported.
OneBuild == writer \in {"idle", "written", "failed"} =>
              \A f, g \in Files : bundle[f] = bundle[g]
-----------------------------------------------------------------------------
(* What makes the property inductive *)

\* What the proofs need of the constants.
BridgeConstants == IsFiniteSet(Clients) /\ MaxConnections \in Nat /\ MaxTokens \in Nat \ {0}

ValuesOK ==
  /\ TypeOK
  /\ link \in [Clients -> {"out", "accepted", "closed", "handshake", "headers", "body", "ingest"}]
  /\ {issuedTo, minted, fresh} \subseteq Tokens /\ stock \in [Files -> Tokens]
  /\ writer \in {"idle", "exchange", "undo", "written", "failed", "torn"}

\* The files before n are in place, and the backup of the next one may be there already.
Progress(n) == ready = 1 .. n /\ (saved = ready \/ saved = 1 .. n + 1) /\ saved \subseteq Files

\* What is in place is the new build, everything else is of one old build.
Exchanging(old) ==
  /\ \A f \in Files \ saved : bundle[f] = old
  /\ \A f \in saved : stock[f] = old
  /\ \A f \in ready : bundle[f] = fresh

WriterKnows ==
  writer \in {"exchange", "undo"} =>
    /\ \E n \in 0 .. 4 : Progress(n)
    /\ \E old \in Tokens : Exchanging(old)

BridgeInv == ValuesOK /\ SlotsReturn /\ WriterKnows /\ OneBuild
=============================================================================

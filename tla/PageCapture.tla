---------------------------- MODULE PageCapture ----------------------------
(***************************************************************************)
(* The bridge's browser extension (bridge.py), in a page of the provider:  *)
(* a hook around the page's fetch keeps the last response with the usage,  *)
(* and the content script asks the hook to refresh it, waits, falls back   *)
(* to requests of its own and sends a payload.  Hook and script talk by    *)
(* messages of the window, which arrive in order.                          *)
(*                                                                         *)
(* A response is known by the number of its request and by "born", the     *)
(* sends the script had begun when the page asked for it.  Of the captured *)
(* responses the one of the main usage path is kept here; the texts of the *)
(* page, which a payload has as well, are not modelled.                    *)
(***************************************************************************)
EXTENDS Naturals, Sequences, SequencesExt, FiniteSets

CONSTANTS MaxSends,     \* the sends the content script begins
          MaxRequests,  \* the requests of the page for the usage
          MaxFlushes    \* the ticks of the hook's flush timer

NoItem == [seq |-> 0, born |-> 0, main |-> FALSE]
Items  == [seq : 0 .. MaxRequests, born : 0 .. MaxSends, main : BOOLEAN]
NoPayload == [born |-> 0, send |-> 0]   \* a payload without the usage
Ids    == 0 .. MaxSends              \* 0 for a response that no refresh asked for

VARIABLES
  issued, least,      \* the hook's last request number, and the least one it takes
  caught, asked,      \* what it keeps, and the requests under way
  flushes, wire,      \* its timer's ticks; the messages of the window
  taken, waiter,      \* what the script keeps, and the refresh that it waits for
  sending, again,     \* where the send in flight is, and whether another is due
  timer, halted,      \* a send is scheduled; the extension's context is gone
  sends, payload      \* the sends begun, and what the last payload has

hookVars   == <<issued, least, caught, asked, flushes>>
scriptVars == <<taken, waiter, sending, again, timer, halted, sends, payload>>
pageVars   == <<hookVars, wire, scriptVars>>

Init ==
  /\ issued = 0 /\ least = 0 /\ caught = NoItem /\ asked = {} /\ flushes = 0
  /\ wire = <<>> /\ taken = NoItem /\ waiter = 0 /\ sending = "idle"
  /\ again = FALSE /\ timer = TRUE /\ halted = FALSE /\ sends = 0 /\ payload = NoPayload

Refresh(id)   == [to |-> "hook", item |-> NoItem, id |-> id]
Found(i, id)  == [to |-> "script", item |-> i, id |-> id]
\* codexUsageApiResponseIsNewer: a lower number never replaces a higher one.
Newer(new, old) == new.seq >= old.seq

-----------------------------------------------------------------------------
\* The hook.

\* window.fetch of the page, for the usage.
PageFetch ==
  /\ issued < MaxRequests /\ issued' = issued + 1
  /\ asked' = asked \cup {[seq |-> issued + 1, born |-> sends, id |-> 0]}
  /\ UNCHANGED <<least, caught, flushes, wire, scriptVars>>

\* refreshCodexUsageUsage: from now on no response to an earlier request is taken.
LeastOfAll(i) == 0
LeastAfter(i) == i + 1
HookRefresh ==
  /\ wire # <<>> /\ Head(wire).to = "hook" /\ issued < MaxRequests
  /\ wire' = Tail(wire) /\ issued' = issued + 1
  /\ least' = LeastAfter(issued) /\ caught' = NoItem
  /\ asked' = asked \cup {[seq |-> issued + 1, born |-> sends, id |-> Head(wire).id]}
  /\ UNCHANGED <<flushes, scriptVars>>

\* captureCodexUsageFetchResponse: the usage, or an error or a response of no use.
Capture ==
  /\ \E r \in asked, ok \in BOOLEAN :
       LET i == [seq |-> r.seq, born |-> r.born, main |-> ok] IN
       /\ asked' = asked \ {r}
       /\ \/ i.seq < least /\ UNCHANGED <<caught, wire>>
          \/ i.seq >= least /\ Newer(i, caught)
             /\ caught' = i /\ wire' = Append(wire, Found(i, r.id))
          \/ i.seq >= least /\ ~Newer(i, caught) /\ UNCHANGED caught
             /\ wire' = IF r.id = 0 THEN wire ELSE Append(wire, Found(caught, r.id))
  /\ UNCHANGED <<issued, least, flushes, scriptVars>>

\* The hook's timer posts what is kept again, for its first ticks.
Flush ==
  /\ caught # NoItem /\ flushes < MaxFlushes /\ flushes' = flushes + 1
  /\ wire' = Append(wire, Found(caught, 0))
  /\ UNCHANGED <<issued, least, caught, asked, scriptVars>>

-----------------------------------------------------------------------------
\* The content script.

\* sendCodexUsage: one send at a time; a second call waits for the end of the first.
Call ==
  /\ ~halted
  /\ \/ sending # "idle" /\ again' = TRUE
        /\ UNCHANGED <<taken, waiter, sending, sends, wire>>
     \/ sending = "idle" /\ sends < MaxSends
        /\ sends' = sends + 1 /\ waiter' = sends + 1 /\ sending' = "refresh"
        /\ taken' = NoItem /\ wire' = Append(wire, Refresh(sends + 1))
        /\ UNCHANGED again
Scheduled == timer /\ timer' = FALSE /\ Call /\ UNCHANGED <<hookVars, halted, payload>>
Interval  == Call /\ UNCHANGED <<hookVars, timer, halted, payload>>

\* The payload has the hook's response and the script's own; the server takes the one
\* with a request number (_json_candidates_from_payload).
Chosen(kept, own) == IF kept.main THEN kept ELSE own
Finish(kept, own) ==
  /\ payload' = IF halted THEN payload
                ELSE IF Chosen(kept, own).main THEN [born |-> Chosen(kept, own).born, send |-> sends]
                ELSE NoPayload
  /\ sending' = "idle"
  /\ IF again /\ ~halted THEN again' = FALSE /\ timer' = TRUE ELSE UNCHANGED <<again, timer>>

\* A message with responses.  The one that the send waits for ends the wait, and with
\* the usage the send itself in the same turn.
Deliver ==
  /\ wire # <<>> /\ Head(wire).to = "script" /\ wire' = Tail(wire)
  /\ LET m == Head(wire)
         kept == IF Newer(m.item, taken) THEN m.item ELSE taken
     IN /\ taken' = kept
        /\ \/ m.id # 0 /\ m.id = waiter /\ m.item.main
              /\ waiter' = 0 /\ Finish(kept, NoItem)
           \/ m.id # 0 /\ m.id = waiter /\ ~m.item.main
              /\ waiter' = 0 /\ sending' = "probe" /\ UNCHANGED <<payload, again, timer>>
           \/ m.id = 0
              /\ timer' = (timer \/ ~halted) /\ UNCHANGED <<payload, again, sending, waiter>>
           \/ m.id # 0 /\ m.id # waiter
              /\ UNCHANGED <<payload, again, sending, waiter, timer>>
  /\ UNCHANGED <<hookVars, halted, sends>>

\* The refresh takes too long.  The messages that are posted arrive long before that.
KeptAsItIs(i)     == i
TimeoutForgets(i) == NoItem
Timeout ==
  /\ waiter # 0 /\ wire = <<>>
  /\ waiter' = 0 /\ taken' = TimeoutForgets(taken) /\ sending' = "probe"
  /\ UNCHANGED <<hookVars, wire, again, timer, halted, sends, payload>>

\* fetchCodexUsageApis: the script's own requests, which may fail.
Probe ==
  /\ sending = "probe"
  /\ \E ok \in BOOLEAN : Finish(taken, [seq |-> 0, born |-> sends, main |-> ok])
  /\ UNCHANGED <<hookVars, wire, taken, waiter, halted, sends>>

\* stopCodexUsageBridge: the extension was reloaded or removed.
Halt ==
  /\ ~halted /\ halted' = TRUE /\ again' = FALSE /\ timer' = FALSE /\ waiter' = 0
  /\ sending' = IF sending = "refresh" THEN "probe" ELSE sending
  /\ UNCHANGED <<hookVars, wire, taken, sends, payload>>

Next ==
  \/ PageFetch \/ HookRefresh \/ Capture \/ Flush
  \/ Scheduled \/ Interval \/ Deliver \/ Timeout \/ Probe \/ Halt
Spec == Init /\ [][Next]_pageVars
-----------------------------------------------------------------------------
TypeOK ==
  /\ caught \in Items /\ taken \in Items
  /\ payload \in [born : 0 .. MaxSends, send : 0 .. MaxSends]
  /\ waiter \in Ids /\ sending \in {"idle", "refresh", "probe"}
  /\ \A k \in DOMAIN wire : wire[k].item \in Items /\ wire[k].id \in Ids
  /\ (sending = "refresh") = (waiter # 0)

\* The usage of a payload was requested after its send had begun, whatever older
\* responses, repeated messages and late answers of earlier refreshes are under way: the
\* capture time that a payload claims is never later than what it says.
PayloadIsFresh == payload.born = payload.send
-----------------------------------------------------------------------------
(* What makes the property inductive *)

\* What the proofs need of the constants.
PageConstants == {MaxSends, MaxRequests, MaxFlushes} \subseteq Nat

Messages == [to : {"hook", "script"}, item : Items, id : Ids]
ValuesOK ==
  /\ TypeOK /\ wire \in Seq(Messages)
  /\ asked \subseteq [seq : 0 .. MaxRequests, born : 0 .. MaxSends, id : Ids]
  /\ issued \in 0 .. MaxRequests /\ least \in 0 .. issued /\ sends \in 0 .. MaxSends
  /\ again \in BOOLEAN /\ timer \in BOOLEAN /\ halted \in BOOLEAN
  /\ waiter \in {0, sends}

\* The calls for a refresh arrive in the order of their sends; the last one is of the
\* present send, and until it has arrived the send waits.
Called(k) == k \in DOMAIN wire /\ wire[k].to = "hook"
CallsInOrder ==
  /\ \A j, k \in DOMAIN wire : Called(j) /\ Called(k) /\ j < k => wire[j].id < wire[k].id
  /\ \A k \in DOMAIN wire : Called(k) => wire[k].id \in 1 .. sends
  /\ \A j \in DOMAIN wire : Called(j) => \E k \in DOMAIN wire : Called(k) /\ wire[k].id = sends
Outstanding == \E k \in DOMAIN wire : Called(k)

\* The numbers of requests that were made, and the answers to refreshes that were begun.
NumbersOK ==
  /\ \A r \in asked : r.seq <= issued /\ r.born <= sends /\ r.id <= sends
  /\ \A k \in DOMAIN wire : wire[k].item.seq <= issued /\ wire[k].id <= sends
  /\ caught.seq <= issued /\ taken.seq <= issued

\* Before the call of the present send arrives nothing answers it.
Before ==
  Outstanding =>
    /\ ~halted => sending = "refresh" /\ waiter = sends
    /\ \A r \in asked : r.id # sends
    /\ \A k \in DOMAIN wire : wire[k].to = "script" => wire[k].id # sends

\* Afterwards what is not too old was requested since the present send began.
Recent(i) == i.seq >= least => i.born = sends
After ==
  ~Outstanding =>
    /\ \A r \in asked : Recent(r) /\ (r.id = sends => r.seq >= least)
    /\ caught = NoItem \/ caught.seq >= least
    /\ Recent(caught) \/ caught = NoItem
    /\ \A k \in DOMAIN wire : /\ Recent(wire[k].item)
                              /\ wire[k].id = sends => wire[k].item.seq >= least
    /\ Recent(taken) \/ taken = NoItem
    /\ sending = "probe" /\ ~halted =>
         \/ taken.seq >= least
         \/ taken = NoItem /\ \A k \in DOMAIN wire : wire[k].item.seq >= least

PageInv == ValuesOK /\ CallsInOrder /\ NumbersOK /\ Before /\ After /\ PayloadIsFresh
=============================================================================

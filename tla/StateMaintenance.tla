-------------------------- MODULE StateMaintenance --------------------------
(***************************************************************************)
(* Moving the state of accounts that are no longer configured to a         *)
(* quarantine (state_maintenance.py).                                      *)
(*                                                                         *)
(* The command holds the maintenance barrier, which keeps every save of an *)
(* account's state out, and the path locks of the configuration and of the *)
(* owner source.  It first undoes a transaction that an earlier command    *)
(* has left behind, then moves the artifacts it finds, one by one, into a  *)
(* pending transaction and publishes that by a rename.  Any call may fail  *)
(* and the command may die between two.                                    *)
(*                                                                         *)
(* An artifact stands for the files of one account; the checks that a      *)
(* hostile or careless hand changed a file are left out.                   *)
(***************************************************************************)
EXTENDS Naturals, FiniteSets

CONSTANTS Accounts,      \* 1 .. n, in the order of the scan
          Absent,        \* no file; no transaction
          MaxVersions,   \* bound: saves of an account's state
          MaxEditions,   \* bound: changes of the configuration
          MaxSlips       \* bound: failing calls, and deaths of the command

Versions == 1 .. MaxVersions
Journals == [artifacts : SUBSET Accounts, edition : 0 .. MaxEditions,
             manifest : BOOLEAN,    \* can be read
             folders : BOOLEAN,     \* the directories for the artifacts
             litter : BOOLEAN,      \* a temporary file of a manifest or audit
             public : BOOLEAN]      \* has its final name

VARIABLES
  configured, edition,   \* the accounts, and the identity of the two files
  live,                  \* state file of each account
  written,               \* how often each was saved
  journal, hold,         \* the pending transaction and what it holds
  quarantined,
  phase,                 \* where the command is; "free": the locks are
  mode,                  \* "recovering", or its own transaction: by "path", or
                         \* "bound" to the directories it opened for the scan
  todo,                  \* artifacts it still has to move or to put back
  spoilt,                \* one could not be put back
  slips

maintenanceVars ==
  <<configured, edition, live, written, journal, hold, quarantined, phase, mode, todo, spoilt, slips>>
world == <<configured, edition, written>>
work  == <<mode, todo, spoilt>>

Empty == [i \in Accounts |-> Absent]

Init ==
  /\ configured = Accounts /\ edition = 0
  /\ live = Empty /\ written = [i \in Accounts |-> 0]
  /\ journal = Absent /\ hold = Empty /\ quarantined = {}
  /\ phase = "free" /\ mode = "path" /\ todo = {} /\ spoilt = FALSE /\ slips = 0

Stay   == UNCHANGED <<live, journal, hold, quarantined>>
Note(j) == journal' = j /\ UNCHANGED <<live, hold, quarantined>>
To(p)  == phase' = p /\ UNCHANGED work
Slip   == slips < MaxSlips /\ slips' = slips + 1
NoSlip == UNCHANGED slips
First(S) == CHOOSE i \in S : \A j \in S : i <= j
Last(S)  == CHOOSE i \in S : \A j \in S : i >= j

\* The accounts and fetches between two commands.
Configure(i) ==
  /\ phase = "free" /\ edition < MaxEditions
  /\ configured' = IF i \in configured THEN configured \ {i} ELSE configured \cup {i}
  /\ edition' = edition + 1
  /\ UNCHANGED <<written, phase, slips>> /\ Stay /\ UNCHANGED work
Save(i) ==
  /\ phase = "free" /\ i \in configured /\ written[i] < MaxVersions
  /\ written' = [written EXCEPT ![i] = @ + 1]
  /\ live' = [live EXCEPT ![i] = written[i] + 1]
  /\ UNCHANGED <<configured, edition, journal, hold, quarantined, phase, slips>>
  /\ UNCHANGED work

\* quarantine_unconfigured_usage_state with apply, behind the barrier.
Begin ==
  /\ phase = "free" /\ configured # {}
  /\ phase' = "recover" /\ mode' = "recovering" /\ todo' = {} /\ spoilt' = FALSE
  /\ UNCHANGED world /\ Stay /\ NoSlip

\* _artifacts_from_manifest
Accepts(j) == j.manifest /\ j.edition = edition

Recover ==
  /\ phase = "recover" /\ UNCHANGED world /\ Stay /\ NoSlip
  /\ LET bare == journal # Absent /\ ~(journal.manifest \/ journal.folders \/ journal.litter)
     IN CASE journal = Absent -> To("scan")
          [] bare -> To("remove")
          [] journal # Absent /\ ~bare /\ Accepts(journal) ->
               phase' = "undo" /\ todo' = journal.artifacts /\ UNCHANGED <<mode, spoilt>>
          [] OTHER -> To("free")

Undone(i) == todo' = todo \ {i} /\ UNCHANGED <<phase, mode>>

\* _rollback_pending: each on its own, and never over another file.
PutBack ==
  /\ phase = "undo" /\ todo # {} /\ UNCHANGED world
  /\ LET i == Last(todo)
     IN /\ Undone(i)
        /\ \/ /\ live[i] # Absent /\ hold[i] = Absent
              /\ Stay /\ UNCHANGED spoilt /\ NoSlip
           \/ /\ live[i] = Absent /\ hold[i] # Absent
              /\ live' = [live EXCEPT ![i] = hold[i]] /\ hold' = [hold EXCEPT ![i] = Absent]
              /\ UNCHANGED <<journal, quarantined, spoilt>> /\ NoSlip
           \/ /\ (live[i] = Absent) = (hold[i] = Absent)
              /\ Stay /\ spoilt' = TRUE /\ NoSlip
           \/ live[i] = Absent /\ hold[i] # Absent /\ Stay /\ spoilt' = TRUE /\ Slip

\* Mutant of UndoEnds: the transaction goes, with all that is still in it.
UndoEndsAnyway ==
  /\ phase = "undo" /\ todo = {} /\ UNCHANGED world /\ NoSlip
  /\ journal' = Absent /\ hold' = Empty /\ UNCHANGED <<live, quarantined>> /\ To("free")

\* With an error the transaction stays.
UndoEnds ==
  /\ phase = "undo" /\ todo = {} /\ UNCHANGED world /\ Stay /\ NoSlip
  /\ To(IF spoilt \/ journal.litter THEN "free" ELSE "remove")

\* _remove_pending_transaction: the directories, the audit and the manifest,
\* then the transaction.  Bound to the directories, the manifest goes first,
\* and a transaction that has its final name is not found at the end.
Remove ==
  /\ phase = "remove" /\ UNCHANGED world /\ NoSlip
  /\ \/ /\ journal.folders /\ (mode = "bound" => ~journal.manifest)
        /\ Note([journal EXCEPT !.folders = FALSE]) /\ To("remove")
     \/ /\ journal.manifest /\ (journal.folders => mode = "bound")
        /\ Note([journal EXCEPT !.manifest = FALSE]) /\ To("remove")
     \/ /\ ~journal.folders /\ ~journal.manifest
        /\ Note(Absent) /\ To(IF mode = "recovering" THEN "scan" ELSE "free")

Scan ==
  /\ phase = "scan" /\ UNCHANGED world /\ Stay /\ NoSlip /\ UNCHANGED spoilt
  /\ todo' = {i \in Accounts \ configured : live[i] # Absent}
  /\ mode' \in {"path", "bound"}
  /\ phase' = IF todo' = {} THEN "free" ELSE "create"

\* An error before the transaction is published puts everything back.
Undo == phase' = "undo" /\ todo' = journal.artifacts /\ UNCHANGED <<mode, spoilt>>

\* mkdir of the transaction
Create ==
  /\ phase = "create" /\ UNCHANGED world
  /\ \/ /\ Note([artifacts |-> todo, edition |-> edition, manifest |-> FALSE,
                 folders |-> FALSE, litter |-> FALSE, public |-> FALSE])
        /\ To("manifest") /\ NoSlip
     \/ Stay /\ To("free") /\ Slip

\* The first manifest, and after each move the manifest again; the audit at last.
Manifest ==
  /\ phase = "manifest" /\ UNCHANGED world
  /\ \/ /\ Note([journal EXCEPT !.manifest = TRUE]) /\ NoSlip
        /\ To(IF todo = {} THEN "publish" ELSE "move")
     \/ Stay /\ Undo /\ Slip

\* The directory of the kind is made, and the artifact renamed into it.
Moved(i) ==
  /\ hold' = [hold EXCEPT ![i] = live[i]]
  /\ live' = [live EXCEPT ![i] = Absent]
  /\ journal' = [journal EXCEPT !.folders = TRUE]

\* The rename of one artifact, and the checks after it.
Move ==
  /\ phase = "move" /\ UNCHANGED world /\ UNCHANGED quarantined
  /\ LET i == First(todo)
     IN \/ /\ Moved(i)
           /\ phase' = "manifest" /\ todo' = todo \ {i} /\ UNCHANGED <<mode, spoilt>> /\ NoSlip
        \/ Moved(i) /\ Undo /\ Slip
        \/ journal' = [journal EXCEPT !.folders = TRUE] /\ UNCHANGED <<live, hold>> /\ Undo /\ Slip

Holding == {<<i, hold[i]>> : i \in {j \in Accounts : hold[j] # Absent}}
Settle  == quarantined' = quarantined \cup Holding /\ hold' = Empty /\ journal' = Absent

\* The rename of the transaction.  When only the sync after it fails, the one
\* form leaves it published and the other begins to put everything back.
Publish ==
  /\ phase = "publish" /\ UNCHANGED world
  /\ \/ Settle /\ UNCHANGED live /\ To("free") /\ NoSlip
     \/ Stay /\ Undo /\ Slip
     \/ mode = "path" /\ Settle /\ UNCHANGED live /\ To("free") /\ Slip
     \/ mode = "bound" /\ Note([journal EXCEPT !.public = TRUE]) /\ Undo /\ Slip

\* Death between two calls, or while a manifest or the audit is written.
Crash ==
  /\ phase # "free" /\ UNCHANGED world /\ To("free") /\ Slip
  /\ \/ ~(journal # Absent /\ journal.public) /\ Stay
     \/ journal # Absent /\ journal.public /\ Settle /\ UNCHANGED live
     \/ phase \in {"manifest", "publish"} /\ Note([journal EXCEPT !.litter = TRUE])

Next ==
  \/ \E i \in Accounts : Configure(i) \/ Save(i)
  \/ Begin \/ Recover \/ PutBack \/ UndoEnds \/ Remove
  \/ Scan \/ Create \/ Manifest \/ Move \/ Publish \/ Crash
-----------------------------------------------------------------------------
TypeOK ==
  /\ configured \subseteq Accounts /\ edition \in 0 .. MaxEditions
  /\ live \in [Accounts -> Versions \cup {Absent}] /\ hold \in [Accounts -> Versions \cup {Absent}]
  /\ journal \in Journals \cup {Absent} /\ quarantined \subseteq Accounts \X Versions
  /\ todo \subseteq Accounts /\ slips \in 0 .. MaxSlips

\* Through deaths, failures and recoveries the last state saved of an account
\* is in exactly one place: where it was saved, in the pending transaction or
\* in the quarantine.
NothingLost ==
  \A i \in Accounts : written[i] > 0 =>
    Cardinality({p \in 1 .. 3 : \/ p = 1 /\ live[i] = written[i]
                                \/ p = 2 /\ hold[i] = written[i]
                                \/ p = 3 /\ <<i, written[i]>> \in quarantined}) = 1

\* What a transaction took from an account that was not configured never
\* becomes the state of the account when it is configured again, and what is
\* quarantined is not the state of a configured account.
StaleStays == \A i \in configured : phase # "free" => live'[i] = live[i]
StaleStaysAway == [][StaleStays]_maintenanceVars
-----------------------------------------------------------------------------
(* What makes the properties inductive *)

\* Assumption: the accounts are numbered, and nothing is neither a state nor a
\* transaction.
MaintenanceConstants ==
  /\ IsFiniteSet(Accounts) /\ Accounts = 1 .. Cardinality(Accounts)
  /\ MaxEditions \in Nat /\ Absent \notin Nat \cup Journals

ValuesOK ==
  /\ configured \subseteq Accounts /\ edition \in 0 .. MaxEditions
  /\ live \in [Accounts -> Nat \cup {Absent}] /\ hold \in [Accounts -> Nat \cup {Absent}]
  /\ written \in [Accounts -> Nat] /\ journal \in Journals \cup {Absent}
  /\ todo \subseteq Accounts

\* The last state is in one place; the others have older ones at most, and an older
\* one is held only beside a newer state file.
PutAside(i) == <<i, written[i]>> \in quarantined

PlacesOK ==
  \A i \in Accounts :
    /\ live[i] # Absent => live[i] = written[i] /\ written[i] > 0
    /\ hold[i] # Absent => hold[i] <= written[i] /\ written[i] > 0
    /\ hold[i] # Absent /\ live[i] = Absent => hold[i] = written[i]
    /\ \A v \in Nat : <<i, v>> \in quarantined => v <= written[i]

InOnePlace ==
  \A i \in Accounts : written[i] > 0 =>
    /\ live[i] = written[i] \/ hold[i] = written[i] \/ PutAside(i)
    /\ ~(live[i] = written[i] /\ hold[i] = written[i])
    /\ ~(live[i] = written[i] /\ PutAside(i)) /\ ~(hold[i] = written[i] /\ PutAside(i))

\* What is held is an artifact of the transaction.
HeldByJournal ==
  \A i \in Accounts : hold[i] # Absent =>
    journal # Absent /\ journal.folders /\ i \in journal.artifacts

\* Only a change of the configuration makes an artifact the state of an account.
ArtifactsStale ==
  journal # Absent =>
    /\ journal.edition <= edition
    /\ journal.edition = edition => journal.artifacts \cap configured = {}

PhaseKnows ==
  /\ phase \in {"remove", "undo", "manifest", "move", "publish"} => journal # Absent
  /\ phase \in {"scan", "create"} => journal = Absent
  /\ phase = "remove" => \A i \in Accounts : hold[i] = Absent
  /\ phase = "undo" /\ ~spoilt => \A i \in Accounts : hold[i] # Absent => i \in todo
  /\ phase \in {"undo", "create", "manifest", "move", "publish"} => todo \cap configured = {}
  /\ phase \in {"manifest", "move", "publish"} =>
       /\ todo \subseteq journal.artifacts /\ journal.artifacts \cap configured = {}
       /\ \A i \in todo : hold[i] = Absent
  /\ phase = "move" => todo # {}

MaintenanceInv ==
  ValuesOK /\ PlacesOK /\ InOnePlace /\ HeldByJournal /\ ArtifactsStale /\ PhaseKnows
=============================================================================

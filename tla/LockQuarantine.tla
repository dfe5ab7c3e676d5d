--------------------------- MODULE LockQuarantine ---------------------------
(***************************************************************************)
(* Moving the residues of the lock directory into a quarantine             *)
(* (private_io.py).                                                        *)
(*                                                                         *)
(* A file of the lock directory that is no lock file stops every lock of a *)
(* private path.  An operator approves a report of such residues, and a    *)
(* run moves them out one by one, checking before and after each move that *)
(* nothing else has changed.  Nothing is journalled: a run that breaks off *)
(* can only tell what it has moved, what is still in place and what it     *)
(* does not know.                                                          *)
(*                                                                         *)
(* A residue is one number, its name, file and times in one; what somebody *)
(* puts in the place of a residue is a new one.  The name in the           *)
(* quarantine is that of the residue that was approved, whatever the       *)
(* rename then moved.                                                      *)
(***************************************************************************)
EXTENDS Naturals

CONSTANTS Runs, Names,        \* runs of the quarantine; entries of the lock directory
          Free,               \* there is no such entry
          MaxResidues,        \* bound: residues that ever appear
          MaxDisturbances     \* bound: other changes around, errors and crashes

Residues == 1 .. MaxResidues

VARIABLES
  place,               \* the residue that an entry of the lock directory is
  vault,               \* what the quarantine has under the name of a residue
  appeared,            \* residues so far
  rootTimes, vaultTimes, aboveTimes,  \* change counts of the two directories and of those above
  at, report,          \* where a run is, and the report that it works on
  moving, moved,       \* the residue it moves, those it has moved
  seen,                \* the times it goes by
  ending,              \* what it has reported
  disturbances

runVars == <<at, report, moving, moved, seen, ending>>
quarantineVars ==
  <<place, vault, appeared, rootTimes, vaultTimes, aboveTimes, runVars, disturbances>>

Issues   == {place[n] : n \in Names} \ {Free}
Where(i) == CHOOSE n \in Names : place[n] = i
NoReport == [issues |-> {}, times |-> 0]
NoEnding == [word |-> "none", committed |-> {}, unmoved |-> {}, unverified |-> {}]

Init ==
  /\ place = [n \in Names |-> Free] /\ vault = [i \in Residues |-> Free] /\ appeared = 0
  /\ rootTimes = 0 /\ vaultTimes = 0 /\ aboveTimes = 0 /\ disturbances = 0
  /\ at = [r \in Runs |-> "idle"] /\ report = [r \in Runs |-> NoReport]
  /\ moving = [r \in Runs |-> Free] /\ moved = [r \in Runs |-> {}]
  /\ seen = [r \in Runs |-> <<0, 0>>] /\ ending = [r \in Runs |-> NoEnding]

Disturb == disturbances < MaxDisturbances /\ disturbances' = disturbances + 1
Set(f, r, v) == [f EXCEPT ![r] = v]

\* A residue comes to be, in a free place or in that of another one.
Appear ==
  /\ appeared < MaxResidues /\ appeared' = appeared + 1
  /\ \E n \in Names : place' = [place EXCEPT ![n] = appeared']
  /\ rootTimes' = rootTimes + 1
  /\ UNCHANGED <<vault, vaultTimes, aboveTimes, runVars, disturbances>>

\* Another program changes a directory above.
ChangeAbove ==
  /\ Disturb /\ aboveTimes' = aboveTimes + 1
  /\ UNCHANGED <<place, vault, appeared, rootTimes, vaultTimes, runVars>>

\* A private path is locked for the first time: only where there is no residue.
MakeLockFile ==
  /\ Issues = {} /\ Disturb /\ rootTimes' = rootTimes + 1
  /\ UNCHANGED <<place, vault, appeared, vaultTimes, aboveTimes, runVars>>

Directories == <<place, vault, appeared, rootTimes, vaultTimes, aboveTimes>>

\* scan_private_lock_namespace; the operator approves the report and its hash.
Scan(r) ==
  /\ at[r] = "idle" /\ Issues # {}
  /\ report' = Set(report, r, [issues |-> Issues, times |-> rootTimes])
  /\ at' = Set(at, r, "approved") /\ ending' = Set(ending, r, NoEnding)
  /\ UNCHANGED <<moving, moved, seen, disturbances>> /\ UNCHANGED Directories

Over(r) ==
  /\ at' = Set(at, r, "idle") /\ moving' = Set(moving, r, Free)
  /\ moved' = Set(moved, r, {}) /\ seen' = Set(seen, r, <<0, 0>>) /\ UNCHANGED report

\* The directories above, and the quarantine too, are as this run knows them.
Above(r) == seen[r][2] = aboveTimes
Bound(r) == Above(r) /\ seen[r][1] = vaultTimes

\* _partial_lock_quarantine_error: what is where it has been moved to, what is still in
\* place, and the rest.  Without a move the error stands alone.
CommittedWhatIsThere(r) ==
  IF Bound(r) THEN {i \in report[r].issues : vault[i] = i} ELSE {}
Committed(r) ==
  IF Bound(r) THEN {i \in moved[r] : vault[i] = i} ELSE {}
Unmoved(r) == {i \in report[r].issues \ moved[r] : i \in Issues}
Partial(r) ==
  LET kept == Committed(r) IN
  [word |-> "partial", committed |-> kept, unmoved |-> Unmoved(r),
   unverified |-> report[r].issues \ (kept \cup Unmoved(r))]
BreakOff(r) ==
  /\ ending' = Set(ending, r, IF moved[r] = {} THEN [NoEnding EXCEPT !.word = "refused"]
                                               ELSE Partial(r))
  /\ Over(r) /\ UNCHANGED disturbances /\ UNCHANGED Directories

\* The residues and the times of the lock directory must be those of the report.
Prepare(r) ==
  /\ at[r] = "approved"
  /\ \/ /\ Issues = report[r].issues /\ rootTimes = report[r].times
        /\ seen' = Set(seen, r, <<vaultTimes, aboveTimes>>) /\ at' = Set(at, r, "next")
        /\ UNCHANGED <<report, moving, moved, ending, disturbances>> /\ UNCHANGED Directories
     \/ ~(Issues = report[r].issues /\ rootTimes = report[r].times) /\ BreakOff(r)

\* A mutant of Choose: what is there now is moved, not only what was approved.
ChooseWhatIsThere(r) ==
  /\ at[r] = "next" /\ moved[r] # report[r].issues
  /\ \E i \in Issues : moving' = Set(moving, r, <<i, Where(i)>>)
  /\ at' = Set(at, r, "rename")
  /\ UNCHANGED <<report, moved, seen, ending, disturbances>> /\ UNCHANGED Directories

\* The next residue is looked at once more: by name, and as approved.
Choose(r) ==
  /\ at[r] = "next" /\ moved[r] # report[r].issues
  /\ \E i \in report[r].issues \ moved[r] :
       \/ /\ i \in Issues /\ moving' = Set(moving, r, <<i, Where(i)>>) /\ at' = Set(at, r, "rename")
          /\ UNCHANGED <<report, moved, seen, ending, disturbances>> /\ UNCHANGED Directories
       \/ i \notin Issues /\ BreakOff(r)

\* renameat2 moves what the name stands for now.  The new times of the quarantine are
\* taken as they are; when they cannot be read, the move is not remembered.
Rename(r) ==
  /\ at[r] = "rename"
  /\ LET i == moving[r][1]  n == moving[r][2] IN
     \/ /\ place[n] # Free /\ vault[i] = Free
        /\ vault' = [vault EXCEPT ![i] = place[n]] /\ place' = [place EXCEPT ![n] = Free]
        /\ vaultTimes' = vaultTimes + 1 /\ rootTimes' = rootTimes + 1
        /\ \/ /\ seen' = Set(seen, r, <<vaultTimes', seen[r][2]>>)
              /\ moved' = Set(moved, r, moved[r] \cup {i}) /\ at' = Set(at, r, "confirm")
              /\ UNCHANGED disturbances
           \/ Disturb /\ at' = Set(at, r, "fail") /\ UNCHANGED <<moved, seen>>
        /\ UNCHANGED <<appeared, aboveTimes, report, moving, ending>>
     \/ (place[n] = Free \/ vault[i] # Free) /\ BreakOff(r)

\* What has been moved must be the residue that was approved.
Confirm(r) ==
  /\ at[r] = "confirm"
  /\ LET i == moving[r][1]  fine == vault[i] = i /\ Above(r) IN
     \/ /\ fine /\ at' = Set(at, r, "next")
        /\ UNCHANGED <<report, moving, moved, seen, ending, disturbances>>
        /\ UNCHANGED Directories
     \/ ~fine /\ BreakOff(r)

\* The lock directory is clean and both directories are as this run has left them.
Finish(r) ==
  /\ at[r] = "next" /\ moved[r] = report[r].issues
  /\ LET fine == /\ Issues = {} /\ Bound(r)
                 /\ \A i \in moved[r] : vault[i] = i
     IN \/ /\ fine
           /\ ending' = Set(ending, r, [NoEnding EXCEPT !.word = "done", !.committed = moved[r]])
           /\ Over(r) /\ UNCHANGED disturbances /\ UNCHANGED Directories
        \/ ~fine /\ BreakOff(r)

\* Something fails, or the process is gone.
Fail(r) ==
  \/ at[r] = "fail" /\ BreakOff(r)
  \/ /\ at[r] # "idle" /\ Disturb
     /\ Over(r) /\ ending' = Set(ending, r, NoEnding) /\ UNCHANGED Directories

Next ==
  \/ Appear \/ ChangeAbove \/ MakeLockFile
  \/ \E r \in Runs : \/ Scan(r) \/ Prepare(r) \/ Choose(r) \/ Rename(r)
                     \/ Confirm(r) \/ Finish(r) \/ Fail(r)

Spec == Init /\ [][Next]_quarantineVars
-----------------------------------------------------------------------------
\* Every residue that is anywhere has appeared, and no run works on one outside its report.
TypeOK ==
  /\ \A n \in Names : place[n] \in 1 .. appeared \cup {Free}
  /\ \A i \in Residues : vault[i] \in 1 .. appeared \cup {Free}
  /\ \A r \in Runs : moved[r] \subseteq report[r].issues

\* Two operators may have approved the same report, and residues come and go while their
\* runs work: a residue that a run reports as moved is in the quarantine, under its name
\* and as it was approved, no other run reports it too, and a run reports success only
\* when that holds of all of its report.
CommittedIsKept ==
  \A r \in Runs :
    /\ \A i \in ending[r].committed : vault[i] = i /\ i \notin Issues
    /\ ending[r].word = "done" => ending[r].committed = report[r].issues
    /\ \A q \in Runs \ {r} : ending[r].committed \cap ending[q].committed = {}
-----------------------------------------------------------------------------
(* What makes the property inductive *)

\* Assumption: a free entry is no residue.
QuarantineConstants == MaxResidues \in Nat /\ Free \notin Nat

Endings ==
  [word : {"none", "refused", "partial", "done"}, committed : SUBSET Residues,
   unmoved : SUBSET Residues, unverified : SUBSET Residues]

ValuesOK ==
  /\ appeared \in 0 .. MaxResidues
  /\ place \in [Names -> 1 .. appeared \cup {Free}]
  /\ vault \in [Residues -> 1 .. appeared \cup {Free}]
  /\ at \in [Runs -> {"idle", "approved", "next", "rename", "confirm", "fail"}]
  /\ report \in [Runs -> [issues : SUBSET (1 .. appeared), times : Nat]]
  /\ moving \in [Runs -> {Free} \cup (Residues \X Names)]
  /\ moved \in [Runs -> SUBSET Residues] /\ ending \in [Runs -> Endings]
  /\ {rootTimes, vaultTimes, aboveTimes} \subseteq Nat /\ seen \in [Runs -> Nat \X Nat]

\* A residue is in one place.
OnePlace ==
  /\ \A n, m \in Names : place[n] = place[m] /\ place[n] # Free => n = m
  /\ \A n \in Names, i \in Residues : place[n] = vault[i] => place[n] = Free
  /\ \A i, j \in Residues : vault[i] = vault[j] /\ vault[i] # Free => i = j

\* What a run has made of each residue of its report: it has taken the name in the
\* quarantine of those it has moved and of those it has reported.
Taken(r) == moved[r] \cup ending[r].committed

TakenIsTaken ==
  \A r \in Runs :
    /\ \A i \in Taken(r) : vault[i] # Free
    /\ \A q \in Runs \ {r} : Taken(r) \cap Taken(q) = {}

\* A run that works has reported nothing yet; one that does not has nothing in hand.
RunKnows ==
  \A r \in Runs :
    /\ moved[r] \subseteq report[r].issues
    /\ at[r] = "idle" => moved[r] = {}
    /\ at[r] # "idle" => ending[r] = NoEnding
    /\ at[r] = "rename" => moving[r] \in report[r].issues \X Names
    /\ \A i \in ending[r].committed : vault[i] = i
    /\ ending[r].word = "done" => ending[r].committed = report[r].issues

QuarantineInv == ValuesOK /\ OnePlace /\ TakenIsTaken /\ RunKnows
=============================================================================

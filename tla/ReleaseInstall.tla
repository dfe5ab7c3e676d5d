--------------------------- MODULE ReleaseInstall ---------------------------
(***************************************************************************)
(* Installing a release of the integration (integration_installer.py).     *)
(*                                                                         *)
(* The installer holds the evidence lock set exclusively.  A release is    *)
(* built in a staging directory from a copy of the source tree, renamed to *)
(* a name made from the digest of the source, and then the active manifest *)
(* is exchanged with a transaction file of which the name tells the two    *)
(* manifests.  Whoever finds a transaction file refuses to go on: there is *)
(* no recovery of one.  The public rollback always refuses in this version *)
(* and is left out.                                                        *)
(*                                                                         *)
(* The source tree is two files, edited at any time; an edit never brings  *)
(* an earlier text back.  A release is what it is named after and what it  *)
(* was built from.  Staging and temporary directories, which nobody reads, *)
(* are left out: their removal can only turn a report into a cleanup error.*)
(***************************************************************************)
EXTENDS Naturals

CONSTANTS None,          \* no manifest, no transaction file
          MaxEdits,      \* bound: edits of the source
          MaxMishaps     \* bound: failing calls, and deaths of the installer

Files    == 1 .. 2
Texts2   == [Files -> 0 .. MaxEdits]
Releases == [name : Texts2, content : Texts2]

VARIABLES
  tree,                  \* the source files
  released,              \* directories of releases, complete
  manifest,              \* active.json: the release it names
  artifact,              \* the transaction file: the manifest in it
  stage,                 \* where the installer is
  digest, copy,          \* what it has read of the source, and copied
  earlier,               \* the manifest it found
  report,
  edits, mishaps

installVars == <<tree, released, manifest, artifact, stage, digest, copy, earlier, report, edits, mishaps>>
disk  == <<released, manifest, artifact>>
notes == <<digest, copy, earlier>>

Init ==
  /\ tree = [f \in Files |-> 0]
  /\ released = {} /\ manifest = None /\ artifact = None
  /\ stage = "idle" /\ digest = tree /\ copy = tree /\ earlier = None
  /\ report = "none" /\ edits = 0 /\ mishaps = 0

Mishap   == mishaps < MaxMishaps /\ mishaps' = mishaps + 1
Smooth   == UNCHANGED mishaps
Next2(s) == stage' = s /\ UNCHANGED report
Ends(r)  == stage' = "idle" /\ report' = r
Still    == UNCHANGED <<tree, edits>>
Candidate == [name |-> digest, content |-> copy]

Edit(f) ==
  /\ edits < MaxEdits /\ edits' = edits + 1
  /\ tree' = [tree EXCEPT ![f] = edits + 1]
  /\ UNCHANGED <<stage, report, mishaps>> /\ UNCHANGED disk /\ UNCHANGED notes

\* _install_release reads the source files for their digest, one by one.
ReadSource ==
  /\ stage \in {"idle", "read"} /\ Still /\ Smooth
  /\ LET f == IF stage = "idle" THEN 1 ELSE 2
     IN digest' = [digest EXCEPT ![f] = tree[f]]
  /\ stage' = (IF stage = "idle" THEN "read" ELSE "lock") /\ report' = "none"
  /\ UNCHANGED <<copy, earlier>> /\ UNCHANGED disk

\* Behind the locks: the active manifest must be sound, and no transaction be
\* left over.  It must have the identity later that it has now.
Inspect ==
  /\ stage = "lock" /\ Still /\ Smooth
  /\ earlier' = manifest
  /\ IF manifest \in released \cup {None} /\ artifact = None THEN Next2("first check")
     ELSE Ends("failed")
  /\ UNCHANGED <<digest, copy>> /\ UNCHANGED disk

\* Mutant of Recheck: the source is not read again.
RecheckNothing(from, to) ==
  stage = from /\ Still /\ Smooth /\ Next2(to) /\ UNCHANGED disk /\ UNCHANGED notes
\* _rehash_source_manifest
Recheck(from, to) ==
  /\ stage = from /\ Still /\ Smooth
  /\ IF tree = digest THEN Next2(to) ELSE Ends("failed")
  /\ UNCHANGED disk /\ UNCHANGED notes

\* _copy_source_into_project
CopySource ==
  /\ stage \in {"copy", "copy rest"} /\ Still /\ Smooth
  /\ LET f == IF stage = "copy" THEN 1 ELSE 2
     IN copy' = [copy EXCEPT ![f] = tree[f]]
  /\ Next2(IF stage = "copy" THEN "copy rest" ELSE "build")
  /\ UNCHANGED <<digest, earlier>> /\ UNCHANGED disk

\* A step that works in the staging and temporary directories only.
Working(from, to) ==
  /\ stage = from /\ Still
  /\ \/ Next2(to) /\ Smooth
     \/ Ends("failed") /\ Mishap
  /\ UNCHANGED disk /\ UNCHANGED notes

BuildWheel      == Working("build", "second check")   \* by another process, in a time limit
InspectWheel    == Working("wheel", "environment")    \* _wheel_details
MakeEnvironment == Working("environment", "unpack")   \* _create_private_virtualenv
UnpackWheel     == Working("unpack", "launcher")      \* _safe_extract_wheel
WriteLauncher   == Working("launcher", "walk")        \* _write_launcher
WalkRelease     == Working("walk", "third check")     \* _postwalk_release

\* _rename_owned_directory: never over a release that is there.  It stays
\* where it is, whatever happens from here on.
NameRelease ==
  /\ stage = "rename" /\ Still /\ UNCHANGED <<manifest, artifact>> /\ UNCHANGED notes
  /\ \/ /\ ~\E r \in released : r.name = digest
        /\ released' = released \cup {Candidate}
        /\ \/ Next2("candidate") /\ Smooth
           \/ Ends("failed") /\ Mishap
     \/ (\E r \in released : r.name = digest) /\ UNCHANGED released /\ Ends("failed") /\ Smooth

\* _begin_active_publish: the new manifest is written under a transaction name ...
WriteCandidate ==
  /\ stage = "candidate" /\ Still /\ UNCHANGED <<released, manifest>> /\ UNCHANGED notes
  /\ \/ artifact' = Candidate /\ Next2("exchange") /\ Smooth
     \/ UNCHANGED artifact /\ Ends("failed") /\ Mishap

\* ... and changes places with the active one, or is renamed if there is none.
Exchange ==
  /\ stage = "exchange" /\ Still /\ UNCHANGED released /\ UNCHANGED notes
  /\ \/ /\ manifest' = artifact /\ artifact' = earlier
        /\ \/ Next2("validate") /\ Smooth
           \/ Next2("roll back") /\ Mishap
     \/ /\ UNCHANGED manifest /\ Mishap
        /\ \/ artifact' = None /\ Ends("failed")
           \/ UNCHANGED artifact /\ Ends("cleanup")

\* _validate_active_publish and the attestation of the active manifest.
Validate ==
  /\ stage = "validate" /\ Still /\ UNCHANGED disk /\ UNCHANGED notes
  /\ \/ Next2("commit") /\ Smooth
     \/ Next2("roll back") /\ Mishap

\* _rollback_active_publish: a first manifest cannot be taken back.  What is
\* exchanged back is in place even if the transaction file stays.
RollBack ==
  /\ stage = "roll back" /\ Still /\ UNCHANGED released /\ UNCHANGED notes
  /\ \/ earlier = None /\ UNCHANGED <<manifest, artifact>> /\ Ends("cleanup") /\ Smooth
     \/ earlier # None /\ UNCHANGED <<manifest, artifact>> /\ Ends("cleanup") /\ Mishap
     \/ /\ earlier # None /\ manifest' = earlier
        /\ \/ artifact' = None /\ Ends("failed") /\ Smooth
           \/ artifact' = manifest /\ Ends("failed") /\ Mishap
           \/ artifact' = manifest /\ Ends("cleanup") /\ Mishap

\* _commit_active_publish: an error is not reported, the file stays.  Then the
\* temporary files go, and an error there is reported although all is done.
Commit ==
  /\ stage = "commit" /\ Still /\ UNCHANGED <<released, manifest>> /\ UNCHANGED notes
  /\ \/ artifact' = None /\ Ends("ok") /\ Smooth
     \/ UNCHANGED artifact /\ Ends("ok") /\ Mishap
     \/ artifact' = None /\ Ends("cleanup") /\ Mishap

Dies ==
  /\ stage # "idle" /\ Still /\ UNCHANGED disk /\ UNCHANGED notes
  /\ Ends("none") /\ Mishap

Next ==
  \/ \E f \in Files : Edit(f)
  \/ ReadSource \/ Inspect
  \/ Recheck("first check", "copy") \/ CopySource \/ BuildWheel
  \/ Recheck("second check", "wheel")
  \/ InspectWheel \/ MakeEnvironment \/ UnpackWheel \/ WriteLauncher \/ WalkRelease
  \/ Recheck("third check", "rename")
  \/ NameRelease \/ WriteCandidate \/ Exchange \/ Validate \/ RollBack \/ Commit \/ Dies
-----------------------------------------------------------------------------
TypeOK ==
  /\ tree \in Texts2 /\ digest \in Texts2 /\ copy \in Texts2
  /\ released \subseteq Releases
  /\ {manifest, artifact, earlier} \subseteq Releases \cup {None}
  /\ edits \in 0 .. MaxEdits /\ mishaps \in 0 .. MaxMishaps

\* At every moment the active manifest names a release that is complete on
\* disk and was built from the very source it is named after, whatever was
\* edited during the build and wherever an installer died.
ActiveIsWhole ==
  manifest # None => manifest \in released /\ manifest.content = manifest.name

\* An installation that reports an ordinary failure has left the active
\* manifest it found; one that reports success has replaced it.
ReportMatches ==
  stage = "idle" => /\ report = "failed" => manifest = earlier
                    /\ report = "ok" => manifest = Candidate
-----------------------------------------------------------------------------
(* What makes the property inductive *)

\* What the proofs need of the bounds.
ReleaseConstants == MaxEdits \in Nat /\ MaxMishaps \in Nat

\* An edit never brings an earlier text back, so that the texts of a file are ordered by
\* their age, and a copy that was made later than it was read for the digest is not older.
HasCopied(f) ==
  \/ stage \in {"build", "second check", "wheel", "environment", "unpack", "launcher",
                "walk", "third check"}
  \/ stage = "copy rest" /\ f = 1
Ages ==
  \A f \in Files : /\ digest[f] <= tree[f] /\ tree[f] <= edits
                   /\ HasCopied(f) => digest[f] <= copy[f] /\ copy[f] <= tree[f]

\* What is renamed to the name of a release was copied from the source of that name.
Named == {"rename", "candidate", "exchange", "validate", "roll back", "commit"}
CopyIsRight == stage \in Named => copy = digest

IsWhole(m) == m # None => m \in released /\ m.content = m.name

\* Where the candidate is, and where the manifest that was found.
Publishing ==
  /\ stage \notin {"idle", "read", "lock", "validate", "roll back", "commit"} => manifest = earlier
  /\ stage \in {"candidate", "exchange", "validate", "roll back", "commit"} => Candidate \in released
  /\ stage = "exchange" => artifact = Candidate
  /\ stage \in {"validate", "roll back", "commit"} => manifest = Candidate

ReleaseInv ==
  /\ TypeOK /\ Ages /\ CopyIsRight /\ Publishing
  /\ IsWhole(manifest) /\ IsWhole(earlier) /\ ReportMatches
=============================================================================

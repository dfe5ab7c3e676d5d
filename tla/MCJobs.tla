------------------------------- MODULE MCJobs --------------------------------
(***************************************************************************)
(* ProfileJobs for model checking: its jobs are alike, so that TLC need    *)
(* not tell apart two states that differ only in the names of the jobs,    *)
(* and a behaviour has faults or a crash (MCLive has both in one).         *)
(***************************************************************************)
EXTENDS ProfileJobs, TLC

JobsAreAlike == Permutations(Jobs)
FaultsOrCrash == faults = 0 \/ crashes = 0
=============================================================================

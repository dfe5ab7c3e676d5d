---------------------------- MODULE AccountDelete ----------------------------
(***************************************************************************)
(* Deleting an account, adding it again, and changing it (cli.py,          *)
(* config.py).                                                             *)
(*                                                                         *)
(* A deletion takes the account out of the configuration first, then sets  *)
(* its profile and its usage files aside, revokes the bridge token, and    *)
(* erases what it has set aside.  On an error it puts back what it still   *)
(* can and, last, the account.  An addition or a change saves the          *)
(* configuration first and then erases the usage files the same way, while *)
(* the account is configured already.  An interruption passes the handlers *)
(* that catch errors only, a crash passes all of them.                     *)
(*                                                                         *)
(* The commands exclude each other by the lock of all accounts.  The usage *)
(* files (AccountState has them one by one) are here one value, which says *)
(* whether all of them are here, aside or gone, or only a part: on the way *)
(* ("going"), or for good ("part").  What a command that is gone has left  *)
(* aside counts as lost.                                                   *)
(***************************************************************************)
EXTENDS Naturals

CONSTANT MaxTroubles     \* bound: errors, interruptions and crashes

Whole  == {"here", "none"}
Parts  == Whole \cup {"aside", "going", "part"}
Causes == {"none", "error", "interrupt"}

VARIABLES
  listed,                \* the account is in the configuration
  profile, bundle,       \* the profile directory, the usage files
  token,                 \* there is a bridge token
  doing, wanted,         \* the step the command is at; --delete-profile
  cause,                 \* why the deletion is being undone
  fresh,                 \* the profile directory is this addition's own
  mess,                  \* putting something back has failed, and was reported
  verdict, troubles,
  torn,                  \* history: a command died while the files were going
  before                 \* an addition has found the account configured

accountVars == <<listed, profile, bundle, token, torn>>
deleteVars == <<listed, profile, bundle, token, doing, wanted, cause, fresh, mess, verdict, troubles,
                torn, before>>

Init ==
  /\ listed = TRUE /\ profile = "here" /\ bundle = "here" /\ token = TRUE
  /\ doing = "idle" /\ wanted = FALSE /\ cause = "none" /\ fresh = FALSE /\ mess = FALSE
  /\ verdict = "none" /\ troubles = 0 /\ torn = FALSE /\ before = FALSE

To(step) == doing' = step /\ UNCHANGED <<wanted, fresh, verdict, before>>
Smooth   == UNCHANGED <<cause, mess, troubles>>
\* Something fails: an error, or an interruption.
Trouble(why) ==
  /\ troubles < MaxTroubles /\ troubles' = troubles + 1
  /\ why \in {"error", "interrupt"} /\ cause' = IF cause = "none" THEN why ELSE cause
\* Putting back fails: an interruption among the errors is what is raised.
Worse(why) ==
  /\ troubles < MaxTroubles /\ troubles' = troubles + 1 /\ mess' = TRUE
  /\ why \in {"error", "interrupt"} /\ cause' = IF why = "interrupt" THEN why ELSE cause
Lost(thing) == CASE thing = "aside" -> "none" [] thing = "going" -> "part" [] OTHER -> thing
End(v)  == doing' = "idle" /\ verdict' = v /\ UNCHANGED <<wanted, fresh, before>>
\* With the last of its files, the traces of a death are gone.
Put(l, p, b, t) == /\ listed' = l /\ profile' = p /\ bundle' = b /\ token' = t
                   /\ torn' = (torn /\ b # "none")
Still   == UNCHANGED accountVars
Profile(p) == Put(listed, p, bundle, token)
Bundle(b)  == Put(listed, profile, b, token)

\* _cmd_account_delete has its locks, and the profile jobs have ended.
Delete(w) ==
  /\ doing = "idle" /\ listed
  /\ doing' = "remove" /\ wanted' = w /\ cause' = "none" /\ verdict' = "none" /\ fresh' = FALSE
  /\ Still /\ UNCHANGED <<mess, troubles, before>>

RemoveAccount ==
  /\ doing = "remove"
  /\ \/ Put(FALSE, profile, bundle, token) /\ To("sync") /\ Smooth
     \/ \E why \in Causes : Trouble(why) /\ Still /\ UNCHANGED mess /\ End("failed")
SyncService ==
  /\ doing = "sync" /\ Still
  /\ \/ To("profile") /\ Smooth
     \/ \E why \in Causes : Trouble(why) /\ UNCHANGED mess /\ To("restore")

\* _delete_profile_dir
StageProfile ==
  /\ doing = "profile"
  /\ \/ Profile(IF wanted /\ profile = "here" THEN "aside" ELSE profile) /\ To("bundle") /\ Smooth
     \/ wanted /\ Still /\ UNCHANGED mess /\ To("restore") /\ \E why \in Causes : Trouble(why)

\* remove_account_state renames the files one by one, then counts the generation up.
StageFiles(step, done, back) ==
  /\ doing = step
  /\ \/ bundle \in {"here", "part", "going"} /\ To(step) /\ Smooth
        /\ \E b \in {"going", "aside"} : Bundle(b)
     \/ bundle \in {"aside", "none"} /\ Still /\ To(done) /\ Smooth
     \/ Still /\ UNCHANGED mess /\ To(back) /\ \E why \in Causes : Trouble(why)

\* Its rollback renames them back one by one, each even if another could not be.
PutFilesBack(step, done, failed) ==
  /\ doing = step
  /\ \/ bundle = "aside" /\ Bundle("going") /\ Smooth /\ To(step)
     \/ bundle \in {"aside", "going"} /\ Bundle(IF mess \/ torn THEN "part" ELSE "here")
        /\ Smooth /\ To(done)
     \/ /\ bundle \in {"aside", "going"} /\ \E b \in {"part", "none"} : Bundle(b)
        /\ (\E why \in Causes : Worse(why)) /\ To(failed)
     \/ bundle \notin {"aside", "going"} /\ Still /\ Smooth /\ To(done)

\* Its error does not keep the token.
StageBundle  == StageFiles("bundle", "revoke", "bundle_back")
StageUndone  == PutFilesBack("bundle_back", "revoke", "revoke")

RevokeToken ==
  /\ doing = "revoke"
  /\ \/ Put(listed, profile, bundle, FALSE) /\ Smooth
        /\ To(IF cause = "none" THEN "commit" ELSE "undo_profile")
     \/ Still /\ UNCHANGED mess /\ To("undo") /\ \E why \in Causes : Trouble(why)

\* When this fails the profile is not put back either.
UndoBundle == PutFilesBack("undo", "undo_profile", "restore")

\* Mutant of CommitBundle: its error leaves the profile aside.
CommitBundleOnly ==
  /\ doing = "commit"
  /\ \/ Bundle("none") /\ To("commit_profile") /\ Smooth
     \/ Bundle("here") /\ UNCHANGED mess /\ To("restore") /\ Trouble("error")

\* It puts the files back itself, as far as they are still there.
CommitBundle ==
  /\ doing = "commit"
  /\ \/ Bundle("none") /\ To("commit_profile") /\ Smooth
     \/ /\ bundle = "aside" /\ Still /\ To("commit_back")
        /\ mess' \in {mess, TRUE} /\ \E why \in Causes : Trouble(why)
AfterCommit  == IF cause = "error" THEN "undo_profile" ELSE "restore"
CommitUndone == PutFilesBack("commit_back", AfterCommit', AfterCommit')

\* _ProfileDeleteTransaction
CommitProfile ==
  /\ doing = "commit_profile"
  /\ \/ Profile(IF profile = "aside" THEN "none" ELSE profile) /\ Smooth /\ End("ok")
     \/ /\ profile = "aside"
        /\ \/ Still /\ UNCHANGED mess
             /\ \E why \in Causes : Trouble(why)
                  /\ To(IF why = "error" THEN "undo_profile" ELSE "restore")
           \/ Profile("part") /\ mess' = TRUE /\ To("restore") /\ \E why \in Causes : Trouble(why)
UndoProfile ==
  /\ doing = "undo_profile" /\ To("restore")
  /\ \/ Profile(IF profile = "aside" THEN "here" ELSE profile) /\ Smooth
     \/ profile = "aside" /\ Still /\ \E why \in Causes : Worse(why)

\* restore_account and the service; not after an interruption.
Restore ==
  /\ doing = "restore"
  /\ \/ /\ cause = "error" /\ Put(TRUE, Lost(profile), bundle, token)
        /\ Smooth /\ End(IF mess THEN "unrestored" ELSE "failed")
     \/ /\ cause = "error" /\ mess' = TRUE /\ Trouble("error") /\ End("unrestored")
        /\ \E l \in BOOLEAN : Put(l, Lost(profile), bundle, token)
     \/ /\ cause = "interrupt" /\ Put(listed, Lost(profile), bundle, token)
        /\ Smooth /\ End("interrupted")
-----------------------------------------------------------------------------
(* add_or_update_account of the same identifier, with another account *)

Add ==
  /\ doing = "idle" /\ before' = listed
  /\ Profile("here") /\ fresh' = (profile = "none")
  /\ doing' = "save" /\ cause' = "none" /\ verdict' = "none"
  /\ UNCHANGED <<wanted, mess, troubles>>
SaveConfig ==
  /\ doing = "save"
  /\ \/ Put(TRUE, profile, bundle, token) /\ To("erase") /\ Smooth
     \/ Still /\ UNCHANGED mess /\ To("undo_add") /\ Trouble("error")
     \/ UNCHANGED mess /\ Trouble("interrupt") /\ End("interrupted")
        /\ \E l \in {listed, TRUE} : Put(l, profile, bundle, token)

\* remove_account_state, with the account configured.
EraseBundle == StageFiles("erase", "erase_commit", "erase_back")
CommitErase ==
  /\ doing = "erase_commit"
  /\ \/ Bundle("none") /\ mess' = FALSE /\ UNCHANGED <<cause, troubles>> /\ End("ok")
     \/ /\ bundle = "aside" /\ Still /\ To("erase_back")
        /\ mess' \in {mess, TRUE} /\ \E why \in Causes : Trouble(why)
EraseUndone == PutFilesBack("erase_back", "unlist", "unlist")

Unlist ==            \* the old configuration is written again, after an error
  /\ doing = "unlist"
  /\ \/ cause = "error" /\ Put(before, profile, bundle, token) /\ Smooth /\ To("undo_add")
     \/ cause = "error" /\ Still /\ mess' = TRUE /\ Trouble("error") /\ To("undo_add")
     \/ cause = "interrupt" /\ Still /\ Smooth /\ End("interrupted")
UndoAdd ==
  /\ doing = "undo_add"
  /\ \/ Profile(IF fresh THEN "none" ELSE profile) /\ Smooth
        /\ End(IF mess THEN "unrestored" ELSE "failed")
     \/ fresh /\ Profile("part") /\ mess' = TRUE /\ Trouble("error") /\ End("unrestored")
-----------------------------------------------------------------------------
\* bridge_token_for_account, under no account lock.
MakeToken == listed /\ Put(listed, profile, bundle, TRUE)
               /\ UNCHANGED <<doing, wanted, cause, fresh, mess, verdict, troubles, before>>

Crash ==
  /\ doing # "idle" /\ troubles < MaxTroubles /\ troubles' = troubles + 1
  /\ profile' = Lost(profile) /\ bundle' = Lost(bundle) /\ UNCHANGED <<listed, token>>
  /\ torn' = (bundle = "going" \/ (torn /\ Lost(bundle) # "none"))
  /\ doing' = "idle" /\ cause' = "none" /\ verdict' = "none"
  /\ UNCHANGED <<wanted, fresh, mess, before>>

Next ==
  \/ \E w \in BOOLEAN : Delete(w)
  \/ RemoveAccount \/ SyncService \/ StageProfile \/ StageBundle \/ StageUndone \/ RevokeToken
  \/ UndoBundle \/ CommitBundle \/ CommitUndone \/ CommitProfile \/ UndoProfile \/ Restore
  \/ Add \/ SaveConfig \/ EraseBundle \/ CommitErase \/ EraseUndone \/ Unlist \/ UndoAdd
  \/ MakeToken \/ Crash
-----------------------------------------------------------------------------
TypeOK ==
  /\ {listed, token, wanted, fresh, mess, torn, before} \subseteq BOOLEAN
  /\ {profile, bundle} \subseteq Parts /\ cause \in Causes /\ troubles \in 0 .. MaxTroubles

\* The steps of an addition at which the files are on their way.
Erasing == {"erase", "erase_commit", "erase_back"}

\* Whatever fails, is interrupted or dies, except after a failure to put
\* something back: an account that the configuration names has its profile; its
\* usage files are all there or all gone, but while an addition or a change is
\* at erasing them (config.py:489, after the configuration was saved at 449);
\* and a part of them is missing for good only if a command died between two
\* renames (state.py:484-511), which no later command repairs but by erasing.
ConfiguredIsWhole ==
  listed /\ ~mess =>
    /\ profile = "here"
    /\ bundle \in {"going", "aside"} => doing \in Erasing
    /\ bundle = "part" => torn
-----------------------------------------------------------------------------
(* What makes the property inductive *)

\* What a deletion does while the account is not listed.
Removing == {"sync", "profile", "bundle", "bundle_back", "revoke", "undo", "undo_profile",
             "commit", "commit_back", "commit_profile", "restore"}
Adding   == {"save", "unlist", "undo_add"} \cup Erasing

PartsOK ==
  /\ {listed, mess, torn, before, fresh} \subseteq BOOLEAN /\ {profile, bundle} \subseteq Parts
  /\ ~mess => profile # "part"
  /\ ~mess /\ ~torn => bundle # "part"

\* Things are aside only between the step that puts them there and the one
\* that puts them back or erases them.
AsideOnlyThere ==
  /\ profile = "aside" =>
       doing \in {"bundle", "bundle_back", "revoke", "undo", "undo_profile", "commit",
                 "commit_back", "commit_profile", "restore"}
  /\ profile # "going"
  /\ bundle = "going" =>
       doing \in {"bundle", "bundle_back", "undo", "commit_back", "erase", "erase_back"}
  /\ bundle = "aside" =>
       \/ doing \in {"bundle", "bundle_back", "undo", "commit", "commit_back"} \cup Erasing
       \/ doing = "revoke" /\ cause = "none"

\* The profile that the deletion has found, unless it is being erased.
ProfileStays ==
  /\ doing \in {"remove", "sync", "profile"} \cup Adding /\ ~mess => profile = "here"
  /\ doing \in Removing \ {"sync", "profile", "restore"} /\ ~mess => profile \in {"here", "aside"}
  /\ doing \in {"save", "erase", "erase_commit"} => profile = "here"
  /\ doing = "restore" /\ cause = "error" /\ ~mess => profile = "here"

ListedWhen ==
  /\ doing \in Removing => ~listed
  /\ doing = "save" => (listed <=> before)
  /\ doing = "undo_add" /\ ~mess => (listed <=> before)
  /\ doing \in Adding /\ before /\ ~mess => ~fresh

SmoothSoFar ==
  doing \in {"remove", "sync", "profile", "bundle", "commit", "commit_profile", "save", "erase",
            "erase_commit"} => cause = "none"

DeleteInv ==
  PartsOK /\ AsideOnlyThere /\ ProfileStays /\ ListedWhen /\ SmoothSoFar /\ ConfiguredIsWhole
=============================================================================

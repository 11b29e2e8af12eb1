------------------------------ MODULE Updater -------------------------------
(***************************************************************************)
(* In-app updates: the release manifest signed by the operator             *)
(* (crates/cli/src/updatecmd.rs, crates/core/src/update.rs), loaded and    *)
(* served by the registry (crates/registry/src/main.rs), and checked,      *)
(* downloaded and applied by the desktop app (crates/desktop/src/main.rs   *)
(* and updater.rs), with crashes of the app at every step of the swap.     *)
(*                                                                         *)
(* A staged file is good when its bytes have the hash of the manifest.     *)
(* Another instance of the app stages under the same name, so a file can   *)
(* be damaged after it was verified; the code hashes it again before the   *)
(* swap, and what is damaged after that is [late].                         *)
(***************************************************************************)
EXTENDS Naturals

CONSTANTS
    MaxVersion,  \* bound: releases
    Keys,        \* signing keys
    Baked,       \* UPDATE_RELEASE_PUBKEYS of the app
    RegTrust,    \* --update-trust of the registry
    Flavors,     \* how the app may be installed
    MaxFaults    \* bound: crashes, failures and damages

Versions == 1 .. MaxVersion

UpdaterAssumption == MaxVersion \in Nat

VARIABLES
    file,       \* release-manifest.json at the registry
    served,     \* AppState.update of the registry
    flavor,     \* the flavor of this installation
    running,    \* the version of the running app, 0 when it is not running
    available,  \* UpdateUi.available
    dismissed,  \* UpdateUi.dismissed: a version or 0
    check,      \* UpdateUi.checking, and the answer on its way
    task,       \* the download and apply task: UpdateUi.applying is task.st # "none"
    staged,     \* the staged file
    bundle,     \* the installed app
    backup,     \* the .app.old beside it
    torn,       \* history: a copy of the new app broke off half way
    late,       \* history: the staged file was damaged after its last check
    faults

updVars == <<file, served, flavor, running, available, dismissed, check, task, staged, bundle,
             backup, torn, late, faults>>

NoRelease == [v |-> 0, key |-> "none", fresh |-> TRUE, min |-> 0]
NoInfo == [v |-> 0, forced |-> FALSE]
NoCheck == [st |-> "none", info |-> NoInfo]
NoTask == [st |-> "none", info |-> NoInfo]
NoFile == [v |-> 0, good |-> FALSE]
Whole(a) == a.v # 0 /\ a.good

(* forced: below the security floor of the release *)
Infos == {NoInfo} \cup [v : Versions, forced : BOOLEAN]
States == {"none", "download", "apply", "swap", "aside", "movein", "ditto", "rollback", "drop",
           "relaunch", "relaunching", "installer", "swapped", "manual", "failed"}

UpdaterTypeOK ==
    /\ {file, served} \subseteq {NoRelease} \cup [v : Versions, key : Keys, fresh : BOOLEAN, min : 0 .. MaxVersion]
    /\ running \in 0 .. MaxVersion /\ available \in Infos /\ dismissed \in 0 .. MaxVersion
    /\ check \in [st : {"none", "asked", "found", "nothing"}, info : Infos]
    /\ task \in [st : States, info : Infos]
    /\ {staged, bundle, backup} \subseteq [v : 0 .. MaxVersion, good : BOOLEAN]

Init ==
    /\ file = NoRelease /\ served = NoRelease
    /\ flavor \in Flavors /\ running \in Versions
    /\ available = NoInfo /\ dismissed = 0 /\ check = NoCheck /\ task = NoTask
    /\ staged = NoFile /\ bundle = [v |-> running, good |-> TRUE] /\ backup = NoFile
    /\ torn = FALSE /\ late = FALSE /\ faults = 0

Fault == faults < MaxFaults /\ faults' = faults + 1
Server == <<file, served, flavor>>
Ui == <<available, dismissed, check>>
Disk == <<staged, bundle, backup>>
Hist == <<torn, late>>

-----------------------------------------------------------------------------
(* The release *)

(* atlas update sign, by the operator: a later version, signed with one key,
   with or without a floor. *)
Sign(v, key, min) ==
    /\ v > file.v
    /\ file' = [v |-> v, key |-> key, fresh |-> TRUE, min |-> min]
    /\ UNCHANGED <<served, flavor, running, Ui, task, Disk, Hist, faults>>

(* is_signed_by_trusted *)
SignedBy(r, trusted) == r.key \in trusted

(* load_release_manifest, when the registry restarts: anything wrong with the
   file means that there is no update. *)
LoadRelease ==
    /\ served' = IF SignedBy(file, RegTrust) THEN file ELSE NoRelease
    /\ UNCHANGED <<file, flavor, running, Ui, task, Disk, Hist, faults>>

Expire ==
    /\ served.fresh /\ served # NoRelease
    /\ served' = [served EXCEPT !.fresh = FALSE]
    /\ UNCHANGED <<file, flavor, running, Ui, task, Disk, Hist, faults>>

-----------------------------------------------------------------------------
(* The check *)

(* start_update_check, at launch, by the setting or by hand. *)
StartCheck ==
    /\ running # 0 /\ check.st = "none" /\ task.st = "none"
    /\ check' = [NoCheck EXCEPT !.st = "asked"]
    /\ UNCHANGED <<Server, running, available, dismissed, task, Disk, Hist, faults>>

(* Mutant: any other version is an update. *)
OfferedOther(r) ==
    IF SignedBy(r, Baked) /\ r.fresh /\ r.v # running
    THEN [v |-> r.v, forced |-> r.min > running] ELSE NoInfo

(* check_with_trust: a release signed with a key of this binary, not expired
   and newer than the running version (is_newer_than, is_forced_for). *)
Offered(r) ==
    IF SignedBy(r, Baked) /\ r.fresh /\ r.v > running
    THEN [v |-> r.v, forced |-> r.min > running] ELSE NoInfo

CheckAnswers ==
    /\ check.st = "asked"
    /\ check' = [st |-> IF Offered(served) = NoInfo THEN "nothing" ELSE "found",
                 info |-> Offered(served)]
    /\ UNCHANGED <<Server, running, available, dismissed, task, Disk, Hist, faults>>

CheckFails ==
    /\ check.st = "asked" /\ Fault
    /\ check' = [st |-> "nothing", info |-> NoInfo]
    /\ UNCHANGED <<Server, running, available, dismissed, task, Disk, Hist>>

(* Msg::UpdateChecked: nothing found leaves what was found before. *)
UpdateChecked ==
    /\ check.st \in {"found", "nothing"}
    /\ check' = NoCheck
    /\ IF check.st = "found"
       THEN /\ available' = check.info
            /\ dismissed' = IF dismissed = check.info.v THEN dismissed ELSE 0
       ELSE UNCHANGED <<available, dismissed>>
    /\ UNCHANGED <<Server, running, task, Disk, Hist, faults>>

(* UpdateUi::banner *)
Banner == available # NoInfo /\ (available.forced \/ dismissed # available.v)

Dismiss ==
    /\ Banner /\ ~available.forced
    /\ dismissed' = available.v
    /\ UNCHANGED <<Server, running, available, check, task, Disk, Hist, faults>>

-----------------------------------------------------------------------------
(* The download: start_update_apply, download_verified *)

StartApply ==
    /\ available # NoInfo /\ task.st = "none"
    /\ task' = [st |-> "download", info |-> available]
    /\ UNCHANGED <<Server, running, Ui, Disk, Hist, faults>>

To(st) == task' = [task EXCEPT !.st = st]

(* The bytes have the pinned hash and take the name of the asset. *)
Downloaded ==
    /\ task.st = "download"
    /\ staged' = [v |-> task.info.v, good |-> TRUE]
    /\ To("apply")
    /\ UNCHANGED <<Server, running, Ui, bundle, backup, Hist, faults>>

(* They have not, are too many, or stop coming: the partial goes. *)
DownloadFails ==
    /\ task.st = "download" /\ Fault
    /\ To("failed")
    /\ UNCHANGED <<Server, running, Ui, Disk, Hist>>

(* Another instance stages the same asset; an installer that runs is locked. *)
StagedDamaged ==
    /\ Whole(staged) /\ task.st # "installer" /\ Fault
    /\ staged' = [staged EXCEPT !.good = FALSE]
    /\ late' = (late \/ task.st \in {"swap", "aside", "movein", "ditto"})
    /\ UNCHANGED <<Server, running, Ui, task, bundle, backup, torn>>

-----------------------------------------------------------------------------
(* updater::apply *)

(* Mutant: the hash of the download is enough. *)
ApplyUnchecked ==
    /\ task.st = "apply"
    /\ To(CASE flavor = "managed" -> "manual" [] flavor = "mac" -> "aside" [] OTHER -> "swap")
    /\ UNCHANGED <<Server, running, Ui, Disk, Hist, faults>>

(* verify_file_sha256, then by flavor; a location that cannot be written, like
   a managed installation, leaves the update to the user. *)
Apply ==
    /\ task.st = "apply"
    /\ IF ~staged.good THEN To("failed")
       ELSE \/ To(CASE flavor = "managed" -> "manual" [] flavor = "mac" -> "aside" [] OTHER -> "swap")
            \/ flavor \in {"mac", "appimage"} /\ To("manual")
    /\ UNCHANGED <<Server, running, Ui, Disk, Hist, faults>>

(* apply_self_replace, apply_appimage: unpacked or copied aside, and renamed
   over the old in one step. *)
Swap ==
    /\ task.st = "swap" /\ flavor \in {"portable", "appimage"}
    /\ bundle' = [v |-> task.info.v, good |-> staged.good]
    /\ staged' = NoFile
    /\ To("relaunch")
    /\ UNCHANGED <<Server, running, Ui, backup, Hist, faults>>

(* apply_windows_installer: the installer replaces the app once it has gone. *)
LaunchInstaller ==
    /\ task.st = "swap" /\ flavor = "installer"
    /\ To("installer")
    /\ UNCHANGED <<Server, running, Ui, Disk, Hist, faults>>

(* The archive does not unpack, a rename or the installer is refused. *)
SwapFails ==
    /\ task.st \in {"swap", "aside"} /\ Fault
    /\ To("failed")
    /\ staged' \in {staged, NoFile}
    /\ backup' \in (IF task.st = "aside" THEN {backup, NoFile} ELSE {backup})
    /\ UNCHANGED <<Server, running, Ui, bundle, Hist>>

(* Mutant: the old bundle is removed to make room. *)
MoveAsideByRemoval ==
    /\ task.st = "aside"
    /\ backup' = NoFile /\ bundle' = NoFile
    /\ To("movein")
    /\ UNCHANGED <<Server, running, Ui, staged, Hist, faults>>

(* apply_macos: the backup of an earlier update goes, the old bundle takes its
   place ... *)
MoveAside ==
    /\ task.st = "aside"
    /\ backup' = bundle /\ bundle' = NoFile
    /\ To("movein")
    /\ UNCHANGED <<Server, running, Ui, staged, Hist, faults>>

(* ... and the new one its own; across volumes it is copied. *)
MoveIn ==
    /\ task.st \in {"movein", "ditto"}
    /\ bundle' = [v |-> task.info.v, good |-> staged.good]
    /\ To("drop")
    /\ UNCHANGED <<Server, running, Ui, staged, backup, Hist, faults>>

CrossVolume ==
    /\ task.st = "movein"
    /\ To("ditto")
    /\ UNCHANGED <<Server, running, Ui, Disk, Hist, faults>>

(* The copy fails, before or after it made the directory. *)
CopyFails ==
    /\ task.st = "ditto" /\ Fault
    /\ To("rollback")
    /\ \/ UNCHANGED <<bundle, torn>>
       \/ bundle' = [v |-> task.info.v, good |-> FALSE] /\ torn' = TRUE
    /\ UNCHANGED <<Server, running, Ui, staged, backup, late>>

(* The old bundle is renamed back, which a directory in its place prevents. *)
RollBack ==
    /\ task.st = "rollback"
    /\ IF bundle = NoFile THEN bundle' = backup /\ backup' = NoFile ELSE UNCHANGED <<bundle, backup>>
    /\ To("failed")
    /\ UNCHANGED <<Server, running, Ui, staged, Hist, faults>>

DropBackup ==
    /\ task.st = "drop"
    /\ backup' = NoFile /\ staged' = NoFile
    /\ To("relaunch")
    /\ UNCHANGED <<Server, running, Ui, bundle, Hist, faults>>

(* relaunched_or_failed *)
Relaunch(ok) ==
    /\ task.st = "relaunch"
    /\ To(IF ok THEN "relaunching" ELSE "swapped")
    /\ IF ok THEN UNCHANGED faults ELSE Fault
    /\ UNCHANGED <<Server, running, Ui, Disk, Hist>>

-----------------------------------------------------------------------------
(* A process that starts has the state of App::new. *)
Starts(v) ==
    /\ running' = v
    /\ available' = NoInfo /\ dismissed' = 0 /\ check' = NoCheck /\ task' = NoTask

(* Mutant: an error leaves the button busy. *)
AppliedUnlessFailed ==
    /\ task.st \in {"swapped", "manual"}
    /\ task' = NoTask
    /\ available' = NoInfo
    /\ UNCHANGED <<Server, running, dismissed, check, Disk, Hist, faults>>

(* Msg::UpdateApplied where the app goes on: an update that failed stays on
   offer. *)
Applied ==
    /\ task.st \in {"swapped", "manual", "failed"}
    /\ task' = NoTask
    /\ available' = IF task.st = "failed" THEN available ELSE NoInfo
    /\ UNCHANGED <<Server, running, dismissed, check, Disk, Hist, faults>>

(* ... and where it exits: to the copy it started, or to the installer, which
   installs and starts the new version. *)
Exit ==
    /\ task.st = "relaunching"
    /\ Starts(bundle.v)
    /\ UNCHANGED <<Server, Disk, Hist, faults>>

ExitToInstaller ==
    /\ task.st = "installer"
    /\ bundle' = [v |-> task.info.v, good |-> staged.good]
    /\ Starts(task.info.v)
    /\ UNCHANGED <<Server, staged, backup, Hist, faults>>

(* The app dies or is quit at any moment; it is opened again if it is there. *)
Crash ==
    /\ running # 0 /\ Fault
    /\ Starts(0)
    /\ UNCHANGED <<Server, Disk, Hist>>

Reopen ==
    /\ running = 0 /\ Whole(bundle)
    /\ Starts(bundle.v)
    /\ UNCHANGED <<Server, Disk, Hist, faults>>

-----------------------------------------------------------------------------
ApplyTask ==
    \/ Downloaded \/ DownloadFails \/ Apply \/ Swap \/ LaunchInstaller \/ SwapFails
    \/ MoveAside \/ MoveIn \/ CrossVolume \/ CopyFails \/ RollBack \/ DropBackup
    \/ (\E ok \in BOOLEAN : Relaunch(ok)) \/ Applied \/ Exit \/ ExitToInstaller

CheckTask == CheckAnswers \/ CheckFails \/ UpdateChecked

Next ==
    \/ \E v \in Versions, key \in Keys : \E min \in {0, v} : Sign(v, key, min)
    \/ LoadRelease \/ Expire
    \/ StartCheck \/ CheckTask \/ Dismiss \/ StartApply \/ ApplyTask
    \/ StagedDamaged \/ Crash \/ Reopen

Spec == Init /\ [][Next]_updVars /\ WF_updVars(ApplyTask) /\ WF_updVars(CheckTask)

-----------------------------------------------------------------------------
(* What is installed is a release signed with a key of the app and has the
   bytes it pinned, also when the staged file changed between the download and
   the swap. *)
InstalledIsGenuine ==
    bundle # NoFile => bundle.good \/ torn \/ late

(* There is always a whole app to go back to, as the bundle or beside it: a
   crash between any two steps of the swap does not lose the old one before
   the new one is there. *)
AppRecoverable == Whole(bundle) \/ Whole(backup) \/ torn \/ late

(* The version that runs goes forward only: no restart, offer or swap takes
   the user back. *)
NeverOlder == running' # 0 /\ running # 0 => running' >= running

(* Every update that was begun ends: with the new version, or with the button
   free again. *)
ApplyEnds == task.st # "none" ~> task.st = "none"

(* After an update that failed the old app is in its place: "Roll back so the
   user isn't left without an app". *)
RollbackRestores == task.st = "failed" => bundle # NoFile /\ (bundle.good \/ late)
=============================================================================

---------------------------- MODULE DesktopProofs ----------------------------
(***************************************************************************)
(* Machine-checked proofs about the views that wait for tasks and about    *)
(* the updater (MCDesktop), one part after the other, for any models,      *)
(* queries, caps, releases, keys, failures and crashes.                    *)
(***************************************************************************)
EXTENDS MCDesktop, Sequences, TLAPS

-----------------------------------------------------------------------------
(* The updater (Updater) *)

Releases == {Update!NoRelease} \cup [v : Update!Versions, key : SignKeys, fresh : BOOLEAN, min : 0 .. MaxVersion]
Apps == [v : 0 .. MaxVersion, good : BOOLEAN]
CheckType == [st : {"none", "asked", "found", "nothing"}, info : Update!Infos]
TaskType == [st : Update!States, info : Update!Infos]

UpdShape ==
    /\ file \in Releases /\ served \in Releases
    /\ running \in 0 .. MaxVersion /\ dismissed \in 0 .. MaxVersion
    /\ available \in Update!Infos /\ check \in CheckType /\ task \in TaskType
    /\ staged \in Apps /\ bundle \in Apps /\ backup \in Apps
    /\ torn \in BOOLEAN /\ late \in BOOLEAN

(* Whatever is on offer, checked or applied is newer than the app that runs;
   an app that does not run offers nothing. *)
UpdOffers ==
    /\ available # Update!NoInfo => available.v > running
    /\ check.st = "found" => check.info.v > running
    /\ task.st # "none" => task.info.v > running
    /\ task.st \in {"drop", "relaunch", "relaunching"} => bundle.v = task.info.v
    /\ running = 0 => available = Update!NoInfo /\ check.st = "none" /\ task.st = "none"

Spoilt == torn \/ late
MacSwap == {"movein", "ditto", "rollback"}

(* The old app is aside while the bundle's place is empty, and what comes into
   that place was whole when it was last looked at. *)
UpdWhole ==
    /\ bundle # Update!NoFile => bundle.good \/ Spoilt
    /\ task.st \in {"swap", "aside", "movein", "ditto", "installer"} => staged.good \/ late
    /\ task.st \in {"movein", "ditto"} => bundle = Update!NoFile
    /\ task.st = "rollback" => bundle = Update!NoFile \/ torn
    /\ task.st \in MacSwap => Update!Whole(backup) \/ Spoilt
    /\ running # 0 /\ task.st \notin MacSwap => Update!Whole(bundle) \/ Spoilt
    /\ Update!Whole(bundle) \/ Update!Whole(backup) \/ Spoilt

UpdInv == UpdShape /\ UpdOffers /\ UpdWhole

LEMMA UpdConstants == MaxVersion \in Nat
  BY DesktopAssumed DEF Update!UpdaterAssumption

LEMMA InfoTyped ==
    ASSUME NEW i \in Update!Infos
    PROVE  i.v \in 0 .. MaxVersion /\ (i # Update!NoInfo => i.v \in Update!Versions)
  BY UpdConstants DEF Update!Infos, Update!NoInfo, Update!Versions

LEMMA NothingTyped ==
    /\ Update!NoInfo \in Update!Infos /\ Update!NoCheck \in CheckType /\ Update!NoTask \in TaskType
    /\ Update!NoFile \in Apps /\ Update!NoFile.v = 0
    /\ Update!NoRelease \in Releases
    /\ Update!NoCheck.st = "none" /\ Update!NoTask.st = "none"
  BY UpdConstants DEF Update!NoInfo, Update!Infos, Update!NoCheck, CheckType, Update!NoTask, TaskType,
     Update!States, Update!NoFile, Apps, Update!NoRelease, Releases

LEMMA UpdInit ==
    ASSUME Update!Init
    PROVE  UpdInv
  <1>1. /\ file = Update!NoRelease /\ served = Update!NoRelease /\ running \in Update!Versions
        /\ available = Update!NoInfo /\ dismissed = 0 /\ check = Update!NoCheck /\ task = Update!NoTask
        /\ staged = Update!NoFile /\ bundle = [v |-> running, good |-> TRUE] /\ backup = Update!NoFile
        /\ torn = FALSE /\ late = FALSE
    BY DEF Update!Init
  <1>2. running \in 0 .. MaxVersion /\ running # 0 /\ 0 \in 0 .. MaxVersion
    BY <1>1, UpdConstants DEF Update!Versions
  <1>3. bundle \in Apps /\ bundle.v = running /\ bundle.good = TRUE
    BY <1>1, <1>2 DEF Apps
  <1>4. UpdShape
    BY <1>1, <1>2, <1>3, NothingTyped DEF UpdShape
  <1>5. UpdOffers
    BY <1>1, <1>2, NothingTyped DEF UpdOffers
  <1>6. UpdWhole
    BY <1>1, <1>2, <1>3, NothingTyped DEF UpdWhole, Update!Whole, MacSwap
  <1> QED
    BY <1>4, <1>5, <1>6 DEF UpdInv

LEMMA TaskMoves ==
    ASSUME UpdInv, NEW s \in Update!States, Update!To(s)
    PROVE  task' \in TaskType /\ task'.st = s /\ task'.info = task.info
  BY DEF UpdInv, UpdShape, Update!To, TaskType

(* What a task applies is a release. *)
LEMMA TaskInfo ==
    ASSUME UpdInv, task.st # "none"
    PROVE  task.info.v \in 1 .. MaxVersion /\ task.info.v > running /\ running \in 1 .. MaxVersion
  <1>1. task.info \in Update!Infos /\ task.info.v > running /\ running \in 0 .. MaxVersion /\ running # 0
    BY DEF UpdInv, UpdShape, UpdOffers, TaskType
  <1>2. task.info.v \in 0 .. MaxVersion
    BY <1>1, InfoTyped
  <1> QED
    BY <1>1, <1>2, UpdConstants

-----------------------------------------------------------------------------
(* The release and the check *)

(* Nothing but the registry changes. *)
LEMMA RegistryStep ==
    ASSUME UpdInv, file' \in Releases, served' \in Releases,
           UNCHANGED <<running, available, dismissed, check, task, staged, bundle, backup, torn, late>>
    PROVE  UpdInv'
  BY DEF UpdInv, UpdShape, UpdOffers, UpdWhole, Spoilt, MacSwap, Update!Whole

LEMMA Signs ==
    ASSUME UpdInv, NEW v \in Update!Versions, NEW key \in SignKeys, NEW min \in {0, v}, Update!Sign(v, key, min)
    PROVE  UpdInv'
  <1>1. min \in 0 .. MaxVersion
    BY UpdConstants DEF Update!Versions
  <1>2. [v |-> v, key |-> key, fresh |-> TRUE, min |-> min] \in Releases
    BY <1>1 DEF Releases
  <1>3. file' \in Releases /\ served' \in Releases
    BY <1>2 DEF Update!Sign, UpdInv, UpdShape
  <1>4. UNCHANGED <<running, available, dismissed, check, task, staged, bundle, backup, torn, late>>
    BY DEF Update!Sign, Update!Ui, Update!Disk, Update!Hist
  <1> QED
    BY <1>3, <1>4, RegistryStep

LEMMA Loads ==
    ASSUME UpdInv, Update!LoadRelease \/ Update!Expire
    PROVE  UpdInv'
  <1>1. UNCHANGED <<running, available, dismissed, check, task, staged, bundle, backup, torn, late, file>>
    BY DEF Update!LoadRelease, Update!Expire, Update!Ui, Update!Disk, Update!Hist
  <1>2. file \in Releases /\ served \in Releases
    BY DEF UpdInv, UpdShape
  <1>3. CASE Update!LoadRelease
    <2>1. served' \in Releases
      BY <1>2, <1>3, NothingTyped DEF Update!LoadRelease
    <2> QED
      BY <1>1, <1>2, <2>1, RegistryStep
  <1>4. CASE Update!Expire
    <2>1. served # Update!NoRelease /\ served' = [served EXCEPT !.fresh = FALSE]
      BY <1>4 DEF Update!Expire
    <2>2. served' \in Releases
      BY <1>2, <2>1 DEF Releases
    <2> QED
      BY <1>1, <1>2, <2>2, RegistryStep
  <1> QED
    BY <1>3, <1>4

(* The window changes, and what it offers is newer than what runs. *)
LEMMA WindowStep ==
    ASSUME UpdInv, UNCHANGED <<file, served, running, task, staged, bundle, backup, torn, late>>,
           available' \in Update!Infos, check' \in CheckType, dismissed' \in 0 .. MaxVersion,
           available' # Update!NoInfo => available'.v > running,
           check'.st = "found" => check'.info.v > running,
           running # 0
    PROVE  UpdInv'
  <1>1. UpdShape'
    BY DEF UpdInv, UpdShape
  <1>2. UpdOffers'
    BY DEF UpdInv, UpdOffers
  <1>3. UpdWhole'
    BY DEF UpdInv, UpdWhole, Spoilt, MacSwap, Update!Whole
  <1> QED
    BY <1>1, <1>2, <1>3 DEF UpdInv

LEMMA OfferedFacts ==
    ASSUME UpdInv
    PROVE  /\ Update!Offered(served) \in Update!Infos
           /\ Update!Offered(served) # Update!NoInfo => Update!Offered(served).v > running
  <1>1. running \in 0 .. MaxVersion /\ served \in Releases
    BY DEF UpdInv, UpdShape
  <1>2. CASE served.v > running /\ Update!Offered(served) = [v |-> served.v, forced |-> served.min > running]
    <2>1. Update!NoRelease.v = 0
      BY DEF Update!NoRelease
    <2>2. served.v \in Update!Versions
      <3>1. served.v # 0
        BY <1>1, <1>2, UpdConstants
      <3> QED
        BY <1>1, <2>1, <3>1 DEF Releases
    <2>3. PICK f \in BOOLEAN : Update!Offered(served) = [v |-> served.v, forced |-> f]
      <3> DEFINE low == served.min > running
      <3>1. low \in BOOLEAN /\ Update!Offered(served) = [v |-> served.v, forced |-> low]
        BY <1>2
      <3> QED
        BY <3>1
    <2>4. [v |-> served.v, forced |-> f] \in [v : Update!Versions, forced : BOOLEAN]
      BY <2>2
    <2>5. Update!Offered(served) \in Update!Infos
      BY <2>3, <2>4 DEF Update!Infos
    <2> QED
      BY <1>2, <2>3, <2>5
  <1>3. CASE Update!Offered(served) = Update!NoInfo
    BY <1>3, NothingTyped
  <1> QED
    BY <1>2, <1>3 DEF Update!Offered

LEMMA Checks ==
    ASSUME UpdInv, Update!StartCheck \/ Update!CheckTask
    PROVE  UpdInv'
  <1>1. UNCHANGED <<file, served, running, task, staged, bundle, backup, torn, late>>
    BY DEF Update!StartCheck, Update!CheckTask, Update!CheckAnswers, Update!CheckFails, Update!UpdateChecked,
       Update!Server, Update!Disk, Update!Hist
  <1>2. /\ available \in Update!Infos /\ check \in CheckType /\ dismissed \in 0 .. MaxVersion
        /\ available # Update!NoInfo => available.v > running
        /\ check.st = "found" => check.info.v > running
        /\ check.st # "none" => running # 0
    BY DEF UpdInv, UpdShape, UpdOffers
  <1>3. CASE Update!StartCheck
    <2>1. /\ running # 0 /\ check' = [Update!NoCheck EXCEPT !.st = "asked"]
          /\ available' = available /\ dismissed' = dismissed
      BY <1>3 DEF Update!StartCheck
    <2>2. check' \in CheckType /\ check'.st = "asked"
      BY <2>1, NothingTyped DEF CheckType
    <2> QED
      BY <1>1, <1>2, <2>1, <2>2, WindowStep
  <1>4. CASE Update!CheckAnswers
    <2>1. PICK o : o = Update!Offered(served)
      OBVIOUS
    <2>2. o \in Update!Infos /\ (o # Update!NoInfo => o.v > running)
      BY <2>1, OfferedFacts
    <2>3. /\ check.st = "asked" /\ available' = available /\ dismissed' = dismissed
          /\ check' = [st |-> IF o = Update!NoInfo THEN "nothing" ELSE "found", info |-> o]
      BY <1>4, <2>1 DEF Update!CheckAnswers
    <2>4. check' \in CheckType /\ (check'.st = "found" => check'.info.v > running)
      BY <2>2, <2>3 DEF CheckType
    <2> QED
      BY <1>1, <1>2, <2>3, <2>4, WindowStep
  <1>5. CASE Update!CheckFails
    <2>1. /\ check.st = "asked" /\ check' = [st |-> "nothing", info |-> Update!NoInfo]
          /\ available' = available /\ dismissed' = dismissed
      BY <1>5 DEF Update!CheckFails
    <2>2. check' \in CheckType /\ check'.st = "nothing"
      BY <2>1, NothingTyped DEF CheckType
    <2> QED
      BY <1>1, <1>2, <2>1, <2>2, WindowStep
  <1>6. CASE Update!UpdateChecked
    <2>1. /\ check.st \in {"found", "nothing"} /\ check' = Update!NoCheck
          /\ \/ check.st = "found" /\ available' = check.info /\ dismissed' \in {dismissed, 0}
             \/ available' = available /\ dismissed' = dismissed
      BY <1>6 DEF Update!UpdateChecked
    <2>2. check' \in CheckType /\ check'.st = "none" /\ check.info \in Update!Infos
      BY <1>2, <2>1, NothingTyped DEF CheckType
    <2>3. available' \in Update!Infos /\ (available' # Update!NoInfo => available'.v > running)
      BY <1>2, <2>1, <2>2
    <2>4. dismissed' \in 0 .. MaxVersion
      BY <1>2, <2>1, UpdConstants
    <2> QED
      BY <1>1, <1>2, <2>1, <2>2, <2>3, <2>4, WindowStep
  <1> QED
    BY <1>3, <1>4, <1>5, <1>6 DEF Update!CheckTask

LEMMA Dismisses ==
    ASSUME UpdInv, Update!Dismiss
    PROVE  UpdInv'
  <1>1. /\ UNCHANGED <<file, served, running, task, staged, bundle, backup, torn, late, available, check>>
        /\ available # Update!NoInfo /\ dismissed' = available.v
    BY DEF Update!Dismiss, Update!Banner, Update!Server, Update!Disk, Update!Hist
  <1>2. /\ available \in Update!Infos /\ check \in CheckType
        /\ available # Update!NoInfo => available.v > running
        /\ check.st = "found" => check.info.v > running
        /\ running # 0
    BY <1>1 DEF UpdInv, UpdShape, UpdOffers
  <1>3. dismissed' \in 0 .. MaxVersion
    BY <1>1, <1>2, InfoTyped
  <1> QED
    BY <1>1, <1>2, <1>3, WindowStep

-----------------------------------------------------------------------------
(* The download and the swap *)

LEMMA AppliesStart ==
    ASSUME UpdInv, Update!StartApply
    PROVE  UpdInv'
  <1>1. /\ UNCHANGED <<file, served, running, staged, bundle, backup, torn, late, available, dismissed, check>>
        /\ available # Update!NoInfo /\ task.st = "none" /\ task' = [st |-> "download", info |-> available]
    BY DEF Update!StartApply, Update!Server, Update!Ui, Update!Disk, Update!Hist
  <1>2. available \in Update!Infos /\ available.v > running /\ running # 0
    BY <1>1 DEF UpdInv, UpdShape, UpdOffers
  <1>3. task' \in TaskType /\ task'.st = "download" /\ task'.info = available
    BY <1>1, <1>2 DEF TaskType, Update!States
  <1>4. UpdShape'
    BY <1>1, <1>3 DEF UpdInv, UpdShape
  <1>5. UpdOffers'
    BY <1>1, <1>2, <1>3 DEF UpdInv, UpdOffers
  <1>6. UpdWhole'
    BY <1>1, <1>2, <1>3 DEF UpdInv, UpdWhole, Spoilt, MacSwap, Update!Whole
  <1> QED
    BY <1>4, <1>5, <1>6 DEF UpdInv

(* A step of the task that goes on with its release. *)
LEMMA TaskStep ==
    ASSUME UpdInv, task.st # "none", NEW s \in Update!States, s # "none", Update!To(s),
           UNCHANGED <<file, served, running, available, dismissed, check>>,
           staged' \in Apps, bundle' \in Apps, backup' \in Apps, torn' \in BOOLEAN, late' \in BOOLEAN,
           s \in {"drop", "relaunch", "relaunching"} => bundle'.v = task.info.v,
           UpdWhole'
    PROVE  UpdInv'
  <1>1. task' \in TaskType /\ task'.st = s /\ task'.info = task.info
    BY TaskMoves
  <1>2. UpdShape'
    BY <1>1 DEF UpdInv, UpdShape
  <1>3. UpdOffers'
    BY <1>1 DEF UpdInv, UpdOffers
  <1> QED
    BY <1>2, <1>3 DEF UpdInv

(* Those that leave the disk as it is. *)
LEMMA QuietStep ==
    ASSUME UpdInv, task.st \notin MacSwap \cup {"none"}, NEW s \in Update!States \ {"none"}, Update!To(s),
           UNCHANGED <<file, served, running, available, dismissed, check, staged, bundle, backup, torn, late>>,
           s \notin MacSwap \cup {"drop"},
           s \in {"relaunch", "relaunching"} => task.st = "relaunch",
           s \in {"swap", "aside", "installer"} => staged.good \/ late
    PROVE  UpdInv'
  <1>1. task'.st = s /\ running # 0
    BY TaskMoves, TaskInfo
  <1>2. UpdWhole'
    BY <1>1 DEF UpdInv, UpdWhole, Spoilt, MacSwap, Update!Whole
  <1>3. s \in {"drop", "relaunch", "relaunching"} => bundle'.v = task.info.v
    BY DEF UpdInv, UpdOffers
  <1>4. staged' \in Apps /\ bundle' \in Apps /\ backup' \in Apps /\ torn' \in BOOLEAN /\ late' \in BOOLEAN
    BY DEF UpdInv, UpdShape
  <1> QED
    BY <1>2, <1>3, <1>4, TaskStep DEF MacSwap

LEMMA Downloads ==
    ASSUME UpdInv, Update!Downloaded \/ Update!DownloadFails
    PROVE  UpdInv'
  <1>1. /\ task.st = "download"
        /\ UNCHANGED <<file, served, running, available, dismissed, check, bundle, backup, torn, late>>
    BY DEF Update!Downloaded, Update!DownloadFails, Update!Server, Update!Ui, Update!Disk, Update!Hist
  <1>2. CASE Update!Downloaded
    <2>1. staged' = [v |-> task.info.v, good |-> TRUE] /\ Update!To("apply")
      BY <1>2 DEF Update!Downloaded
    <2>2. task.info.v \in 0 .. MaxVersion /\ running # 0
      BY <1>1, TaskInfo, UpdConstants
    <2>3. staged' \in Apps
      BY <2>1, <2>2 DEF Apps
    <2>4. task'.st = "apply" /\ "apply" \in Update!States
      BY <2>1, TaskMoves DEF Update!States
    <2>5. UpdWhole'
      BY <1>1, <2>2, <2>4 DEF UpdInv, UpdWhole, Spoilt, MacSwap, Update!Whole
    <2>6. bundle' \in Apps /\ backup' \in Apps /\ torn' \in BOOLEAN /\ late' \in BOOLEAN
      BY <1>1 DEF UpdInv, UpdShape
    <2> QED
      BY <1>1, <2>1, <2>3, <2>4, <2>5, <2>6, TaskStep
  <1>3. CASE Update!DownloadFails
    <2>1. Update!To("failed") /\ UNCHANGED staged
      BY <1>3 DEF Update!DownloadFails, Update!Disk
    <2>2. "failed" \in Update!States \ {"none"}
      BY DEF Update!States
    <2> QED
      BY <1>1, <2>1, <2>2, QuietStep DEF MacSwap
  <1> QED
    BY <1>2, <1>3

LEMMA Damages ==
    ASSUME UpdInv, Update!StagedDamaged
    PROVE  UpdInv'
  <1>1. /\ task.st # "installer" /\ staged' = [staged EXCEPT !.good = FALSE]
        /\ late' = (late \/ task.st \in {"swap", "aside", "movein", "ditto"})
        /\ UNCHANGED <<file, served, running, available, dismissed, check, task, bundle, backup, torn>>
    BY DEF Update!StagedDamaged, Update!Server, Update!Ui
  <1>2. staged' \in Apps /\ late' \in BOOLEAN
    BY <1>1 DEF UpdInv, UpdShape, Apps
  <1>3. UpdShape'
    BY <1>1, <1>2 DEF UpdInv, UpdShape
  <1>4. UpdOffers'
    BY <1>1 DEF UpdInv, UpdOffers
  <1>5. UpdWhole'
    <2>1. late => late'
      BY <1>1
    <2>2. task.st \in {"swap", "aside", "movein", "ditto", "installer"} => late'
      BY <1>1
    <2> QED
      BY <1>1, <2>1, <2>2 DEF UpdInv, UpdWhole, Spoilt, MacSwap, Update!Whole
  <1> QED
    BY <1>3, <1>4, <1>5 DEF UpdInv

LEMMA Applies ==
    ASSUME UpdInv, Update!Apply \/ Update!LaunchInstaller
    PROVE  UpdInv'
  <1>1. UNCHANGED <<file, served, running, available, dismissed, check, staged, bundle, backup, torn, late>>
    BY DEF Update!Apply, Update!LaunchInstaller, Update!Server, Update!Ui, Update!Disk, Update!Hist
  <1>2. CASE Update!Apply
    <2>1. PICK s \in {"failed", "manual", "aside", "swap"} : Update!To(s) /\ (s \in {"aside", "swap"} => staged.good)
      BY <1>2 DEF Update!Apply
    <2>2. task.st = "apply" /\ s \in Update!States
      BY <1>2 DEF Update!Apply, Update!States
    <2> QED
      BY <1>1, <2>1, <2>2, QuietStep DEF MacSwap
  <1>3. CASE Update!LaunchInstaller
    <2>1. task.st = "swap" /\ Update!To("installer") /\ "installer" \in Update!States
      BY <1>3 DEF Update!LaunchInstaller, Update!States
    <2>2. staged.good \/ late
      BY <2>1 DEF UpdInv, UpdWhole
    <2> QED
      BY <1>1, <2>1, <2>2, QuietStep DEF MacSwap
  <1> QED
    BY <1>2, <1>3

(* The new app is there: it is the task's release, and whole unless the staged
   file was damaged after its last check. *)
LEMMA NewApp ==
    ASSUME UpdInv, task.st \in {"swap", "movein", "ditto", "installer"},
           bundle' = [v |-> task.info.v, good |-> staged.good], late' = late, torn' = torn
    PROVE  /\ bundle' \in Apps /\ bundle'.v = task.info.v
           /\ bundle'.good \/ Spoilt'
           /\ Update!Whole(bundle)' \/ Spoilt'
  <1>1. task.info.v \in 1 .. MaxVersion /\ task.info.v \in 0 .. MaxVersion /\ task.info.v # 0
    BY TaskInfo, UpdConstants
  <1>2. staged.good \in BOOLEAN /\ (staged.good \/ late)
    BY DEF UpdInv, UpdShape, Apps, UpdWhole
  <1>3. bundle' \in Apps
    BY <1>1, <1>2 DEF Apps
  <1>4. bundle'.good \/ Spoilt'
    BY <1>2 DEF Spoilt
  <1> QED
    BY <1>1, <1>3, <1>4 DEF Update!Whole

LEMMA Swaps ==
    ASSUME UpdInv, Update!Swap
    PROVE  UpdInv'
  <1>1. /\ task.st = "swap" /\ bundle' = [v |-> task.info.v, good |-> staged.good]
        /\ staged' = Update!NoFile /\ Update!To("relaunch")
        /\ UNCHANGED <<file, served, running, available, dismissed, check, backup, torn, late>>
    BY DEF Update!Swap, Update!Server, Update!Ui, Update!Hist
  <1>2. /\ bundle' \in Apps /\ bundle'.v = task.info.v /\ (bundle'.good \/ Spoilt')
        /\ Update!Whole(bundle)' \/ Spoilt'
    BY <1>1, NewApp
  <1>3. task'.st = "relaunch" /\ "relaunch" \in Update!States
    BY <1>1, TaskMoves DEF Update!States
  <1>4. UpdWhole'
    BY <1>1, <1>2, <1>3 DEF UpdWhole, MacSwap
  <1>5. staged' \in Apps /\ backup' \in Apps /\ torn' \in BOOLEAN /\ late' \in BOOLEAN
    BY <1>1, NothingTyped DEF UpdInv, UpdShape
  <1> QED
    BY <1>1, <1>2, <1>3, <1>4, <1>5, TaskStep

LEMMA SwapsFail ==
    ASSUME UpdInv, Update!SwapFails
    PROVE  UpdInv'
  <1>1. /\ task.st \in {"swap", "aside"} /\ Update!To("failed")
        /\ staged' \in {staged, Update!NoFile} /\ backup' \in {backup, Update!NoFile}
        /\ UNCHANGED <<file, served, running, available, dismissed, check, bundle, torn, late>>
    BY DEF Update!SwapFails, Update!Server, Update!Ui, Update!Hist
  <1>2. task'.st = "failed" /\ "failed" \in Update!States /\ running # 0
    BY <1>1, TaskMoves, TaskInfo DEF Update!States
  <1>3. Update!Whole(bundle) \/ Spoilt
    BY <1>1, <1>2 DEF UpdInv, UpdWhole, MacSwap
  <1>4. UpdWhole'
    BY <1>1, <1>2, <1>3 DEF UpdInv, UpdWhole, MacSwap, Spoilt, Update!Whole
  <1>5. /\ staged' \in Apps /\ backup' \in Apps /\ bundle' \in Apps
        /\ torn' \in BOOLEAN /\ late' \in BOOLEAN
    BY <1>1, NothingTyped DEF UpdInv, UpdShape
  <1> QED
    BY <1>1, <1>2, <1>4, <1>5, TaskStep

(* The old bundle is whole when it takes the place of the backup. *)
LEMMA MovesAside ==
    ASSUME UpdInv, Update!MoveAside
    PROVE  UpdInv'
  <1>1. /\ task.st = "aside" /\ Update!To("movein") /\ backup' = bundle /\ bundle' = Update!NoFile
        /\ UNCHANGED <<file, served, running, available, dismissed, check, staged, torn, late>>
    BY DEF Update!MoveAside, Update!Server, Update!Ui, Update!Hist
  <1>2. task'.st = "movein" /\ "movein" \in Update!States /\ running # 0
    BY <1>1, TaskMoves, TaskInfo DEF Update!States
  <1>3. (Update!Whole(bundle) \/ Spoilt) /\ (staged.good \/ late)
    BY <1>1, <1>2 DEF UpdInv, UpdWhole, MacSwap
  <1>4. UpdWhole'
    BY <1>1, <1>2, <1>3 DEF UpdWhole, MacSwap, Spoilt, Update!Whole
  <1>5. /\ staged' \in Apps /\ backup' \in Apps /\ bundle' \in Apps
        /\ torn' \in BOOLEAN /\ late' \in BOOLEAN
    BY <1>1, NothingTyped DEF UpdInv, UpdShape
  <1> QED
    BY <1>1, <1>2, <1>4, <1>5, TaskStep

LEMMA MovesIn ==
    ASSUME UpdInv, Update!MoveIn
    PROVE  UpdInv'
  <1>1. /\ task.st \in {"movein", "ditto"} /\ bundle' = [v |-> task.info.v, good |-> staged.good]
        /\ Update!To("drop")
        /\ UNCHANGED <<file, served, running, available, dismissed, check, staged, backup, torn, late>>
    BY DEF Update!MoveIn, Update!Server, Update!Ui, Update!Hist
  <1>2. /\ bundle' \in Apps /\ bundle'.v = task.info.v /\ (bundle'.good \/ Spoilt')
        /\ Update!Whole(bundle)' \/ Spoilt'
    BY <1>1, NewApp
  <1>3. task'.st = "drop" /\ "drop" \in Update!States
    BY <1>1, TaskMoves DEF Update!States
  <1>4. UpdWhole'
    BY <1>1, <1>2, <1>3 DEF UpdWhole, MacSwap
  <1>5. staged' \in Apps /\ backup' \in Apps /\ torn' \in BOOLEAN /\ late' \in BOOLEAN
    BY <1>1 DEF UpdInv, UpdShape
  <1> QED
    BY <1>1, <1>2, <1>3, <1>4, <1>5, TaskStep

(* The new app comes from another volume; a copy that breaks off may leave half
   of it in the bundle's place. *)
LEMMA Copies ==
    ASSUME UpdInv, Update!CrossVolume \/ Update!CopyFails
    PROVE  UpdInv'
  <1>1. PICK s \in {"ditto", "rollback"} :
           /\ task.st \in {"movein", "ditto"} /\ Update!To(s)
           /\ UNCHANGED <<file, served, running, available, dismissed, check, staged, backup, late>>
           /\ \/ UNCHANGED <<bundle, torn>>
              \/ s = "rollback" /\ bundle' = [v |-> task.info.v, good |-> FALSE] /\ torn' = TRUE
    BY DEF Update!CrossVolume, Update!CopyFails, Update!Server, Update!Ui, Update!Hist, Update!Disk
  <1>2. task'.st = s /\ s \in Update!States /\ s # "none" /\ task.info.v \in 0 .. MaxVersion
    BY <1>1, TaskMoves, TaskInfo, UpdConstants DEF Update!States
  <1>3. /\ bundle = Update!NoFile /\ (Update!Whole(backup) \/ Spoilt) /\ (staged.good \/ late)
    BY <1>1 DEF UpdInv, UpdWhole, MacSwap
  <1>4. UpdWhole'
    BY <1>1, <1>2, <1>3 DEF UpdWhole, MacSwap, Spoilt, Update!Whole
  <1>5. bundle' \in Apps /\ torn' \in BOOLEAN
    <2>1. [v |-> task.info.v, good |-> FALSE] \in Apps
      BY <1>2 DEF Apps
    <2>2. bundle \in Apps /\ torn \in BOOLEAN
      BY DEF UpdInv, UpdShape
    <2> QED
      BY <1>1, <2>1, <2>2
  <1>6. staged' \in Apps /\ backup' \in Apps /\ late' \in BOOLEAN
    BY <1>1 DEF UpdInv, UpdShape
  <1> QED
    BY <1>1, <1>2, <1>4, <1>5, <1>6, TaskStep

LEMMA RollsBack ==
    ASSUME UpdInv, Update!RollBack
    PROVE  UpdInv'
  <1>1. /\ task.st = "rollback" /\ Update!To("failed")
        /\ \/ bundle = Update!NoFile /\ bundle' = backup /\ backup' = Update!NoFile
           \/ bundle # Update!NoFile /\ UNCHANGED <<bundle, backup>>
        /\ UNCHANGED <<file, served, running, available, dismissed, check, staged, torn, late>>
    BY DEF Update!RollBack, Update!Server, Update!Ui, Update!Hist
  <1>2. task'.st = "failed" /\ "failed" \in Update!States
    BY <1>1, TaskMoves DEF Update!States
  <1>3. (bundle = Update!NoFile \/ torn) /\ (Update!Whole(backup) \/ Spoilt)
    BY <1>1 DEF UpdInv, UpdWhole, MacSwap
  <1>4. UpdWhole'
    BY <1>1, <1>2, <1>3 DEF UpdWhole, MacSwap, Spoilt, Update!Whole
  <1>5. /\ staged' \in Apps /\ backup' \in Apps /\ bundle' \in Apps
        /\ torn' \in BOOLEAN /\ late' \in BOOLEAN
    BY <1>1, NothingTyped DEF UpdInv, UpdShape
  <1> QED
    BY <1>1, <1>2, <1>4, <1>5, TaskStep

LEMMA DropsBackup ==
    ASSUME UpdInv, Update!DropBackup
    PROVE  UpdInv'
  <1>1. /\ task.st = "drop" /\ Update!To("relaunch")
        /\ backup' = Update!NoFile /\ staged' = Update!NoFile
        /\ UNCHANGED <<file, served, running, available, dismissed, check, bundle, torn, late>>
    BY DEF Update!DropBackup, Update!Server, Update!Ui, Update!Hist
  <1>2. task'.st = "relaunch" /\ "relaunch" \in Update!States /\ running # 0
    BY <1>1, TaskMoves, TaskInfo DEF Update!States
  <1>3. (Update!Whole(bundle) \/ Spoilt) /\ (bundle # Update!NoFile => bundle.good \/ Spoilt)
    BY <1>1, <1>2 DEF UpdInv, UpdWhole, MacSwap
  <1>4. UpdWhole'
    BY <1>1, <1>2, <1>3 DEF UpdWhole, MacSwap, Spoilt, Update!Whole
  <1>5. /\ staged' \in Apps /\ backup' \in Apps /\ bundle' \in Apps /\ bundle.v = task.info.v
        /\ torn' \in BOOLEAN /\ late' \in BOOLEAN
    BY <1>1, NothingTyped DEF UpdInv, UpdShape, UpdOffers
  <1> QED
    BY <1>1, <1>2, <1>4, <1>5, TaskStep

LEMMA Relaunches ==
    ASSUME UpdInv, NEW ok \in BOOLEAN, Update!Relaunch(ok)
    PROVE  UpdInv'
  <1>1. PICK s \in {"relaunching", "swapped"} : task.st = "relaunch" /\ Update!To(s)
    BY DEF Update!Relaunch
  <1>2. UNCHANGED <<file, served, running, available, dismissed, check, staged, bundle, backup, torn, late>>
    BY DEF Update!Relaunch, Update!Server, Update!Ui, Update!Disk, Update!Hist
  <1>3. s \in Update!States
    BY DEF Update!States
  <1> QED
    BY <1>1, <1>2, <1>3, QuietStep DEF MacSwap

(* The app goes on: what was applied is off the window, what failed is not. *)
LEMMA AppliedStep ==
    ASSUME UpdInv, Update!Applied
    PROVE  UpdInv'
  <1>1. /\ task.st \in {"swapped", "manual", "failed"} /\ task' = Update!NoTask
        /\ available' = available \/ available' = Update!NoInfo
        /\ UNCHANGED <<file, served, running, dismissed, check, staged, bundle, backup, torn, late>>
    BY DEF Update!Applied, Update!Server, Update!Disk, Update!Hist
  <1>2. available' \in Update!Infos /\ (available' # Update!NoInfo => available' = available)
    BY <1>1, NothingTyped DEF UpdInv, UpdShape
  <1>3. task' \in TaskType /\ task'.st = "none"
    BY <1>1, NothingTyped
  <1>4. UpdShape'
    BY <1>1, <1>2, <1>3 DEF UpdInv, UpdShape
  <1>5. UpdOffers'
    BY <1>1, <1>2, <1>3 DEF UpdInv, UpdOffers
  <1>6. UpdWhole'
    BY <1>1, <1>3 DEF UpdInv, UpdWhole, Spoilt, MacSwap, Update!Whole
  <1> QED
    BY <1>4, <1>5, <1>6 DEF UpdInv

(* A process that starts, or none, has nothing on offer. *)
LEMMA StartStep ==
    ASSUME UpdInv, NEW v \in 0 .. MaxVersion, Update!Starts(v),
           UNCHANGED <<file, served, staged, backup, torn, late>>,
           bundle' \in Apps, bundle' # Update!NoFile => bundle'.good \/ Spoilt,
           v # 0 => Update!Whole(bundle)' \/ Spoilt,
           Update!Whole(bundle)' \/ Update!Whole(backup) \/ Spoilt
    PROVE  UpdInv'
  <1>1. /\ running' = v /\ available' = Update!NoInfo /\ dismissed' = 0
        /\ check' = Update!NoCheck /\ task' = Update!NoTask
    BY DEF Update!Starts
  <1>2. /\ available' \in Update!Infos /\ check' \in CheckType /\ task' \in TaskType
        /\ check'.st = "none" /\ task'.st = "none" /\ 0 \in 0 .. MaxVersion
    BY <1>1, NothingTyped, UpdConstants
  <1>3. UpdShape'
    BY <1>1, <1>2 DEF UpdInv, UpdShape
  <1>4. UpdOffers'
    BY <1>1, <1>2 DEF UpdOffers
  <1>5. UpdWhole'
    BY <1>1, <1>2 DEF UpdWhole, Spoilt, MacSwap, Update!Whole
  <1> QED
    BY <1>3, <1>4, <1>5 DEF UpdInv

LEMMA Exits ==
    ASSUME UpdInv, Update!Exit
    PROVE  UpdInv'
  <1>1. /\ task.st = "relaunching" /\ Update!Starts(bundle.v)
        /\ UNCHANGED <<file, served, staged, bundle, backup, torn, late>>
    BY DEF Update!Exit, Update!Server, Update!Disk, Update!Hist
  <1>2. bundle.v \in 0 .. MaxVersion /\ bundle \in Apps
    BY DEF UpdInv, UpdShape, Apps
  <1>3. running # 0
    BY <1>1, TaskInfo
  <1>4. /\ bundle # Update!NoFile => bundle.good \/ Spoilt
        /\ Update!Whole(bundle) \/ Spoilt
    BY <1>1, <1>3 DEF UpdInv, UpdWhole, MacSwap
  <1>5. bundle' \in Apps /\ (bundle' # Update!NoFile => bundle'.good \/ Spoilt)
    BY <1>1, <1>2, <1>4
  <1>6. Update!Whole(bundle)' \/ Spoilt
    BY <1>1, <1>4 DEF Update!Whole
  <1> QED
    BY <1>1, <1>2, <1>5, <1>6, StartStep

LEMMA ExitsToInstaller ==
    ASSUME UpdInv, Update!ExitToInstaller
    PROVE  UpdInv'
  <1>1. /\ task.st = "installer" /\ Update!Starts(task.info.v)
        /\ bundle' = [v |-> task.info.v, good |-> staged.good]
        /\ UNCHANGED <<file, served, staged, backup, torn, late>>
    BY DEF Update!ExitToInstaller, Update!Server, Update!Hist
  <1>2. /\ bundle' \in Apps /\ (bundle'.good \/ Spoilt')
        /\ Update!Whole(bundle)' \/ Spoilt'
    BY <1>1, NewApp
  <1>3. Spoilt' <=> Spoilt
    BY <1>1 DEF Spoilt
  <1>4. task.info.v \in 0 .. MaxVersion
    BY <1>1, TaskInfo, UpdConstants
  <1> QED
    BY <1>1, <1>2, <1>3, <1>4, StartStep

LEMMA Restarts ==
    ASSUME UpdInv, Update!Crash \/ Update!Reopen
    PROVE  UpdInv'
  <1>1. PICK v \in {0, bundle.v} :
           /\ Update!Starts(v) /\ (v # 0 => Update!Whole(bundle))
           /\ UNCHANGED <<file, served, staged, bundle, backup, torn, late>>
    BY DEF Update!Crash, Update!Reopen, Update!Server, Update!Disk, Update!Hist, Update!Whole
  <1>2. v \in 0 .. MaxVersion /\ bundle \in Apps
    BY <1>1, UpdConstants DEF UpdInv, UpdShape, Apps
  <1>3. /\ bundle # Update!NoFile => bundle.good \/ Spoilt
        /\ Update!Whole(bundle) \/ Update!Whole(backup) \/ Spoilt
    BY DEF UpdInv, UpdWhole
  <1>4. bundle' \in Apps /\ (bundle' # Update!NoFile => bundle'.good \/ Spoilt)
    BY <1>1, <1>2, <1>3
  <1>5. /\ v # 0 => Update!Whole(bundle)' \/ Spoilt
        /\ Update!Whole(bundle)' \/ Update!Whole(backup) \/ Spoilt
    BY <1>1, <1>3 DEF Update!Whole
  <1> QED
    BY <1>1, <1>2, <1>4, <1>5, StartStep

LEMMA UpdStep ==
    ASSUME UpdInv, Update!Next
    PROVE  UpdInv'
  <1>1. CASE \E v \in Update!Versions, key \in SignKeys : \E min \in {0, v} : Update!Sign(v, key, min)
    BY <1>1, Signs
  <1>2. CASE Update!LoadRelease \/ Update!Expire
    BY <1>2, Loads
  <1>3. CASE Update!StartCheck \/ Update!CheckTask
    BY <1>3, Checks
  <1>4. CASE Update!ApplyTask
    BY <1>4, Downloads, Applies, Swaps, SwapsFail, MovesAside, MovesIn, Copies, RollsBack, DropsBackup,
       Relaunches, AppliedStep, Exits, ExitsToInstaller DEF Update!ApplyTask
  <1>5. CASE Update!Crash \/ Update!Reopen
    BY <1>5, Restarts
  <1>6. CASE Update!Dismiss \/ Update!StartApply \/ Update!StagedDamaged
    BY <1>6, Dismisses, AppliesStart, Damages
  <1> QED
    BY <1>1, <1>2, <1>3, <1>4, <1>5, <1>6 DEF Update!Next

LEMMA UpdFrame ==
    ASSUME UpdInv, UNCHANGED updateVars
    PROVE  UpdInv'
  BY DEF UpdInv, UpdShape, UpdOffers, UpdWhole, Spoilt, MacSwap, Update!Whole, updateVars

LEMMA UpdMeans ==
    ASSUME UpdInv
    PROVE  UpdaterInv
  <1>1. Update!UpdaterTypeOK
    BY DEF UpdInv, UpdShape, Update!UpdaterTypeOK, Releases, CheckType, TaskType, Apps
  <1>2. Update!InstalledIsGenuine /\ Update!AppRecoverable
    BY DEF UpdInv, UpdWhole, Spoilt, Update!InstalledIsGenuine, Update!AppRecoverable
  <1> QED
    BY <1>1, <1>2 DEF UpdaterInv

(* The app that runs is replaced by one it was offered, which is newer. *)
LEMMA NeverBack ==
    ASSUME UpdInv, Update!Next
    PROVE  Update!NeverOlder
  <1>1. CASE running' = running
    BY <1>1 DEF UpdInv, UpdShape, Update!NeverOlder
  <1>2. CASE Update!Exit
    <2>1. running' = bundle.v /\ bundle.v = task.info.v /\ task.info.v > running /\ running \in 1 .. MaxVersion
      BY <1>2, TaskInfo DEF Update!Exit, Update!Starts, UpdInv, UpdOffers
    <2>2. task.info.v \in 1 .. MaxVersion
      BY <1>2, TaskInfo DEF Update!Exit
    <2> QED
      BY <2>1, <2>2, UpdConstants DEF Update!NeverOlder
  <1>3. CASE Update!ExitToInstaller
    <2>1. /\ running' = task.info.v /\ task.info.v > running /\ running \in 1 .. MaxVersion
          /\ task.info.v \in 1 .. MaxVersion
      BY <1>3, TaskInfo DEF Update!ExitToInstaller, Update!Starts
    <2> QED
      BY <2>1, UpdConstants DEF Update!NeverOlder
  <1>4. CASE Update!Crash
    BY <1>4 DEF Update!Crash, Update!Starts, Update!NeverOlder
  <1>5. CASE Update!Reopen
    BY <1>5 DEF Update!Reopen, Update!NeverOlder
  <1>6. Update!ApplyTask => running' = running \/ Update!Exit \/ Update!ExitToInstaller
    BY DEF Update!ApplyTask, Update!Downloaded, Update!DownloadFails, Update!Apply, Update!Swap,
       Update!LaunchInstaller, Update!SwapFails, Update!MoveAside, Update!MoveIn, Update!CrossVolume,
       Update!CopyFails, Update!RollBack, Update!DropBackup, Update!Relaunch, Update!Applied
  <1>7. running' = running \/ Update!Exit \/ Update!ExitToInstaller \/ Update!Crash \/ Update!Reopen
    BY <1>6 DEF Update!Next, Update!Sign, Update!LoadRelease, Update!Expire, Update!StartCheck, Update!CheckTask,
       Update!CheckAnswers, Update!CheckFails, Update!UpdateChecked, Update!Dismiss, Update!StartApply,
       Update!StagedDamaged
  <1> QED
    BY <1>1, <1>2, <1>3, <1>4, <1>5, <1>7

LEMMA NotOlder ==
    ASSUME UpdInv, UNCHANGED updateVars
    PROVE  Update!NeverOlder
  BY DEF UpdInv, UpdShape, Update!NeverOlder, updateVars

-----------------------------------------------------------------------------
(* The speed limits (SpeedLimits) *)

LEMMA CapsTyped ==
    ASSUME NEW s \in Speed!Schedules
    PROVE  Speed!CapsNow(s) \in Caps /\ s.normal \in Caps /\ s.enabled \in BOOLEAN
  BY DEF Speed!Schedules, Speed!CapsNow

LEMMA SpeedInit ==
    ASSUME Speed!Init
    PROVE  Speed!SpeedTypeOK
  BY CapsTyped DEF Speed!Init, Speed!SpeedTypeOK

LEMMA SpeedSets ==
    ASSUME Speed!SpeedTypeOK, NEW s \in Speed!Schedules, NEW b \in BOOLEAN, Speed!SetSchedule(s, b)
    PROVE  schedule' = s /\ rate' \in Caps /\ ticker' \in BOOLEAN /\ inRuntime' \in BOOLEAN
  <1>1. schedule' = s /\ inRuntime' \in BOOLEAN /\ ticker' = (ticker \/ b)
    BY DEF Speed!SetSchedule, Speed!EnsureStarted
  <1>2. rate' \in Caps
    BY CapsTyped DEF Speed!SetSchedule, Speed!ApplyNow
  <1>3. ticker' \in BOOLEAN
    BY <1>1
  <1> QED
    BY <1>1, <1>2, <1>3

LEMMA SpeedStep ==
    ASSUME Speed!SpeedTypeOK, Speed!Next
    PROVE  Speed!SpeedTypeOK' /\ Speed!DisablingRestores
  <1>1. CASE \E s \in Speed!Schedules : Speed!ApplyBitTorrent(s) \/ Speed!SaveSettings(s)
    <2>1. PICK s \in Speed!Schedules, b \in BOOLEAN :
             settings' = s /\ Speed!SetSchedule(s, b) /\ UNCHANGED <<front, window>>
      BY <1>1 DEF Speed!ApplyBitTorrent, Speed!SaveSettings
    <2>2. schedule' = s /\ rate' \in Caps /\ ticker' \in BOOLEAN /\ inRuntime' \in BOOLEAN
      BY <2>1, SpeedSets
    <2>3. rate' = Speed!CapsNow(s)
      BY <2>1 DEF Speed!SetSchedule, Speed!ApplyNow
    <2>4. Speed!SpeedTypeOK'
      BY <2>1, <2>2 DEF Speed!SpeedTypeOK
    <2>5. Speed!DisablingRestores
      BY <2>1, <2>2, <2>3 DEF Speed!DisablingRestores, Speed!CapsNow
    <2> QED
      BY <2>4, <2>5
  <1>2. CASE \E cap \in Caps : Speed!ApplySpeedCap(cap)
    <2>1. PICK cap \in Caps :
             /\ settings' = [settings EXCEPT !.normal = cap] /\ rate' = cap
             /\ UNCHANGED <<front, inRuntime, schedule, ticker, window>>
      BY <1>2 DEF Speed!ApplySpeedCap
    <2>2. settings' \in Speed!Schedules /\ settings'.normal = cap
      BY <2>1 DEF Speed!SpeedTypeOK, Speed!Schedules
    <2> QED
      BY <2>1, <2>2 DEF Speed!SpeedTypeOK, Speed!DisablingRestores
  <1>3. CASE Speed!Tick
    <2>1. rate' \in Caps
      BY <1>3, CapsTyped DEF Speed!Tick, Speed!SpeedTypeOK
    <2> QED
      BY <1>3, <2>1 DEF Speed!Tick, Speed!SpeedTypeOK, Speed!DisablingRestores
  <1>4. CASE Speed!Clock
    BY <1>4 DEF Speed!Clock, Speed!SpeedTypeOK, Speed!DisablingRestores
  <1> QED
    BY <1>1, <1>2, <1>3, <1>4 DEF Speed!Next

LEMMA SpeedFrame ==
    ASSUME Speed!SpeedTypeOK, UNCHANGED speedVars
    PROVE  Speed!SpeedTypeOK'
  BY DEF Speed!SpeedTypeOK, speedVars

LEMMA SpeedStays ==
    ASSUME UNCHANGED speedVars
    PROVE  Speed!DisablingRestores
  BY DEF Speed!DisablingRestores, speedVars

-----------------------------------------------------------------------------
(* The Explore page (Explore) *)

OneEach(rs) == \A a, b \in rs : a.c = b.c => a = b
Listing(rs) == rs \in SUBSET Catalog!Rows /\ OneEach(rs)

(* A listing has one row for a content; the fetch under way asks for a query
   and holds a listing. *)
LooksInv ==
    /\ tab \in BOOLEAN /\ query \in Queries /\ shown \in Queries \cup {Catalog!None}
    /\ Listing(rows)
    /\ fetch \in [q : Queries \cup {Catalog!None}, st : {"idle", "asked", "answered", "failed"},
                  rows : SUBSET Catalog!Rows]
    /\ OneEach(fetch.rows)
    /\ fetch.q = Catalog!None <=> fetch.st = "idle"
    /\ fetched \in {"none", "fresh", "stale"}
    /\ lib \in SUBSET Contents /\ shared \in SUBSET lib
    /\ listed \in SUBSET Contents /\ others \in SUBSET Contents /\ withdraws \in SUBSET Contents
    /\ pending \in Contents \cup {Catalog!None} /\ coming \in SUBSET Contents

LEMMA NoListing == Listing({})
  BY DEF Listing, OneEach

LEMMA LooksInit ==
    ASSUME Catalog!Init
    PROVE  LooksInv
  <1>1. \E q \in Queries : MatchesOf[q] = Contents
    BY DesktopAssumed DEF Catalog!ExploreAssumption
  <1>2. query \in Queries
    BY <1>1 DEF Catalog!Init
  <1>3. /\ fetch = [q |-> Catalog!None, st |-> "idle", rows |-> {}]
        /\ rows = {} /\ tab = FALSE /\ shown = Catalog!None /\ fetched = "none"
    BY DEF Catalog!Init, Catalog!NoFetch
  <1>4. fetch \in [q : Queries \cup {Catalog!None}, st : {"idle", "asked", "answered", "failed"},
                   rows : SUBSET Catalog!Rows]
    BY <1>3
  <1>5. OneEach(fetch.rows) /\ (fetch.q = Catalog!None <=> fetch.st = "idle") /\ Listing(rows)
    BY <1>3, NoListing DEF OneEach
  <1>6. /\ lib \in SUBSET Contents /\ shared = lib /\ listed = shared
        /\ withdraws = {} /\ others = {} /\ pending = Catalog!None /\ coming = {}
    BY DEF Catalog!Init
  <1> QED
    BY <1>2, <1>3, <1>4, <1>5, <1>6 DEF LooksInv

(* What the tracker answers. *)
LEMMA Answers ==
    ASSUME LooksInv, NEW q \in Queries
    PROVE  Listing(Catalog!Catalog(q))
  <1>1. listed \in SUBSET Contents /\ others \in SUBSET Contents
    BY DEF LooksInv
  <1> DEFINE R(c) == [c |-> c, mine |-> c \in listed, peers |-> IF c \in others THEN 1 ELSE 0, inLib |-> c \in lib]
             X == {x \in MatchesOf[q] \cap (listed \cup others) : x \in others \/ x \in lib}
  <1>2. Catalog!Catalog(q) = {R(c) : c \in X}
    BY DEF Catalog!Catalog
  <1>3. ASSUME NEW c \in Contents PROVE R(c) \in Catalog!Rows /\ R(c).c = c
    <2>1. (c \in listed) \in BOOLEAN /\ (c \in lib) \in BOOLEAN
      OBVIOUS
    <2>2. (IF c \in others THEN 1 ELSE 0) \in 0 .. 1
      OBVIOUS
    <2>3. R(c).c = c
      OBVIOUS
    <2>4. R(c) \in Catalog!Rows
      BY <2>1, <2>2 DEF Catalog!Rows
    <2> QED
      BY <2>3, <2>4
  <1>4. X \in SUBSET Contents
    BY <1>1
  <1> HIDE DEF R, X
  <1>5. {R(c) : c \in X} \in SUBSET Catalog!Rows
    BY <1>3, <1>4
  <1>6. OneEach({R(c) : c \in X})
    BY <1>3, <1>4 DEF OneEach
  <1> QED
    BY <1>2, <1>5, <1>6 DEF Listing

(* A listing in which some rows lose their own mark, or some are missing, is
   one. *)
LEMMA Unmarked ==
    ASSUME NEW rs, Listing(rs), NEW lost
    PROVE  Listing({IF r.c \in lost THEN [r EXCEPT !.mine = FALSE] ELSE r : r \in rs})
  <1> DEFINE F(r) == IF r.c \in lost THEN [r EXCEPT !.mine = FALSE] ELSE r
  <1>1. ASSUME NEW r \in rs PROVE F(r) \in Catalog!Rows /\ F(r).c = r.c
    BY DEF Listing, Catalog!Rows
  <1> HIDE DEF F
  <1>2. OneEach({F(r) : r \in rs})
    BY <1>1 DEF OneEach, Listing
  <1>3. {F(r) : r \in rs} \in SUBSET Catalog!Rows
    BY <1>1
  <1> QED
    BY <1>2, <1>3 DEF Listing, F

LEMMA Fewer ==
    ASSUME NEW rs, Listing(rs), NEW ts \in SUBSET rs
    PROVE  Listing(ts)
  BY DEF Listing, OneEach

LEMMA FetchStarts ==
    ASSUME LooksInv, Catalog!StartFetch
    PROVE  /\ fetch' \in [q : Queries \cup {Catalog!None}, st : {"idle", "asked", "answered", "failed"},
                          rows : SUBSET Catalog!Rows]
           /\ OneEach(fetch'.rows)
           /\ fetch'.q = Catalog!None <=> fetch'.st = "idle"
           /\ fetched' \in {"none", "fresh", "stale"}
  <1>1. CASE fetch = Catalog!NoFetch
    <2>1. fetch' = [q |-> query, st |-> "asked", rows |-> {}] /\ fetched' = "fresh"
      BY <1>1 DEF Catalog!StartFetch
    <2>2. query \in Queries /\ query # Catalog!None
      BY DesktopAssumed DEF LooksInv, Catalog!ExploreAssumption
    <2> QED
      BY <2>1, <2>2, NoListing DEF Listing
  <1>2. CASE fetch # Catalog!NoFetch
    BY <1>2 DEF Catalog!StartFetch, LooksInv
  <1> QED
    BY <1>1, <1>2

(* The page asks for a catalog, and nothing else of it changes but the tab,
   the query and the announces. *)
LEMMA AsksStep ==
    ASSUME LooksInv, Catalog!StartFetch, tab' \in BOOLEAN, query' \in Queries,
           withdraws' \in SUBSET Contents, listed' \in SUBSET Contents,
           UNCHANGED <<shown, rows, lib, shared, others, pending, coming>>
    PROVE  LooksInv'
  <1>1. /\ fetch' \in [q : Queries \cup {Catalog!None}, st : {"idle", "asked", "answered", "failed"},
                          rows : SUBSET Catalog!Rows]
        /\ OneEach(fetch'.rows)
        /\ fetch'.q = Catalog!None <=> fetch'.st = "idle"
        /\ fetched' \in {"none", "fresh", "stale"}
    BY FetchStarts
  <1>2. /\ shown' \in Queries \cup {Catalog!None} /\ lib' \in SUBSET Contents /\ shared' \in SUBSET lib'
        /\ others' \in SUBSET Contents /\ pending' \in Contents \cup {Catalog!None} /\ coming' \in SUBSET Contents
    BY DEF LooksInv
  <1>3. Listing(rows)'
    BY DEF LooksInv, Listing, OneEach
  <1> QED
    BY <1>1, <1>2, <1>3 DEF LooksInv, OneEach

(* Everything but the fetch. *)
LEMMA LooksStay ==
    ASSUME LooksInv, UNCHANGED fetch, fetched' \in {"none", "fresh", "stale"}, tab' \in BOOLEAN,
           query' \in Queries, UNCHANGED shown, Listing(rows'),
           lib' \in SUBSET Contents, shared' \in SUBSET lib', withdraws' \in SUBSET Contents,
           listed' \in SUBSET Contents, others' \in SUBSET Contents,
           pending' \in Contents \cup {Catalog!None}, coming' \in SUBSET Contents
    PROVE  LooksInv'
  BY DEF LooksInv, Listing, OneEach

LEMMA TrackerStep ==
    ASSUME LooksInv, Catalog!TrackerAnswers \/ Catalog!TrackerFails \/ Catalog!CatalogArrives
    PROVE  LooksInv'
  <1>1. UNCHANGED <<tab, query, fetched, lib, shared, withdraws, listed, others, pending, coming>>
    BY DEF Catalog!TrackerAnswers, Catalog!TrackerFails, Catalog!CatalogArrives
  <1>2. /\ tab' \in BOOLEAN /\ query' \in Queries /\ fetched' \in {"none", "fresh", "stale"}
        /\ lib' \in SUBSET Contents /\ shared' \in SUBSET lib' /\ withdraws' \in SUBSET Contents
        /\ listed' \in SUBSET Contents /\ others' \in SUBSET Contents
        /\ pending' \in Contents \cup {Catalog!None} /\ coming' \in SUBSET Contents
    BY <1>1 DEF LooksInv
  <1>3. /\ fetch \in [q : Queries \cup {Catalog!None}, st : {"idle", "asked", "answered", "failed"},
                      rows : SUBSET Catalog!Rows]
        /\ OneEach(fetch.rows) /\ (fetch.q = Catalog!None <=> fetch.st = "idle")
        /\ Listing(rows) /\ shown \in Queries \cup {Catalog!None}
    BY DEF LooksInv
  <1>4. /\ Catalog!NoFetch \in [q : Queries \cup {Catalog!None}, st : {"idle", "asked", "answered", "failed"},
                               rows : SUBSET Catalog!Rows]
        /\ Catalog!NoFetch.rows = {} /\ Catalog!NoFetch.q = Catalog!None /\ Catalog!NoFetch.st = "idle"
    BY DEF Catalog!NoFetch
  <1>5. /\ fetch' \in [q : Queries \cup {Catalog!None}, st : {"idle", "asked", "answered", "failed"},
                       rows : SUBSET Catalog!Rows]
        /\ OneEach(fetch'.rows) /\ (fetch'.q = Catalog!None <=> fetch'.st = "idle")
        /\ Listing(rows') /\ shown' \in Queries \cup {Catalog!None}
    <2>1. CASE Catalog!TrackerAnswers
      <3> DEFINE rs == Catalog!Catalog(fetch.q)
      <3>1. /\ fetch.st = "asked" /\ fetch' = [fetch EXCEPT !.st = "answered", !.rows = rs]
            /\ rows' = rows /\ shown' = shown
        BY <2>1 DEF Catalog!TrackerAnswers
      <3>2. fetch.q \in Queries
        BY <1>3, <3>1
      <3>3. Listing(rs)
        BY <3>2, Answers
      <3> HIDE DEF rs
      <3> QED
        BY <1>3, <3>1, <3>2, <3>3 DEF Listing
    <2>2. CASE Catalog!TrackerFails
      BY <1>3, <2>2 DEF Catalog!TrackerFails
    <2>3. CASE Catalog!CatalogArrives
      <3>1. fetch' = Catalog!NoFetch
        BY <2>3 DEF Catalog!CatalogArrives
      <3>2. OneEach(fetch'.rows)
        BY <1>4, <3>1, NoListing DEF Listing
      <3>3. Listing(rows') /\ shown' \in Queries \cup {Catalog!None}
        BY <1>3, <2>3 DEF Catalog!CatalogArrives, Listing
      <3> QED
        BY <1>4, <3>1, <3>2, <3>3
    <2> QED
      BY <2>1, <2>2, <2>3
  <1> QED
    BY <1>2, <1>5 DEF LooksInv, Listing, OneEach

LEMMA ForgetStep ==
    ASSUME LooksInv, NEW cs, Catalog!Forget(cs)
    PROVE  Listing(rows') /\ fetched' = "none"
  <1> DEFINE F == {IF r.c \in cs THEN [r EXCEPT !.mine = FALSE] ELSE r : r \in rows}
             T == {r \in F : r.c \in cs => r.peers > 0}
  <1>1. rows' = T /\ fetched' = "none"
    BY DEF Catalog!Forget
  <1>2. Listing(F)
    <2>1. Listing(rows)
      BY DEF LooksInv
    <2> QED
      BY <2>1, Unmarked
  <1>3. T \in SUBSET F
    OBVIOUS
  <1> HIDE DEF F, T
  <1> QED
    BY <1>1, <1>2, <1>3, Fewer

LEMMA SharesEnd ==
    ASSUME LooksInv, \/ \E c \in Contents : Catalog!ShareOff(c) \/ Catalog!Delete(c)
                     \/ Catalog!StopWorldwide
    PROVE  LooksInv'
  <1>1. UNCHANGED <<query, shown, fetch, listed, others, pending, coming, tab>>
    BY DEF Catalog!ShareOff, Catalog!Delete, Catalog!StopWorldwide
  <1>2. /\ lib \in SUBSET Contents /\ shared \in SUBSET lib /\ withdraws \in SUBSET Contents
        /\ tab \in BOOLEAN /\ query \in Queries
        /\ listed \in SUBSET Contents /\ others \in SUBSET Contents
        /\ pending \in Contents \cup {Catalog!None} /\ coming \in SUBSET Contents
        /\ Listing(rows)
    BY DEF LooksInv
  <1>3. Listing(rows') /\ fetched' = "none"
    <2>1. CASE \E c \in Contents : Catalog!ShareOff(c) \/ Catalog!Delete(c)
      <3>1. PICK c \in Contents : Catalog!Forget({c})
        BY <2>1 DEF Catalog!ShareOff, Catalog!Delete
      <3> QED
        BY <3>1, ForgetStep
    <2>2. CASE Catalog!StopWorldwide
      <3> DEFINE F == {[r EXCEPT !.mine = FALSE] : r \in rows}
                 G == {IF r.c \in Contents THEN [r EXCEPT !.mine = FALSE] ELSE r : r \in rows}
                 T == {r \in F : r.peers > 0}
      <3>1. rows' = T /\ fetched' = "none"
        BY <2>2 DEF Catalog!StopWorldwide
      <3>2. \A r \in rows : r.c \in Contents
        BY <1>2 DEF Listing, Catalog!Rows
      <3>3. F = G
        BY <3>2
      <3>4. Listing(G)
        BY <1>2, Unmarked
      <3>5. T \in SUBSET F
        OBVIOUS
      <3> HIDE DEF F, G, T
      <3> QED
        BY <3>1, <3>3, <3>4, <3>5, Fewer
    <2> QED
      BY <2>1, <2>2
  <1>4. lib' \in SUBSET Contents /\ shared' \in SUBSET lib' /\ withdraws' \in SUBSET Contents
    BY <1>2 DEF Catalog!ShareOff, Catalog!Delete, Catalog!StopWorldwide
  <1> QED
    BY <1>1, <1>2, <1>3, <1>4, LooksStay

LEMMA WithdrawStep ==
    ASSUME LooksInv, NEW c \in Contents, NEW got \in BOOLEAN, Catalog!WithdrawEnds(c, got)
    PROVE  LooksInv'
  <1>1. /\ UNCHANGED <<tab, query, rows, shown, lib, shared, others, pending, coming>>
        /\ withdraws' = withdraws \ {c} /\ listed' = IF got THEN listed \ {c} ELSE listed
        /\ Catalog!StartFetch \/ (fetched' = "none" /\ UNCHANGED fetch)
    BY DEF Catalog!WithdrawEnds
  <1>2. /\ lib \in SUBSET Contents /\ shared \in SUBSET lib /\ withdraws \in SUBSET Contents
        /\ tab \in BOOLEAN /\ query \in Queries
        /\ listed \in SUBSET Contents /\ others \in SUBSET Contents
        /\ pending \in Contents \cup {Catalog!None} /\ coming \in SUBSET Contents
        /\ Listing(rows)
    BY DEF LooksInv
  <1>3. withdraws' \in SUBSET Contents /\ listed' \in SUBSET Contents
    BY <1>1, <1>2
  <1>4. CASE Catalog!StartFetch
    BY <1>1, <1>2, <1>3, <1>4, AsksStep
  <1>5. CASE fetched' = "none" /\ UNCHANGED fetch
    BY <1>1, <1>2, <1>3, <1>5, LooksStay
  <1> QED
    BY <1>1, <1>4, <1>5

LEMMA AskSteps ==
    ASSUME LooksInv, Catalog!RefreshNetwork \/ Catalog!Frame
    PROVE  LooksInv'
  <1>1. /\ Catalog!StartFetch
        /\ UNCHANGED <<tab, query, rows, shown, lib, shared, withdraws, listed, others, pending, coming>>
    BY DEF Catalog!RefreshNetwork, Catalog!Frame
  <1>2. tab \in BOOLEAN /\ query \in Queries /\ withdraws \in SUBSET Contents /\ listed \in SUBSET Contents
    BY DEF LooksInv
  <1> QED
    BY <1>1, <1>2, AsksStep

(* The steps that leave the rows alone. *)
LEMMA RowsStay ==
    ASSUME LooksInv, UNCHANGED <<rows, shown, fetch>>, fetched' \in {"none", "fresh", "stale"},
           tab' \in BOOLEAN, query' \in Queries, UNCHANGED withdraws,
           lib' \in SUBSET Contents, shared' \in SUBSET lib',
           listed' \in SUBSET Contents, others' \in SUBSET Contents,
           pending' \in Contents \cup {Catalog!None}, coming' \in SUBSET Contents
    PROVE  LooksInv'
  <1>1. Listing(rows') /\ withdraws' \in SUBSET Contents
    BY DEF LooksInv, Listing
  <1> QED
    BY <1>1, LooksStay

LEMMA OtherLooks ==
    ASSUME LooksInv,
           \/ Catalog!OpenTab \/ Catalog!CloseTab \/ Catalog!Elapse
           \/ Catalog!ConfirmDownload \/ Catalog!CancelDownload
           \/ \E q \in Queries : Catalog!EditQuery(q)
           \/ \E c \in Contents :
                \/ Catalog!Expire(c) \/ Catalog!OthersChange(c)
                \/ \E b \in BOOLEAN : Catalog!DownloadEnds(c, b)
                \/ \E skip, link \in BOOLEAN : Catalog!RequestDownload(c, skip, link)
    PROVE  LooksInv'
  <1>1. /\ lib \in SUBSET Contents /\ shared \in SUBSET lib
        /\ tab \in BOOLEAN /\ query \in Queries /\ fetched \in {"none", "fresh", "stale"}
        /\ listed \in SUBSET Contents /\ others \in SUBSET Contents
        /\ pending \in Contents \cup {Catalog!None} /\ coming \in SUBSET Contents
    BY DEF LooksInv
  <1>2. CASE Catalog!OpenTab \/ Catalog!CloseTab \/ Catalog!Elapse \/ Catalog!CancelDownload
             \/ \E q \in Queries : Catalog!EditQuery(q)
    <2>1. /\ UNCHANGED <<rows, shown, fetch, withdraws, lib, shared, listed, others, coming>>
          /\ tab' \in BOOLEAN /\ query' \in Queries /\ fetched' \in {"none", "fresh", "stale"}
          /\ pending' \in Contents \cup {Catalog!None}
      BY <1>1, <1>2 DEF Catalog!OpenTab, Catalog!CloseTab, Catalog!Elapse, Catalog!CancelDownload, Catalog!EditQuery
    <2> QED
      BY <1>1, <2>1, RowsStay
  <1>3. CASE \/ Catalog!ConfirmDownload
             \/ \E c \in Contents : \E skip, link \in BOOLEAN : Catalog!RequestDownload(c, skip, link)
    <2>1. /\ UNCHANGED <<rows, shown, fetch, fetched, query, withdraws, lib, shared, listed, others>>
          /\ tab' \in BOOLEAN /\ coming' \in SUBSET Contents /\ pending' \in Contents \cup {Catalog!None}
      <3>1. CASE Catalog!ConfirmDownload
        BY <1>1, <3>1 DEF Catalog!ConfirmDownload, Catalog!DownloadShareTarget
      <3>2. CASE \E c \in Contents : \E skip, link \in BOOLEAN : Catalog!RequestDownload(c, skip, link)
        <4>1. PICK c \in Contents :
                /\ UNCHANGED <<rows, shown, fetch, fetched, query, withdraws, lib, shared, listed, others>>
                /\ tab' \in {tab, FALSE} /\ coming' \in {coming, coming \cup {c}} /\ pending' \in {pending, c}
          BY <3>2 DEF Catalog!RequestDownload, Catalog!DownloadShareTarget
        <4> QED
          BY <1>1, <4>1
      <3> QED
        BY <1>3, <3>1, <3>2
    <2> QED
      BY <1>1, <2>1, RowsStay
  <1>4. CASE \E c \in Contents :
                \/ Catalog!Expire(c) \/ Catalog!OthersChange(c)
                \/ \E b \in BOOLEAN : Catalog!DownloadEnds(c, b)
    <2>1. PICK c \in Contents :
             /\ UNCHANGED <<rows, shown, fetch, fetched, query, withdraws, pending, tab>>
             /\ lib' \in {lib, lib \cup {c}} /\ shared' \in {shared, shared \cup {c}}
             /\ shared' = shared \/ lib' = lib \cup {c}
             /\ listed' \in {listed, listed \cup {c}, listed \ {c}}
             /\ others' \in {others, others \cup {c}, others \ {c}}
             /\ coming' \in {coming, coming \ {c}}
      BY <1>4 DEF Catalog!Expire, Catalog!OthersChange, Catalog!DownloadEnds
    <2>2. /\ lib' \in SUBSET Contents /\ shared' \in SUBSET lib' /\ listed' \in SUBSET Contents
          /\ others' \in SUBSET Contents /\ coming' \in SUBSET Contents
      BY <1>1, <2>1
    <2> QED
      BY <1>1, <2>1, <2>2, RowsStay
  <1> QED
    BY <1>2, <1>3, <1>4

LEMMA LooksStep ==
    ASSUME LooksInv, Catalog!Next
    PROVE  LooksInv'
  <1>1. CASE Catalog!TrackerAnswers \/ Catalog!TrackerFails \/ Catalog!CatalogArrives
    BY <1>1, TrackerStep
  <1>2. CASE Catalog!RefreshNetwork \/ Catalog!Frame
    BY <1>2, AskSteps
  <1>3. CASE \E c \in Contents : \E b \in BOOLEAN : Catalog!WithdrawEnds(c, b)
    BY <1>3, WithdrawStep
  <1>4. CASE \/ \E c \in Contents : Catalog!ShareOff(c) \/ Catalog!Delete(c)
             \/ Catalog!StopWorldwide
    BY <1>4, SharesEnd
  <1>5. CASE \/ Catalog!OpenTab \/ Catalog!CloseTab \/ Catalog!Elapse
             \/ Catalog!ConfirmDownload \/ Catalog!CancelDownload
             \/ \E q \in Queries : Catalog!EditQuery(q)
             \/ \E c \in Contents :
                  \/ Catalog!Expire(c) \/ Catalog!OthersChange(c)
                  \/ \E b \in BOOLEAN : Catalog!DownloadEnds(c, b)
                  \/ \E skip, link \in BOOLEAN : Catalog!RequestDownload(c, skip, link)
    BY <1>5, OtherLooks
  <1> QED
    BY <1>1, <1>2, <1>3, <1>4, <1>5 DEF Catalog!Next

LEMMA LooksFrame ==
    ASSUME LooksInv, UNCHANGED exploreVars
    PROVE  LooksInv'
  BY DEF LooksInv, Listing, OneEach, exploreVars

LEMMA LooksMeans ==
    ASSUME LooksInv
    PROVE  Catalog!ExploreTypeOK
  BY DEF LooksInv, Listing, OneEach, Catalog!ExploreTypeOK

-----------------------------------------------------------------------------
(* The model page (ModelPage) *)

Positive == {n \in Nat : n > 0}

(* What the bag of requests holds after some are added, and after one of them
   ended. *)
LEMMA BagGrows ==
    ASSUME NEW B, Page!IsABag(B), NEW S, NEW C,
           C = [e \in (DOMAIN B) \cup S |->
                  (IF e \in DOMAIN B THEN B[e] ELSE 0) + (IF e \in S THEN 1 ELSE 0)]
    PROVE  DOMAIN C = (DOMAIN B) \cup S /\ Page!IsABag(C)
  <1>1. B \in [DOMAIN B -> Positive]
    BY DEF Page!IsABag, Positive
  <1>2. DOMAIN C = (DOMAIN B) \cup S
    OBVIOUS
  <1>3. ASSUME NEW e \in DOMAIN C PROVE C[e] \in Positive
    <2>1. C[e] = (IF e \in DOMAIN B THEN B[e] ELSE 0) + (IF e \in S THEN 1 ELSE 0)
      BY <1>2, <1>3
    <2>2. e \in DOMAIN B => B[e] \in Nat /\ B[e] > 0
      BY <1>1 DEF Positive
    <2> QED
      BY <1>2, <1>3, <2>1, <2>2 DEF Positive
  <1>4. C \in [DOMAIN C -> Positive]
    BY <1>2, <1>3
  <1> QED
    BY <1>2, <1>4 DEF Page!IsABag, Positive

LEMMA BagShrinks ==
    ASSUME NEW B, Page!IsABag(B), NEW t, NEW C,
           C = [e \in {d \in DOMAIN B : (IF d = t THEN B[d] - 1 ELSE B[d]) > 0} |->
                  IF e = t THEN B[e] - 1 ELSE B[e]]
    PROVE  /\ DOMAIN C \subseteq DOMAIN B /\ (DOMAIN B) \ {t} \subseteq DOMAIN C
           /\ Page!IsABag(C)
  <1>1. ASSUME NEW e \in DOMAIN B PROVE B[e] \in Nat /\ B[e] > 0
    BY <1>1 DEF Page!IsABag
  <1>2. DOMAIN C = {d \in DOMAIN B : (IF d = t THEN B[d] - 1 ELSE B[d]) > 0}
    OBVIOUS
  <1>3. DOMAIN C \subseteq DOMAIN B /\ (DOMAIN B) \ {t} \subseteq DOMAIN C
    BY <1>1, <1>2
  <1>4. ASSUME NEW e \in DOMAIN C PROVE C[e] \in Positive
    <2>1. C[e] = IF e = t THEN B[e] - 1 ELSE B[e]
      BY <1>2, <1>4
    <2>2. (IF e = t THEN B[e] - 1 ELSE B[e]) > 0 /\ B[e] \in Nat
      BY <1>1, <1>2, <1>4
    <2> QED
      BY <2>1, <2>2 DEF Positive
  <1>5. C \in [DOMAIN C -> Positive]
    BY <1>2, <1>4
  <1> QED
    BY <1>3, <1>5 DEF Page!IsABag, Positive

LEMMA Spawns ==
    ASSUME Page!IsABag(tasks), NEW S, Page!Spawn(S)
    PROVE  Page!IsABag(tasks') /\ DOMAIN tasks' = (DOMAIN tasks) \cup S
  <1>1. tasks' = [e \in (DOMAIN tasks) \cup S |->
                    (IF e \in DOMAIN tasks THEN tasks[e] ELSE 0) + (IF e \in S THEN 1 ELSE 0)]
    BY DEF Page!Spawn, Page!(+), Page!SetToBag
  <1> QED
    BY <1>1, BagGrows

LEMMA Finishes ==
    ASSUME Page!IsABag(tasks), NEW t, NEW S, Page!Finish(t, S)
    PROVE  /\ Page!IsABag(tasks')
           /\ ((DOMAIN tasks) \ {t}) \cup S \subseteq DOMAIN tasks'
           /\ DOMAIN tasks' \subseteq (DOMAIN tasks) \cup S
  <1> DEFINE C == [e \in {d \in DOMAIN tasks : (IF d = t THEN tasks[d] - 1 ELSE tasks[d]) > 0} |->
                     IF e = t THEN tasks[e] - 1 ELSE tasks[e]]
  <1>1. tasks' = [e \in (DOMAIN C) \cup S |->
                    (IF e \in DOMAIN C THEN C[e] ELSE 0) + (IF e \in S THEN 1 ELSE 0)]
    BY DEF Page!Finish, Page!(+), Page!(-), Page!SetToBag
  <1>2. /\ DOMAIN C \subseteq DOMAIN tasks /\ (DOMAIN tasks) \ {t} \subseteq DOMAIN C
        /\ Page!IsABag(C)
    BY BagShrinks
  <1> HIDE DEF C
  <1>3. DOMAIN tasks' = (DOMAIN C) \cup S /\ Page!IsABag(tasks')
    BY <1>1, <1>2, BagGrows
  <1> QED
    BY <1>2, <1>3

Some == Repos \cup {Page!None}
Card == [st : {"idle", "loading", "ready", "missing", "failed"}, key : Some, doc : Some]

PageShape ==
    /\ detail \in Some /\ convFor \in Some /\ conv \in Some
    /\ loading \in BOOLEAN /\ convLoading \in BOOLEAN
    /\ readme \in Card
    /\ counts \in [Repos -> Page!Counts] /\ sampled \in {"never", "fresh", "stale"}
    /\ seeders \in SUBSET Repos

Queued == Page!IsABag(tasks) /\ DOMAIN tasks \subseteq Page!Tasks

(* Every spinner has its request in flight. *)
Awaited(ts) ==
    /\ loading => \E r \in Repos : [k |-> "detail", id |-> r] \in ts
    /\ convLoading => [k |-> "conv", id |-> convFor] \in ts
    /\ readme.st = "loading" => [k |-> "readme", id |-> readme.key] \in ts

(* The card and the conversions the page holds are of the model they were
   asked for. *)
Fitting ==
    /\ readme.st = "ready" => readme.doc = readme.key
    /\ conv # Page!None => conv = convFor

PageInv == PageShape /\ Queued /\ Awaited(DOMAIN tasks) /\ Fitting

LEMMA RequestTyped ==
    ASSUME NEW r \in Repos
    PROVE  /\ \A k \in {"detail", "conv", "readme", "ask"} : [k |-> k, id |-> r] \in Page!Tasks
           /\ \A seen \in Page!Counts : [k |-> "peers", id |-> r, seen |-> seen] \in Page!Tasks
  BY DEF Page!Tasks

LEMMA PageInit ==
    ASSUME Page!Init
    PROVE  PageInv
  <1>1. /\ detail = Page!None /\ loading = FALSE /\ convFor = Page!None /\ convLoading = FALSE
        /\ conv = Page!None /\ readme = Page!Idle
        /\ counts = [r \in Repos |-> "unknown"] /\ sampled = "never" /\ seeders = {}
    BY DEF Page!Init
  <1>2. tasks = [e \in {} |-> 1]
    BY DEF Page!Init, Page!EmptyBag, Page!SetToBag
  <1>3. DOMAIN tasks = {} /\ tasks \in [{} -> {n \in Nat : n > 0}]
    BY <1>2
  <1>4. Queued
    BY <1>3 DEF Queued, Page!IsABag
  <1>5. readme \in Card /\ readme.st = "idle"
    BY <1>1 DEF Page!Idle, Card, Some
  <1>6. PageShape
    BY <1>1, <1>5 DEF PageShape, Some, Page!Counts
  <1>7. Awaited(DOMAIN tasks) /\ Fitting
    BY <1>1, <1>5 DEF Awaited, Fitting
  <1> QED
    BY <1>4, <1>6, <1>7 DEF PageInv

(* Requests are added. *)
LEMMA AddStep ==
    ASSUME PageInv, NEW S \in SUBSET Page!Tasks, Page!Spawn(S)
    PROVE  Queued' /\ DOMAIN tasks' = (DOMAIN tasks) \cup S
  <1>1. Page!IsABag(tasks) /\ DOMAIN tasks \subseteq Page!Tasks
    BY DEF PageInv, Queued
  <1>2. Page!IsABag(tasks') /\ DOMAIN tasks' = (DOMAIN tasks) \cup S
    BY <1>1, Spawns
  <1>3. Page!IsABag(tasks)'
    BY <1>2 DEF Page!IsABag
  <1> QED
    BY <1>1, <1>2, <1>3 DEF Queued

(* A request ends and others follow it. *)
LEMMA EndStep ==
    ASSUME PageInv, NEW t, NEW S \in SUBSET Page!Tasks, Page!Finish(t, S)
    PROVE  Queued' /\ ((DOMAIN tasks) \ {t}) \cup S \subseteq DOMAIN tasks'
  <1>1. Page!IsABag(tasks) /\ DOMAIN tasks \subseteq Page!Tasks
    BY DEF PageInv, Queued
  <1>2. /\ Page!IsABag(tasks')
        /\ ((DOMAIN tasks) \ {t}) \cup S \subseteq DOMAIN tasks'
        /\ DOMAIN tasks' \subseteq (DOMAIN tasks) \cup S
    BY <1>1, Finishes
  <1>3. Page!IsABag(tasks)'
    BY <1>2 DEF Page!IsABag
  <1> QED
    BY <1>1, <1>2, <1>3 DEF Queued

(* The request that ends is none that the page waits for. *)
LEMMA CountStep ==
    ASSUME PageInv, Queued', NEW t, t.k \in {"ask", "peers"},
           (DOMAIN tasks) \ {t} \subseteq DOMAIN tasks',
           UNCHANGED <<detail, loading, convFor, convLoading, conv, readme>>,
           counts' \in [Repos -> Page!Counts], sampled' \in {"never", "fresh", "stale"},
           seeders' \in SUBSET Repos
    PROVE  PageInv'
  <1>1. \A k \in {"detail", "conv", "readme"}, x \in Some : [k |-> k, id |-> x] # t
    OBVIOUS
  <1>2. PageShape'
    BY DEF PageInv, PageShape
  <1>3. Fitting'
    BY DEF PageInv, Fitting
  <1>4. Awaited(DOMAIN tasks)'
    <2>1. readme.key \in Some /\ convFor \in Some
      BY DEF PageInv, PageShape, Card
    <2>2. Awaited(DOMAIN tasks)
      BY DEF PageInv
    <2> DEFINE ts == DOMAIN tasks
               us == DOMAIN tasks'
    <2>3. ts \ {t} \subseteq us
      OBVIOUS
    <2> HIDE DEF ts, us
    <2>4. loading => \E r \in Repos : [k |-> "detail", id |-> r] \in us
      BY <1>1, <2>2, <2>3 DEF Awaited, Some, ts
    <2>5. convLoading => [k |-> "conv", id |-> convFor] \in us
      BY <1>1, <2>1, <2>2, <2>3 DEF Awaited, ts
    <2>6. readme.st = "loading" => [k |-> "readme", id |-> readme.key] \in us
      BY <1>1, <2>1, <2>2, <2>3 DEF Awaited, ts
    <2> QED
      BY <2>4, <2>5, <2>6 DEF Awaited, us
  <1> QED
    BY <1>2, <1>3, <1>4 DEF PageInv

(* The requests are the same or more. *)
LEMMA MoreAwaited ==
    ASSUME PageInv, NEW us, DOMAIN tasks \subseteq us
    PROVE  Awaited(us)
  BY DEF PageInv, Awaited

LEMMA Opens ==
    ASSUME PageInv, NEW r \in Repos, Page!OpenModel(r)
    PROVE  PageInv'
  <1> DEFINE t == [k |-> "detail", id |-> r]
  <1>1. /\ loading' = TRUE /\ detail' = Page!None /\ readme' = Page!Idle
        /\ counts' = [x \in Repos |-> "unknown"] /\ Page!Spawn({t})
        /\ UNCHANGED <<convFor, convLoading, conv, sampled, seeders>>
    BY DEF Page!OpenModel
  <1>2. t \in Page!Tasks
    BY RequestTyped
  <1>3. Queued' /\ DOMAIN tasks' = (DOMAIN tasks) \cup {t}
    BY <1>1, <1>2, AddStep
  <1>4. readme' \in Card /\ readme'.st = "idle"
    BY <1>1 DEF Page!Idle, Card, Some
  <1>5. PageShape'
    BY <1>1, <1>4 DEF PageInv, PageShape, Page!Counts, Some
  <1>6. Fitting'
    BY <1>1, <1>4 DEF PageInv, Fitting
  <1>7. Awaited(DOMAIN tasks)'
    <2>1. convLoading => [k |-> "conv", id |-> convFor] \in DOMAIN tasks
      BY DEF PageInv, Awaited
    <2>2. loading' => \E x \in Repos : [k |-> "detail", id |-> x] \in DOMAIN tasks'
      BY <1>3
    <2>3. convLoading' => [k |-> "conv", id |-> convFor'] \in DOMAIN tasks'
      BY <1>1, <1>3, <2>1
    <2> QED
      BY <1>4, <2>2, <2>3 DEF Awaited
  <1> QED
    BY <1>3, <1>5, <1>6, <1>7 DEF PageInv

LEMMA LeavesPage ==
    ASSUME PageInv, Page!Back \/ Page!Escape \/ Page!Leave
    PROVE  PageInv'
  <1>1. /\ detail' = Page!None /\ loading' \in {loading, FALSE} /\ readme' \in {readme, Page!Idle}
        /\ UNCHANGED <<convFor, convLoading, conv, counts, sampled, tasks, seeders>>
    BY DEF Page!Back, Page!Escape, Page!Leave
  <1>2. Page!Idle \in Card /\ Page!Idle.st = "idle"
    BY DEF Page!Idle, Card, Some
  <1>3. PageShape'
    BY <1>1, <1>2 DEF PageInv, PageShape, Some
  <1>4. Fitting'
    BY <1>1, <1>2 DEF PageInv, Fitting
  <1>5. Awaited(DOMAIN tasks)'
    <2>1. Awaited(DOMAIN tasks)
      BY DEF PageInv
    <2>2. loading' => \E r \in Repos : [k |-> "detail", id |-> r] \in DOMAIN tasks'
      BY <1>1, <2>1 DEF Awaited
    <2>3. convLoading' => [k |-> "conv", id |-> convFor'] \in DOMAIN tasks'
      BY <1>1, <2>1 DEF Awaited
    <2>4. readme'.st = "loading" => readme' = readme
      BY <1>1, <1>2
    <2>5. readme'.st = "loading" => [k |-> "readme", id |-> readme'.key] \in DOMAIN tasks'
      BY <1>1, <2>1, <2>4 DEF Awaited
    <2> QED
      BY <2>2, <2>3, <2>5 DEF Awaited
  <1>6. Queued'
    BY <1>1 DEF PageInv, Queued, Page!IsABag
  <1> QED
    BY <1>3, <1>4, <1>5, <1>6 DEF PageInv

LEMMA DetailsArrive ==
    ASSUME PageInv, NEW r \in Repos, Page!DetailArrives(r)
    PROVE  PageInv'
  <1> DEFINE t == [k |-> "detail", id |-> r]
             c == [k |-> "conv", id |-> r]
             S == {[k |-> "ask", id |-> r]} \cup {x \in {c} : r \notin Ggufs /\ convFor # r}
  <1>1. /\ loading' = FALSE /\ detail' = r /\ sampled' = "fresh" /\ Page!Finish(t, S)
        /\ IF r \in Ggufs THEN Page!NoConversions ELSE Page!Conversions(r)
        /\ UNCHANGED <<readme, counts, seeders>>
    BY DEF Page!DetailArrives
  <1>2. S \in SUBSET Page!Tasks
    BY RequestTyped
  <1>3. Queued' /\ ((DOMAIN tasks) \ {t}) \cup S \subseteq DOMAIN tasks'
    <2> HIDE DEF t, S
    <2> QED
      BY <1>1, <1>2, EndStep
  <1>4. /\ \/ r \in Ggufs /\ convFor' = Page!None /\ conv' = Page!None /\ convLoading' = FALSE
           \/ /\ r \notin Ggufs /\ convFor' = r
              /\ \/ convFor = r /\ conv' = conv /\ convLoading' = convLoading
                 \/ convFor # r /\ conv' = Page!None /\ convLoading' = TRUE
    BY <1>1 DEF Page!NoConversions, Page!Conversions
  <1>5. /\ detail' \in Some /\ convFor' \in Some /\ conv' \in Some
        /\ loading' \in BOOLEAN /\ convLoading' \in BOOLEAN
    BY <1>1, <1>4 DEF PageInv, PageShape, Some
  <1>6. PageShape'
    BY <1>1, <1>5 DEF PageInv, PageShape
  <1>7. Fitting'
    BY <1>1, <1>4 DEF PageInv, Fitting
  <1>8. Awaited(DOMAIN tasks)'
    <2>1. convLoading' => [k |-> "conv", id |-> convFor'] \in DOMAIN tasks'
      <3>1. CASE convFor = r /\ convFor' = r /\ convLoading' = convLoading
        <4>1. convLoading => c \in DOMAIN tasks
          BY <3>1 DEF PageInv, Awaited
        <4>2. c # t
          OBVIOUS
        <4> HIDE DEF S, t
        <4> QED
          BY <1>3, <3>1, <4>1, <4>2
      <3>2. CASE r \notin Ggufs /\ convFor # r /\ convFor' = r
        <4>1. c \in S
          BY <3>2
        <4> HIDE DEF S, t
        <4> QED
          BY <1>3, <3>2, <4>1
      <3> QED
        BY <1>4, <3>1, <3>2
    <2>2. readme'.st = "loading" => [k |-> "readme", id |-> readme'.key] \in DOMAIN tasks'
      <3>1. readme.st = "loading" => [k |-> "readme", id |-> readme.key] \in DOMAIN tasks
        BY DEF PageInv, Awaited
      <3>2. [k |-> "readme", id |-> readme.key] # t
        OBVIOUS
      <3> HIDE DEF t, S, c
      <3> QED
        BY <1>1, <1>3, <3>1, <3>2
    <2> QED
      BY <1>1, <2>1, <2>2 DEF Awaited
  <1> QED
    BY <1>3, <1>6, <1>7, <1>8 DEF PageInv

(* A request of detail fails, or one of conversions or of a card is answered. *)
LEMMA DetailFailsStep ==
    ASSUME PageInv, NEW r \in Repos, Page!DetailFails(r)
    PROVE  PageInv'
  <1> DEFINE t == [k |-> "detail", id |-> r]
  <1>1. /\ loading' = FALSE /\ Page!Finish(t, {})
        /\ UNCHANGED <<detail, convFor, convLoading, conv, readme, counts, sampled, seeders>>
    BY DEF Page!DetailFails
  <1>2. Queued' /\ ((DOMAIN tasks) \ {t}) \cup {} \subseteq DOMAIN tasks'
    BY <1>1, EndStep
  <1>3. PageShape' /\ Fitting'
    <2>1. PageShape'
      BY <1>1 DEF PageInv, PageShape
    <2>2. Fitting'
      BY <1>1 DEF PageInv, Fitting
    <2> QED
      BY <2>1, <2>2
  <1>4. /\ convLoading => [k |-> "conv", id |-> convFor] \in DOMAIN tasks
        /\ readme.st = "loading" => [k |-> "readme", id |-> readme.key] \in DOMAIN tasks
    BY DEF PageInv, Awaited
  <1>5. [k |-> "conv", id |-> convFor] # t /\ [k |-> "readme", id |-> readme.key] # t
    OBVIOUS
  <1> HIDE DEF t
  <1>6. /\ convLoading => [k |-> "conv", id |-> convFor] \in DOMAIN tasks'
        /\ readme.st = "loading" => [k |-> "readme", id |-> readme.key] \in DOMAIN tasks'
    BY <1>2, <1>4, <1>5
  <1>7. Awaited(DOMAIN tasks)'
    BY <1>1, <1>6 DEF Awaited
  <1> QED
    BY <1>2, <1>3, <1>7 DEF PageInv

LEMMA ConversionsStep ==
    ASSUME PageInv, NEW r \in Repos, NEW ok \in BOOLEAN, Page!ConversionsArrive(r, ok)
    PROVE  PageInv'
  <1> DEFINE t == [k |-> "conv", id |-> r]
  <1>1. /\ Page!Finish(t, {})
        /\ \/ convFor = r /\ convLoading' = FALSE /\ conv' \in {r, Page!None}
           \/ convFor # r /\ UNCHANGED <<convLoading, conv>>
        /\ UNCHANGED <<detail, loading, convFor, readme, counts, sampled, seeders>>
    BY DEF Page!ConversionsArrive
  <1>2. Queued' /\ ((DOMAIN tasks) \ {t}) \cup {} \subseteq DOMAIN tasks'
    BY <1>1, EndStep
  <1>3. convLoading' \in BOOLEAN /\ conv' \in Some
    BY <1>1 DEF PageInv, PageShape, Some
  <1>4. PageShape'
    BY <1>1, <1>3 DEF PageInv, PageShape
  <1>5. Fitting'
    BY <1>1 DEF PageInv, Fitting
  <1>6. Awaited(DOMAIN tasks)
    BY DEF PageInv
  <1>7. loading' => \E x \in Repos : [k |-> "detail", id |-> x] \in DOMAIN tasks'
    <2>1. \A x \in Repos : [k |-> "detail", id |-> x] # t
      OBVIOUS
    <2> HIDE DEF t
    <2> QED
      BY <1>1, <1>2, <1>6, <2>1 DEF Awaited
  <1>8. convLoading' => [k |-> "conv", id |-> convFor'] \in DOMAIN tasks'
    <2>1. convFor # r => [k |-> "conv", id |-> convFor] # t
      OBVIOUS
    <2> HIDE DEF t
    <2> QED
      BY <1>1, <1>2, <1>6, <2>1 DEF Awaited
  <1>9. readme'.st = "loading" => [k |-> "readme", id |-> readme'.key] \in DOMAIN tasks'
    <2>1. [k |-> "readme", id |-> readme.key] # t
      OBVIOUS
    <2> HIDE DEF t
    <2> QED
      BY <1>1, <1>2, <1>6, <2>1 DEF Awaited
  <1>10. Awaited(DOMAIN tasks)'
    BY <1>7, <1>8, <1>9 DEF Awaited
  <1> QED
    BY <1>2, <1>4, <1>5, <1>10 DEF PageInv

LEMMA ReadmeFetches ==
    ASSUME PageInv, Page!FetchReadme
    PROVE  PageInv'
  <1> DEFINE t == [k |-> "readme", id |-> detail]
  <1>1. /\ detail # Page!None /\ readme' = [st |-> "loading", key |-> detail, doc |-> Page!None]
        /\ Page!Spawn({t})
        /\ UNCHANGED <<detail, loading, convFor, convLoading, conv, counts, sampled, seeders>>
    BY DEF Page!FetchReadme
  <1>2. detail \in Repos /\ detail \in Some /\ Page!None \in Some
    BY <1>1 DEF PageInv, PageShape, Some
  <1>3. t \in Page!Tasks
    BY <1>2, RequestTyped
  <1>4. Queued' /\ DOMAIN tasks' = (DOMAIN tasks) \cup {t}
    BY <1>1, <1>3, AddStep
  <1>5. readme' \in Card /\ readme'.st = "loading" /\ readme'.key = detail
    BY <1>1, <1>2 DEF Card
  <1>6. PageShape'
    BY <1>1, <1>5 DEF PageInv, PageShape
  <1>7. Fitting'
    BY <1>1, <1>5 DEF PageInv, Fitting
  <1>8. Awaited(DOMAIN tasks)'
    <2>1. Awaited(DOMAIN tasks)
      BY DEF PageInv
    <2>2. loading' => \E x \in Repos : [k |-> "detail", id |-> x] \in DOMAIN tasks'
      BY <1>1, <1>4, <2>1 DEF Awaited
    <2>3. convLoading' => [k |-> "conv", id |-> convFor'] \in DOMAIN tasks'
      BY <1>1, <1>4, <2>1 DEF Awaited
    <2>4. [k |-> "readme", id |-> readme'.key] \in DOMAIN tasks'
      BY <1>4, <1>5
    <2> QED
      BY <2>2, <2>3, <2>4 DEF Awaited
  <1> QED
    BY <1>4, <1>6, <1>7, <1>8 DEF PageInv

LEMMA ReadmeStep ==
    ASSUME PageInv, NEW r \in Repos, NEW st \in Page!CardStates, Page!ReadmeArrives(r, st)
    PROVE  PageInv'
  <1> DEFINE t == [k |-> "readme", id |-> r]
             d == IF st = "ready" THEN r ELSE Page!None
  <1>1. /\ Page!Finish(t, {})
        /\ \/ readme.st = "loading" /\ readme.key = r /\ readme' = [st |-> st, key |-> r, doc |-> d]
           \/ ~(readme.st = "loading" /\ readme.key = r) /\ readme' = readme
        /\ UNCHANGED <<detail, loading, convFor, convLoading, conv, counts, sampled, seeders>>
    BY DEF Page!ReadmeArrives
  <1>2. Queued' /\ ((DOMAIN tasks) \ {t}) \cup {} \subseteq DOMAIN tasks'
    BY <1>1, EndStep
  <1>3. /\ [st |-> st, key |-> r, doc |-> d] \in Card
        /\ st # "loading" /\ (st = "ready" => d = r)
    BY DEF Card, Some, Page!CardStates
  <1>4. PageShape'
    <2>1. readme' \in Card
      BY <1>1, <1>3 DEF PageInv, PageShape
    <2> QED
      BY <1>1, <2>1 DEF PageInv, PageShape
  <1> HIDE DEF d
  <1>5. Fitting'
    BY <1>1, <1>3 DEF PageInv, Fitting
  <1>6. Awaited(DOMAIN tasks)
    BY DEF PageInv
  <1>7. loading' => \E x \in Repos : [k |-> "detail", id |-> x] \in DOMAIN tasks'
    <2>1. \A x \in Repos : [k |-> "detail", id |-> x] # t
      OBVIOUS
    <2> HIDE DEF t
    <2> QED
      BY <1>1, <1>2, <1>6, <2>1 DEF Awaited
  <1>8. convLoading' => [k |-> "conv", id |-> convFor'] \in DOMAIN tasks'
    <2>1. [k |-> "conv", id |-> convFor] # t
      OBVIOUS
    <2> HIDE DEF t
    <2> QED
      BY <1>1, <1>2, <1>6, <2>1 DEF Awaited
  <1>9. readme'.st = "loading" => [k |-> "readme", id |-> readme'.key] \in DOMAIN tasks'
    <2>1. CASE readme' = readme /\ ~(readme.st = "loading" /\ readme.key = r)
      <3>1. readme.key # r => [k |-> "readme", id |-> readme.key] # t
        OBVIOUS
      <3> HIDE DEF t
      <3> QED
        BY <1>2, <1>6, <2>1, <3>1 DEF Awaited
    <2>2. CASE readme' = [st |-> st, key |-> r, doc |-> d]
      BY <1>3, <2>2
    <2> QED
      BY <1>1, <2>1, <2>2
  <1>10. Awaited(DOMAIN tasks)'
    BY <1>7, <1>8, <1>9 DEF Awaited
  <1> QED
    BY <1>2, <1>4, <1>5, <1>10 DEF PageInv

LEMMA CountsArrive ==
    ASSUME PageInv, NEW r \in Repos,
           Page!TrackerAnswers(r) \/ \E seen \in Page!Counts : Page!PeersArrive(r, seen)
    PROVE  PageInv'
  <1>1. PICK t, S :
           /\ t.k \in {"ask", "peers"} /\ S \in SUBSET Page!Tasks /\ Page!Finish(t, S)
           /\ counts' \in [Repos -> Page!Counts]
           /\ UNCHANGED <<detail, loading, convFor, convLoading, conv, readme, sampled, seeders>>
    <2>1. counts \in [Repos -> Page!Counts]
      BY DEF PageInv, PageShape
    <2>2. CASE Page!TrackerAnswers(r)
      <3> DEFINE t == [k |-> "ask", id |-> r]
                 S == {[k |-> "peers", id |-> r, seen |-> Page!Truth(r)]}
      <3>1. Page!Finish(t, S) /\ t.k = "ask"
        BY <2>2 DEF Page!TrackerAnswers
      <3>2. S \in SUBSET Page!Tasks
        BY RequestTyped DEF Page!Truth, Page!Counts
      <3>3. UNCHANGED <<detail, loading, convFor, convLoading, conv, readme, counts, sampled, seeders>>
        BY <2>2 DEF Page!TrackerAnswers
      <3> HIDE DEF t, S
      <3> QED
        BY <2>1, <3>1, <3>2, <3>3
    <2>3. CASE \E seen \in Page!Counts : Page!PeersArrive(r, seen)
      <3>1. PICK seen \in Page!Counts : Page!PeersArrive(r, seen)
        BY <2>3
      <3> DEFINE t == [k |-> "peers", id |-> r, seen |-> seen]
      <3>2. Page!Finish(t, {}) /\ t.k = "peers" /\ counts' = [counts EXCEPT ![r] = seen]
        BY <3>1 DEF Page!PeersArrive
      <3>3. UNCHANGED <<detail, loading, convFor, convLoading, conv, readme, sampled, seeders>>
        BY <3>1 DEF Page!PeersArrive
      <3>4. counts' \in [Repos -> Page!Counts]
        BY <2>1, <3>2
      <3> HIDE DEF t
      <3> QED
        BY <3>2, <3>3, <3>4
    <2> QED
      BY <2>2, <2>3
  <1>2. Queued' /\ (DOMAIN tasks) \ {t} \subseteq DOMAIN tasks'
    BY <1>1, EndStep
  <1>3. sampled' \in {"never", "fresh", "stale"} /\ seeders' \in SUBSET Repos
    BY <1>1 DEF PageInv, PageShape
  <1> QED
    BY <1>1, <1>2, <1>3, CountStep

LEMMA Samples ==
    ASSUME PageInv, Page!Resample \/ Page!RefreshCounts
    PROVE  PageInv'
  <1> DEFINE t == [k |-> "ask", id |-> detail]
  <1>1. /\ detail # Page!None /\ sampled' = "fresh"
        /\ counts' \in {counts, [x \in Repos |-> "unknown"]}
        /\ Page!Spawn({t})
        /\ UNCHANGED <<detail, loading, convFor, convLoading, conv, readme, seeders>>
    BY DEF Page!Resample, Page!RefreshCounts
  <1>2. detail \in Repos
    BY <1>1 DEF PageInv, PageShape, Some
  <1>3. t \in Page!Tasks
    BY <1>2, RequestTyped
  <1>4. Queued' /\ DOMAIN tasks' = (DOMAIN tasks) \cup {t}
    BY <1>1, <1>3, AddStep
  <1>5. counts' \in [Repos -> Page!Counts]
    BY <1>1 DEF PageInv, PageShape, Page!Counts
  <1>6. seeders' \in SUBSET Repos /\ (DOMAIN tasks) \ {t} \subseteq DOMAIN tasks'
    BY <1>1, <1>4 DEF PageInv, PageShape
  <1>7. t.k \in {"ask", "peers"} /\ sampled' \in {"never", "fresh", "stale"}
    BY <1>1
  <1> HIDE DEF t
  <1> QED
    BY <1>1, <1>4, <1>5, <1>6, <1>7, CountStep

LEMMA TimeAndSeeders ==
    ASSUME PageInv, Page!Elapse \/ \E r \in Repos : Page!SeedersChange(r)
    PROVE  PageInv'
  <1>1. /\ sampled' \in {sampled, "stale"}
        /\ UNCHANGED <<detail, loading, convFor, convLoading, conv, readme, counts, tasks>>
    BY DEF Page!Elapse, Page!SeedersChange
  <1>2. seeders' \in SUBSET Repos
    BY DEF Page!Elapse, Page!SeedersChange, PageInv, PageShape
  <1>3. PageShape'
    BY <1>1, <1>2 DEF PageInv, PageShape
  <1>4. Queued' /\ Fitting' /\ Awaited(DOMAIN tasks)'
    BY <1>1 DEF PageInv, Queued, Page!IsABag, Fitting, Awaited
  <1> QED
    BY <1>3, <1>4 DEF PageInv

LEMMA PageStep ==
    ASSUME PageInv, Page!Next
    PROVE  PageInv'
  <1>1. CASE \E r \in Repos : Page!OpenModel(r)
    BY <1>1, Opens
  <1>2. CASE \E r \in Repos : Page!Answer(r)
    BY <1>2, DetailsArrive, DetailFailsStep, ConversionsStep, ReadmeStep, CountsArrive DEF Page!Answer
  <1>3. CASE Page!Back \/ Page!Escape \/ Page!Leave
    BY <1>3, LeavesPage
  <1>4. CASE Page!FetchReadme
    BY <1>4, ReadmeFetches
  <1>5. CASE Page!Resample \/ Page!RefreshCounts
    BY <1>5, Samples
  <1>6. CASE Page!Elapse \/ \E r \in Repos : Page!SeedersChange(r)
    BY <1>6, TimeAndSeeders
  <1> QED
    BY <1>1, <1>2, <1>3, <1>4, <1>5, <1>6 DEF Page!Next

LEMMA PageFrame ==
    ASSUME PageInv, UNCHANGED pageVars
    PROVE  PageInv'
  BY DEF PageInv, PageShape, Queued, Page!IsABag, Fitting, Awaited, pageVars

LEMMA PageMeans ==
    ASSUME PageInv
    PROVE  Page!ModelPageTypeOK /\ Page!WaitsForAnswers /\ Page!ShowsItsOwn
  <1>1. Page!ModelPageTypeOK
    BY DEF PageInv, PageShape, Queued, Page!BagToSet, Page!ModelPageTypeOK, Some, Card
  <1>2. Page!WaitsForAnswers
    BY DEF PageInv, Awaited, Page!WaitsForAnswers, Page!InFlight, Page!BagIn, Page!BagToSet
  <1>3. Page!ShowsItsOwn
    BY DEF PageInv, Fitting, Page!ShowsItsOwn
  <1> QED
    BY <1>1, <1>2, <1>3

-----------------------------------------------------------------------------
(* The transfer cards of Studio (StudioCards) *)

BundleCards == INSTANCE StudioProofs WITH Ids <- {id1, id2}, Refs <- {r1}, Links <- Bundles, Hub <- {id1}

LEMMA BundleLinks == BundleCards!CardsAssumption
  <1>1. <<id1>> \in Seq({id1, id2}) /\ <<id1, id2>> \in Seq({id1, id2})
    OBVIOUS
  <1>2. <<id1>> # <<>> /\ <<id1, id2>> # <<>>
    OBVIOUS
  <1> QED
    BY <1>1, <1>2 DEF BundleCards!CardsAssumption, Bundles

LEMMA BundleInit == Bundle!Init <=> BundleCards!Init
  BY DEF Bundle!Init, BundleCards!Init, Bundle!None, BundleCards!None, Bundle!Keys, BundleCards!Keys,
       Bundle!NoCtl, BundleCards!NoCtl, Bundle!NoMount, BundleCards!NoMount

LEMMA BundleNext == Bundle!Next <=> BundleCards!Next
  BY ZenonT(60) DEF Bundle!Next, BundleCards!Next, Bundle!Start, BundleCards!Start, Bundle!Command,
       BundleCards!Command, Bundle!Progress, BundleCards!Progress, Bundle!Handle, BundleCards!Handle,
       Bundle!User, BundleCards!User, Bundle!Mount, BundleCards!Mount, Bundle!Reload,
       BundleCards!Reload, Bundle!Expire, BundleCards!Expire, Bundle!Resolve, BundleCards!Resolve,
       Bundle!ResolveFails, BundleCards!ResolveFails, Bundle!Register, BundleCards!Register,
       Bundle!RegisterNext, BundleCards!RegisterNext, Bundle!Begin, BundleCards!Begin, Bundle!Refused,
       BundleCards!Refused, Bundle!RunEnds, BundleCards!RunEnds, Bundle!EmitDone,
       BundleCards!EmitDone, Bundle!OnRegistered, BundleCards!OnRegistered, Bundle!OnProgress,
       BundleCards!OnProgress, Bundle!OnDone, BundleCards!OnDone, Bundle!Pause, BundleCards!Pause,
       Bundle!Stop, BundleCards!Stop, Bundle!Resume, BundleCards!Resume, Bundle!Remove,
       BundleCards!Remove, Bundle!ListTransfers, BundleCards!ListTransfers, Bundle!Reconcile,
       BundleCards!Reconcile, Bundle!Requested, BundleCards!Requested, Bundle!Listed,
       BundleCards!Listed, Bundle!Op, BundleCards!Op, Bundle!Emit, BundleCards!Emit, Bundle!Becomes,
       BundleCards!Becomes, Bundle!Waiting, BundleCards!Waiting, Bundle!Next1, BundleCards!Next1,
       Bundle!None, BundleCards!None, Bundle!Keys, BundleCards!Keys, Bundle!Settled,
       BundleCards!Settled, Bundle!Active, BundleCards!Active, Bundle!Ends, BundleCards!Ends,
       Bundle!NoCtl, BundleCards!NoCtl, Bundle!Idle, BundleCards!Idle, Bundle!NoMount,
       BundleCards!NoMount

LEMMA BundleMeans == BundleCards!CardsInv => Bundle!CardsTypeOK
  <1>1. BundleCards!CardsInv => BundleCards!CardsTypeOK
    BY BundleCards!CardsMean
  <1>2. Bundle!CardsTypeOK <=> BundleCards!CardsTypeOK
    BY DEF Bundle!CardsTypeOK, BundleCards!CardsTypeOK, Bundle!Phases, BundleCards!Phases, Bundle!Settled,
       BundleCards!Settled, Bundle!Active, BundleCards!Active, Bundle!Keys, BundleCards!Keys,
       Bundle!None, BundleCards!None
  <1> QED
    BY <1>1, <1>2

-----------------------------------------------------------------------------
(* A step is one of one part, and the others stay as they are. *)
LEMMA OnePart ==
    ASSUME [Next]_vars
    PROVE  /\ Page!Next \/ UNCHANGED pageVars
           /\ Catalog!Next \/ UNCHANGED exploreVars
           /\ Speed!Next \/ UNCHANGED speedVars
           /\ Bundle!Next \/ UNCHANGED bundleVars
           /\ Update!Next \/ UNCHANGED updateVars
  BY DEF Next, vars, InPage, InExplore, InSpeed, InBundle, InUpdate

(* For any models, contents, queries, caps and links, and any number of
   requests under way: what the model page shows as loading has a request in
   flight that ends it, the card and the conversions it shows are the open
   model's own, a listing of Explore has one row for a content and a fetch
   asks for a query, and the cap in force is one of the settings. *)
THEOREM ViewsCorrect == Spec => []ViewsInv
  <1> DEFINE Inv == PageInv /\ LooksInv /\ Speed!SpeedTypeOK /\ BundleCards!CardsInv
  <1>1. Init => Inv
    BY PageInit, LooksInit, SpeedInit, BundleInit, BundleCards!CardsInit DEF Init
  <1>2. Inv /\ [Next]_vars => Inv'
    <2> SUFFICES ASSUME Inv, [Next]_vars PROVE Inv'
      OBVIOUS
    <2>1. PageInv'
      BY OnePart, PageStep, PageFrame
    <2>2. LooksInv'
      BY OnePart, LooksStep, LooksFrame
    <2>3. Speed!SpeedTypeOK'
      BY OnePart, SpeedStep, SpeedFrame
    <2>4. BundleCards!CardsInv'
      <3>1. UNCHANGED bundleVars => UNCHANGED BundleCards!cardVars
        BY DEF bundleVars, BundleCards!cardVars
      <3> QED
        BY <3>1, OnePart, BundleNext, BundleLinks, BundleCards!CardsStep, BundleCards!CardsFrame
    <2> QED
      BY <2>1, <2>2, <2>3, <2>4
  <1>3. Inv => ViewsInv
    BY PageMeans, LooksMeans, BundleMeans DEF ViewsInv
  <1> QED
    BY <1>1, <1>2, <1>3, PTL DEF Spec

(* Over any releases, keys, installations and number of crashes, failures and
   damaged files: what is installed has the bytes its release pinned, and in
   every state the bundle or the backup beside it is an app that starts. *)
THEOREM UpdaterCorrect == Spec => []UpdaterInv
  <1>1. Init => UpdInv
    BY UpdInit DEF Init
  <1>2. UpdInv /\ [Next]_vars => UpdInv'
    BY OnePart, UpdStep, UpdFrame
  <1> QED
    BY <1>1, <1>2, UpdMeans, PTL DEF Spec

(* No check, swap, crash or restart leads from an app that runs to an older
   one, and whatever step switches the schedule off restores the normal caps. *)
THEOREM NothingIsUndone == Spec => NothingUndone
  <1> DEFINE Inv == UpdInv /\ Speed!SpeedTypeOK
             Forward == Update!NeverOlder /\ Speed!DisablingRestores
  <1>1. Init => Inv
    BY UpdInit, SpeedInit DEF Init
  <1>2. Inv /\ [Next]_vars => Inv' /\ Forward
    <2> SUFFICES ASSUME Inv, [Next]_vars PROVE Inv' /\ Forward
      OBVIOUS
    <2>1. UpdInv'
      BY OnePart, UpdStep, UpdFrame
    <2>2. Speed!SpeedTypeOK'
      BY OnePart, SpeedStep, SpeedFrame
    <2>3. Update!NeverOlder
      BY OnePart, NeverBack, NotOlder
    <2>4. Speed!DisablingRestores
      BY OnePart, SpeedStep, SpeedStays
    <2> QED
      BY <2>1, <2>2, <2>3, <2>4
  <1>3. Spec => [][Forward]_vars
    BY <1>1, <1>2, PTL DEF Spec
  <1> QED
    BY <1>3 DEF NothingUndone

=============================================================================

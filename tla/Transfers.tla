----------------------------- MODULE Transfers -----------------------------
(***************************************************************************)
(* The life of a transfer: TransferControl and TransferManager             *)
(* (crates/core/src/transfer.rs), Engine::run_transfer with the skeleton   *)
(* of download_artifact it drives, discard_transfer, finish_cancelled and  *)
(* the download part of reconcile (crates/core/src/engine.rs), on top of   *)
(* the DownloadQueue.                                                      *)
(*                                                                         *)
(* A Task is one invocation of run_transfer, and idOf says of which        *)
(* manifest.  Every load or store of an atomic, every critical section of  *)
(* a mutex, every file or database operation is a step of its own.  The    *)
(* user interface is one more thread: it performs one command at a time,   *)
(* interleaved with the runs, the way crates/desktop/src/main.rs does.     *)
(*                                                                         *)
(* A manifest is reduced to one artifact.  On disk that is a .part file    *)
(* (present or not), a row of the downloads table and a committed blob.    *)
(***************************************************************************)
EXTENDS DownloadQueue

CONSTANTS
    MaxControls,    \* bound: TransferControl objects created
    MaxCommands,    \* bound: user commands
    MaxCrashes,     \* bound: process crashes
    Commands,       \* the commands the user may give
    Patient         \* the user starts a transfer only when no run of it is alive

CommandSet == {"Start", "Resume", "Pause", "Stop", "Remove", "Refresh"}

(* The threads that call into the engine: the runs, and the user interface. *)
Ui == "ui"
Thread == Task \cup {Ui}

ASSUME TransfersAssumption ==
    /\ MaxControls \in Nat
    /\ IsFiniteSet(Id) /\ Cardinality(Id) <= MaxControls
    /\ MaxCommands \in Nat
    /\ MaxCrashes \in Nat
    /\ Commands \subseteq CommandSet
    /\ Patient \in BOOLEAN
    /\ Id # {}
    /\ Ui \notin Task

VARIABLES
    registry,   \* TransferManager: id -> control, 0 when there is none
    controls,   \* number of controls created so far
    ctl,        \* the TransferControl objects
    run,        \* the invocations of run_transfer
    disk,       \* per id: .part file, downloads row, committed blob
    card,       \* per id: the card on the Transfers tab
    call,       \* per thread: a pause, stop, discard or reconcile in progress
    live,       \* local of reconcile: the ids it takes for live
    listed,     \* local of reconcile: the rows it has listed and not handled yet
    commands, crashes

envVars == <<live, listed, commands, crashes>>
tvars == <<qvars, registry, controls, ctl, run, disk, card, call, envVars>>

Control == 1 .. MaxControls

TransferState == {"Queued", "Connecting", "Downloading", "Paused", "Stopped",
                  "Complete", "Failed"}

(* `wanted` is a history field: what the user has asked of the run that is
   admitted. *)
ControlType == [cancel : BOOLEAN, discard : BOOLEAN, executing : BOOLEAN,
                state : TransferState, wanted : SUBSET {"pause", "stop"}]

RunType ==
    [pc : {"unborn", "lookup", "begin", "clearCancel", "clearDiscard", "setQueued",
           "select", "discover", "upsert", "mark", "markSet", "stream", "complete",
           "fin", "finTemp", "finRow", "finPause", "release", "notify", "final",
           "unregister", "latch", "end", "tail", "left", "done", "gone"},
     ctl : 0 .. MaxControls,
     result : {"None", "Ok", "Cancelled", "Stopped", "Failed", "AlreadyRunning"},
     latched : BOOLEAN]

(* The state column of a row of the downloads table; "none": no row. *)
RowState == {"none", "running", "paused", "failed", "complete"}

DiskType == [part : BOOLEAN, blob : BOOLEAN, row : RowState]

(* launched: run in this session, not rebuilt at startup. *)
CardType == [shown : BOOLEAN, running : BOOLEAN, failed : BOOLEAN, launched : BOOLEAN]

CallType ==
    [at : {"none", "stop1", "stop2", "stop3", "pause1", "pause2", "pause3",
           "check", "temps", "row", "unregister", "list", "scan", "reapTemp", "reapRow",
           "normalize"},
     id : Id, ctl : 0 .. MaxControls, discard : BOOLEAN]

TypeOK ==
    /\ QTypeOK
    /\ registry \in [Id -> 0 .. MaxControls]
    /\ controls \in 0 .. MaxControls
    /\ ctl \in [Control -> ControlType]
    /\ run \in [Task -> RunType]
    /\ disk \in [Id -> DiskType]
    /\ card \in [Id -> CardType]
    /\ call \in [Thread -> CallType]
    /\ live \subseteq Id
    /\ listed \in [Id -> RowState]
    /\ commands \in 0 .. MaxCommands
    /\ crashes \in 0 .. MaxCrashes

NewControl == [cancel |-> FALSE, discard |-> FALSE, executing |-> FALSE,
               state |-> "Queued", wanted |-> {}]
NewRun == [pc |-> "unborn", ctl |-> 0, result |-> "None", latched |-> FALSE]
NoCard == [shown |-> FALSE, running |-> FALSE, failed |-> FALSE, launched |-> FALSE]
NothingListed == [i \in Id |-> "none"]
Idle == [at |-> "none", id |-> CHOOSE i \in Id : TRUE, ctl |-> 0, discard |-> FALSE]

Init ==
    /\ QInit
    /\ registry = [i \in Id |-> 0]
    /\ controls = 0
    /\ ctl = [c \in Control |-> NewControl]
    /\ run = [t \in Task |-> NewRun]
    /\ disk = [i \in Id |-> [part |-> FALSE, row |-> "none", blob |-> FALSE]]
    /\ card = [i \in Id |-> NoCard]
    /\ call = [th \in Thread |-> Idle]
    /\ live = {}
    /\ listed = NothingListed
    /\ commands = 0
    /\ crashes = 0

----------------------------------------------------------------------------
(* Helpers *)

(* The control a run drives, and the files of its artifact. *)
Driven(t) == ctl[run[t].ctl]
Disk(t) == disk[idOf[t]]

At(t, pc) == run[t].pc = pc
Goes(t, pc) == run' = [run EXCEPT ![t].pc = pc]
Returns(t, r, pc) == run' = [run EXCEPT ![t].pc = pc, ![t].result = r]
Alive(t) == run[t].pc \notin {"unborn", "done", "gone"}

(* Mutant: the state is returned for the error. *)
InterruptionState(c) == IF c.discard THEN "Stopped" ELSE "Paused"

(* The error a pause or a stop surfaces as. *)
Interruption(c) == IF c.discard THEN "Stopped" ELSE "Cancelled"

SetState(c, s) == ctl' = [ctl EXCEPT ![c].state = s]

(* UPDATE downloads SET state: no effect on a row that is not there. *)
SetDownloadState(i, s) ==
    disk' = [disk EXCEPT ![i].row = IF @ = "none" THEN "none" ELSE s]

----------------------------------------------------------------------------
(* run_download and run_transfer: admission *)

Lookup(t) ==
    LET c == registry[idOf[t]] IN
    /\ At(t, "lookup")
    /\ run' = [run EXCEPT ![t] = IF c = 0
                                 THEN [@ EXCEPT !.pc = "done", !.result = "Failed"]
                                 ELSE [@ EXCEPT !.pc = "begin", !.ctl = c]]
    /\ UNCHANGED <<qvars, registry, controls, ctl, disk, call, card, envVars>>

(* Mutant: executing is stored without looking at its old value. *)
BeginAnyway(t) ==
    /\ At(t, "begin") /\ Goes(t, "clearCancel")
    /\ ctl' = [ctl EXCEPT ![run[t].ctl] = [@ EXCEPT !.executing = TRUE, !.wanted = {}]]
    /\ UNCHANGED <<qvars, registry, controls, disk, call, card, envVars>>

(* try_begin: the swap of `executing` ... *)
TryBegin(t) ==
    /\ At(t, "begin")
    /\ \/ Driven(t).executing /\ Returns(t, "AlreadyRunning", "done") /\ UNCHANGED ctl
       \/ /\ ~Driven(t).executing /\ Goes(t, "clearCancel")
          /\ ctl' = [ctl EXCEPT ![run[t].ctl] = [@ EXCEPT !.executing = TRUE, !.wanted = {}]]
    /\ UNCHANGED <<qvars, registry, controls, disk, call, card, envVars>>

(* ... and its two stores. *)
ClearCancel(t) ==
    /\ At(t, "clearCancel") /\ Goes(t, "clearDiscard")
    /\ ctl' = [ctl EXCEPT ![run[t].ctl].cancel = FALSE]
    /\ UNCHANGED <<qvars, registry, controls, disk, call, card, envVars>>

ClearDiscard(t) ==
    /\ At(t, "clearDiscard") /\ Goes(t, "setQueued")
    /\ ctl' = [ctl EXCEPT ![run[t].ctl].discard = FALSE]
    /\ UNCHANGED <<qvars, registry, controls, disk, call, card, envVars>>

SetQueued(t) ==
    /\ At(t, "setQueued") /\ Goes(t, "select")
    /\ SetState(run[t].ctl, "Queued")
    /\ UNCHANGED <<qvars, registry, controls, disk, call, card, envVars>>

(* The select: poll the acquire future ... *)
WaitForSlot(t) ==
    /\ At(t, "select") /\ qpc[t] # "held"
    /\ Enqueue(t) \/ AcquireStep(t)
    /\ UNCHANGED <<registry, controls, ctl, run, disk, call, card, envVars>>

(* Mutant: the permit is matched with `_` and dropped before the download. *)
ConnectUnpermitted(t) ==
    /\ At(t, "select") /\ Goes(t, "discover")
    /\ ReleasePermit(t)
    /\ SetState(run[t].ctl, "Connecting")
    /\ UNCHANGED <<registry, controls, disk, call, card, envVars>>

Connect(t) ==
    /\ At(t, "select") /\ qpc[t] = "held" /\ Goes(t, "discover")
    /\ SetState(run[t].ctl, "Connecting")
    /\ UNCHANGED <<qvars, registry, controls, disk, call, card, envVars>>

(* ... or notice the cancel flag while that future is pending. *)
Interrupted(t) ==
    /\ At(t, "select") /\ qpc[t] \in {"idle", "parked"}
    /\ Driven(t).cancel
    /\ Returns(t, Interruption(Driven(t)), "final")
    /\ UNCHANGED <<qvars, registry, controls, ctl, disk, call, card, envVars>>

----------------------------------------------------------------------------
(* download_inner and download_artifact, reduced to their effect on disk *)

(* A cache hit; a pause or stop noticed before anything is written; a refusal
   (policy, no eligible source); or on to the download. *)
Discover(t) ==
    /\ At(t, "discover")
    /\ \/ Disk(t).blob /\ Returns(t, "Ok", "release")
       \/ /\ ~Disk(t).blob /\ Driven(t).cancel
          /\ Returns(t, Interruption(Driven(t)), "release")
       \/ ~Disk(t).blob /\ Returns(t, "Failed", "release")
       \/ ~Disk(t).blob /\ ~Driven(t).cancel /\ Goes(t, "upsert")
    /\ UNCHANGED <<qvars, registry, controls, ctl, disk, call, card, envVars>>

(* Mutant: the row is written only when the download ends. *)
StartWithoutRow(t) ==
    /\ At(t, "upsert") /\ Goes(t, "mark")
    /\ UNCHANGED <<qvars, registry, controls, ctl, disk, call, card, envVars>>

UpsertDownload(t) ==
    /\ At(t, "upsert") /\ Goes(t, "mark")
    /\ disk' = [disk EXCEPT ![idOf[t]].row = "running"]
    /\ UNCHANGED <<qvars, registry, controls, ctl, call, card, envVars>>

(* set_transfer_state: read the state, then store unless it was terminal. *)
ReadState(t) ==
    /\ At(t, "mark")
    /\ Goes(t, IF Driven(t).state \in {"Paused", "Stopped"} THEN "stream" ELSE "markSet")
    /\ UNCHANGED <<qvars, registry, controls, ctl, disk, call, card, envVars>>

StoreDownloading(t) ==
    /\ At(t, "markSet") /\ Goes(t, "stream")
    /\ SetState(run[t].ctl, "Downloading")
    /\ UNCHANGED <<qvars, registry, controls, disk, call, card, envVars>>

WriteBytes(t) ==
    /\ At(t, "stream") /\ ~Disk(t).part
    /\ disk' = [disk EXCEPT ![idOf[t]].part = TRUE]
    /\ UNCHANGED <<qvars, registry, controls, ctl, run, call, card, envVars>>

(* The stream ends: the temp is verified and committed ... *)
CommitBlob(t) ==
    /\ At(t, "stream") /\ Disk(t).part /\ Goes(t, "complete")
    /\ disk' = [disk EXCEPT ![idOf[t]].part = FALSE, ![idOf[t]].blob = TRUE]
    /\ UNCHANGED <<qvars, registry, controls, ctl, call, card, envVars>>

SetComplete(t) ==
    /\ At(t, "complete") /\ Returns(t, "Ok", "release")
    /\ SetDownloadState(idOf[t], "complete")
    /\ UNCHANGED <<qvars, registry, controls, ctl, call, card, envVars>>

(* ... every source fails ... *)
SourcesExhausted(t) ==
    /\ At(t, "stream") /\ Returns(t, "Failed", "release")
    /\ SetDownloadState(idOf[t], "failed")
    /\ UNCHANGED <<qvars, registry, controls, ctl, call, card, envVars>>

(* ... or a loop sees the cancel flag. *)
NoticeCancel(t) ==
    /\ At(t, "stream") /\ Driven(t).cancel /\ Goes(t, "fin")
    /\ UNCHANGED <<qvars, registry, controls, ctl, disk, call, card, envVars>>

(* Mutant: every interruption discards. *)
AlwaysDiscard(t) ==
    /\ At(t, "fin") /\ Goes(t, "finTemp")
    /\ UNCHANGED <<qvars, registry, controls, ctl, disk, call, card, envVars>>

(* finish_cancelled: read the discard flag; then delete the temp and the row,
   or mark the row paused. *)
FinishCancelled(t) ==
    /\ At(t, "fin")
    /\ Goes(t, IF Driven(t).discard THEN "finTemp" ELSE "finPause")
    /\ UNCHANGED <<qvars, registry, controls, ctl, disk, call, card, envVars>>

FinishRemoveTemp(t) ==
    /\ At(t, "finTemp") /\ Goes(t, "finRow")
    /\ disk' = [disk EXCEPT ![idOf[t]].part = FALSE]
    /\ UNCHANGED <<qvars, registry, controls, ctl, call, card, envVars>>

FinishDeleteRow(t) ==
    /\ At(t, "finRow") /\ Returns(t, "Stopped", "release")
    /\ disk' = [disk EXCEPT ![idOf[t]].row = "none"]
    /\ UNCHANGED <<qvars, registry, controls, ctl, call, card, envVars>>

FinishPause(t) ==
    /\ At(t, "finPause") /\ Returns(t, "Cancelled", "release")
    /\ SetDownloadState(idOf[t], "paused")
    /\ UNCHANGED <<qvars, registry, controls, ctl, call, card, envVars>>

----------------------------------------------------------------------------
(* run_transfer: the end of a run *)

(* The permit is dropped at the end of its match arm. *)
DropPermit(t) ==
    /\ At(t, "release") /\ Goes(t, "notify")
    /\ ReleasePermit(t)
    /\ UNCHANGED <<registry, controls, ctl, disk, call, card, envVars>>

DropPermitNotify(t) ==
    /\ At(t, "notify") /\ Goes(t, "final")
    /\ NotifyReleased(t)
    /\ UNCHANGED <<registry, controls, ctl, disk, call, card, envVars>>

FinalState(t) ==
    /\ At(t, "final")
    /\ Goes(t, IF run[t].result = "Stopped" THEN "unregister" ELSE "latch")
    /\ SetState(run[t].ctl, CASE run[t].result = "Ok"        -> "Complete"
                              [] run[t].result = "Cancelled" -> "Paused"
                              [] run[t].result = "Stopped"   -> "Stopped"
                              [] OTHER                       -> "Failed")
    /\ UNCHANGED <<qvars, registry, controls, disk, call, card, envVars>>

(* transfers.remove(&ctl.id): whatever control the id maps to. *)
UnregisterStopped(t) ==
    /\ At(t, "unregister") /\ Goes(t, "latch")
    /\ registry' = [registry EXCEPT ![idOf[t]] = 0]
    /\ UNCHANGED <<qvars, controls, ctl, disk, call, card, envVars>>

LatchDiscard(t) ==
    /\ At(t, "latch")
    /\ run' = [run EXCEPT ![t].pc = "end", ![t].latched = Driven(t).discard]
    /\ UNCHANGED <<qvars, registry, controls, ctl, disk, call, card, envVars>>

(* Mutant: the latched stop is not acted upon. *)
EndWithoutDiscard(t) ==
    /\ At(t, "end")
    /\ Goes(t, IF qpc[t] = "parked" THEN "tail" ELSE "done")
    /\ ctl' = [ctl EXCEPT ![run[t].ctl].executing = FALSE]
    /\ UNCHANGED <<qvars, registry, controls, disk, call, card, envVars>>

(* drop(_exec), and the call of discard_transfer if a stop was latched; with
   neither that nor a pending acquire future, run_transfer returns. *)
EndExecution(t) ==
    /\ At(t, "end")
    /\ Goes(t, IF run[t].latched \/ qpc[t] = "parked" THEN "tail" ELSE "done")
    /\ ctl' = [ctl EXCEPT ![run[t].ctl].executing = FALSE]
    /\ call' = IF run[t].latched
               THEN [call EXCEPT ![t] = [Idle EXCEPT !.at = "check", !.id = idOf[t]]]
               ELSE call
    /\ UNCHANGED <<qvars, registry, controls, disk, card, envVars>>

(* The pinned acquire future is dropped when run_transfer returns: an armed
   guard (the run was interrupted while parked) dequeues and notifies. *)
LeaveQueue(t) ==
    /\ At(t, "tail") /\ call[t].at = "none"
    /\ \/ qpc[t] = "parked" /\ DropAcquire(t) /\ Goes(t, "left")
       \/ qpc[t] = "idle" /\ Goes(t, "done") /\ UNCHANGED qvars
    /\ UNCHANGED <<registry, controls, ctl, disk, call, card, envVars>>

LeaveNotify(t) ==
    /\ At(t, "left") /\ Goes(t, "done")
    /\ NotifyDropped(t)
    /\ UNCHANGED <<registry, controls, ctl, disk, call, card, envVars>>

RunNext(t) ==
    \/ Lookup(t) \/ TryBegin(t) \/ ClearCancel(t) \/ ClearDiscard(t) \/ SetQueued(t)
    \/ WaitForSlot(t) \/ Connect(t) \/ Interrupted(t)
    \/ Discover(t) \/ UpsertDownload(t) \/ ReadState(t) \/ StoreDownloading(t)
    \/ WriteBytes(t) \/ CommitBlob(t) \/ SetComplete(t) \/ SourcesExhausted(t)
    \/ NoticeCancel(t) \/ FinishCancelled(t) \/ FinishRemoveTemp(t)
    \/ FinishDeleteRow(t) \/ FinishPause(t)
    \/ DropPermit(t) \/ DropPermitNotify(t) \/ FinalState(t) \/ UnregisterStopped(t)
    \/ LatchDiscard(t) \/ EndExecution(t) \/ LeaveQueue(t) \/ LeaveNotify(t)

----------------------------------------------------------------------------
(* Procedures called by the user interface, and by the tail of a run:
   request_stop, request_pause, discard_transfer, and reconcile. *)

Step(th, from, to) == call[th].at = from /\ call' = [call EXCEPT ![th].at = to]

(* request_stop: discard, then cancel, then state.  RemoveTransfer goes on to
   discard_transfer. *)
Stop1(th) ==
    /\ Step(th, "stop1", "stop2")
    /\ ctl' = [ctl EXCEPT ![call[th].ctl].discard = TRUE,
                          ![call[th].ctl].wanted = @ \cup {"stop"}]
    /\ UNCHANGED <<qvars, registry, controls, run, disk, card, envVars>>

Stop2(th) ==
    /\ Step(th, "stop2", "stop3")
    /\ ctl' = [ctl EXCEPT ![call[th].ctl].cancel = TRUE]
    /\ UNCHANGED <<qvars, registry, controls, run, disk, card, envVars>>

Stop3(th) ==
    /\ Step(th, "stop3", IF call[th].discard THEN "check" ELSE "none")
    /\ ctl' = [ctl EXCEPT ![call[th].ctl].state = "Stopped"]
    /\ UNCHANGED <<qvars, registry, controls, run, disk, card, envVars>>

(* request_pause *)
Pause1(th) ==
    /\ Step(th, "pause1", "pause2")
    /\ ctl' = [ctl EXCEPT ![call[th].ctl].discard = FALSE,
                          ![call[th].ctl].wanted = @ \cup {"pause"}]
    /\ UNCHANGED <<qvars, registry, controls, run, disk, card, envVars>>

Pause2(th) ==
    /\ Step(th, "pause2", "pause3")
    /\ ctl' = [ctl EXCEPT ![call[th].ctl].cancel = TRUE]
    /\ UNCHANGED <<qvars, registry, controls, run, disk, card, envVars>>

Pause3(th) ==
    /\ Step(th, "pause3", "none")
    /\ ctl' = [ctl EXCEPT ![call[th].ctl].state = "Paused"]
    /\ UNCHANGED <<qvars, registry, controls, run, disk, card, envVars>>

(* discard_transfer: a transfer that is executing is asked to stop instead. *)
DiscardCheck(th) ==
    LET c == registry[call[th].id]
        stop == c # 0 /\ ctl[c].executing
    IN
    /\ call[th].at = "check"
    /\ call' = [call EXCEPT ![th] = [@ EXCEPT !.at = IF stop THEN "stop1" ELSE "temps",
                                              !.ctl = IF stop THEN c ELSE 0,
                                              !.discard = FALSE]]
    /\ UNCHANGED <<qvars, registry, controls, ctl, run, disk, card, envVars>>

DiscardTemps(th) ==
    /\ Step(th, "temps", "row")
    /\ disk' = [disk EXCEPT ![call[th].id].part = FALSE]
    /\ UNCHANGED <<qvars, registry, controls, ctl, run, card, envVars>>

DiscardRow(th) ==
    /\ Step(th, "row", "unregister")
    /\ disk' = [disk EXCEPT ![call[th].id].row = "none"]
    /\ UNCHANGED <<qvars, registry, controls, ctl, run, card, envVars>>

DiscardUnregister(th) ==
    /\ Step(th, "unregister", "none")
    /\ registry' = [registry EXCEPT ![call[th].id] = 0]
    /\ UNCHANGED <<qvars, controls, ctl, run, disk, card, envVars>>

(* The loop over the listed rows goes on until none is left. *)
NextRow(rest) == IF rest = NothingListed THEN "none" ELSE "scan"

(* reconcile, downloads part.  Its first step (StartReconcile, below) takes the
   executing transfers of the registry for live; then it reads the rows, of
   which it leaves out the complete and the live ones ... *)
ListRows ==
    LET rest == [i \in Id |-> IF disk[i].row = "complete" \/ i \in live THEN "none"
                             ELSE disk[i].row]
    IN
    /\ Step(Ui, "list", NextRow(rest))
    /\ listed' = rest /\ live' = {}
    /\ UNCHANGED <<qvars, registry, controls, ctl, run, disk, card, commands, crashes>>

(* ... and handles them one by one: a failed row without a temp is dead; a row
   that was running when it was listed is marked paused. *)
Keeps(row, d) == d.part \/ row \in {"paused", "running"}

ScanRow(i) ==
    LET rest == [listed EXCEPT ![i] = "none"] IN
    /\ call[Ui].at = "scan" /\ listed[i] # "none"
    /\ listed' = rest
    /\ call' = [call EXCEPT ![Ui].id = i,
                            ![Ui].at = CASE ~Keeps(listed[i], disk[i]) -> "reapTemp"
                                         [] listed[i] = "running"      -> "normalize"
                                         [] OTHER                      -> NextRow(rest)]
    /\ UNCHANGED <<qvars, registry, controls, ctl, run, disk, card, live, commands, crashes>>

ReapTemp ==
    /\ Step(Ui, "reapTemp", "reapRow")
    /\ disk' = [disk EXCEPT ![call[Ui].id].part = FALSE]
    /\ UNCHANGED <<qvars, registry, controls, ctl, run, card, envVars>>

ReapRow ==
    /\ Step(Ui, "reapRow", NextRow(listed))
    /\ disk' = [disk EXCEPT ![call[Ui].id].row = "none"]
    /\ UNCHANGED <<qvars, registry, controls, ctl, run, card, envVars>>

Normalize ==
    /\ Step(Ui, "normalize", NextRow(listed))
    /\ SetDownloadState(call[Ui].id, "paused")
    /\ UNCHANGED <<qvars, registry, controls, ctl, run, card, envVars>>

CallNext(th) ==
    \/ Stop1(th) \/ Stop2(th) \/ Stop3(th)
    \/ Pause1(th) \/ Pause2(th) \/ Pause3(th)
    \/ DiscardCheck(th) \/ DiscardTemps(th) \/ DiscardRow(th) \/ DiscardUnregister(th)

ReconcileNext ==
    \/ ListRows
    \/ \E i \in Id : ScanRow(i)
    \/ ReapTemp \/ ReapRow \/ Normalize

----------------------------------------------------------------------------
(* The user interface: one command at a time *)

Command(name) ==
    /\ name \in Commands
    /\ call[Ui].at = "none"
    /\ commands < MaxCommands
    /\ commands' = commands + 1

(* A fresh invocation of run_download for id. *)
Spawn(i) ==
    LET fresh == {t \in Task : idOf[t] = i /\ At(t, "unborn")} IN
    fresh # {} /\ Goes(CHOOSE t \in fresh : TRUE, "lookup")

Unoccupied(i) == \A t \in Task : idOf[t] = i => At(t, "unborn") \/ At(t, "gone")

(* engine_executing: a registered transfer whose state is an active one. *)
EngineExecuting(i) ==
    /\ registry[i] # 0
    /\ ctl[registry[i]].state \in {"Queued", "Connecting", "Downloading"}

(* spawn_transfer: refused while there is a card; register (or find) the
   control, show a card and run. *)
Start(i) ==
    /\ Command("Start")
    /\ Patient => Unoccupied(i)
    /\ ~card[i].shown
    /\ Spawn(i)
    /\ card' = [card EXCEPT ![i] = [NoCard EXCEPT !.shown = TRUE, !.launched = TRUE]]
    /\ \/ registry[i] # 0 /\ UNCHANGED <<registry, controls>>
       \/ /\ registry[i] = 0 /\ controls < MaxControls
          /\ controls' = controls + 1
          /\ registry' = [registry EXCEPT ![i] = controls + 1]
    /\ UNCHANGED <<qvars, ctl, disk, call, live, listed, crashes>>

(* resume_transfer and retry_transfer: refused while the card is running or
   the engine reports an active state. *)
CanResume(i) == card[i].shown /\ ~card[i].running /\ ~EngineExecuting(i)

Resume(i) ==
    /\ Command("Resume")
    /\ Patient => Unoccupied(i)
    /\ CanResume(i)
    /\ Spawn(i)
    /\ card' = [card EXCEPT ![i].launched = TRUE, ![i].failed = FALSE]
    /\ UNCHANGED <<qvars, registry, controls, ctl, disk, call, live, listed, crashes>>

Calling(i, at, discard) ==
    /\ call' = [call EXCEPT ![Ui] = [at |-> at, id |-> i, ctl |-> registry[i],
                                     discard |-> discard]]
    /\ UNCHANGED <<qvars, registry, controls, ctl, run, disk, live, listed, crashes>>

Pause(i) ==
    /\ Command("Pause") /\ card[i].shown /\ registry[i] # 0
    /\ Calling(i, "pause1", FALSE) /\ UNCHANGED card

Stop(i) ==
    /\ Command("Stop") /\ card[i].shown /\ registry[i] # 0
    /\ Calling(i, "stop1", FALSE) /\ UNCHANGED card

(* RemoveTransfer: stop, then discard_transfer; the card goes. *)
RemoveTransfer(i) ==
    /\ Command("Remove") /\ card[i].shown
    /\ Calling(i, IF registry[i] = 0 THEN "check" ELSE "stop1", TRUE)
    /\ card' = [card EXCEPT ![i] = NoCard]

(* refresh() calls reconcile: the executing transfers of the registry are live. *)
StartReconcile(reg) ==
    /\ live' = {j \in Id : reg[j] # 0 /\ ctl[reg[j]].executing}
    /\ call' = [call EXCEPT ![Ui] = [Idle EXCEPT !.at = "list"]]

Refresh ==
    /\ Command("Refresh")
    /\ StartReconcile(registry)
    /\ UNCHANGED <<qvars, registry, controls, ctl, run, disk, card, listed, crashes>>

(* Mutant: a card that stays keeps its running flag. *)
HandleDoneStale(t) ==
    /\ call[Ui].at = "none"
    /\ At(t, "done") /\ Goes(t, "gone")
    /\ StartReconcile(registry)
    /\ UNCHANGED <<qvars, registry, controls, ctl, disk, card, listed, commands, crashes>>

(* Msg::Done: a completed or stopped transfer is forgotten and its card
   dropped; a paused or failed one keeps its card.  Then refresh(). *)
HandleDone(t) ==
    LET i == idOf[t]
        ended == run[t].result \in {"Ok", "Stopped"}
    IN
    /\ call[Ui].at = "none"
    /\ At(t, "done") /\ Goes(t, "gone")
    /\ registry' = IF ended THEN [registry EXCEPT ![i] = 0] ELSE registry
    /\ card' = [card EXCEPT ![i] =
                  IF ended THEN NoCard
                  ELSE [@ EXCEPT !.running = FALSE,
                                 !.failed = card[i].shown /\ run[t].result # "Cancelled"]]
    /\ StartReconcile(registry')
    /\ UNCHANGED <<qvars, controls, ctl, disk, listed, commands, crashes>>

(* sync_transfer_states, once per frame: the launched cards become running whose
   transfers, as the engine reports, are past the queue. *)
Promoted(i) ==
    /\ card[i].shown /\ card[i].launched /\ ~card[i].failed
    /\ EngineExecuting(i) /\ ctl[registry[i]].state # "Queued"

SyncCards ==
    /\ call[Ui].at = "none"
    /\ \E i \in Id : Promoted(i) /\ ~card[i].running
    /\ card' = [i \in Id |-> IF Promoted(i) THEN [card[i] EXCEPT !.running = TRUE] ELSE card[i]]
    /\ UNCHANGED <<qvars, registry, controls, ctl, run, disk, call, envVars>>

UiNext ==
    \/ \E i \in Id : \/ Start(i) \/ Resume(i) \/ Pause(i) \/ Stop(i) \/ RemoveTransfer(i)
    \/ Refresh \/ SyncCards
    \/ \E t \in Task : HandleDone(t)

(* What reconcile leaves of a row when no transfer is live. *)
Reconciled(d) ==
    [d EXCEPT !.row = CASE d.row \notin {"none", "complete"} /\ ~Keeps(d.row, d) -> "none"
                        [] d.row = "running"                                    -> "paused"
                        [] OTHER                                                -> d.row]

(* resumable_downloads *)
Resumable(d) == d.row \notin {"none", "complete"} /\ Keeps(d.row, d)

(* The process dies and is started again: everything in memory is gone, the
   disk stays.  Before the user can act, refresh() reconciles, and
   load_resumable_cards registers a fresh control and shows a card for every
   download that can be resumed. *)
Crash ==
    LET after == [i \in Id |-> Reconciled(disk[i])]
        restored == {i \in Id : Resumable(after[i])}
        fresh == CHOOSE f \in [restored -> 1 .. Cardinality(restored)] : IsInjective(f)
    IN
    /\ crashes < MaxCrashes
    /\ crashes' = crashes + 1
    /\ permits' = SlotCount /\ waiting' = <<>> /\ reorderNotify' = FALSE
    /\ woken' = [t \in Task |-> FALSE] /\ qpc' = [t \in Task |-> "idle"]
    /\ controls' = Cardinality(restored)
    /\ registry' = [i \in Id |-> IF i \in restored THEN fresh[i] ELSE 0]
    /\ ctl' = [c \in Control |-> NewControl]
    /\ run' = [t \in Task |-> IF At(t, "unborn") THEN NewRun ELSE [NewRun EXCEPT !.pc = "gone"]]
    /\ card' = [i \in Id |-> [NoCard EXCEPT !.shown = i \in restored]]
    /\ call' = [th \in Thread |-> Idle]
    /\ disk' = after
    /\ live' = {} /\ listed' = NothingListed
    /\ UNCHANGED <<reorders, commands>>

Next ==
    \/ \E t \in Task : RunNext(t)
    \/ \E th \in Thread : CallNext(th)
    \/ ReconcileNext
    \/ UiNext
    \/ Crash

(* The runtime keeps polling spawned tasks, and what a task calls returns.  A
   download is reduced to finitely many steps, so it ends: it completes, every
   source fails, or it sees the cancel flag.  The user interface owes nothing. *)
Fairness ==
    \A t \in Task : WF_tvars(RunNext(t) \/ CallNext(t))

Spec == Init /\ [][Next]_tvars /\ Fairness

----------------------------------------------------------------------------
(* Properties *)

Executing == {"clearCancel", "clearDiscard", "setQueued", "select", "discover", "upsert",
              "mark", "markSet", "stream", "complete", "fin", "finTemp", "finRow",
              "finPause", "release", "notify", "final", "unregister", "latch", "end"}
Writing == {"stream", "complete", "fin", "finTemp", "finRow", "finPause"}
Downloading == Writing \cup {"discover", "upsert", "mark", "markSet", "release"}

(* try_begin and ExecGuard: `executing` is set exactly while one run drives
   the control.  It never leaks (a transfer would be "already running" for
   ever) and never covers two runs. *)
ExecutingIsExact ==
    \A c \in Control :
        LET drivers == {t \in Task : run[t].pc \in Executing /\ run[t].ctl = c} IN
        /\ ctl[c].executing <=> drivers # {}
        /\ Cardinality(drivers) <= 1

(* The download limit: no more runs download than there are slots, whatever
   is paused, stopped, discarded or restarted meanwhile. *)
DownloadLimit == Cardinality({t \in Task : run[t].pc \in Downloading}) <= SlotCount

(* Nobody waits behind a ghost: every entry of the waiting list belongs to a
   run that is still in acquire, and no id is listed twice. *)
NoGhostEntry ==
    /\ IsInjective(waiting)
    /\ ToSet(waiting) \subseteq {idOf[t] : t \in {u \in Task : qpc[u] \in Queued}}

(* A .part file always has its row in the downloads table, so that a restart
   offers it again or reaps it: across crashes, pauses, stops and discards. *)
PartHasRow == \A i \in Id : disk[i].part => disk[i].row # "none"

(* Somebody has asked for the bytes of i to be discarded: the control of a run
   of i was asked to stop, or the user is removing the transfer. *)
DiscardAsked(i) ==
    \/ \E t \in Task : idOf[t] = i /\ run[t].ctl # 0 /\ "stop" \in Driven(t).wanted
    \/ call[Ui].id = i /\ call[Ui].at = "temps"

(* Downloaded bytes are deleted only on a stop: pauses, resumes, retries,
   refreshes and restarts keep a .part file, which otherwise goes away only by
   becoming the blob. *)
PauseKeepsBytes ==
    [][\A i \in Id : disk[i].part /\ ~disk'[i].part => disk'[i].blob \/ DiscardAsked(i)]_tvars

(* A run reported as stopped has left neither a partial nor a row ("Download
   stopped - progress discarded"), wherever the stop caught it, unless the user
   asked for a pause as well. *)
StoppedLeavesNothing ==
    \A t \in Task :
        At(t, "done") /\ run[t].result = "Stopped" /\ "pause" \notin Driven(t).wanted
            => ~Disk(t).part /\ Disk(t).row = "none"

(* Every run ends: it is admitted or interrupted, and then finishes. *)
EveryRunEnds == \A t \in Task : Alive(t) ~> ~Alive(t)

(* Unless the process restarts in between, a card whose transfer nobody drives
   can be resumed or retried: it never ends up refused by a stale flag. *)
IdleCardCanResume ==
    \A i \in Id :
        card[i].shown /\ Unoccupied(i) /\ call[Ui].at = "none" => CanResume(i)

(* "so a stale `running = false` can't spawn a second run that races the live
   one into a spurious "already running" Failed". *)
NoSpuriousFailure == \A t \in Task : run[t].result # "AlreadyRunning"

(* "clear stale pause/stop flags atomically with admission, so a Stop issued
   the instant we become executing isn't erased": a Stop made while the
   control executes stays in force until the run ends. *)
StopNotLost ==
    \A c \in Control :
        /\ ctl[c].executing /\ ctl[c].wanted = {"stop"}
        /\ \A th \in Thread : call[th].at = "none"
        => ctl[c].cancel /\ ctl[c].discard

(* "ask it to Stop (which discards on its own)": a transfer that was asked to
   stop because it was executing is cleaned up by the time its run is gone. *)
StopDiscardsOnItsOwn ==
    \A i \in Id :
        LET c == registry[i] IN
        /\ c # 0 /\ ~ctl[c].executing /\ ctl[c].discard
        /\ \A th \in Thread : call[th].at = "none"
        /\ \A t \in Task : idOf[t] = i => ~Alive(t)
        => ~disk[i].part /\ disk[i].row = "none"

(* "dropping the acquire future dequeues cleanly": a run that waits for a slot
   is in the list it is admitted from. *)
QueuedIsListed ==
    \A t \in Task :
        qpc[t] \in Queued /\ At(t, "select") => idOf[t] \in ToSet(waiting)

(* "a second concurrent run is rejected instead of racing two writers on the
   same partial". *)
NoTwoWriters ==
    \A t, u \in Task :
        t # u /\ idOf[t] = idOf[u] => ~(run[t].pc \in Writing /\ run[u].pc \in Writing)

(* "Ids with a LIVE in-process transfer must never be touched": reconcile does
   not remove or rewrite the row or the temp of an executing transfer. *)
ReconcileSparesLive ==
    [][\A i \in Id :
          (ReapTemp \/ ReapRow \/ Normalize) /\ disk'[i] # disk[i]
              => \A t \in Task : idOf[t] = i => run[t].pc \notin Executing]_tvars

(* "Never clobbers a terminal Paused/Stopped": set_transfer_state leaves the
   state of a paused or stopped transfer alone. *)
NeverClobbers ==
    [][\A t \in Task : StoreDownloading(t)
          => Driven(t).state \notin {"Paused", "Stopped"}]_tvars
============================================================================

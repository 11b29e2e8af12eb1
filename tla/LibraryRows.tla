----------------------------- MODULE LibraryRows -----------------------------
(***************************************************************************)
(* What the desktop's pages say about the files on disk                    *)
(* (crates/desktop/src/main.rs).  Nothing on a page looks at the store:    *)
(* App::refresh reconciles the index with the files and takes a snapshot   *)
(* of it, and the rows of a model page, its popup, the Library and the     *)
(* check of a pasted link all read that snapshot until the next refresh.   *)
(*                                                                         *)
(* A title is a manifest a transfer can be of: a quant, a whole bundle or  *)
(* one file of a share link.  It lists its files in the order a run        *)
(* fetches them; Weights are the ones its row looks at, and what is left   *)
(* are the configuration and tokenizer files of a bundle.                  *)
(***************************************************************************)
EXTENDS Naturals, Sequences

LOCAL INSTANCE Functions

CONSTANTS
    Titles, Files,
    Artifacts,      \* title -> sequence of its files
    Weights,        \* title -> the files its row looks at
    Linked,         \* the titles that come from a share link and have no row
    MaxOps          \* bound: clicks and deletions by hand

VARIABLES
    file,       \* the blobs on disk
    index,      \* cache_blobs
    manifests,  \* the manifests in the database
    seen,       \* App.cached_sha256
    listed,     \* App.installed: the files the Library has a row for
    card,       \* App.active: per title
    run,        \* per title: the run driving it
    msgs,       \* per title: the Msg::Done not handled yet
    popup,      \* App.quant_detail
    asked,      \* App.pending_delete, App.pending_download
    untold,     \* history: a file went without anything of the app noticing
    ops

libVars == <<file, index, manifests, seen, listed, card, run, msgs, popup, asked, untold, ops>>

Card == {"none", "idle", "queued", "running", "failed"}
NoRun == [st |-> "none", at |-> 0, ctl |-> "none"]
NoPopup == [of |-> "none", cached |-> FALSE]
NotAsked == [what |-> "none", of |-> "none"]
First(t) == Artifacts[t][1]

(* A title has files, and a title of one file has that one for its weights. *)
LibraryAssumption ==
    /\ Artifacts \in [Titles -> Seq(Files)] /\ Weights \in [Titles -> SUBSET Files]
    /\ \A t \in Titles :
        /\ Len(Artifacts[t]) > 0
        /\ Len(Artifacts[t]) = 1 => Weights[t] = {First(t)}
    /\ MaxOps \in Nat

LibraryTypeOK ==
    /\ file \subseteq Files /\ index \subseteq Files /\ seen \subseteq Files /\ listed \subseteq Files
    /\ manifests \subseteq Titles
    /\ card \in [Titles -> Card]
    /\ \A t \in Titles :
        /\ run[t].st \in {"none", "queued", "active"}
        /\ run[t].at \in 0 .. Len(Artifacts[t]) + 1
        /\ run[t].ctl \in {"none", "pause", "stop"}
        /\ \A i \in 1 .. Len(msgs[t]) : msgs[t][i] \in {"ok", "paused", "stopped", "failed"}
    /\ popup.of \in Titles \cup {"none"} /\ popup.cached \in BOOLEAN
    /\ asked.what \in {"none", "delete", "download"} /\ asked.of \in Titles \cup Files \cup {"none"}
    /\ untold \in BOOLEAN
    /\ ops \in 0 .. MaxOps

Init ==
    /\ file \in SUBSET Files /\ index = file /\ seen = file
    /\ manifests = {t \in Titles : First(t) \in file}
    /\ listed = {First(t) : t \in manifests}
    /\ card = [t \in Titles |-> "none"]
    /\ run = [t \in Titles |-> NoRun]
    /\ msgs = [t \in Titles |-> <<>>]
    /\ popup = NoPopup /\ asked = NotAsked
    /\ untold = FALSE
    /\ ops = 0

Click == ops < MaxOps /\ ops' = ops + 1

-----------------------------------------------------------------------------
(* refresh: reconcile drops the rows whose file is gone, then installed_models
   lists one row per distinct first file of a manifest that is in the index. *)
InstalledModels(rows) == {First(t) : t \in {u \in manifests : First(u) \in rows}}

Refresh(files, rows) ==
    /\ index' = rows \cap files
    /\ seen' = rows \cap files
    /\ listed' = InstalledModels(rows \cap files)
    /\ untold' = FALSE

RefreshClicked ==
    /\ Click
    /\ Refresh(file, index)
    /\ UNCHANGED <<file, manifests, card, run, msgs, popup, asked>>

(* What a row says.  The model page draws a row for the whole bundle, one for
   every split quant and one for every other file; each looks the content
   hashes of its weights up in the snapshot, and only a row that does not find
   them all has a Download button. *)
InSnapshot(fs) == fs # {} /\ fs \subseteq seen

FileRow(t) == InSnapshot({First(t)})

QuantRow(t) == InSnapshot(Weights[t])

BundleRow(t) == InSnapshot(Weights[t])

Row(t) ==
    IF Len(Artifacts[t]) = 1 THEN "file"
    ELSE IF Weights[t] = Range(Artifacts[t]) THEN "quant" ELSE "bundle"

Downloaded(t) ==
    CASE Row(t) = "file" -> FileRow(t) [] Row(t) = "quant" -> QuantRow(t) [] Row(t) = "bundle" -> BundleRow(t)

-----------------------------------------------------------------------------
(* spawn_transfer and download_share_target: one card per title, and the
   engine refuses a second run of a title whose first has not ended yet. *)
StartRun(t) ==
    IF run[t].st = "none"
    THEN /\ run' = [run EXCEPT ![t] = [st |-> "queued", at |-> 1, ctl |-> "none"]]
         /\ UNCHANGED msgs
    ELSE /\ msgs' = [msgs EXCEPT ![t] = Append(@, "failed")]
         /\ UNCHANGED run

SpawnTransfer(t) ==
    IF card[t] # "none"
    THEN UNCHANGED <<card, run, msgs>>
    ELSE /\ card' = [card EXCEPT ![t] = "idle"]
         /\ StartRun(t)

(* The Download button of a row, of a sharded quant or of the whole bundle:
   the manifest is imported first. *)
StartDownload(t) ==
    /\ t \notin Linked /\ ~Downloaded(t) /\ Click
    /\ manifests' = manifests \cup {t}
    /\ SpawnTransfer(t)
    /\ UNCHANGED <<file, index, seen, listed, popup, asked, untold>>

(* The popup keeps what its row said when it was clicked. *)
OpenQuantDetail(t) ==
    /\ t \notin Linked /\ popup = NoPopup /\ Click
    /\ popup' = [of |-> t, cached |-> Downloaded(t)]
    /\ UNCHANGED <<file, index, manifests, seen, listed, card, run, msgs, asked, untold>>

PopupDownload ==
    /\ popup # NoPopup /\ ~popup.cached
    /\ manifests' = manifests \cup {popup.of}
    /\ SpawnTransfer(popup.of)
    /\ popup' = NoPopup
    /\ UNCHANGED <<file, index, seen, listed, asked, untold, ops>>

CloseQuantDetail ==
    /\ popup # NoPopup /\ popup' = NoPopup
    /\ UNCHANGED <<file, index, manifests, seen, listed, card, run, msgs, asked, untold, ops>>

(* A pasted link: content the snapshot has is not fetched again; the rest is
   fetched at once for a bundle link and after a confirmation for one file. *)
HaveContent(t) == First(t) \in seen

AddByLink(t) ==
    /\ t \in Linked /\ ~HaveContent(t) /\ Click
    /\ \/ SpawnTransfer(t) /\ UNCHANGED asked
       \/ /\ asked = NotAsked
          /\ asked' = [what |-> "download", of |-> t]
          /\ UNCHANGED <<card, run, msgs>>
    /\ UNCHANGED <<file, index, manifests, seen, listed, popup, untold>>

ConfirmDownload ==
    /\ asked.what = "download"
    /\ SpawnTransfer(asked.of)
    /\ asked' = NotAsked
    /\ UNCHANGED <<file, index, manifests, seen, listed, popup, untold, ops>>

-----------------------------------------------------------------------------
(* The run: files in order, the ones in the index are passed over. *)
RunBegins(t) ==
    /\ run[t].st = "queued" /\ run[t].ctl = "none"
    /\ run' = [run EXCEPT ![t].st = "active"]
    /\ manifests' = manifests \cup {t}
    /\ UNCHANGED <<file, index, seen, listed, card, msgs, popup, asked, untold, ops>>

FetchFile(t) ==
    /\ run[t].st = "active" /\ run[t].at <= Len(Artifacts[t])
    /\ LET f == Artifacts[t][run[t].at] IN
        /\ file' = IF f \in index THEN file ELSE file \cup {f}
        /\ index' = index \cup {f}
    /\ run' = [run EXCEPT ![t].at = @ + 1]
    /\ UNCHANGED <<manifests, seen, listed, card, msgs, popup, asked, untold, ops>>

(* A run ends when it has every file, at a pause or a stop, or with an error. *)
RunEnds(t) ==
    /\ run[t].st # "none"
    /\ \E end \in {"ok", "paused", "stopped", "failed"} :
        /\ end = "ok" => run[t].st = "active" /\ run[t].at > Len(Artifacts[t])
        /\ end = "paused" => run[t].ctl = "pause"
        /\ end = "stopped" => run[t].ctl = "stop"
        /\ end = "failed" => run[t].st = "active" /\ run[t].ctl = "none"
        /\ msgs' = [msgs EXCEPT ![t] = Append(@, end)]
    /\ run' = [run EXCEPT ![t] = NoRun]
    /\ UNCHANGED <<file, index, manifests, seen, listed, card, popup, asked, untold, ops>>

(* sync_transfer_states, every frame: a card that neither runs nor failed
   follows the engine's state of its transfer. *)
Synced(t) ==
    CASE run[t].st = "active" -> "running"
      [] run[t].st = "queued" -> "queued"
      [] run[t].st = "none" -> "idle"

SyncCard(t) ==
    /\ card[t] \in {"idle", "queued"} /\ card[t] # Synced(t)
    /\ card' = [card EXCEPT ![t] = Synced(t)]
    /\ UNCHANGED <<file, index, manifests, seen, listed, run, msgs, popup, asked, untold, ops>>

-----------------------------------------------------------------------------
(* transfer_card: which buttons a card has. *)
Offers(c) ==
    CASE c = "running" -> {"stop", "pause"}
      [] c = "queued" -> {"remove", "pause"}
      [] c = "failed" -> {"remove", "retry"}
      [] c = "idle" -> {"remove", "resume"}
      [] c = "none" -> {}

(* pause, stop: the engine is told.  A run that is not there hears nothing. *)
Tell(t, what) ==
    run' = IF run[t].st = "none" THEN run
           ELSE [run EXCEPT ![t].ctl = IF @ = "stop" THEN @ ELSE what]

PauseOrStop(t) ==
    /\ Click
    /\ \E what \in {"pause", "stop"} : what \in Offers(card[t]) /\ Tell(t, what)
    /\ UNCHANGED <<file, index, manifests, seen, listed, card, msgs, popup, asked, untold>>

(* resume_transfer and retry_transfer refuse a title the engine is driving. *)
ResumeOrRetry(t) ==
    /\ Click
    /\ Offers(card[t]) \cap {"resume", "retry"} # {}
    /\ run[t].st = "none"
    /\ card' = [card EXCEPT ![t] = "idle"]
    /\ StartRun(t)
    /\ UNCHANGED <<file, index, manifests, seen, listed, popup, asked, untold>>

RemoveTransfer(t) ==
    /\ Click
    /\ "remove" \in Offers(card[t])
    /\ Tell(t, "stop")
    /\ card' = [card EXCEPT ![t] = "none"]
    /\ UNCHANGED <<file, index, manifests, seen, listed, msgs, popup, asked, untold>>

(* draw_transfers: the two buttons over every card at once. *)
PauseAll ==
    /\ Click
    /\ \E t \in Titles : card[t] = "running"
    /\ run' = [t \in Titles |->
                IF card[t] \in {"running", "queued"} /\ run[t].st # "none" /\ run[t].ctl = "none"
                THEN [run[t] EXCEPT !.ctl = "pause"] ELSE run[t]]
    /\ UNCHANGED <<file, index, manifests, seen, listed, card, msgs, popup, asked, untold>>

ResumeAll ==
    /\ Click
    /\ \E t \in Titles : card[t] \in {"idle", "queued"}
    /\ LET again == {t \in Titles : card[t] \in {"idle", "queued"} /\ run[t].st = "none"} IN
        /\ card' = [t \in Titles |-> IF t \in again THEN "idle" ELSE card[t]]
        /\ run' = [t \in Titles |-> IF t \in again
                                    THEN [st |-> "queued", at |-> 1, ctl |-> "none"] ELSE run[t]]
    /\ UNCHANGED <<file, index, manifests, seen, listed, msgs, popup, asked, untold>>

(* Msg::Done: a completed or stopped card goes, a paused or failed one stays,
   and whatever the end was the pages are refreshed. *)
HandleDoneWhenGone(t) ==
    /\ msgs[t] # <<>>
    /\ LET end == Head(msgs[t]) IN
        /\ card' = [card EXCEPT ![t] = IF @ = "none" \/ end \in {"ok", "stopped"} THEN "none"
                                       ELSE IF end = "failed" THEN "failed" ELSE "idle"]
        /\ msgs' = [msgs EXCEPT ![t] = Tail(@)]
        /\ IF end \in {"ok", "stopped"} THEN Refresh(file, index)
           ELSE UNCHANGED <<index, seen, listed, untold>>
    /\ UNCHANGED <<file, manifests, run, popup, asked, ops>>

HandleDone(t) ==
    /\ msgs[t] # <<>>
    /\ LET end == Head(msgs[t]) IN
        /\ card' = [card EXCEPT ![t] = IF @ = "none" \/ end \in {"ok", "stopped"} THEN "none"
                                       ELSE IF end = "failed" THEN "failed" ELSE "idle"]
        /\ msgs' = [msgs EXCEPT ![t] = Tail(@)]
    /\ Refresh(file, index)
    /\ UNCHANGED <<file, manifests, run, popup, asked, ops>>

-----------------------------------------------------------------------------
(* The Library: its DELETE asks first, and removes the one file of the row. *)
RequestDelete(f) ==
    /\ f \in listed /\ asked = NotAsked /\ Click
    /\ asked' = [what |-> "delete", of |-> f]
    /\ UNCHANGED <<file, index, manifests, seen, listed, card, run, msgs, popup, untold>>

ConfirmDeleteQuietly ==
    /\ asked.what = "delete"
    /\ file' = file \ {asked.of} /\ index' = index \ {asked.of}
    /\ asked' = NotAsked
    /\ UNCHANGED <<seen, listed, untold, manifests, card, run, msgs, popup, ops>>

ConfirmDelete ==
    /\ asked.what = "delete"
    /\ file' = file \ {asked.of}
    /\ Refresh(file \ {asked.of}, index \ {asked.of})
    /\ asked' = NotAsked
    /\ UNCHANGED <<manifests, card, run, msgs, popup, ops>>

(* evict_cache fails at a file it cannot remove, before or after the blob
   itself is gone; the dialog closes and nothing is refreshed. *)
ConfirmDeleteFails ==
    /\ asked.what = "delete" /\ Click
    /\ \/ UNCHANGED <<file, untold>>
       \/ file' = file \ {asked.of} /\ untold' = TRUE
    /\ asked' = NotAsked
    /\ UNCHANGED <<index, manifests, seen, listed, card, run, msgs, popup>>

Cancel ==
    /\ asked # NotAsked /\ asked' = NotAsked
    /\ UNCHANGED <<file, index, manifests, seen, listed, card, run, msgs, popup, untold, ops>>

(* The Free space button of the settings: everything, or what no install uses. *)
Evict ==
    /\ Click
    /\ \E gone \in SUBSET index :
        /\ file' = file \ gone
        /\ Refresh(file \ gone, index \ gone)
    /\ UNCHANGED <<manifests, card, run, msgs, popup, asked>>

DeleteByHand(f) ==
    /\ Click
    /\ f \in file /\ file' = file \ {f}
    /\ untold' = TRUE
    /\ UNCHANGED <<index, manifests, seen, listed, card, run, msgs, popup, asked>>

-----------------------------------------------------------------------------
Runs(t) == RunBegins(t) \/ FetchFile(t) \/ RunEnds(t)

Next ==
    \/ RefreshClicked \/ PopupDownload \/ CloseQuantDetail \/ ConfirmDownload \/ PauseAll \/ ResumeAll
    \/ ConfirmDelete \/ ConfirmDeleteFails \/ Cancel \/ Evict
    \/ \E t \in Titles :
        \/ StartDownload(t) \/ OpenQuantDetail(t) \/ AddByLink(t) \/ Runs(t) \/ SyncCard(t)
        \/ PauseOrStop(t) \/ ResumeOrRetry(t) \/ RemoveTransfer(t) \/ HandleDone(t)
    \/ \E f \in Files : RequestDelete(f) \/ DeleteByHand(f)

LibSpec ==
    Init /\ [][Next]_libVars /\ \A t \in Titles : WF_libVars(Runs(t)) /\ WF_libVars(HandleDone(t))

-----------------------------------------------------------------------------
(* No title is out of reach: unless a file went without the app noticing
   since the last refresh, a row that says Downloaded has every one of its
   weights on disk, so a title with a missing one offers its download, and
   the Library has no row for a file that is gone. *)
MissingIsOffered ==
    ~untold => /\ \A t \in Titles \ Linked : Downloaded(t) => Weights[t] \subseteq file
               /\ listed \subseteq file

(* Once no run is under way and no message waits, the pages show exactly
   what is on disk, however the runs ended: a file that a paused or failed
   run has finished is in its rows and in the Library. *)
RowsAreCurrent ==
    (~untold /\ \A t \in Titles : run[t].st = "none" /\ msgs[t] = <<>>)
        => seen = file /\ listed = InstalledModels(file)
=============================================================================

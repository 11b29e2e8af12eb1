---------------------------- MODULE AppSettings ----------------------------
(***************************************************************************)
(* The settings of the desktop app (crates/desktop/src/main.rs): the copy  *)
(* in memory that the fields edit as one types, ui-settings.json, what the *)
(* engine was opened with, the restart banner, and the worldwide seeder    *)
(* that the Iroh switches start and stop, over restarts, failures and      *)
(* crashes.                                                                *)
(*                                                                         *)
(* [start] stands for what the engine reads once and no banner speaks of   *)
(* (iroh_download, the bt_ options, max_concurrent), [net] for the mirror  *)
(* and the proxy: a switch and a URL.                                      *)
(***************************************************************************)
EXTENDS Naturals

CONSTANTS
    Trackers,   \* tracker URLs
    Home,       \* DEFAULT_TRACKER
    MaxEdits,   \* bound: actions of the user
    MaxFaults   \* bound: failures and crashes

Blank == "blank"     \* an empty text field
NoSeeder == "none"

(* The default tracker is one, and a tracker is not the absence of a seeder. *)
SettingsAssumption == Home \in Trackers /\ NoSeeder \notin Trackers

VARIABLES
    up,        \* the app runs
    opened,    \* App.engine is some
    mem,       \* App.settings
    disk,      \* ui-settings.json
    torn,      \* the file is missing or does not parse
    eng,       \* what the engine uses
    applied,   \* App.applied_connection
    seeder,    \* App.worldwide: the tracker it announces to
    pulling,   \* a peer is downloading from the seeder
    dialog,    \* App.pending_share_off
    decided,   \* history: the user's last word on seeding
    unwritten, \* history: its write failed, or the file was torn since
    edits, faults

setVars == <<up, opened, mem, disk, torn, eng, applied, seeder, pulling, dialog, decided,
             unwritten, edits, faults>>

Urls == {Blank, "url"}
Settings ==
    [iroh : BOOLEAN, world : BOOLEAN, gated : BOOLEAN, hf : BOOLEAN,
     tracker : Trackers \cup {Blank}, net : [on : BOOLEAN, url : Urls], pref : BOOLEAN,
     ratio : BOOLEAN, start : BOOLEAN]

(* Settings::default *)
Default ==
    [iroh |-> TRUE, world |-> TRUE, gated |-> FALSE, hf |-> TRUE, tracker |-> Home,
     net |-> [on |-> FALSE, url |-> Blank], pref |-> FALSE, ratio |-> FALSE,
     start |-> TRUE]

(* load_settings: the defaults, in which sharing is on, stand in for a file
   that is missing or does not parse. *)
Loaded == IF torn THEN Default ELSE disk

(* A switch without a URL does nothing. *)
Route(net) == IF net.on /\ net.url # Blank THEN net.url ELSE Blank

(* The configuration that App::new opens the engine with. *)
EngineConfig(s) ==
    [tracker |-> s.tracker, route |-> Route(s.net), hf |-> s.hf, gated |-> s.gated,
     pref |-> s.pref, ratio |-> s.ratio, start |-> s.start, fetch |-> s.iroh /\ s.start]

(* conn_snapshot: what the banner compares.  The options that [start] stands
   for are startup-only too, and not in it. *)
ConnSnapshot(s) == [tracker |-> s.tracker, net |-> s.net, hf |-> s.hf]

AppTypeOK ==
    /\ {up, opened, torn, pulling, dialog, unwritten} \subseteq BOOLEAN
    /\ decided \in {"nothing", "on", "off"}
    /\ {mem, disk} \subseteq Settings
    /\ seeder \in Trackers \cup {NoSeeder}
    /\ ~opened \/ eng.tracker \in Trackers \cup {Blank}
    /\ pulling => seeder # NoSeeder
    /\ dialog => up

Init ==
    /\ up = FALSE /\ opened = FALSE
    /\ mem = Default /\ disk = Default /\ torn = TRUE
    /\ eng = EngineConfig(Default) /\ applied = ConnSnapshot(Default)
    /\ seeder = NoSeeder /\ pulling = FALSE /\ dialog = FALSE /\ decided = "nothing"
    /\ unwritten = FALSE /\ edits = 0 /\ faults = 0

Edit == up /\ edits < MaxEdits /\ edits' = edits + 1 /\ UNCHANGED <<up, opened>>
Fails(n) == faults + n <= MaxFaults /\ faults' = faults + n

(* save_settings: what is in memory, half-typed fields included.  The result
   of the write is dropped: the file may stay as it was, or be cut short.
   Other faults of the step are counted with it. *)
Save(s, others) ==
    \/ /\ Fails(others)
       /\ disk' = s /\ torn' = FALSE /\ unwritten' = FALSE
    \/ /\ Fails(others + 1)
       /\ UNCHANGED disk /\ torn' \in {torn, TRUE}
       /\ unwritten' = (unwritten \/ torn' \/ decided' # decided)
NoSave == UNCHANGED <<disk, torn, unwritten, faults>>

-----------------------------------------------------------------------------
(* Mutant: a seeder that did not start leaves the switch on. *)
StartKeepsSwitch(s, e, ok) ==
    IF ~e \/ ~s.iroh \/ seeder # NoSeeder \/ s.tracker = Blank \/ ~ok
    THEN mem' = s /\ UNCHANGED seeder
    ELSE mem' = s /\ seeder' = s.tracker

(* start_worldwide with settings s and engine e: without a tracker, and when
   the node does not start, the switch goes off in memory. *)
StartWorldwide(s, e, ok) ==
    IF ~e \/ ~s.iroh \/ seeder # NoSeeder
    THEN mem' = s /\ UNCHANGED seeder
    ELSE IF s.tracker = Blank \/ ~ok
    THEN mem' = [s EXCEPT !.world = FALSE] /\ UNCHANGED seeder
    ELSE mem' = s /\ seeder' = s.tracker

(* Mutant: the node that stopped is still asked who is pulling. *)
StopSeederOnly == seeder' = NoSeeder /\ UNCHANGED pulling

(* stop_worldwide *)
StopWorldwide == seeder' = NoSeeder /\ pulling' = FALSE

-----------------------------------------------------------------------------
(* App::new.  A new device id is saved before the seeder starts, and what the
   start changes is not. *)
Launch(ok, node) ==
    LET failed == (IF ok THEN 0 ELSE 1) + (IF node THEN 0 ELSE 1)
    IN /\ ~up /\ up' = TRUE /\ opened' = ok
       /\ eng' = EngineConfig(Loaded) /\ applied' = ConnSnapshot(Loaded)
       /\ IF Loaded.world THEN StartWorldwide(Loaded, ok, node)
          ELSE mem' = Loaded /\ UNCHANGED seeder
       /\ UNCHANGED <<pulling, dialog, decided, edits>>
       /\ IF torn THEN Save(Loaded, failed) ELSE Fails(failed) /\ UNCHANGED <<disk, torn, unwritten>>

(* What the next launch can know of the user's word is in the file. *)
Forgets(lost) ==
    /\ decided' = IF unwritten \/ lost THEN "nothing" ELSE decided
    /\ unwritten' = FALSE

(* on_exit: nothing is saved *)
Quit ==
    /\ up /\ up' = FALSE /\ opened' = FALSE
    /\ StopWorldwide /\ dialog' = FALSE
    /\ Forgets(FALSE)
    /\ UNCHANGED <<mem, disk, torn, eng, applied, edits, faults>>

(* A crash can come while the file is written. *)
Crash(tears) ==
    /\ up /\ up' = FALSE /\ opened' = FALSE
    /\ Fails(1)
    /\ StopWorldwide /\ dialog' = FALSE
    /\ torn' = (torn \/ tears)
    /\ Forgets(tears)
    /\ UNCHANGED <<mem, disk, eng, applied, edits>>

-----------------------------------------------------------------------------
(* The Iroh switches *)

(* Action::ToggleWorldwide; the switch is grey while Iroh is off. *)
ToggleOff ==
    /\ Edit /\ mem.iroh /\ mem.world
    /\ IF pulling
       THEN dialog' = TRUE /\ NoSave /\ UNCHANGED <<mem, seeder, pulling, decided>>
       ELSE /\ mem' = [mem EXCEPT !.world = FALSE]
            /\ StopWorldwide /\ decided' = "off" /\ Save(mem', 0)
            /\ UNCHANGED dialog
    /\ UNCHANGED <<eng, applied>>

ToggleOn(ok) ==
    /\ Edit /\ mem.iroh /\ ~mem.world
    /\ StartWorldwide([mem EXCEPT !.world = TRUE], opened, ok)
    /\ decided' = "on" /\ Save(mem', IF ok THEN 0 ELSE 1)
    /\ UNCHANGED <<eng, applied, pulling, dialog>>

(* Mutant: the answer is not written down. *)
ConfirmUnsaved ==
    /\ Edit /\ dialog
    /\ dialog' = FALSE
    /\ mem' = [mem EXCEPT !.world = FALSE]
    /\ StopWorldwide /\ decided' = "off" /\ NoSave
    /\ UNCHANGED <<eng, applied>>

ConfirmStopWorldwide ==
    /\ Edit /\ dialog
    /\ dialog' = FALSE
    /\ mem' = [mem EXCEPT !.world = FALSE]
    /\ StopWorldwide /\ decided' = "off" /\ Save(mem', 0)
    /\ UNCHANGED <<eng, applied>>

CancelStopWorldwide ==
    /\ Edit /\ dialog
    /\ dialog' = FALSE
    /\ NoSave
    /\ UNCHANGED <<mem, eng, applied, seeder, pulling, decided>>

(* Action::SetIrohEnabled: off stops at once, whoever is downloading. *)
IrohOn(ok) ==
    /\ Edit /\ ~mem.iroh
    /\ IF mem.world
       THEN StartWorldwide([mem EXCEPT !.iroh = TRUE], opened, ok) /\ decided' = "on"
       ELSE mem' = [mem EXCEPT !.iroh = TRUE] /\ UNCHANGED <<seeder, decided>>
    /\ Save(mem', IF ok THEN 0 ELSE 1)
    /\ UNCHANGED <<eng, applied, pulling, dialog>>

IrohOff ==
    /\ Edit /\ mem.iroh
    /\ mem' = [mem EXCEPT !.iroh = FALSE]
    /\ StopWorldwide /\ decided' = "off" /\ Save(mem', 0)
    /\ UNCHANGED <<eng, applied, dialog>>

(* A peer begins to pull, or the last one is done. *)
Peers ==
    /\ seeder # NoSeeder
    /\ pulling' = ~pulling
    /\ UNCHANGED <<up, opened, mem, disk, torn, eng, applied, seeder, dialog, decided, unwritten,
                   edits, faults>>

-----------------------------------------------------------------------------
(* The other settings *)
Seeding == <<seeder, pulling, dialog, decided>>

(* Mutant: the engine is not told. *)
SetHfSilently ==
    /\ Edit
    /\ mem' = [mem EXCEPT !.hf = ~@]
    /\ applied' = [applied EXCEPT !.hf = ~mem.hf]
    /\ UNCHANGED <<eng, Seeding>> /\ Save(mem', 0)

(* Settings that apply at once and are saved: Action::SetHfDownload ... *)
SetHfDownload ==
    /\ Edit
    /\ mem' = [mem EXCEPT !.hf = ~@]
    /\ eng' = IF opened THEN [eng EXCEPT !.hf = ~mem.hf] ELSE eng
    /\ applied' = [applied EXCEPT !.hf = ~mem.hf]
    /\ UNCHANGED Seeding /\ Save(mem', 0)

(* ... Action::SetShareGated, which needs an engine and, grey while it is off,
   Iroh ... *)
SetShareGated ==
    /\ Edit /\ opened /\ mem.iroh
    /\ mem' = [mem EXCEPT !.gated = ~@]
    /\ eng' = [eng EXCEPT !.gated = ~mem.gated]
    /\ UNCHANGED <<applied, Seeding>> /\ Save(mem', 0)

(* ... Action::SetDownloadPreference ... *)
SetDownloadPreference ==
    /\ Edit
    /\ mem' = [mem EXCEPT !.pref = ~@]
    /\ eng' = IF opened THEN [eng EXCEPT !.pref = ~mem.pref] ELSE eng
    /\ UNCHANGED <<applied, Seeding>> /\ Save(mem', 0)

(* ... and, of the BitTorrent options, the ratio and the order of pieces
   (apply_bittorrent). *)
SetBtLive ==
    /\ Edit
    /\ mem' = [mem EXCEPT !.ratio = ~@]
    /\ eng' = IF opened THEN [eng EXCEPT !.ratio = ~mem.ratio] ELSE eng
    /\ UNCHANGED <<applied, Seeding>> /\ Save(mem', 0)

(* The check boxes of the mirror and of the proxy: saved, and for the next
   launch. *)
SetNet ==
    /\ Edit
    /\ mem' = [mem EXCEPT !.net.on = ~@]
    /\ UNCHANGED <<eng, applied, Seeding>> /\ Save(mem', 0)

(* bittorrent_settings and Download over Iroh: likewise. *)
SetStart ==
    /\ Edit
    /\ mem' = [mem EXCEPT !.start = ~@]
    /\ UNCHANGED <<eng, applied, Seeding>> /\ Save(mem', 0)

(* Text fields edit the settings themselves. *)
TypeTracker(t) ==
    /\ Edit /\ mem.iroh
    /\ mem' = [mem EXCEPT !.tracker = t]
    /\ NoSave /\ UNCHANGED <<eng, applied, Seeding>>

TypeUrl(u) ==
    /\ Edit /\ mem.net.on
    /\ mem' = [mem EXCEPT !.net.url = u]
    /\ NoSave /\ UNCHANGED <<eng, applied, Seeding>>

(* Action::SaveSettings: a text field loses the focus, or a setting that
   nothing here reads was changed. *)
SaveSettings ==
    /\ up /\ UNCHANGED <<up, opened, mem, eng, applied, Seeding, edits>>
    /\ Save(mem, 0)

(* draw_settings: "Some changes below apply after you restart the app." *)
Banner == ConnSnapshot(mem) # applied

(* hf_download_live and hf_download_pending: what the pages take Hugging Face
   for. *)
HfState == IF applied.hf THEN "on" ELSE IF mem.hf # applied.hf THEN "pending" ELSE "off"

(* draw_best_route_line: the route a row promises, given that peers have it or
   not; "settings" is the line that sends the user to the settings. *)
BestRoute(peers) ==
    IF peers THEN "peers"
    ELSE CASE HfState = "on" -> "hf" [] HfState = "pending" -> "restart" [] HfState = "off" -> "settings"

(* draw_route_list: the routes of a row that are not greyed out. *)
RouteList(iroh, bt) ==
    {r \in {"iroh", "bt", "hf"} : CASE r = "iroh" -> iroh [] r = "bt" -> bt [] r = "hf" -> HfState = "on"}

(* route_status_strip, while nothing is transferred. *)
StatusStrip ==
    (IF seeder # NoSeeder THEN {"iroh ready"} ELSE {})
        \cup {IF mem.hf # applied.hf THEN "hf pending" ELSE IF applied.hf THEN "hf fallback" ELSE "hf off"}

-----------------------------------------------------------------------------
Next ==
    \/ \E ok, node \in BOOLEAN : Launch(ok, node)
    \/ Quit \/ \E tears \in BOOLEAN : Crash(tears)
    \/ ToggleOff \/ \E ok \in BOOLEAN : ToggleOn(ok) \/ IrohOn(ok)
    \/ ConfirmStopWorldwide \/ CancelStopWorldwide \/ IrohOff \/ Peers
    \/ SetHfDownload \/ SetShareGated \/ SetDownloadPreference \/ SetBtLive \/ SetNet \/ SetStart
    \/ \E t \in Trackers \cup {Blank} : TypeTracker(t)
    \/ \E u \in Urls : TypeUrl(u)
    \/ SaveSettings

Spec == Init /\ [][Next]_setVars

-----------------------------------------------------------------------------
(* The node seeds exactly when both switches of the settings page are on: no
   order of switching, failing to start, launching and answering the dialog
   leaves a seeder behind or a switch that lies. *)
ServedIffWanted ==
    up /\ opened => (seeder # NoSeeder <=> mem.iroh /\ mem.world)

(* Every setting that the page says is live is the engine's, and a tracker,
   mirror or proxy that waits for the next launch is announced by the banner
   (the startup-only options of [start] are not: ConnSnapshot leaves them
   out); and the route lines of the model page and the status strip promise
   Hugging Face exactly when the engine would turn to it. *)
SettingsTakeEffect ==
    up /\ opened =>
        /\ <<eng.hf, eng.gated, eng.pref, eng.ratio>> = <<mem.hf, mem.gated, mem.pref, mem.ratio>>
        /\ Banner \/ <<eng.tracker, eng.route>> = <<mem.tracker, Route(mem.net)>>
        /\ BestRoute(FALSE) = (IF eng.hf THEN "hf" ELSE "settings")
        /\ "hf" \in RouteList(FALSE, FALSE) <=> eng.hf
        /\ StatusStrip \cap {"hf fallback", "hf off"} = {IF eng.hf THEN "hf fallback" ELSE "hf off"}

(* Who said stop is not made to seed again: not while the app runs, whatever
   is switched, saved or fails to be saved, and not by a restart or a crash
   either, except when the write of the stop failed or the file was torn since
   (save_settings drops the error, and a launch that cannot read the file
   shares by default). *)
StopIsKept == decided = "off" => seeder = NoSeeder
=============================================================================

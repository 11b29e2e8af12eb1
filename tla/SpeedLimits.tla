---------------------------- MODULE SpeedLimits -----------------------------
(***************************************************************************)
(* The download cap and the bandwidth schedule: BandwidthSchedule and its  *)
(* ticker in crates/core/src/engine.rs, driven by the settings of the      *)
(* desktop app (main.rs) and of the Studio (settings.rs, commands.rs).     *)
(*                                                                         *)
(* A cap stands for all three (HTTP, BitTorrent up and down), which are    *)
(* set together.  The clock of the model is whether the alternative window *)
(* is open: which minutes and weekdays it covers is left out.              *)
(***************************************************************************)
EXTENDS Naturals, FiniteSets

CONSTANTS
    Caps,       \* cap values; 0 is no limit
    MaxEdits    \* bound: changes of the settings, and of the clock

VARIABLES
    front,      \* "desktop" or "studio"
    inRuntime,  \* the caller of set_bandwidth_schedule was inside a tokio runtime
    settings,   \* the settings of the front end
    schedule,   \* Engine.schedule
    rate,       \* the cap in force: RateLimit.bps
    ticker,     \* Engine.scheduler_started: the ticker task exists
    window,     \* the wall clock is inside the window of the schedule
    edits

speedVars == <<front, inRuntime, settings, schedule, rate, ticker, window, edits>>

Schedules == [enabled : BOOLEAN, normal : Caps, alt : Caps]

SpeedTypeOK ==
    /\ front \in {"desktop", "studio"} /\ inRuntime \in BOOLEAN
    /\ settings \in Schedules /\ schedule \in Schedules
    /\ rate \in Caps /\ ticker \in BOOLEAN /\ window \in BOOLEAN

-----------------------------------------------------------------------------
(* caps_now, with the clock of the model *)
CapsNow(s) == IF s.enabled /\ window THEN s.alt ELSE s.normal

(* Mutant: a disabled schedule is not applied. *)
ApplyIfEnabled(s) == rate' = IF s.enabled THEN CapsNow(s) ELSE rate

(* apply_schedule_now: also for a disabled schedule, which restores the normal
   caps. *)
ApplyNow(s) == rate' = CapsNow(s)

(* ensure_scheduler_started: the ticker is spawned on the runtime of the
   caller, and not at all when there is none. *)
EnsureStarted(runtime) == ticker' = (ticker \/ runtime)

(* set_bandwidth_schedule *)
SetSchedule(s, runtime) ==
    /\ schedule' = s
    /\ ApplyNow(s)
    /\ EnsureStarted(runtime)
    /\ inRuntime' = runtime

(* App::new, and the Studio's main: both call from the main thread, outside
   their runtime. *)
Init ==
    /\ front \in {"desktop", "studio"}
    /\ settings \in Schedules
    /\ schedule = settings
    /\ window = FALSE
    /\ rate = CapsNow(schedule)
    /\ ticker = FALSE /\ inRuntime = FALSE
    /\ edits = 0

Edit == edits < MaxEdits /\ edits' = edits + 1

-----------------------------------------------------------------------------
(* The desktop: any change in the BitTorrent section goes through
   apply_bittorrent, on the main thread. *)
ApplyBitTorrent(s) ==
    /\ front = "desktop" /\ Edit
    /\ s.normal = settings.normal
    /\ settings' = s
    /\ SetSchedule(s, FALSE)
    /\ UNCHANGED <<front, window>>

(* Apply of the speed section: the cap in force, not the schedule. *)
ApplySpeedCap(cap) ==
    /\ front = "desktop" /\ Edit
    /\ settings' = [settings EXCEPT !.normal = cap]
    /\ rate' = cap
    /\ UNCHANGED <<front, inRuntime, schedule, ticker, window>>

(* The Studio's save_settings command, on the async runtime: the cap, then the
   schedule. *)
SaveSettings(s) ==
    /\ front = "studio" /\ Edit
    /\ settings' = s
    /\ SetSchedule(s, TRUE)
    /\ UNCHANGED <<front, window>>

(* Mutant: the ticker keeps the schedule it was started with. *)
TickStale ==
    /\ ticker /\ schedule.enabled /\ rate # CapsNow(schedule)
    /\ rate' = schedule.normal
    /\ UNCHANGED <<front, inRuntime, settings, schedule, ticker, window, edits>>

(* bandwidth_scheduler: every 30 seconds. *)
Tick ==
    /\ ticker /\ schedule.enabled /\ rate # CapsNow(schedule)
    /\ rate' = CapsNow(schedule)
    /\ UNCHANGED <<front, inRuntime, settings, schedule, ticker, window, edits>>

(* The window opens or closes. *)
Clock ==
    /\ Edit
    /\ window' = ~window
    /\ UNCHANGED <<front, inRuntime, settings, schedule, rate, ticker>>

Next ==
    \/ \E s \in Schedules : ApplyBitTorrent(s) \/ SaveSettings(s)
    \/ \E cap \in Caps : ApplySpeedCap(cap)
    \/ Tick \/ Clock

Spec == Init /\ [][Next]_speedVars /\ WF_speedVars(Tick)

-----------------------------------------------------------------------------
(* Where the ticker runs (in the Studio, once the settings were saved), the
   cap in force comes to be the one of the schedule for the time of day. *)
TickerFollows ==
    (ticker /\ schedule.enabled) ~> (rate = CapsNow(schedule) \/ ~schedule.enabled)

(* Switching the schedule off restores the normal cap at once ("Disabling it
   restores the normal caps immediately"), in or out of the window. *)
DisablingRestores ==
    schedule.enabled /\ ~schedule'.enabled => rate' = settings'.normal

(* The schedule is followed, whichever way it was set up: "While the window is
   active on a matching weekday the alternative caps apply; outside it the
   normal caps apply". *)
ScheduleFollowed ==
    schedule.enabled ~> (rate = CapsNow(schedule) \/ ~schedule.enabled)
=============================================================================

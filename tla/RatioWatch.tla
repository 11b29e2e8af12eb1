----------------------------- MODULE RatioWatch -----------------------------
(***************************************************************************)
(* The stop-at-ratio watcher of the BitTorrent adapter (ratio_watch,       *)
(* set_max_ratio, set_blob_max_ratio and the last step of seed_promote,    *)
(* crates/core/src/transport.rs) for one blob and one torrent.  Uploads    *)
(* are counted in sizes of the blob, so that a ratio is a number of them.  *)
(* The watcher reads, pauses and marks in separate steps, between which a  *)
(* promotion does the same and the user changes the caps.                  *)
(***************************************************************************)
EXTENDS Naturals

CONSTANTS
    MaxUp,       \* bound: blob sizes uploaded
    Caps,        \* caps the user sets; 0 is no cap
    MaxChanges   \* bound: changes of a cap, unseeds, re-adds and restarts

RatioAssumption == MaxUp \in Nat

NoCap == MaxUp + 10
NotRead == MaxUp + 10

VARIABLES
    cap, blobCap,  \* the global cap, and the blob's own or NoCap
    torrent,       \* absent, live or paused
    mark,          \* the blob is in ratio_paused
    up,            \* uploaded_bytes of the torrent in this session
    base,          \* the watcher's baseline, or NotRead
    life,          \* the persisted lifetime upload
    total,         \* history: what was really uploaded
    reset,         \* history: a torrent was deleted since the session began
    watch,         \* the watcher: idle, or about to pause, mark, unpause, unmark
    promote,       \* the promotion's last step, in the same way
    changes

ratioVars == <<cap, blobCap, torrent, mark, up, base, life, total, reset, watch, promote, changes>>

RatioTypeOK ==
    /\ cap \in Caps /\ blobCap \in Caps \cup {NoCap}
    /\ torrent \in {"absent", "live", "paused"} /\ mark \in BOOLEAN
    /\ up \in 0 .. MaxUp /\ base \in 0 .. MaxUp \cup {NotRead} /\ life \in 0 .. MaxUp
    /\ torrent = "absent" => up = 0
    /\ total \in 0 .. MaxUp /\ reset \in BOOLEAN
    /\ watch \in {"idle", "pause", "mark", "unpause", "unmark"}
    /\ promote \in {"idle", "look", "pause", "mark", "unpause", "unmark"}

Init ==
    /\ cap \in Caps /\ blobCap = NoCap
    /\ torrent = "absent" /\ mark = FALSE
    /\ up = 0 /\ base = NotRead /\ life = 0 /\ total = 0 /\ reset = FALSE
    /\ watch = "idle" /\ promote = "idle" /\ changes = 0

-----------------------------------------------------------------------------
Cap == IF blobCap = NoCap THEN cap ELSE blobCap
Over(c, n) == c > 0 /\ n >= c

Upload ==
    /\ torrent = "live" /\ total < MaxUp
    /\ up' = up + 1 /\ total' = total + 1
    /\ UNCHANGED <<cap, blobCap, torrent, mark, base, life, reset, watch, promote, changes>>

(* Mutant: the baseline is read again at every tick, with this session in it. *)
BaselineAgain == life

(* Mutant: only this session counts. *)
BaselineNone == 0

(* The baseline is read once and held for the session. *)
Baseline == IF base = NotRead THEN life ELSE base

(* Mutant: the blob's own cap is not looked at. *)
TickGlobal ==
    /\ watch = "idle" /\ torrent # "absent"
    /\ base' = Baseline
    /\ life' = Baseline + up
    /\ watch' = IF Over(cap, Baseline + up)
                THEN IF torrent = "live" THEN "pause" ELSE "idle"
                ELSE IF mark THEN "unpause" ELSE "idle"
    /\ UNCHANGED <<cap, blobCap, torrent, mark, up, total, reset, promote, changes>>

(* A tick of the watcher: the lifetime, persisted, and what the cap says. *)
Tick ==
    /\ watch = "idle" /\ torrent # "absent"
    /\ base' = Baseline
    /\ life' = Baseline + up
    /\ watch' = IF Over(Cap, Baseline + up)
                THEN IF torrent = "live" THEN "pause" ELSE "idle"
                ELSE IF mark THEN "unpause" ELSE "idle"
    /\ UNCHANGED <<cap, blobCap, torrent, mark, up, total, reset, promote, changes>>

(* The session pauses or resumes the torrent, when it still has it. *)
Act(t) == torrent' = (IF torrent = "absent" THEN "absent" ELSE t) /\ UNCHANGED mark

WatchPause ==
    /\ watch = "pause" /\ Act("paused")
    /\ watch' = IF torrent = "absent" THEN "idle" ELSE "mark"
    /\ UNCHANGED <<cap, blobCap, up, base, life, total, reset, promote, changes>>

WatchMark ==
    /\ watch = "mark" /\ watch' = "idle" /\ mark' = TRUE
    /\ UNCHANGED <<cap, blobCap, torrent, up, base, life, total, reset, promote, changes>>

(* Mutant: the mark is taken off and the torrent left as it is. *)
WatchOnlyUnmarks ==
    /\ watch = "unpause" /\ watch' = "unmark"
    /\ UNCHANGED <<cap, blobCap, torrent, mark, up, base, life, total, reset, promote, changes>>

WatchUnpause ==
    /\ watch = "unpause" /\ Act("live")
    /\ watch' = "unmark"
    /\ UNCHANGED <<cap, blobCap, up, base, life, total, reset, promote, changes>>

WatchUnmark ==
    /\ watch = "unmark" /\ watch' = "idle" /\ mark' = FALSE
    /\ UNCHANGED <<cap, blobCap, torrent, up, base, life, total, reset, promote, changes>>

-----------------------------------------------------------------------------
(* A promotion adds the torrent, live when it is new and paused when a capped
   one comes back, and looks at the global cap. *)
Add ==
    /\ torrent = "absent" /\ promote = "idle" /\ changes < MaxChanges
    /\ torrent' \in {"live", "paused"}
    /\ promote' = "look" /\ changes' = changes + 1
    /\ UNCHANGED <<cap, blobCap, mark, up, base, life, total, reset, watch>>

PromoteLook ==
    /\ promote = "look"
    /\ promote' = IF Over(cap, life + up) THEN "pause" ELSE "unpause"
    /\ UNCHANGED <<cap, blobCap, torrent, mark, up, base, life, total, reset, watch, changes>>

PromoteAct ==
    /\ promote \in {"pause", "unpause"}
    /\ Act(IF promote = "pause" THEN "paused" ELSE "live")
    /\ promote' = IF promote = "pause" THEN "mark" ELSE "unmark"
    /\ UNCHANGED <<cap, blobCap, up, base, life, total, reset, watch, changes>>

PromoteMark ==
    /\ promote \in {"mark", "unmark"}
    /\ mark' = (promote = "mark")
    /\ promote' = "idle"
    /\ UNCHANGED <<cap, blobCap, torrent, up, base, life, total, reset, watch, changes>>

-----------------------------------------------------------------------------
SetMaxRatio ==
    /\ changes < MaxChanges /\ changes' = changes + 1
    /\ cap' \in Caps
    /\ UNCHANGED <<blobCap, torrent, mark, up, base, life, total, reset, watch, promote>>

SetBlobMaxRatio ==
    /\ changes < MaxChanges /\ changes' = changes + 1
    /\ blobCap' \in Caps \cup {NoCap}
    /\ UNCHANGED <<cap, torrent, mark, up, base, life, total, reset, watch, promote>>

(* unseed: the mark goes with the entry, the torrent with its counter. *)
Unseed ==
    /\ torrent # "absent" /\ changes < MaxChanges /\ changes' = changes + 1
    /\ torrent' = "absent" /\ mark' = FALSE /\ up' = 0 /\ reset' = TRUE
    /\ UNCHANGED <<cap, blobCap, base, life, total, watch, promote>>

(* A new session: counters, caps of blobs and marks start afresh. *)
Restart ==
    /\ changes < MaxChanges /\ changes' = changes + 1
    /\ torrent' = "absent" /\ mark' = FALSE /\ up' = 0 /\ base' = NotRead /\ reset' = FALSE
    /\ blobCap' = NoCap /\ watch' = "idle" /\ promote' = "idle"
    /\ UNCHANGED <<cap, life, total>>

Watcher == Tick \/ WatchPause \/ WatchMark \/ WatchUnpause \/ WatchUnmark
Promoter == PromoteLook \/ PromoteAct \/ PromoteMark

Next ==
    \/ Upload \/ Watcher \/ Promoter \/ Add
    \/ SetMaxRatio \/ SetBlobMaxRatio \/ Unseed \/ Restart

(* The watcher's interval ticks and a promotion is polled to its end. *)
Fairness == WF_ratioVars(Watcher) /\ WF_ratioVars(Promoter)

Spec == Init /\ [][Next]_ratioVars /\ Fairness

-----------------------------------------------------------------------------
(* The lifetime upload on record counts no byte twice. *)
LifetimeSound == life <= total

(* It never falls, through restarts of the session too, until a torrent of the
   session is deleted. *)
LifetimeKept == life' < life => reset

(* A live torrent at its cap is paused, unless the cap, the torrent or the
   count changes. *)
OverCapPauses ==
    (torrent = "live" /\ Over(Cap, Baseline + up))
        ~> (torrent # "live" \/ ~Over(Cap, Baseline + up))

(* What is paused and marked, by the watcher or by a promotion that is over,
   resumes once the cap is relaxed. *)
RelaxedResumes ==
    (torrent = "paused" /\ mark /\ promote = "idle" /\ watch = "idle" /\ ~Over(Cap, Baseline + up))
        ~> (torrent # "paused" \/ promote # "idle" \/ Over(Cap, Baseline + up))
=============================================================================

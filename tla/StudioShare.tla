---------------------------- MODULE StudioShare -----------------------------
(***************************************************************************)
(* The sharing commands of the Studio (crates/studio/src/commands.rs and   *)
(* main.rs).  Commands run concurrently on the async runtime; the live     *)
(* seeder is held in AppState.share behind a mutex, which a command keeps  *)
(* while it seeds and announces.                                           *)
(*                                                                         *)
(* The announce loop of a seeder and an import's announce work from a list *)
(* taken earlier and without the mutex, and a deletion clears the override *)
(* last: what is served for these reasons is [late].                       *)
(* The tracker's side is in module Sharing.                                *)
(***************************************************************************)
EXTENDS Naturals, FiniteSets

CONSTANTS
    Blobs,
    Gated,      \* those that are shared only by an explicit confirmation
    Procs,      \* bound: commands at once
    MaxNodes,   \* bound: seeders started
    MaxCmds     \* bound: commands

None == "none"

VARIABLES
    cached,     \* blobs in the store
    on,         \* blobs with a share override on (openly licensed ones start so)
    gatedOn,    \* Engine.share_gated
    share,      \* AppState.share: the seeder it holds, 0 for none
    lock,       \* who holds the mutex of AppState.share
    nodes,      \* seeders that run
    started,    \* seeders started so far
    seeded,     \* blobs served over Iroh by the running seeder
    late,       \* blobs seeded from a list that was out of date
    procs,      \* commands
    done        \* commands so far

shareVars == <<cached, on, gatedOn, share, lock, nodes, started, seeded, late, procs, done>>

Free == [cmd |-> None, st |-> None, bs |-> {}]

ShareAssumption == Gated \subseteq Blobs /\ None \notin Procs /\ MaxNodes \in Nat

Shareable == cached \cap on

ShareTypeOK ==
    /\ cached \subseteq Blobs /\ on \subseteq Blobs /\ gatedOn \in BOOLEAN
    /\ share \in 0 .. MaxNodes /\ started \in 0 .. MaxNodes /\ nodes \subseteq 1 .. MaxNodes
    /\ lock \in Procs \cup {None}
    /\ seeded \subseteq Blobs /\ late \subseteq Blobs
    /\ \A p \in Procs : procs[p].bs \subseteq Blobs

(* The Studio comes up: the setup hook starts the seeder as a command would. *)
Init ==
    /\ cached \in SUBSET Blobs /\ on = Blobs \ Gated /\ gatedOn \in BOOLEAN
    /\ share = 0 /\ lock = None /\ nodes = {} /\ started = 0
    /\ seeded = {} /\ late = {}
    /\ procs = [p \in Procs |-> Free]
    /\ done = 0

Enter(p, cmd, st, bs) ==
    /\ procs[p] = Free /\ done < MaxCmds /\ done' = done + 1
    /\ procs' = [procs EXCEPT ![p] = [cmd |-> cmd, st |-> st, bs |-> bs]]

Goto(p, st) == procs' = [procs EXCEPT ![p].st = st]
Leave(p) == procs' = [procs EXCEPT ![p] = Free]
At(p, cmd, st) == procs[p].cmd = cmd /\ procs[p].st = st
Acquire(p) == lock = None /\ lock' = p

-----------------------------------------------------------------------------
(* start_worldwide, and the setup hook; nothing happens when a seeder is
   there. *)
StartWorldwide(p) ==
    /\ Enter(p, "start", "lock", {})
    /\ UNCHANGED <<cached, on, gatedOn, share, lock, nodes, started, seeded, late>>

(* Mutant: the mutex is released before the seeder is up. *)
StartLooks(p) ==
    /\ At(p, "start", "lock") /\ lock = None
    /\ IF share # 0 THEN Leave(p) ELSE Goto(p, "spawn")
    /\ UNCHANGED <<cached, on, gatedOn, share, lock, nodes, started, seeded, late, done>>

StartInner(p) ==
    /\ At(p, "start", "lock")
    /\ IF share # 0
       THEN lock = None /\ Leave(p) /\ UNCHANGED lock
       ELSE Acquire(p) /\ Goto(p, "spawn")
    /\ UNCHANGED <<cached, on, gatedOn, share, nodes, started, seeded, late, done>>

(* start_worldwide_share, under the mutex; it may fail. *)
Spawned(p) ==
    /\ At(p, "start", "spawn") /\ started < MaxNodes
    /\ started' = started + 1
    /\ share' = started + 1 /\ nodes' = nodes \cup {started + 1}
    /\ lock' = None /\ Leave(p)
    /\ UNCHANGED <<cached, on, gatedOn, seeded, late, done>>

SpawnFails(p) ==
    /\ At(p, "start", "spawn")
    /\ lock' = None /\ Leave(p)
    /\ UNCHANGED <<cached, on, gatedOn, share, nodes, started, seeded, late, done>>

(* stop_worldwide and shutdown_cleanup: the handle is taken and the seeder
   stopped under the mutex. *)
StopWorldwide(p) ==
    /\ Enter(p, "stop", "lock", {})
    /\ UNCHANGED <<cached, on, gatedOn, share, lock, nodes, started, seeded, late>>

TakeHandle(p) ==
    /\ At(p, "stop", "lock") /\ Acquire(p)
    /\ share' = 0
    /\ procs' = [procs EXCEPT ![p] = [cmd |-> "stop", st |-> "stop", bs |-> {}]]
    /\ UNCHANGED <<cached, on, gatedOn, nodes, started, seeded, late, done>>

Stopped(p) ==
    /\ At(p, "stop", "stop")
    /\ nodes' = {} /\ seeded' = {} /\ late' = {}
    /\ lock' = None /\ Leave(p)
    /\ UNCHANGED <<cached, on, gatedOn, share, started, done>>

-----------------------------------------------------------------------------
(* set_share on, and confirm_gated_share *)
ShareOn(p, b) ==
    /\ b \in cached
    /\ on' = on \cup {b}
    /\ Enter(p, "announce", "lock", {})
    /\ UNCHANGED <<cached, gatedOn, share, lock, nodes, started, seeded, late>>

(* Mutant: the mutex is released before the blobs are seeded. *)
AnnounceListUnlocked(p) ==
    /\ At(p, "announce", "lock") /\ lock = None
    /\ IF share = 0 THEN Leave(p)
       ELSE procs' = [procs EXCEPT ![p] = [@ EXCEPT !.st = "seed", !.bs = Shareable]]
    /\ UNCHANGED <<cached, on, gatedOn, share, lock, nodes, started, seeded, late, done>>

(* announce_shared: the list is taken under the mutex ... *)
AnnounceList(p) ==
    /\ At(p, "announce", "lock")
    /\ IF share = 0
       THEN lock = None /\ Leave(p) /\ UNCHANGED lock
       ELSE /\ Acquire(p)
            /\ procs' = [procs EXCEPT ![p] = [@ EXCEPT !.st = "seed", !.bs = Shareable]]
    /\ UNCHANGED <<cached, on, gatedOn, share, nodes, started, seeded, late, done>>

(* ... and they are seeded and announced before it is released. *)
Announced(p) ==
    /\ At(p, "announce", "seed")
    /\ seeded' = (IF nodes = {} THEN seeded ELSE seeded \cup (procs[p].bs \cap cached))
    /\ lock' = (IF lock = p THEN None ELSE lock) /\ Leave(p)
    /\ UNCHANGED <<cached, on, gatedOn, share, nodes, started, late, done>>

-----------------------------------------------------------------------------
(* set_share off *)
ShareOff(p, b) ==
    /\ on' = on \ {b}
    /\ Enter(p, "unseed", "lock", {b})
    /\ UNCHANGED <<cached, gatedOn, share, lock, nodes, started, seeded, late>>

(* delete_model: the override goes last, also that of the same content imported
   again meanwhile. *)
DeleteModel(p, b) ==
    /\ b \in cached /\ cached' = cached \ {b}
    /\ Enter(p, "delete", "lock", {b})
    /\ UNCHANGED <<on, gatedOn, share, lock, nodes, started, seeded, late>>

(* save_settings: turning the gated switch off revokes every confirmation. *)
SaveSettings(p, gated) ==
    /\ gatedOn' = gated
    /\ IF gatedOn /\ ~gated
       THEN /\ on' = on \ Gated
            /\ Enter(p, "unseed", "lock", on \cap Gated)
       ELSE done < MaxCmds /\ done' = done + 1 /\ procs[p] = Free /\ UNCHANGED <<on, procs>>
    /\ UNCHANGED <<cached, share, lock, nodes, started, seeded, late>>

(* unseed_and_disconnect under the mutex, and then the withdraw. *)
Unseed(p) ==
    /\ procs[p].cmd \in {"unseed", "delete"} /\ procs[p].st = "lock" /\ lock = None
    /\ seeded' = (IF share = 0 THEN seeded ELSE seeded \ procs[p].bs)
    /\ late' = (IF share = 0 THEN late ELSE late \ procs[p].bs)
    /\ IF procs[p].cmd = "unseed" THEN Leave(p) ELSE Goto(p, "override")
    /\ UNCHANGED <<cached, on, gatedOn, share, lock, nodes, started, done>>

DeleteOverride(p) ==
    /\ At(p, "delete", "override")
    /\ on' = on \ procs[p].bs
    /\ late' = late \cup (procs[p].bs \cap cached)
    /\ Leave(p)
    /\ UNCHANGED <<cached, gatedOn, share, lock, nodes, started, seeded, done>>

-----------------------------------------------------------------------------
(* import_local: the list is taken, the handle cloned under the mutex, and a
   task seeds and announces without it. *)
ImportLocal(p, b) ==
    /\ b \notin cached /\ cached' = cached \cup {b}
    /\ b \in on
    /\ Enter(p, "import", "lock", Shareable \cup {b})
    /\ UNCHANGED <<on, gatedOn, share, lock, nodes, started, seeded, late>>

ImportHandle(p) ==
    /\ At(p, "import", "lock") /\ lock = None
    /\ IF share = 0 THEN Leave(p) ELSE Goto(p, "task")
    /\ UNCHANGED <<cached, on, gatedOn, share, lock, nodes, started, seeded, late, done>>

ImportAnnounce(p) ==
    /\ At(p, "import", "task")
    /\ seeded' = (IF nodes = {} THEN seeded ELSE seeded \cup (procs[p].bs \cap cached))
    /\ late' = (IF nodes = {} THEN late ELSE late \cup ((procs[p].bs \cap cached) \ on))
    /\ Leave(p)
    /\ UNCHANGED <<cached, on, gatedOn, share, lock, nodes, started, done>>

-----------------------------------------------------------------------------
Step(p) ==
    \/ StartInner(p) \/ Spawned(p) \/ SpawnFails(p) \/ TakeHandle(p) \/ Stopped(p)
    \/ AnnounceList(p) \/ Announced(p) \/ Unseed(p) \/ DeleteOverride(p)
    \/ ImportHandle(p) \/ ImportAnnounce(p)

Next ==
    \E p \in Procs :
        \/ StartWorldwide(p) \/ StopWorldwide(p)
        \/ \E b \in Blobs : ShareOn(p, b) \/ ShareOff(p, b) \/ DeleteModel(p, b) \/ ImportLocal(p, b)
        \/ \E gated \in BOOLEAN : SaveSettings(p, gated)
        \/ Step(p)

Spec == Init /\ [][Next]_shareVars

-----------------------------------------------------------------------------
(* There is never more than one seeder, and none that nobody holds: the start
   at launch and the user's starts and stops never leave an orphan that keeps
   serving after a stop. *)
OneSeeder ==
    /\ Cardinality(nodes) <= 1
    /\ lock = None => nodes = {share} \ {0}

(* Once the commands are through, nothing is served that is not shared: no
   announce of one model brings back another whose sharing was turned off,
   revoked or deleted meanwhile. *)
ServedIsShared ==
    (\A p \in Procs : procs[p] = Free) => seeded \subseteq Shareable \cup late
=============================================================================

------------------------------ MODULE BtFetch ------------------------------
(***************************************************************************)
(* A download through the BitTorrent adapter (BittorrentAdapter::open and  *)
(* await_completion, crates/core/src/transport.rs) of one magnet: runs     *)
(* that resolve metadata, add the torrent to the shared session, wait for  *)
(* it and stream the file back, with pause, stop, failure and restart.     *)
(* The session and the swarm are the vendored engine's: it keeps a torrent *)
(* across restarts, and adding a known one returns it as it was left.      *)
(***************************************************************************)
EXTENDS Naturals, FiniteSets

CONSTANTS
    Runs,        \* transfers of this magnet
    MaxOpens,    \* bound: fetches opened
    MaxCrashes   \* bound: restarts

VARIABLES
    dir,         \* the dl- folder: absent, empty, some pieces, the whole file, a wrong file
    torrent,     \* the session's torrent: absent, live or paused
    up,          \* the session was built since the start of the process
    run,         \* per run: where it is
    asked,       \* per run: nothing, a pause or a stop asked for
    active,      \* the in-flight leech registry has this blob
    alone,       \* history: the run that has had the torrent to itself since it opened
    opens, crashes

fetchVars == <<dir, torrent, up, run, asked, active, alone, opens, crashes>>

Pieces == dir \in {"partial", "whole", "wrong"}

FetchTypeOK ==
    /\ dir \in {"none", "empty", "partial", "whole", "wrong"}
    /\ torrent \in {"none", "live", "paused"}
    /\ up \in BOOLEAN /\ active \in BOOLEAN /\ alone \subseteq Runs
    /\ run \in [Runs -> {"idle", "meta", "add", "unpause", "await", "size", "drop", "stream"}]
    /\ asked \in [Runs -> {"no", "pause", "stop"}]
    /\ \A r \in Runs : run[r] = "idle" => asked[r] = "no"

Init ==
    /\ dir = "none" /\ torrent = "none" /\ up = FALSE
    /\ run = [r \in Runs |-> "idle"] /\ asked = [r \in Runs |-> "no"]
    /\ active = FALSE /\ alone = {} /\ opens = 0 /\ crashes = 0

-----------------------------------------------------------------------------
(* session() with its sweep: a dl- folder with nothing in it is an orphan. *)
Swept == IF ~up /\ dir = "empty" THEN "none" ELSE dir

Open(r) ==
    /\ run[r] = "idle" /\ opens < MaxOpens
    /\ up' = TRUE /\ dir' = Swept
    /\ run' = [run EXCEPT ![r] = "meta"]
    /\ alone' = IF \A q \in Runs : run[q] = "idle" THEN {r} ELSE {}
    /\ opens' = opens + 1
    /\ UNCHANGED <<torrent, asked, active, crashes>>

(* The user's pause or stop; it is seen at the next look. *)
Ask(r) ==
    /\ run[r] # "idle" /\ asked[r] = "no"
    /\ asked' \in {[asked EXCEPT ![r] = a] : a \in {"pause", "stop"}}
    /\ UNCHANGED <<dir, torrent, up, run, active, alone, opens, crashes>>

End(r) ==
    /\ run' = [run EXCEPT ![r] = "idle"]
    /\ asked' = [asked EXCEPT ![r] = "no"]

(* Metadata: a list, from which the file is picked and its folder made; or a
   timeout, no such file, or the race against the user's request. *)
Metadata(r) ==
    /\ run[r] = "meta"
    /\ \/ /\ asked[r] = "no"
          /\ dir' = (IF dir = "none" THEN "empty" ELSE dir)
          /\ run' = [run EXCEPT ![r] = "add"]
          /\ UNCHANGED asked
       \/ End(r) /\ UNCHANGED dir
    /\ UNCHANGED <<torrent, up, active, alone, opens, crashes>>

(* A new torrent starts, a known one comes as it was left.  An add dropped by
   the race may have left it in the session, not started. *)
AddTorrent(r) ==
    /\ run[r] = "add"
    /\ \/ /\ torrent' = IF torrent = "none" THEN "live" ELSE torrent
          /\ run' = [run EXCEPT ![r] = "unpause"]
          /\ UNCHANGED asked
       \/ /\ torrent' \in {torrent, IF torrent = "none" THEN "paused" ELSE torrent}
          /\ End(r)
    /\ UNCHANGED <<dir, up, active, alone, opens, crashes>>

(* Mutant: the add is taken to start the torrent. *)
UnpauseNothing(r) ==
    /\ run[r] = "unpause"
    /\ active' = TRUE
    /\ run' = [run EXCEPT ![r] = "await"]
    /\ UNCHANGED <<dir, torrent, up, asked, alone, opens, crashes>>

(* The torrent is resumed, and the leech registered. *)
Unpause(r) ==
    /\ run[r] = "unpause"
    /\ torrent' = (IF torrent = "paused" THEN "live" ELSE torrent)
    /\ active' = TRUE
    /\ run' = [run EXCEPT ![r] = "await"]
    /\ UNCHANGED <<dir, up, asked, alone, opens, crashes>>

(* The swarm: pieces arrive while the torrent is live, or a file of another
   length than the manifest's. *)
Swarm ==
    /\ torrent = "live" /\ \E r \in Runs : run[r] = "await"
    /\ dir' \in CASE dir \in {"none", "empty"} -> {"partial"}
                  [] dir = "partial" -> {"whole", "wrong"}
                  [] OTHER -> {}
    /\ UNCHANGED <<torrent, up, run, asked, active, alone, opens, crashes>>

Completed(r) ==
    /\ run[r] = "await" /\ dir \in {"whole", "wrong"} /\ torrent # "none"
    /\ run' = [run EXCEPT ![r] = "size"] /\ active' = FALSE
    /\ UNCHANGED <<dir, torrent, up, asked, alone, opens, crashes>>

(* Mutant: a stalled or failed download is removed with its pieces. *)
DiscardStalled(stop) ==
    dir' = "none" /\ torrent' = "none"

(* A stop removes the torrent and its folder; anything else pauses the torrent
   and keeps its pieces. *)
Discard(stop) ==
    IF stop THEN dir' = "none" /\ torrent' = "none"
    ELSE /\ torrent' = (IF torrent = "none" THEN "none" ELSE "paused")
         /\ UNCHANGED dir

(* The tick sees the request. *)
Cancelled(r) ==
    /\ run[r] = "await" /\ asked[r] # "no"
    /\ Discard(asked[r] = "stop")
    /\ active' = FALSE
    /\ End(r)
    /\ UNCHANGED <<up, alone, opens, crashes>>

(* No byte for the stall timeout, or an error of the torrent; the discard flag
   may have been raised just now. *)
Failed(r) ==
    /\ run[r] = "await"
    /\ Discard(asked[r] = "stop")
    /\ active' = FALSE
    /\ End(r)
    /\ UNCHANGED <<up, alone, opens, crashes>>

(* A file of another length goes with its torrent. *)
SizeCheck(r) ==
    /\ run[r] = "size"
    /\ IF dir = "whole" THEN run' = [run EXCEPT ![r] = "drop"] /\ UNCHANGED <<dir, torrent, asked>>
       ELSE dir' = "none" /\ torrent' = "none" /\ End(r)
    /\ UNCHANGED <<up, active, alone, opens, crashes>>

(* The torrent is dropped, its files stay to be streamed. *)
DropTorrent(r) ==
    /\ run[r] = "drop"
    /\ torrent' = "none"
    /\ \/ dir = "whole" /\ run' = [run EXCEPT ![r] = "stream"] /\ UNCHANGED asked
       \/ dir # "whole" /\ End(r)
    /\ UNCHANGED <<dir, up, active, alone, opens, crashes>>

(* Mutant: the folder goes only when the stream was read to its end. *)
StreamReadsOut(r) ==
    /\ run[r] = "stream"
    /\ dir' \in {"none", dir}
    /\ End(r)
    /\ UNCHANGED <<torrent, up, active, alone, opens, crashes>>

(* ScratchGuard: the stream's end, or its being dropped, removes the folder. *)
StreamEnds(r) ==
    /\ run[r] = "stream"
    /\ dir' = "none"
    /\ End(r)
    /\ UNCHANGED <<torrent, up, active, alone, opens, crashes>>

(* The process dies; the session comes back with the next open. *)
Crash ==
    /\ crashes < MaxCrashes /\ crashes' = crashes + 1
    /\ up' = FALSE /\ active' = FALSE /\ alone' = {}
    /\ run' = [r \in Runs |-> "idle"] /\ asked' = [r \in Runs |-> "no"]
    /\ UNCHANGED <<dir, torrent, opens>>

(* Mutant: the wait has no stall timeout. *)
StepsNoStall(r) ==
    \/ Metadata(r) \/ AddTorrent(r) \/ Unpause(r) \/ Completed(r) \/ Cancelled(r)
    \/ SizeCheck(r) \/ DropTorrent(r) \/ StreamEnds(r)

Step(r) ==
    \/ Metadata(r) \/ AddTorrent(r) \/ Unpause(r) \/ Completed(r) \/ Cancelled(r) \/ Failed(r)
    \/ SizeCheck(r) \/ DropTorrent(r) \/ StreamEnds(r)

Next == Swarm \/ Crash \/ \E r \in Runs : Open(r) \/ Ask(r) \/ Step(r)

(* The adapter's waits are bounded: the metadata timeout, the tick with its
   stall timeout, the reads of a local file.  The swarm owes nothing. *)
Fairness == \A r \in Runs : WF_fetchVars(Step(r))

Spec == Init /\ [][Next]_fetchVars /\ Fairness

-----------------------------------------------------------------------------
(* A fetch that resumes a torrent left paused by an earlier pause, failure or
   session really runs: while one run waits for its torrent, it is live. *)
ResumedIsLive == \A r \in Runs : run[r] = "await" /\ r \in alone => torrent = "live"

(* A pause, a stall, an error or a restart never costs the pieces on disk: they
   go only with a stop, with a file of the wrong length, or once streamed. *)
PiecesKept ==
    Pieces /\ dir' = "none" =>
        \E r \in Runs : \/ run[r] = "await" /\ asked[r] = "stop"
                        \/ run[r] = "size" /\ dir # "whole"
                        \/ run[r] = "stream"

(* The scratch folder never outlives its use: after a stop the wait observed,
   and after a stream, with no other run of the magnet, nothing is left. *)
ScratchGoes ==
    \A r \in alone : /\ run'[r] = "idle" /\ crashes' = crashes
                     /\ (run[r] = "await" /\ asked[r] = "stop") \/ run[r] = "stream"
                     => dir' = "none" /\ torrent' = "none"

(* Every fetch comes to its end, whatever the swarm does. *)
FetchReturns == \A r \in Runs : run[r] # "idle" ~> run[r] = "idle"
=============================================================================

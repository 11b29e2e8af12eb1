------------------------------- MODULE MCPeers -------------------------------
(***************************************************************************)
(* The three parts of the BitTorrent adapter and the serving side of the   *)
(* Iroh node as one instance for TLC.  No state of this repository's is    *)
(* shared between them, so each behaviour is one of one part: which one is *)
(* chosen at the start, and the others stay as they are.                   *)
(***************************************************************************)
EXTENDS Naturals, TLC

CONSTANTS Proms, Names, MaxSwitches, MaxRestarts,
          Runs, MaxOpens, MaxCrashes,
          MaxUp, Caps, MaxChanges,
          q1, q2, c1, h1, Size, MaxStalls

(* Two requests of one connection for one blob; the second peer resumes. *)
Requests == {q1, q2}
ConnOf == q1 :> c1 @@ q2 :> c1
HashOf == q1 :> h1 @@ q2 :> h1
PrefixOf == q1 :> 0 @@ q2 :> 1

VARIABLES
    part,
    \* BtSeeds
    shareable, magnet, managed, promotions, ids, task, pushing, sessionUp, session, stored,
    deleting, unowned, switches, restarts,
    \* BtFetch
    dir, leech, fetchUp, run, asked, active, alone, opens, crashes,
    \* RatioWatch
    cap, blobCap, torrent, mark, uploaded, base, life, total, reset, watch, promote, changes,
    \* UploadSlots
    slots, upload, pulling, byHash, finishing, counted, reaping, closing, conn, wire, seeded, off,
    reaps, stalls

seedVars == <<shareable, magnet, managed, promotions, ids, task, pushing, sessionUp, session,
              stored, deleting, unowned, switches, restarts>>
fetchVars == <<dir, leech, fetchUp, run, asked, active, alone, opens, crashes>>
ratioVars == <<cap, blobCap, torrent, mark, uploaded, base, life, total, reset, watch, promote,
               changes>>
uploadVars == <<slots, upload, pulling, byHash, finishing, counted, reaping, closing, conn, wire,
                seeded, off, reaps, stalls>>

Seeds == INSTANCE BtSeeds WITH up <- sessionUp
Fetch == INSTANCE BtFetch WITH torrent <- leech, up <- fetchUp
Ratio == INSTANCE RatioWatch WITH up <- uploaded
Uploads == INSTANCE UploadSlots WITH Conn <- ConnOf, Hash <- HashOf, Prefix <- PrefixOf,
                                     active <- pulling

ASSUME PeersAssumed ==
    /\ Seeds!SeedsAssumption
    /\ Ratio!RatioAssumption

Init ==
    /\ part \in {"seeds", "fetch", "ratio", "uploads"}
    /\ Seeds!Init /\ Fetch!Init /\ Ratio!Init /\ Uploads!Init
    /\ part # "seeds" => ~shareable
    /\ part # "ratio" => cap = 0

InSeeds(A) == part = "seeds" /\ A /\ UNCHANGED <<part, fetchVars, ratioVars, uploadVars>>
InFetch(A) == part = "fetch" /\ A /\ UNCHANGED <<part, seedVars, ratioVars, uploadVars>>
InRatio(A) == part = "ratio" /\ A /\ UNCHANGED <<part, seedVars, fetchVars, uploadVars>>
InUploads(A) == part = "uploads" /\ A /\ UNCHANGED <<part, seedVars, fetchVars, ratioVars>>

Next == InSeeds(Seeds!Next) \/ InFetch(Fetch!Next) \/ InRatio(Ratio!Next)
        \/ InUploads(Uploads!Next)

vars == <<part, seedVars, fetchVars, ratioVars, uploadVars>>

(* Each part's own fairness, in the behaviours that are its own. *)
Fairness ==
    /\ \A p \in Proms : WF_vars(InSeeds(Seeds!Promote(p)))
    /\ \A n \in Names : WF_vars(InSeeds(Seeds!DeleteTorrent(n)))
    /\ \A r \in Runs : WF_vars(InFetch(Fetch!Step(r)))
    /\ WF_vars(InRatio(Ratio!Watcher)) /\ WF_vars(InRatio(Ratio!Promoter))
    /\ WF_vars(InUploads(Uploads!Housekeeping))
    /\ \A r \in Requests : WF_vars(InUploads(Uploads!Stall(r) /\ wire[r].st # "live"))

Spec == Init /\ [][Next]_vars /\ Fairness

-----------------------------------------------------------------------------
(* Every torrent the session serves is somebody's to delete, a fetch that
   resumes a paused torrent really runs it, and the lifetime upload counts no
   byte twice. *)
PeersInv ==
    /\ Seeds!SeedsTypeOK
    /\ Seeds!NoLeakedSeed
    /\ Fetch!FetchTypeOK
    /\ Fetch!ResumedIsLive
    /\ Ratio!RatioTypeOK
    /\ Ratio!LifetimeSound

(* Only a stop, a wrong length or the end of the stream costs the pieces of a
   fetch, its scratch folder never outlives its use, and the lifetime upload
   survives restarts. *)
PeersKeep == [][Fetch!PiecesKept /\ Fetch!ScratchGoes /\ Ratio!LifetimeKept]_vars

(* An unseed wins over every promotion under way, every fetch returns, a torrent
   over its cap is paused and one that is under it again resumes, and a slot
   whose peer is gone is reclaimed. *)
PeersSettle ==
    /\ Seeds!StopWins
    /\ Fetch!FetchReturns
    /\ Ratio!OverCapPauses
    /\ Ratio!RelaxedResumes
    /\ Uploads!SlotsReclaimed
==============================================================================

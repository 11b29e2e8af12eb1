------------------------------ MODULE BtSeeds ------------------------------
(***************************************************************************)
(* The life of a BitTorrent seed of one blob: ensure_bt_seeded and the     *)
(* share switch (crates/core/src/engine.rs) over the adapter's seeds map,  *)
(* its promotion tasks and its session (crates/core/src/transport.rs).     *)
(*                                                                         *)
(* A promotion runs as a task between whose awaits anything may happen; an *)
(* abort drops it at its current await, or at the next one when it is      *)
(* running.  The torrent of a blob is told apart by the file name it is    *)
(* seeded under.  The session is the vendored engine's: its torrents are   *)
(* persisted and come back with the session after a restart.               *)
(***************************************************************************)
EXTENDS Naturals, FiniteSets

CONSTANTS
    Proms,       \* promotion tasks
    Names,       \* file names the blob is seeded under
    MaxSwitches, \* bound: changes of the share switch
    MaxRestarts  \* bound: restarts

SeedsAssumption == Names # {}

VARIABLES
    shareable,   \* is_blob_shareable
    magnet,      \* the bt_magnets row
    managed,     \* the seeds map has an entry for the blob
    promotions,  \* the entry's promotions
    ids,         \* the entry's torrent_ids
    task,        \* per promotion: where it is, its file name, wanted, aborted
    pushing,     \* promotions spawned and not yet put into the entry
    up,          \* the session was built
    session,     \* torrents the session serves
    stored,      \* torrents in the session's persistence
    deleting,    \* torrents an unseed has still to delete
    unowned,     \* history: torrents that came back with a session
    switches, restarts

entry == <<managed, promotions, ids>>
engine == <<up, session, stored, deleting, unowned>>
seedVars == <<shareable, magnet, entry, task, pushing, engine, switches, restarts>>

States == {"idle", "looked", "spawned", "link", "create", "magnet", "add", "adding",
           "added", "rollback", "resume"}
Awaiting == {"spawned", "link", "create", "adding", "resume"}
NoTask == [pc |-> "idle", name |-> CHOOSE n \in Names : TRUE, wanted |-> FALSE,
           aborted |-> FALSE]

(* The types; and the map has no entry with neither a promotion nor a torrent. *)
SeedsTypeOK ==
    /\ shareable \in BOOLEAN /\ magnet \in BOOLEAN /\ managed \in BOOLEAN
    /\ promotions \subseteq Proms /\ ids \subseteq Names /\ pushing \subseteq Proms
    /\ task \in [Proms -> [pc : States, name : Names, wanted : BOOLEAN, aborted : BOOLEAN]]
    /\ up \in BOOLEAN /\ session \subseteq Names /\ stored \subseteq Names
    /\ deleting \subseteq Names /\ unowned \subseteq Names
    /\ managed <=> promotions # {} \/ ids # {}

Init ==
    /\ shareable \in BOOLEAN /\ magnet = FALSE
    /\ managed = FALSE /\ promotions = {} /\ ids = {}
    /\ task = [p \in Proms |-> NoTask] /\ pushing = {}
    /\ up = FALSE /\ session = {} /\ stored = {} /\ deleting = {} /\ unowned = {}
    /\ switches = 0 /\ restarts = 0

-----------------------------------------------------------------------------
Goto(p, pc) == task' = [task EXCEPT ![p].pc = pc]

(* Mutant: the guard of a failed promotion leaves the entry behind. *)
GuardForgets(p) ==
    /\ promotions' = promotions \ {p}
    /\ UNCHANGED <<managed, ids>>

(* PromotionGuard: whatever ends the task takes it out of its entry, and an
   entry left with nothing out of the map. *)
DropGuard(p) ==
    /\ promotions' = promotions \ {p}
    /\ managed' = (managed /\ (promotions \ {p} # {} \/ ids # {}))
    /\ UNCHANGED ids

(* The task returns, through its guard. *)
End(p) == task' = [task EXCEPT ![p] = NoTask] /\ DropGuard(p)

-----------------------------------------------------------------------------
(* ensure_bt_seeded: the looks, and the promotion spawned some time later *)

EnsureBtSeeded(p, n) ==
    /\ task[p].pc = "idle" /\ p \notin pushing /\ p \notin promotions
    /\ ~managed /\ shareable
    /\ task' = [task EXCEPT ![p] = [pc |-> "looked", name |-> n, wanted |-> TRUE,
                                    aborted |-> FALSE]]
    /\ UNCHANGED <<shareable, magnet, entry, pushing, engine, switches, restarts>>

(* seed_blob: the task exists before it is in the map. *)
SeedBlob(p) ==
    /\ task[p].pc = "looked"
    /\ Goto(p, "spawned")
    /\ pushing' = pushing \cup {p}
    /\ UNCHANGED <<shareable, magnet, entry, engine, switches, restarts>>

PushPromotion(p) ==
    /\ p \in pushing
    /\ pushing' = pushing \ {p}
    /\ promotions' = promotions \cup {p} /\ managed' = TRUE
    /\ UNCHANGED <<shareable, magnet, ids, task, engine, switches, restarts>>

-----------------------------------------------------------------------------
(* seed_promote *)

(* session(): the first use, by whichever blob or download, builds it and brings
   back what it had stored. *)
BuildSession ==
    /\ ~up /\ up' = TRUE
    /\ session' = stored /\ unowned' = stored
    /\ UNCHANGED <<shareable, magnet, entry, task, pushing, stored, deleting, switches, restarts>>

SessionUp(p) ==
    /\ task[p].pc = "spawned"
    /\ up' = TRUE
    /\ session' = IF up THEN session ELSE stored
    /\ unowned' = IF up THEN unowned ELSE stored
    /\ Goto(p, "link")
    /\ UNCHANGED <<shareable, magnet, entry, pushing, stored, deleting, switches, restarts>>

(* A session that cannot be built ends the task before its guard exists. *)
SessionFails(p) ==
    /\ task[p].pc = "spawned" /\ ~up
    /\ task' = [task EXCEPT ![p] = NoTask]
    /\ UNCHANGED <<shareable, magnet, entry, pushing, engine, switches, restarts>>

(* The reflink of the blob under its name. *)
Link(p) ==
    /\ task[p].pc = "link"
    /\ \/ task[p].wanted /\ Goto(p, "create") /\ UNCHANGED entry
       \/ End(p)
    /\ UNCHANGED <<shareable, magnet, pushing, engine, switches, restarts>>

CreateTorrent(p) ==
    /\ task[p].pc = "create"
    /\ \/ task[p].wanted /\ Goto(p, "magnet") /\ UNCHANGED entry
       \/ End(p)
    /\ UNCHANGED <<shareable, magnet, pushing, engine, switches, restarts>>

PersistMagnet(p) ==
    /\ task[p].pc = "magnet"
    /\ magnet' = TRUE
    /\ Goto(p, "add")
    /\ UNCHANGED <<shareable, entry, pushing, engine, switches, restarts>>

LastCheck(p) ==
    /\ task[p].pc = "add"
    /\ IF task[p].wanted THEN Goto(p, "adding") /\ UNCHANGED entry ELSE End(p)
    /\ UNCHANGED <<shareable, magnet, pushing, engine, switches, restarts>>

(* The session takes the torrent, or answers with the one it has, or fails. *)
AddTorrent(p) ==
    /\ task[p].pc = "adding"
    /\ \/ /\ session' = session \cup {task[p].name}
          /\ stored' = stored \cup {task[p].name}
          /\ Goto(p, "added")
          /\ UNCHANGED entry
       \/ End(p) /\ UNCHANGED <<session, stored>>
    /\ UNCHANGED <<shareable, magnet, pushing, up, deleting, unowned, switches, restarts>>

(* Mutant: whoever has an entry keeps its torrent, without a look at wanted or
   at whose entry it is. *)
RecordBlind(p) ==
    /\ task[p].pc = "added"
    /\ IF managed THEN ids' = ids \cup {task[p].name} /\ promotions' = promotions \ {p}
                       /\ Goto(p, "resume") /\ UNCHANGED managed
       ELSE Goto(p, "resume") /\ UNCHANGED entry
    /\ UNCHANGED <<shareable, magnet, pushing, engine, switches, restarts>>

(* Under the lock: an entry and still wanted, the torrent is the entry's;
   otherwise the promotion undoes its own add. *)
Record(p) ==
    /\ task[p].pc = "added"
    /\ IF managed /\ task[p].wanted
       THEN /\ promotions' = promotions \ {p} /\ ids' = ids \cup {task[p].name}
            /\ Goto(p, "resume")
            /\ UNCHANGED managed
       ELSE Goto(p, "rollback") /\ UNCHANGED entry
    /\ UNCHANGED <<shareable, magnet, pushing, engine, switches, restarts>>

(* Mutant: the undo goes through the entry, and waits for one. *)
RollbackThroughEntry(p) ==
    /\ task[p].pc = "rollback" /\ managed
    /\ session' = session \ {task[p].name} /\ stored' = stored \ {task[p].name}
    /\ End(p)
    /\ UNCHANGED <<shareable, magnet, pushing, up, deleting, unowned, switches, restarts>>

Rollback(p) ==
    /\ task[p].pc = "rollback"
    /\ session' = session \ {task[p].name} /\ stored' = stored \ {task[p].name}
    /\ End(p)
    /\ UNCHANGED <<shareable, magnet, pushing, up, deleting, unowned, switches, restarts>>

(* The torrent is resumed or left paused at its ratio. *)
Resume(p) ==
    /\ task[p].pc = "resume"
    /\ End(p)
    /\ UNCHANGED <<shareable, magnet, pushing, engine, switches, restarts>>

(* An aborted task is dropped at its await; an add dropped half way can leave
   the torrent stored. *)
Dropped(p) ==
    /\ task[p].aborted /\ task[p].pc \in Awaiting
    /\ stored' \in {stored} \cup (IF task[p].pc = "adding" THEN {stored \cup {task[p].name}} ELSE {})
    /\ End(p)
    /\ UNCHANGED <<shareable, magnet, pushing, up, session, deleting, unowned, switches, restarts>>

-----------------------------------------------------------------------------
(* unseed and unseed_detached: the entry leaves the map, its promotions are told
   and aborted, its torrents deleted later; without an entry, nothing. *)
Unseed ==
    /\ managed' = FALSE /\ promotions' = {} /\ ids' = {}
    /\ deleting' = deleting \cup ids
    /\ task' = [p \in Proms |-> IF p \in promotions
                                THEN [task[p] EXCEPT !.wanted = FALSE, !.aborted = TRUE]
                                ELSE task[p]]

(* set_model_shared(off), revoke_gated_shares and evict: the decision, the
   unseed, the magnet. *)
ShareOff ==
    /\ shareable /\ switches < MaxSwitches /\ switches' = switches + 1
    /\ shareable' = FALSE /\ magnet' = FALSE
    /\ Unseed
    /\ UNCHANGED <<pushing, up, session, stored, unowned, restarts>>

ShareOn ==
    /\ ~shareable /\ switches < MaxSwitches /\ switches' = switches + 1
    /\ shareable' = TRUE
    /\ UNCHANGED <<magnet, entry, task, pushing, engine, restarts>>

DeleteTorrent(n) ==
    /\ n \in deleting
    /\ deleting' = deleting \ {n} /\ session' = session \ {n} /\ stored' = stored \ {n}
    /\ unowned' = unowned \ {n}
    /\ UNCHANGED <<shareable, magnet, entry, task, pushing, up, switches, restarts>>

(* The process ends: what is in memory goes, the session comes back with its
   first use and with what it had stored. *)
Restart ==
    /\ restarts < MaxRestarts /\ restarts' = restarts + 1
    /\ managed' = FALSE /\ promotions' = {} /\ ids' = {}
    /\ task' = [p \in Proms |-> NoTask] /\ pushing' = {}
    /\ up' = FALSE /\ session' = {} /\ unowned' = {} /\ deleting' = {}
    /\ UNCHANGED <<shareable, magnet, stored, switches>>

Promote(p) ==
    \/ SeedBlob(p) \/ PushPromotion(p) \/ SessionUp(p) \/ SessionFails(p) \/ Link(p) \/ CreateTorrent(p)
    \/ PersistMagnet(p) \/ LastCheck(p) \/ AddTorrent(p) \/ Record(p) \/ Rollback(p)
    \/ Resume(p) \/ Dropped(p)

Next ==
    \/ \E p \in Proms : Promote(p) \/ \E n \in Names : EnsureBtSeeded(p, n)
    \/ \E n \in Names : DeleteTorrent(n)
    \/ BuildSession \/ ShareOff \/ ShareOn \/ Restart

(* Tasks are polled until they end, and spawned deletions run.  Nothing makes
   the user act or the process end. *)
Fairness ==
    /\ \A p \in Proms : WF_seedVars(Promote(p))
    /\ \A n \in Names : WF_seedVars(DeleteTorrent(n))

Spec == Init /\ [][Next]_seedVars /\ Fairness

-----------------------------------------------------------------------------
(* Somebody answers for every torrent the session serves: an unseed that comes
   would find it in the entry, an unseed that came is deleting it, or the
   promotion that added it has still to record or undo it.  Only what the
   session brought back by itself is nobody's. *)
NoLeakedSeed ==
    \A n \in session : \/ n \in ids \cup deleting \cup unowned
                       \/ \E p \in Proms : /\ task[p].pc \in {"added", "rollback"}
                                           /\ task[p].name = n

Looking == \E p \in Proms : task[p].pc = "looked" \/ p \in pushing

(* Stopping wins over every promotion under way, however far it is: from the
   moment the entry is out of the map, with no look pending and no torrent of
   an earlier session, the session ends up serving nothing of the blob. *)
StopWins ==
    (~shareable /\ ~managed /\ ~Looking /\ unowned = {})
        ~> (shareable \/ session = {} \/ restarts > 0)

(* "Stop sharing" must also stop BT-seeding, says set_model_shared: once its
   unseed found the map without an entry to come, the blob is at last not
   served while its sharing stays off. *)
UnsharedIsUnseeded ==
    (~shareable /\ ~managed /\ ~Looking) ~> (shareable \/ session = {})
=============================================================================

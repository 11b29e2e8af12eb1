---------------------------- MODULE StudioCards -----------------------------
(***************************************************************************)
(* The transfer cards of the Studio: the webview's `transfers` map         *)
(* (crates/studio/ui/src/App.svelte) and the download commands behind it   *)
(* (crates/studio/src/commands.rs).                                        *)
(*                                                                         *)
(* A start makes a provisional card under a temporary key; the command     *)
(* registers the transfer and emits `registered`, `progress` and `done`    *)
(* events, which the webview handles in the order of their emission.  The  *)
(* engine is its registry of controls, and a run that ends when it wants.  *)
(***************************************************************************)
EXTENDS Naturals, Sequences, FiniteSets

CONSTANTS
    Ids,        \* transfer ids (manifest ids)
    Refs,       \* temporary keys: one for each start
    Links,      \* the files of each share link or row of Explore: sequences of ids
    Hub,        \* ids of the models of the Hub
    MaxOps,     \* bound: what the user does besides starting, and reloads
    MaxEvents   \* bound: progress events under way

None == "none"
Keys == Ids \cup Refs

VARIABLES
    cards,      \* App.svelte `transfers`: the phase by key, None for no card
    stale,      \* cards made from the engine's list and not from an event
    cbs,        \* settleCbs: by key, the starts whose acknowledgement waits
    used,       \* temporary keys handed out
    cmds,       \* commands in flight
    reg,        \* the engine's registry: by key, the control there is
    events,     \* events on their way to the webview
    mount,      \* onMount: "up", or the list it waits for
    ops

cardVars == <<cards, stale, cbs, used, cmds, reg, events, mount, ops>>

Settled == {"done", "paused", "waiting", "error"}
Active == {"starting", "downloading"}
Phases == Settled \cup Active \cup {"pausing", "stopping"}
Ends == {"done", "paused", "stopped", "waiting", "error"}

(* A control: whose run it carries, the request to it, and its state. *)
NoCtl == [ref |-> None, req |-> None, st |-> None]
Idle == [ref |-> None, req |-> None, st |-> "idle"]
NoMount == [st |-> "up", list |-> [i \in Ids |-> None]]

CardsTypeOK ==
    /\ cards \in [Keys -> Phases \cup {None}]
    /\ stale \subseteq Ids /\ used \subseteq Refs
    /\ cbs \in [Keys -> Refs \cup {None}]
    /\ reg \in [Keys -> [ref : {None} \cup Refs \cup {"resume"}, req : {None, "pause", "stop"},
                        st : {None, "idle", "active", "paused", "stopped", "waiting", "over"}]]
    /\ mount.st \in {"up", "asked", "listed"}

CardsAssumption == Links \subseteq Seq(Ids) \ {<<>>} /\ Hub \subseteq Ids

Init ==
    /\ cards = [k \in Keys |-> None] /\ stale = {} /\ cbs = [k \in Keys |-> None]
    /\ used = {} /\ cmds = {}
    /\ reg = [k \in Keys |-> NoCtl]
    /\ events = <<>>
    /\ mount = NoMount /\ ops = 0

Op == ops < MaxOps /\ ops' = ops + 1
Emit(e) == events' = Append(events, e)
Becomes(c, d) == cmds' = (cmds \ {c}) \cup {d}
Waiting == Len(SelectSeq(events, LAMBDA e : e.k = "progress"))

-----------------------------------------------------------------------------
(* The commands.  [ref] is the start a command serves, or "resume"; [todo] the
   files of a bundle that are left. *)

(* startDownload, startMesh, startLink with beginProvisional: download_model
   asks the Hub first, the others know their ids. *)
Start(r, todo, hub) ==
    /\ r \in Refs \ used /\ used' = used \cup {r}
    /\ cards' = [cards EXCEPT ![r] = "starting"]
    /\ cbs' = [cbs EXCEPT ![r] = r]
    /\ cmds' = cmds \cup {[ref |-> r, id |-> Head(todo), todo |-> Tail(todo),
                           st |-> IF hub THEN "resolve" ELSE "register", end |-> None]}
    /\ UNCHANGED <<stale, reg, events, mount, ops>>

(* download_model: the repository and the file are found. *)
Resolve(c) ==
    /\ c.st = "resolve"
    /\ Becomes(c, [c EXCEPT !.st = "register"])
    /\ UNCHANGED <<cards, stale, cbs, used, reg, events, mount, ops>>

(* Mutant: a command that fails early leaves its card. *)
ResolveFailsSilently(c) ==
    /\ c.st = "resolve"
    /\ cmds' = cmds \ {c}
    /\ cbs' = [cbs EXCEPT ![c.ref] = None]
    /\ UNCHANGED <<cards, stale, used, reg, events, mount, ops>>

(* Before the transfer exists the command itself fails, and failProvisional
   marks the card. *)
ResolveFails(c) ==
    /\ c.st = "resolve"
    /\ cmds' = cmds \ {c}
    /\ cards' = IF cards[c.ref] = None THEN cards ELSE [cards EXCEPT ![c.ref] = "error"]
    /\ cbs' = [cbs EXCEPT ![c.ref] = None]
    /\ UNCHANGED <<stale, used, reg, events, mount, ops>>

(* register_transfer and emit_registered: only the first file of a bundle
   carries the provisional key. *)
Register(c) ==
    /\ c.st = "register"
    /\ reg' = IF reg[c.id] = NoCtl THEN [reg EXCEPT ![c.id] = Idle] ELSE reg
    /\ Emit([k |-> "registered", key |-> c.ref, id |-> c.id])
    /\ Becomes(c, [c EXCEPT !.st = "begin"])
    /\ UNCHANGED <<cards, stale, cbs, used, mount, ops>>

RegisterNext(c) ==
    /\ c.st = "next"
    /\ reg' = IF reg[c.id] = NoCtl THEN [reg EXCEPT ![c.id] = Idle] ELSE reg
    /\ Becomes(c, [c EXCEPT !.st = "begin"])
    /\ UNCHANGED <<cards, stale, cbs, used, events, mount, ops>>

(* run_download, add_by_content and download come to try_begin; a control that
   was forgotten meanwhile is made again. *)
Begin(c) ==
    /\ c.st = "begin" /\ reg[c.id].ref = None
    /\ reg' = [reg EXCEPT ![c.id] = [ref |-> c.ref, req |-> None, st |-> "active"]]
    /\ Becomes(c, [c EXCEPT !.st = "run"])
    /\ UNCHANGED <<cards, stale, cbs, used, events, mount, ops>>

(* The transfer is already running: an error like any other, except that
   resume_download stays silent. *)
Refused(c) ==
    /\ c.st = "begin" /\ reg[c.id].ref # None
    /\ IF c.ref = "resume" THEN cmds' = cmds \ {c}
       ELSE Becomes(c, [c EXCEPT !.st = "emit", !.end = "error"])
    /\ UNCHANGED <<cards, stale, cbs, used, reg, events, mount, ops>>

(* progress_emitter *)
Progress(c) ==
    /\ c.st = "run" /\ Waiting < MaxEvents
    /\ Emit([k |-> "progress", key |-> c.id, id |-> c.id])
    /\ UNCHANGED <<cards, stale, cbs, used, cmds, reg, mount, ops>>

(* The run ends, by a request or by itself; its own control is released. *)
RunEnds(c, end) ==
    LET mine == reg[c.id].ref = c.ref IN
    /\ c.st = "run"
    /\ end = "paused" => mine /\ reg[c.id].req = "pause"
    /\ end = "stopped" => mine /\ reg[c.id].req = "stop"
    /\ c.id \in Refs => end \in {"error", "paused", "stopped"}
    /\ reg' = IF mine
              THEN [reg EXCEPT ![c.id] = [Idle EXCEPT !.st =
                        IF end \in {"paused", "stopped", "waiting"} THEN end ELSE "over"]]
              ELSE reg
    /\ Becomes(c, [c EXCEPT !.st = "emit", !.end = end])
    /\ UNCHANGED <<cards, stale, cbs, used, events, mount, ops>>

(* Mutant: only the last file of a bundle gets its `done`. *)
EmitDoneAtEnd(c) ==
    /\ c.st = "emit"
    /\ IF c.todo # <<>> THEN UNCHANGED events
       ELSE Emit([k |-> c.end, key |-> c.id, id |-> c.id])
    /\ IF c.todo = <<>> THEN cmds' = cmds \ {c}
       ELSE Becomes(c, [c EXCEPT !.id = Head(c.todo), !.todo = Tail(c.todo), !.st = "next",
                                 !.end = None])
    /\ UNCHANGED <<cards, stale, cbs, used, reg, mount, ops>>

(* The terminal `done` with its status; a bundle goes on with its next file,
   whatever became of this one. *)
EmitDone(c) ==
    /\ c.st = "emit"
    /\ Emit([k |-> c.end, key |-> c.id, id |-> c.id])
    /\ IF c.todo = <<>> THEN cmds' = cmds \ {c}
       ELSE Becomes(c, [c EXCEPT !.id = Head(c.todo), !.todo = Tail(c.todo), !.st = "next",
                                 !.end = None])
    /\ UNCHANGED <<cards, stale, cbs, used, reg, mount, ops>>

-----------------------------------------------------------------------------
(* The webview handles the next event. *)
Next1 == Head(events)

(* onRegistered, adopt: the provisional card moves to its id, over whatever is
   there, and takes its acknowledgement along. *)
OnRegistered ==
    /\ events # <<>> /\ Next1.k = "registered"
    /\ events' = Tail(events)
    /\ IF cards[Next1.key] = None THEN UNCHANGED <<cards, stale, cbs>>
       ELSE /\ cards' = [cards EXCEPT ![Next1.id] = cards[Next1.key], ![Next1.key] = None]
            /\ stale' = stale \ {Next1.id}
            /\ cbs' = IF cbs[Next1.key] = None THEN cbs
                      ELSE [cbs EXCEPT ![Next1.id] = cbs[Next1.key], ![Next1.key] = None]
    /\ UNCHANGED <<used, cmds, reg, mount, ops>>

(* onProgress: a late tick does not undo a pause or a stop. *)
OnProgress ==
    /\ events # <<>> /\ Next1.k = "progress"
    /\ events' = Tail(events)
    /\ IF cards[Next1.id] \in {"pausing", "stopping", "paused", "waiting"}
       THEN UNCHANGED <<cards, stale>>
       ELSE /\ cards' = [cards EXCEPT ![Next1.id] = "downloading"]
            /\ stale' = stale \ {Next1.id}
    /\ UNCHANGED <<cbs, used, cmds, reg, mount, ops>>

(* onDone *)
OnDone ==
    /\ events # <<>> /\ Next1.k \in Ends
    /\ events' = Tail(events)
    /\ cbs' = [cbs EXCEPT ![Next1.id] = None]
    /\ cards' = [cards EXCEPT ![Next1.id] =
                    IF @ = None \/ Next1.k = "stopped" THEN None ELSE Next1.k]
    /\ stale' = IF cards[Next1.id] = None THEN stale ELSE stale \ {Next1.id}
    /\ UNCHANGED <<used, cmds, reg, mount, ops>>

(* A finished card goes after four seconds. *)
Expire(k) ==
    /\ cards[k] = "done"
    /\ cards' = [cards EXCEPT ![k] = None]
    /\ UNCHANGED <<stale, cbs, used, cmds, reg, events, mount, ops>>

-----------------------------------------------------------------------------
(* The user *)

(* The engine's pause and stop do nothing for a key it does not know. *)
Requested(k, req) ==
    IF reg[k] = NoCtl THEN reg
    ELSE [reg EXCEPT ![k].req = req, ![k].st = IF req = "pause" THEN "paused" ELSE "stopped"]

Pause(k) ==
    /\ cards[k] \in Active /\ Op
    /\ cards' = [cards EXCEPT ![k] = "pausing"]
    /\ reg' = Requested(k, "pause")
    /\ UNCHANGED <<stale, cbs, used, cmds, events, mount>>

Stop(k) ==
    /\ cards[k] \in Active /\ Op
    /\ cards' = [cards EXCEPT ![k] = "stopping"]
    /\ reg' = Requested(k, "stop")
    /\ UNCHANGED <<stale, cbs, used, cmds, events, mount>>

(* resumeTransfer and resume_download; also for a provisional card that
   failed, whose key the engine then finds no manifest for. *)
Resume(k) ==
    /\ cards[k] \in {"paused", "waiting", "error"} /\ Op
    /\ cards' = [cards EXCEPT ![k] = "starting"]
    /\ cmds' = cmds \cup {[ref |-> "resume", id |-> k, todo |-> <<>>, st |-> "begin", end |-> None]}
    /\ UNCHANGED <<stale, cbs, used, reg, events, mount>>

(* removeTransfer: discard_transfer where a partial may be left, which asks a
   run in progress to stop; otherwise the registry forgets the transfer. *)
Remove(k) ==
    /\ cards[k] \in Settled /\ Op
    /\ cards' = [cards EXCEPT ![k] = None] /\ stale' = stale \ {k}
    /\ reg' = IF cards[k] # "done" /\ reg[k].ref # None
              THEN Requested(k, "stop")
              ELSE [reg EXCEPT ![k] = NoCtl]
    /\ UNCHANGED <<cbs, used, cmds, events, mount>>

(* The window is reloaded: the map and the events under way are gone, the
   commands are not. *)
Reload ==
    /\ Op
    /\ cards' = [k \in Keys |-> None] /\ stale' = {} /\ cbs' = [k \in Keys |-> None]
    /\ events' = <<>>
    /\ mount' = [NoMount EXCEPT !.st = "asked"]
    /\ UNCHANGED <<used, cmds, reg>>

(* list_transfers with phaseFromState, then resumable_downloads. *)
Listed(i) ==
    CASE reg[i].st = "active" -> "downloading"
      [] reg[i].st \in {"paused", "waiting"} -> reg[i].st
      [] OTHER -> None

ListTransfers ==
    /\ mount.st = "asked"
    /\ mount' = [st |-> "listed", list |-> [i \in Ids |-> Listed(i)]]
    /\ UNCHANGED <<cards, stale, cbs, used, cmds, reg, events, ops>>

(* The reply is handled: cards are made where there is none. *)
Reconcile ==
    /\ mount.st = "listed"
    /\ mount' = NoMount
    /\ cards' = [k \in Keys |-> IF k \in Ids /\ cards[k] = None THEN mount.list[k] ELSE cards[k]]
    /\ stale' = stale \cup {i \in Ids : cards[i] = None /\ mount.list[i] # None}
    /\ UNCHANGED <<cbs, used, cmds, reg, events, ops>>

-----------------------------------------------------------------------------
Command(c) ==
    \/ Resolve(c) \/ ResolveFails(c) \/ Register(c) \/ RegisterNext(c) \/ Begin(c) \/ Refused(c)
    \/ (\E end \in Ends : RunEnds(c, end)) \/ EmitDone(c)

Handle == OnRegistered \/ OnProgress \/ OnDone

User == \E k \in Keys : Pause(k) \/ Stop(k) \/ Resume(k) \/ Remove(k)

Mount == ListTransfers \/ Reconcile

Next ==
    \/ \E r \in Refs : \/ \E todo \in Links : Start(r, todo, FALSE)
                       \/ \E i \in Hub : Start(r, <<i>>, TRUE)
    \/ \E c \in cmds : Command(c) \/ Progress(c)
    \/ Handle \/ User \/ Mount \/ Reload
    \/ \E k \in Keys : Expire(k)

(* Commands go on and runs end; the webview handles its events and replies. *)
Fairness ==
    /\ \A r \in Refs \cup {"resume"} :
        \A k \in Keys : WF_cardVars(\E c \in cmds : c.ref = r /\ c.id = k /\ Command(c))
    /\ WF_cardVars(Handle) /\ WF_cardVars(Mount)

Spec == Init /\ [][Next]_cardVars /\ Fairness

-----------------------------------------------------------------------------
(* A card shown as moving is: a command works on its transfer, or the event
   that ends it is on its way.  Only a card made from the list of the engine
   can outlive its transfer, when the end came before the list was handled. *)
MovingIsMoving ==
    \A k \in Keys \ stale : cards[k] \in Active \cup {"pausing", "stopping"} =>
        \/ \E c \in cmds : c.id = k \/ c.ref = k
        \/ \E n \in DOMAIN events : events[n].k \in Ends /\ events[n].id = k
        \/ \E n \in DOMAIN events : events[n].k = "registered" /\ events[n].key = k

(* A provisional card is resolved: it gets its id, settles or is removed, also
   when the user pauses or stops it before it has one. *)
ProvisionalResolves ==
    \A r \in Refs : cards[r] \in Active \cup {"pausing", "stopping"} ~> cards[r] \in Settled \cup {None}

(* Every card of a file of a bundle settles, whatever became of the files
   before it. *)
CardSettles ==
    \A i \in Ids : cards[i] \in Active /\ i \notin stale ~> (cards[i] \in Settled \cup {None} \/ i \in stale)
=============================================================================

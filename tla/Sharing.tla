------------------------------ MODULE Sharing -------------------------------
(***************************************************************************)
(* What a device shares: the user's choices in the database (share         *)
(* overrides, confirmations, the gated switch), the worldwide session of   *)
(* Engine::start_worldwide_share with its announce loop, the tasks the     *)
(* desktop spawns beside it (withdraw, unseed, refresh), and the requests  *)
(* between the device and the tracker of module Registry.                  *)
(*                                                                         *)
(* A request is sent once; it may be lost, and it may reach the tracker    *)
(* after its sender gave up on it.  A tick is the five minutes between two *)
(* passes of the loop.                                                     *)
(***************************************************************************)
EXTENDS Registry

CONSTANTS
    Me,         \* this device's node id
    Sha,        \* Sha[b]: the sha256 of a blob
    Window,     \* FRESHNESS_WINDOW in ticks
    MaxOps,     \* bound: what the user does
    MaxFaults   \* bound: requests lost, and ticks that pass over requests on their way

ASSUME SharingAssumption ==
    /\ Me \in Peers /\ Sha \in [Blobs -> Shas]
    /\ Window \in Nat /\ MaxOps \in Nat /\ MaxFaults \in Nat

VARIABLES
    class,      \* of a blob's manifests: "open", "gated" (or restrictive) or "private"
    cached,     \* blobs on disk and in the index
    override,   \* share_overrides.shared: "none", "on" or "off"
    confirmed,  \* blobs with share_overrides.confirmed_gated
    shareGated, \* the share_gated switch
    dialog,     \* App.pending_gated_share: the blob the desktop asks about
    running,    \* App.worldwide is Some
    session,    \* counts the sessions: their handles differ, the node id stays
    store,      \* blobs in the Iroh node's store
    seeded,     \* Engine.iroh_seeded
    loop,       \* the announce task of the session
    tasks,      \* tasks the desktop spawned
    net,        \* requests on their way to the tracker
    consented,  \* history: blobs the user or the licence let out at some time
    ops, faults

choices == <<class, cached, override, confirmed, shareGated>>
user == <<dialog, consented, ops>>
node == <<running, session, store, seeded>>
sharingVars == <<registryVars, choices, user, node, loop, tasks, net, faults>>

NoLoop == [pc |-> "off", todo |-> {}, current |-> {}, announced |-> {}]

SharingTypeOK ==
    /\ RegistryTypeOK
    /\ class \in [Blobs -> {"open", "gated", "private"}]
    /\ cached \subseteq Blobs /\ confirmed \subseteq Blobs /\ shareGated \in BOOLEAN
    /\ override \in [Blobs -> {"none", "on", "off"}]
    /\ dialog \subseteq Blobs
    /\ running \in BOOLEAN /\ session \in Nat
    /\ store \subseteq Blobs /\ seeded \subseteq Blobs
    /\ loop \in [pc : {"off", "purge", "pass", "seed", "announce", "sleep"},
                 todo : SUBSET Blobs, current : SUBSET Blobs, announced : SUBSET Blobs]
    /\ tasks \subseteq [op : 1 .. MaxOps, kind : {"withdraw", "unseed", "refresh", "seeding"},
                        blobs : SUBSET Blobs, done : SUBSET Blobs, session : 0 .. session]
    /\ net \subseteq [kind : {"announce", "withdraw"}, blobs : SUBSET Blobs, age : 0 .. Window + 1]
    /\ ops \in 0 .. MaxOps /\ faults \in 0 .. MaxFaults
    /\ loop.pc = "off" <=> ~running
    /\ seeded # {} => running

(* A launch; gated content may have been confirmed before. *)
SharingInit ==
    /\ RegistryInit
    /\ class \in [Blobs -> {"open", "gated", "private"}]
    /\ confirmed \in SUBSET {b \in Blobs : class[b] = "gated"}
    /\ cached = Blobs
    /\ shareGated \in {FALSE} \cup {\E b \in Blobs : class[b] = "gated"}
    /\ override = [b \in Blobs |-> IF b \in confirmed THEN "on" ELSE "none"]
    /\ dialog = {} /\ running = FALSE /\ session = 0
    /\ store = {} /\ seeded = {} /\ loop = NoLoop /\ tasks = {} /\ net = {}
    /\ consented = confirmed \cup {b \in Blobs : class[b] = "open"}
    /\ ops = 0 /\ faults = 0

-----------------------------------------------------------------------------
(* The decision *)

(* Manifest::auto_shareable, through blob_provenance. *)
AutoShareable(b) == class[b] # "private" /\ (shareGated \/ class[b] = "open")

(* Mutant: gated content is decided like any other. *)
ShareableBySwitch(b) ==
    IF override[b] # "none" THEN override[b] = "on" ELSE AutoShareable(b)

(* Db::is_blob_shareable: gated content needs a confirmation, a stop always
   wins, otherwise the user's choice and then the default. *)
IsBlobShareable(b) ==
    IF class[b] = "gated" THEN override[b] # "off" /\ b \in confirmed
    ELSE IF override[b] # "none" THEN override[b] = "on"
    ELSE AutoShareable(b)

ShareItems == {b \in cached : IsBlobShareable(b)}

NeedsShareConfirmation(b) == class[b] = "gated" /\ override[b] = "none" /\ b \notin confirmed

-----------------------------------------------------------------------------
(* Requests *)

Send(kind, blobs) == net' = net \cup {[kind |-> kind, blobs |-> blobs, age |-> 0]}

(* ts_is_fresh; the clocks agree. *)
TsIsFresh(age) == age <= Window

Deliver(req) ==
    /\ req \in net
    /\ net' = net \ {req}
    /\ IF ~TsIsFresh(req.age) THEN UNCHANGED registryVars
       ELSE IF req.kind = "withdraw" THEN Withdraw(Me, req.blobs)
       ELSE Announce(Me, {[b3 |-> b, sha |-> Sha[b], listable |-> TRUE, magnet |-> FALSE] : b \in req.blobs})
    /\ UNCHANGED <<choices, user, node, loop, tasks, faults>>

Lose(req) ==
    /\ req \in net /\ faults < MaxFaults
    /\ net' = net \ {req} /\ faults' = faults + 1
    /\ UNCHANGED <<registryVars, choices, user, node, loop, tasks>>

-----------------------------------------------------------------------------
(* The announce loop *)

LoopPurge ==
    /\ loop.pc = "purge"
    /\ Send("withdraw", {})
    /\ loop' = [loop EXCEPT !.pc = "pass"]
    /\ UNCHANGED <<registryVars, choices, user, node, tasks, faults>>

LoopPass ==
    /\ loop.pc = "pass"
    /\ loop' = [loop EXCEPT !.pc = "seed", !.todo = ShareItems, !.current = {}]
    /\ UNCHANGED <<registryVars, choices, user, node, tasks, net, faults>>

(* A blob in `seeded` is not seeded again; seed_file fails for a file that is
   gone. *)
LoopSeed(b) ==
    /\ loop.pc = "seed" /\ b \in loop.todo
    /\ loop' = [loop EXCEPT !.todo = @ \ {b},
                            !.current = IF b \in seeded \cup cached THEN @ \cup {b} ELSE @]
    /\ store' = IF b \in cached \ seeded THEN store \cup {b} ELSE store
    /\ UNCHANGED <<registryVars, choices, user, running, session, seeded, tasks, net, faults>>

(* Mutant: what is no longer shared is left to expire, and announced on. *)
ReconcileUnion ==
    /\ loop.pc = "seed" /\ loop.todo = {}
    /\ seeded' = loop.current
    /\ loop' = [loop EXCEPT !.pc = "announce", !.current = @ \cup loop.announced]
    /\ UNCHANGED <<registryVars, choices, user, running, session, store, tasks, net, faults>>

(* The signal follows the pass, and what left since the last one is withdrawn. *)
LoopReconcile ==
    /\ loop.pc = "seed" /\ loop.todo = {}
    /\ seeded' = loop.current
    /\ IF loop.announced \subseteq loop.current THEN UNCHANGED net
       ELSE Send("withdraw", loop.announced \ loop.current)
    /\ loop' = [loop EXCEPT !.pc = "announce"]
    /\ UNCHANGED <<registryVars, choices, user, running, session, store, tasks, faults>>

(* Mutant: only what is new since the last pass is announced. *)
AnnounceNews ==
    /\ loop.pc = "announce"
    /\ IF loop.current \subseteq loop.announced THEN UNCHANGED net
       ELSE Send("announce", loop.current \ loop.announced)
    /\ loop' = [loop EXCEPT !.pc = "sleep", !.announced = loop.current]
    /\ UNCHANGED <<registryVars, choices, user, node, tasks, faults>>

LoopAnnounce ==
    /\ loop.pc = "announce"
    /\ IF loop.current = {} THEN UNCHANGED net ELSE Send("announce", loop.current)
    /\ loop' = [loop EXCEPT !.pc = "sleep", !.announced = loop.current]
    /\ UNCHANGED <<registryVars, choices, user, node, tasks, faults>>

LoopStep ==
    \/ LoopPurge \/ LoopPass \/ LoopReconcile \/ LoopAnnounce
    \/ \E b \in Blobs : LoopSeed(b)

(* Time passes for the tracker, for requests on their way and for a sleeping
   loop. *)
Elapses ==
    /\ Tick
    /\ net # {} => faults < MaxFaults
    /\ faults' = IF net = {} THEN faults ELSE faults + 1
    /\ net' = {[req EXCEPT !.age = IF @ <= Window THEN @ + 1 ELSE @] : req \in net}
    /\ loop' = IF loop.pc = "sleep" THEN [loop EXCEPT !.pc = "pass"] ELSE loop
    /\ UNCHANGED <<choices, user, node, tasks>>

-----------------------------------------------------------------------------
(* Spawned tasks *)

Task(kind, blobs) ==
    [op |-> ops + 1, kind |-> kind, blobs |-> blobs, done |-> {}, session |-> session]

(* withdraw_from_tracker needs a node id, unseed_blob and refresh_worldwide a
   live session. *)
WithdrawTask(blobs) == IF session > 0 THEN {Task("withdraw", blobs)} ELSE {}
UnseedTasks(blobs) == IF running THEN {Task("unseed", {b}) : b \in blobs} ELSE {}
RefreshTask == IF running THEN {Task("refresh", {})} ELSE {}

TaskWithdraw(t) ==
    /\ t \in tasks /\ t.kind = "withdraw"
    /\ Send("withdraw", t.blobs)
    /\ tasks' = tasks \ {t}
    /\ UNCHANGED <<registryVars, choices, user, node, loop, faults>>

(* A handle of an earlier session works on a node that is shut down. *)
Attached(t) == running /\ t.session = session

TaskUnseed(t) ==
    /\ t \in tasks /\ t.kind = "unseed"
    /\ store' = IF Attached(t) THEN store \ t.blobs ELSE store
    /\ tasks' = tasks \ {t}
    /\ UNCHANGED <<registryVars, choices, user, running, session, seeded, loop, net, faults>>

TaskRefresh(t) ==
    /\ t \in tasks /\ t.kind = "refresh"
    /\ tasks' = (tasks \ {t}) \cup {[t EXCEPT !.kind = "seeding", !.blobs = ShareItems]}
    /\ UNCHANGED <<registryVars, choices, user, node, loop, net, faults>>

(* SeederHandle::announce: every item is seeded again, whatever `seeded` says. *)
TaskSeed(t, b) ==
    /\ t \in tasks /\ t.kind = "seeding" /\ b \in t.blobs
    /\ LET ok == b \in cached /\ Attached(t)
       IN /\ store' = IF ok THEN store \cup {b} ELSE store
          /\ tasks' = (tasks \ {t}) \cup
                {[t EXCEPT !.blobs = @ \ {b}, !.done = IF ok THEN @ \cup {b} ELSE @]}
    /\ UNCHANGED <<registryVars, choices, user, running, session, seeded, loop, net, faults>>

TaskAnnounce(t) ==
    /\ t \in tasks /\ t.kind = "seeding" /\ t.blobs = {}
    /\ IF t.done = {} THEN UNCHANGED net ELSE Send("announce", t.done)
    /\ tasks' = tasks \ {t}
    /\ UNCHANGED <<registryVars, choices, user, node, loop, faults>>

TaskStep ==
    \E t \in tasks : \/ TaskWithdraw(t) \/ TaskUnseed(t) \/ TaskRefresh(t) \/ TaskAnnounce(t)
                     \/ \E b \in Blobs : TaskSeed(t, b)

-----------------------------------------------------------------------------
(* The user *)

Op ==
    /\ ops < MaxOps /\ ops' = ops + 1
    /\ UNCHANGED <<registryVars, net, faults>>

(* The checkbox of a library row shows whether the blob is shareable. *)
ShareOn(b) ==
    /\ Op /\ dialog = {} /\ b \in cached \ ShareItems
    /\ IF NeedsShareConfirmation(b)
       THEN dialog' = {b} /\ UNCHANGED <<choices, consented, node, loop, tasks>>
       ELSE /\ override' = [override EXCEPT ![b] = "on"]
            /\ consented' = IF class[b] = "gated" THEN consented ELSE consented \cup {b}
            /\ tasks' = tasks \cup RefreshTask
            /\ UNCHANGED <<class, cached, confirmed, shareGated, dialog, node, loop>>

ConfirmGatedShare ==
    /\ Op /\ dialog # {}
    /\ override' = [b \in Blobs |-> IF b \in dialog THEN "on" ELSE override[b]]
    /\ confirmed' = confirmed \cup dialog
    /\ consented' = consented \cup dialog
    /\ tasks' = tasks \cup RefreshTask
    /\ dialog' = {}
    /\ UNCHANGED <<class, cached, shareGated, node, loop>>

CancelGatedShare ==
    /\ dialog # {}
    /\ dialog' = {}
    /\ UNCHANGED <<registryVars, choices, consented, ops, node, loop, tasks, net, faults>>

(* apply_share_off.  When peers are pulling the file the desktop asks first,
   and the same happens later or not at all. *)
ShareOff(b) ==
    /\ Op /\ dialog = {} /\ b \in ShareItems
    /\ override' = [override EXCEPT ![b] = "off"]
    /\ tasks' = tasks \cup WithdrawTask({b}) \cup UnseedTasks({b}) \cup RefreshTask
    /\ UNCHANGED <<class, cached, confirmed, shareGated, dialog, consented, node, loop>>

(* revoke_gated_shares when the switch goes off. *)
SetShareGated(on) ==
    /\ Op /\ dialog = {} /\ shareGated # on /\ shareGated' = on
    /\ LET dropped == IF on THEN {} ELSE confirmed
       IN /\ override' = [b \in Blobs |-> IF b \in dropped THEN "off" ELSE override[b]]
          /\ confirmed' = confirmed \ dropped
          /\ tasks' = tasks \cup RefreshTask \cup UnseedTasks(dropped)
                            \cup (IF dropped = {} THEN {} ELSE WithdrawTask(dropped))
    /\ UNCHANGED <<class, cached, dialog, consented, node, loop>>

(* evict_cache of one blob, then the same three tasks. *)
Delete(b) ==
    /\ Op /\ dialog = {} /\ b \in cached
    /\ cached' = cached \ {b}
    /\ tasks' = tasks \cup UnseedTasks({b}) \cup WithdrawTask({b}) \cup RefreshTask
    /\ UNCHANGED <<class, override, confirmed, shareGated, dialog, consented, node, loop>>

StartWorldwide ==
    /\ Op /\ dialog = {} /\ ~running
    /\ running' = TRUE /\ session' = session + 1 /\ seeded' = {}
    /\ loop' = [NoLoop EXCEPT !.pc = "purge"]
    /\ UNCHANGED <<choices, dialog, consented, store, tasks>>

(* Mutant: the live signal survives the session. *)
StoppedKeepsSignal ==
    /\ running' = FALSE /\ loop' = NoLoop
    /\ UNCHANGED <<store, seeded>>

(* WorldwideShare::stop: the loop is aborted where it is and the node shut
   down; its store may keep what it had. *)
Stopped ==
    /\ running' = FALSE /\ seeded' = {} /\ loop' = NoLoop
    /\ store' \in {store, {}}

StopWorldwide ==
    /\ Op /\ dialog = {} /\ running
    /\ Stopped
    /\ tasks' = tasks \cup WithdrawTask({})
    /\ UNCHANGED <<choices, dialog, consented, session>>

(* on_exit: withdraw everything, stop the node, and the runtime with every
   task goes.  A killed process sends nothing. *)
Quit ==
    /\ ops < MaxOps /\ ops' = ops + 1
    /\ Stopped /\ tasks' = {} /\ dialog' = {}
    /\ IF session > 0 THEN UNCHANGED net \/ Send("withdraw", {}) ELSE UNCHANGED net
    /\ UNCHANGED <<registryVars, choices, consented, session, faults>>

UserStep ==
    \/ \E b \in Blobs : ShareOn(b) \/ ShareOff(b) \/ Delete(b)
    \/ ConfirmGatedShare \/ CancelGatedShare
    \/ \E on \in BOOLEAN : SetShareGated(on)
    \/ StartWorldwide \/ StopWorldwide \/ Quit

SharingNext ==
    \/ LoopStep \/ TaskStep \/ Elapses \/ UserStep
    \/ \E req \in net : Deliver(req) \/ Lose(req)

SharingSpec == SharingInit /\ [][SharingNext]_sharingVars

(* Tasks run, time passes and a request that is not lost arrives.  Nothing is
   assumed of the user. *)
SharingFairSpec ==
    /\ SharingSpec
    /\ WF_sharingVars(LoopStep) /\ WF_sharingVars(TaskStep) /\ WF_sharingVars(Elapses)
    /\ WF_sharingVars(\E req \in net : Deliver(req))

-----------------------------------------------------------------------------
Listed(b) == claim[Me][b] > 0
Serves(b) == running /\ b \in store

(* Content leaves the device only after the licence or the user let it out:
   gated content after its own confirmation, never by a plain share or by the
   switch alone, private content after an explicit share (is_blob_shareable). *)
OnlyConsented ==
    /\ store \subseteq consented
    /\ \A b \in Blobs : Listed(b) => b \in consented
    /\ \A req \in net : req.kind = "announce" => req.blobs \subseteq consented

(* The types of this module, and with them that a stopped session has no loop
   and no live signal (WorldwideShare::stop); and content leaves only with
   consent. *)
SharingInv == SharingTypeOK /\ OnlyConsented

(* What is no longer shared leaves the catalog for good, although withdraws
   are lost, a pass or a refresh that read the old choice announces again
   after the withdraw, and signed announces arrive late. *)
StoppedIsDelisted ==
    \A b \in Blobs : <>[](b \notin ShareItems \/ ~running) => <>[]~Listed(b)

(* What stays shared in a running session is in the catalog again and again,
   whatever was lost or withdrawn before. *)
SharedIsListed == \A b \in Blobs : <>[](b \in ShareItems /\ running) => []<>Listed(b)

(* Stopping a share "stops the upload", not only the discovery. *)
StoppedIsUnserved == \A b \in Blobs : <>[](b \notin ShareItems) => <>[]~Serves(b)

(* A share the user turns on is in force, or the desktop asks for the
   confirmation that is missing: it answers "Sharing this model with everyone." *)
ShareOnShares == [][\A b \in Blobs : ShareOn(b) => b \in ShareItems' \cup dialog']_sharingVars
=============================================================================

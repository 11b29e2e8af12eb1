--------------------------- MODULE NetworkProofs ----------------------------
(***************************************************************************)
(* Machine-checked proofs about what leaves and what reaches a device over *)
(* the network: what it shares, for any content, any number of the user's  *)
(* decisions and any loss and delay of its requests; what StripedFetch     *)
(* fetches, for any number of pieces, providers, lanes, attempts,          *)
(* refreshes and crashes; and the download of an artifact from its         *)
(* sources.  The accounting of pieces is proved for any number of fetches  *)
(* of the blob, what a fetch delivers for one: two of them share the       *)
(* scratch file and may truncate it under each other.                      *)
(***************************************************************************)
EXTENDS ArtifactDownload, StripedFetch, Sharing, RegistryProofs, SequenceTheorems

-----------------------------------------------------------------------------
(* Sharing. *)

(* What may be shared was let out: open content by its licence, gated content
   by its confirmation, private content by an explicit share. *)
ChoicesConsented ==
    /\ confirmed \subseteq consented
    /\ \A b \in Blobs : class[b] = "open" => b \in consented
    /\ \A b \in Blobs : class[b] = "private" /\ override[b] = "on" => b \in consented

(* The lists that passes and refreshes carry from one await to the next were
   taken from what may be shared. *)
ListsConsented ==
    /\ loop.todo \cup loop.current \cup loop.announced \subseteq consented
    /\ \A t \in tasks : t.done \subseteq consented /\ (t.kind = "seeding" => t.blobs \subseteq consented)

ConsentInv == ChoicesConsented /\ ListsConsented /\ OnlyConsented

-----------------------------------------------------------------------------
(* The tracker under the requests of this device. *)
LEMMA TrackerStep ==
    ASSUME SharingTypeOK, LookupInv, [SharingNext]_sharingVars
    PROVE  LookupInv'
<1>1. CASE UNCHANGED registryVars
  BY <1>1 DEF registryVars, LookupInv, RegistryTypeOK, RecordsClaimed, ClaimsRecorded
<1>2. ASSUME NEW req \in net, Deliver(req) PROVE LookupInv'
  <2>1. Me \in Peers /\ req.blobs \in SUBSET Blobs
    BY <1>2, SharingAssumption DEF SharingAssumption, SharingTypeOK
  <2> DEFINE items == {[b3 |-> b, sha |-> Sha[b], listable |-> TRUE, magnet |-> FALSE] : b \in req.blobs}
  <2>2. items \in SUBSET Item
    <3>1. \A b \in Blobs : [b3 |-> b, sha |-> Sha[b], listable |-> TRUE, magnet |-> FALSE] \in Item
      BY SharingAssumption DEF SharingAssumption, Item
    <3> QED BY <2>1, <3>1
  <2>3. UNCHANGED registryVars \/ Withdraw(Me, req.blobs) \/ Announce(Me, items)
    BY <1>2 DEF Deliver
  <2> HIDE DEF items
  <2> QED BY <1>1, <2>1, <2>2, <2>3, WithdrawKeeps, AnnounceKeeps
<1>3. CASE Elapses
  BY <1>3, TickKeeps DEF Elapses
<1>4. CASE LoopStep
  BY <1>1, <1>4 DEF LoopStep, LoopPurge, LoopPass, LoopSeed, LoopReconcile, LoopAnnounce
<1>5. CASE TaskStep
  BY <1>1, <1>5 DEF TaskStep, TaskWithdraw, TaskUnseed, TaskRefresh, TaskAnnounce, TaskSeed
<1>6. CASE UserStep
  BY <1>1, <1>6 DEF UserStep, Op, ShareOn, ShareOff, Delete, ConfirmGatedShare, CancelGatedShare,
                    SetShareGated, StartWorldwide, StopWorldwide, Quit
<1>7. ASSUME NEW req \in net, Lose(req) PROVE LookupInv'
  BY <1>1, <1>7 DEF Lose
<1>8. CASE UNCHANGED sharingVars
  BY <1>1, <1>8 DEF sharingVars
<1> QED BY <1>2, <1>3, <1>4, <1>5, <1>6, <1>7, <1>8 DEF SharingNext

(* What may be shared has been let out. *)
LEMMA ShareItemsConsented ==
    ASSUME SharingTypeOK, ChoicesConsented
    PROVE  ShareItems \subseteq consented /\ ShareItems \subseteq Blobs
<1>1. \A b \in cached : b \in Blobs /\ class[b] \in {"open", "gated", "private"}
  BY DEF SharingTypeOK
<1> QED BY <1>1 DEF ShareItems, IsBlobShareable, AutoShareable, ChoicesConsented

(* A task is well-formed when the user's step that spawns it is counted. *)
LEMMA SpawnedTasks ==
    ASSUME SharingTypeOK, Op, NEW kind \in {"withdraw", "unseed", "refresh"},
           NEW blobs \in SUBSET Blobs
    PROVE  /\ Task(kind, blobs) \in [op : 1 .. MaxOps, kind : {"withdraw", "unseed", "refresh", "seeding"},
                        blobs : SUBSET Blobs, done : SUBSET Blobs, session : 0 .. session]
           /\ Task(kind, blobs).kind # "seeding" /\ Task(kind, blobs).done = {}
<1>1. ops + 1 \in 1 .. MaxOps /\ session \in 0 .. session
  BY SharingAssumption DEF SharingAssumption, SharingTypeOK, Op
<1> QED BY <1>1 DEF Task

TaskType(n) ==
    [op : 1 .. MaxOps, kind : {"withdraw", "unseed", "refresh", "seeding"},
     blobs : SUBSET Blobs, done : SUBSET Blobs, session : 0 .. n]

RequestType == [kind : {"announce", "withdraw"}, blobs : SUBSET Blobs, age : 0 .. Window + 1]

LEMMA SendTypes ==
    ASSUME SharingTypeOK, NEW kind \in {"announce", "withdraw"}, NEW blobs \in SUBSET Blobs,
           Send(kind, blobs)
    PROVE  net' \subseteq RequestType
<1>1. [kind |-> kind, blobs |-> blobs, age |-> 0] \in RequestType
  BY SharingAssumption DEF SharingAssumption, RequestType
<1> QED BY <1>1 DEF Send, SharingTypeOK, RequestType

(* The tasks that one step of the user adds. *)
LEMMA SpawnTypes ==
    ASSUME SharingTypeOK, Op, NEW blobs \in SUBSET Blobs
    PROVE  /\ WithdrawTask(blobs) \subseteq TaskType(session)
           /\ UnseedTasks(blobs) \subseteq TaskType(session)
           /\ RefreshTask \subseteq TaskType(session)
           /\ \A t \in WithdrawTask(blobs) \cup UnseedTasks(blobs) \cup RefreshTask :
                  t.kind # "seeding" /\ t.done = {}
<1>1. \A b \in blobs : {b} \in SUBSET Blobs
  OBVIOUS
<1>2. /\ Task("withdraw", blobs) \in TaskType(session)
      /\ Task("withdraw", blobs).kind # "seeding" /\ Task("withdraw", blobs).done = {}
  BY SpawnedTasks DEF TaskType
<1>3. \A b \in blobs : /\ Task("unseed", {b}) \in TaskType(session)
                       /\ Task("unseed", {b}).kind # "seeding" /\ Task("unseed", {b}).done = {}
  BY <1>1, SpawnedTasks DEF TaskType
<1>4. /\ Task("refresh", {}) \in TaskType(session)
      /\ Task("refresh", {}).kind # "seeding" /\ Task("refresh", {}).done = {}
  BY SpawnedTasks DEF TaskType
<1> HIDE DEF TaskType
<1> QED BY <1>2, <1>3, <1>4 DEF WithdrawTask, UnseedTasks, RefreshTask

LEMMA LoopTypes ==
    ASSUME SharingTypeOK, RegistryTypeOK', LoopStep
    PROVE  SharingTypeOK'
<1>0. ShareItems \subseteq Blobs
  BY DEF SharingTypeOK, ShareItems
<1>1. CASE LoopPurge
  BY <1>1, SendTypes DEF LoopPurge, SharingTypeOK, RequestType, choices, user, node
<1>2. CASE LoopPass
  BY <1>0, <1>2 DEF LoopPass, SharingTypeOK, choices, user, node
<1>3. ASSUME NEW b \in Blobs, LoopSeed(b) PROVE SharingTypeOK'
  BY <1>3 DEF LoopSeed, SharingTypeOK, choices, user
<1>4. CASE LoopReconcile
  <2>1. loop.announced \ loop.current \in SUBSET Blobs
    BY DEF SharingTypeOK
  <2>2. net' \subseteq RequestType
    BY <1>4, <2>1, SendTypes DEF LoopReconcile, SharingTypeOK, RequestType
  <2> QED BY <1>4, <2>2 DEF LoopReconcile, SharingTypeOK, RequestType, choices, user
<1>5. CASE LoopAnnounce
  <2>1. loop.current \in SUBSET Blobs
    BY DEF SharingTypeOK
  <2>2. net' \subseteq RequestType
    BY <1>5, <2>1, SendTypes DEF LoopAnnounce, SharingTypeOK, RequestType
  <2> QED BY <1>5, <2>2 DEF LoopAnnounce, SharingTypeOK, RequestType, choices, user, node
<1> QED BY <1>1, <1>2, <1>3, <1>4, <1>5 DEF LoopStep, LoopPurge, LoopPass, LoopReconcile, LoopAnnounce

LEMMA TaskTypes ==
    ASSUME SharingTypeOK, RegistryTypeOK', TaskStep
    PROVE  SharingTypeOK'
<1>0. ShareItems \subseteq Blobs /\ tasks \subseteq TaskType(session) /\ net \subseteq RequestType
  BY DEF SharingTypeOK, ShareItems, TaskType, RequestType
<1>1. ASSUME NEW t \in tasks, TaskWithdraw(t) PROVE SharingTypeOK'
  <2>1. net' \subseteq RequestType
    BY <1>0, <1>1, SendTypes DEF TaskWithdraw, TaskType
  <2> QED BY <1>1, <2>1 DEF TaskWithdraw, SharingTypeOK, RequestType, choices, user, node
<1>2. ASSUME NEW t \in tasks, TaskUnseed(t) PROVE SharingTypeOK'
  BY <1>2 DEF TaskUnseed, SharingTypeOK, choices, user
<1>3. ASSUME NEW t \in tasks, TaskRefresh(t) PROVE SharingTypeOK'
  <2>1. [t EXCEPT !.kind = "seeding", !.blobs = ShareItems] \in TaskType(session)
    BY <1>0, <1>3 DEF TaskType
  <2>2. tasks' \subseteq TaskType(session)
    BY <1>0, <1>3, <2>1 DEF TaskRefresh
  <2> QED BY <1>3, <2>2 DEF TaskRefresh, SharingTypeOK, TaskType, choices, user, node
<1>4. ASSUME NEW t \in tasks, TaskAnnounce(t) PROVE SharingTypeOK'
  <2>1. net' \subseteq RequestType
    BY <1>0, <1>4, SendTypes DEF TaskAnnounce, TaskType
  <2> QED BY <1>4, <2>1 DEF TaskAnnounce, SharingTypeOK, RequestType, choices, user, node
<1>5. ASSUME NEW t \in tasks, NEW b \in Blobs, TaskSeed(t, b) PROVE SharingTypeOK'
  <2> DEFINE next == [t EXCEPT !.blobs = @ \ {b},
                               !.done = IF b \in cached /\ Attached(t) THEN @ \cup {b} ELSE @]
  <2>1. next \in TaskType(session)
    BY <1>0, <1>5 DEF TaskType
  <2>2. tasks' \subseteq TaskType(session) /\ store' \subseteq Blobs
    BY <1>0, <1>5, <2>1 DEF TaskSeed, SharingTypeOK
  <2> QED BY <1>5, <2>2 DEF TaskSeed, SharingTypeOK, TaskType, choices, user
<1> QED BY <1>1, <1>2, <1>3, <1>4, <1>5 DEF TaskStep

LEMMA UserTypes ==
    ASSUME SharingTypeOK, RegistryTypeOK', UserStep
    PROVE  SharingTypeOK'
<1>0. tasks \subseteq TaskType(session) /\ net \subseteq RequestType
      /\ {} \in SUBSET Blobs /\ confirmed \in SUBSET Blobs
      /\ MaxOps \in Nat /\ ops \in 0 .. MaxOps
  BY SharingAssumption DEF SharingTypeOK, TaskType, RequestType, SharingAssumption
<1>1. ASSUME NEW b \in Blobs, ShareOn(b) PROVE SharingTypeOK'
  <2>1. tasks' \subseteq TaskType(session)
    BY <1>0, <1>1, SpawnTypes DEF ShareOn
  <2> QED BY <1>0, <1>1, <2>1 DEF ShareOn, Op, SharingTypeOK, TaskType, choices, node
<1>2. ASSUME NEW b \in Blobs, ShareOff(b) PROVE SharingTypeOK'
  <2>1. {b} \in SUBSET Blobs
    OBVIOUS
  <2>2. tasks' \subseteq TaskType(session)
    BY <1>0, <1>2, <2>1, SpawnTypes DEF ShareOff
  <2>3. override' \in [Blobs -> {"none", "on", "off"}] /\ ops' \in 0 .. MaxOps
    BY <1>0, <1>2 DEF ShareOff, Op, SharingTypeOK
  <2>4. UNCHANGED <<net, faults, class, cached, confirmed, shareGated, dialog, node, loop>>
    BY <1>2 DEF ShareOff, Op
  <2> QED BY <2>2, <2>3, <2>4 DEF SharingTypeOK, TaskType, node
<1>3. ASSUME NEW b \in Blobs, Delete(b) PROVE SharingTypeOK'
  <2>1. {b} \in SUBSET Blobs
    OBVIOUS
  <2>2. tasks' \subseteq TaskType(session)
    BY <1>0, <1>3, <2>1, SpawnTypes DEF Delete
  <2>3. cached' \subseteq Blobs /\ ops' \in 0 .. MaxOps
    BY <1>0, <1>3 DEF Delete, Op, SharingTypeOK
  <2>4. UNCHANGED <<net, faults, class, override, confirmed, shareGated, dialog, node, loop>>
    BY <1>3 DEF Delete, Op
  <2> QED BY <2>2, <2>3, <2>4 DEF SharingTypeOK, TaskType, node
<1>4. CASE ConfirmGatedShare
  <2>1. tasks' \subseteq TaskType(session)
    BY <1>0, <1>4, SpawnTypes DEF ConfirmGatedShare
  <2>2. override' \in [Blobs -> {"none", "on", "off"}] /\ confirmed' \subseteq Blobs
    BY <1>4 DEF ConfirmGatedShare, SharingTypeOK
  <2> QED BY <1>0, <1>4, <2>1, <2>2 DEF ConfirmGatedShare, Op, SharingTypeOK, TaskType, node
<1>5. CASE CancelGatedShare
  BY <1>5 DEF CancelGatedShare, SharingTypeOK, choices, node
<1>6. ASSUME NEW on \in BOOLEAN, SetShareGated(on) PROVE SharingTypeOK'
  <2> DEFINE dropped == IF on THEN {} ELSE confirmed
  <2>1. dropped \in SUBSET Blobs
    BY <1>0
  <2>2. tasks' \subseteq TaskType(session)
    BY <1>0, <1>6, <2>1, SpawnTypes DEF SetShareGated
  <2>3. override' \in [Blobs -> {"none", "on", "off"}] /\ confirmed' \subseteq Blobs
    BY <1>6 DEF SetShareGated, SharingTypeOK
  <2> QED BY <1>0, <1>6, <2>2, <2>3 DEF SetShareGated, Op, SharingTypeOK, TaskType, node
<1>7. CASE StartWorldwide
  <2>1. tasks \subseteq TaskType(session + 1) /\ session + 1 \in Nat
    BY <1>0 DEF SharingTypeOK, TaskType
  <2> QED BY <1>0, <1>7, <2>1 DEF StartWorldwide, Op, SharingTypeOK, TaskType, choices, NoLoop
<1>8. CASE StopWorldwide
  <2>1. tasks' \subseteq TaskType(session)
    BY <1>0, <1>8, SpawnTypes DEF StopWorldwide
  <2>2. store' \subseteq Blobs /\ ops' \in 0 .. MaxOps /\ seeded' = {} /\ loop' = NoLoop
    BY <1>0, <1>8 DEF StopWorldwide, Stopped, Op, SharingTypeOK
  <2>3. UNCHANGED <<net, faults, choices, dialog, session>> /\ running' = FALSE
    BY <1>8 DEF StopWorldwide, Stopped, Op
  <2> QED BY <2>1, <2>2, <2>3 DEF SharingTypeOK, TaskType, choices, NoLoop
<1>9. CASE Quit
  <2>1. net' \subseteq RequestType
    BY <1>0, <1>9, SendTypes DEF Quit
  <2>2. store' \subseteq Blobs /\ ops' \in 0 .. MaxOps /\ seeded' = {} /\ loop' = NoLoop
    BY <1>0, <1>9 DEF Quit, Stopped, SharingTypeOK
  <2>3. UNCHANGED <<choices, session, faults>> /\ running' = FALSE /\ tasks' = {} /\ dialog' = {}
    BY <1>9 DEF Quit, Stopped
  <2> QED BY <2>1, <2>2, <2>3 DEF SharingTypeOK, RequestType, choices, NoLoop
<1> QED BY <1>1, <1>2, <1>3, <1>4, <1>5, <1>6, <1>7, <1>8, <1>9 DEF UserStep

LEMMA TypeStep ==
    ASSUME SharingTypeOK, LookupInv, [SharingNext]_sharingVars
    PROVE  SharingTypeOK'
<1>0. RegistryTypeOK'
  BY TrackerStep DEF LookupInv
<1>1. ASSUME NEW req \in net, Deliver(req) PROVE SharingTypeOK'
  BY <1>0, <1>1 DEF Deliver, SharingTypeOK, choices, user, node
<1>2. ASSUME NEW req \in net, Lose(req) PROVE SharingTypeOK'
  BY <1>0, <1>2, SharingAssumption DEF Lose, SharingTypeOK, choices, user, node, SharingAssumption
<1>3. CASE Elapses
  <2>1. net' \subseteq RequestType
    <3>1. Window \in Nat
      BY SharingAssumption DEF SharingAssumption
    <3>2. \A req \in net : [req EXCEPT !.age = IF @ <= Window THEN @ + 1 ELSE @] \in RequestType
      BY <3>1 DEF SharingTypeOK, RequestType
    <3> QED BY <1>3, <3>2 DEF Elapses
  <2>2. faults' \in 0 .. MaxFaults
    BY <1>3, SharingAssumption DEF Elapses, SharingTypeOK, SharingAssumption
  <2> QED BY <1>0, <1>3, <2>1, <2>2 DEF Elapses, SharingTypeOK, RequestType, choices, user, node
<1>4. CASE UNCHANGED sharingVars
  BY <1>0, <1>4 DEF sharingVars, SharingTypeOK, choices, user, node
<1> QED BY <1>0, <1>1, <1>2, <1>3, <1>4, LoopTypes, TaskTypes, UserTypes DEF SharingNext

(* What is listed of this device was announced by it, and runs out or is
   withdrawn: no other step lists a blob. *)
LEMMA ListedOnlyByAnnounce ==
    ASSUME SharingTypeOK, NEW b \in Blobs, claim'[Me][b] > 0,
           \/ UNCHANGED registryVars
           \/ Tick
           \/ \E req \in net : Deliver(req) /\ ~(req.kind = "announce" /\ b \in req.blobs)
    PROVE  Listed(b)
<1>1. claim \in [Peers -> [Blobs -> 0 .. TTL]] /\ TTL \in Nat /\ Me \in Peers
  BY ConstantTypes, SharingAssumption DEF SharingTypeOK, RegistryTypeOK, SharingAssumption
<1>2. CASE UNCHANGED registryVars
  BY <1>2 DEF registryVars, Listed
<1>3. CASE Tick
  BY <1>1, <1>3 DEF Tick, Elapse, Listed
<1>4. ASSUME NEW req \in net, Deliver(req), ~(req.kind = "announce" /\ b \in req.blobs)
      PROVE  Listed(b)
  <2> DEFINE items == {[b3 |-> c, sha |-> Sha[c], listable |-> TRUE, magnet |-> FALSE] : c \in req.blobs}
  <2>1. CASE Withdraw(Me, req.blobs)
    BY <1>1, <2>1 DEF Withdraw, Listed
  <2>2. CASE req.kind # "withdraw" /\ Announce(Me, items)
    <3>1. req.kind = "announce"
      BY <1>4, <2>2 DEF SharingTypeOK
    <3>2. ~\E it \in items : it.b3 = b
      BY <1>4, <3>1
    <3> HIDE DEF items
    <3> QED BY <1>1, <2>2, <3>2 DEF Announce, Listed
  <2> QED BY <1>2, <1>4, <2>1, <2>2 DEF Deliver
<1> QED BY <1>2, <1>3, <1>4

LEMMA DeliverConsent ==
    ASSUME SharingTypeOK, ConsentInv, NEW req \in net, Deliver(req)
    PROVE  ConsentInv'
<1>1. UNCHANGED <<choices, user, node, loop, tasks>> /\ net' \subseteq net
  BY DEF Deliver
<1>2. ASSUME NEW b \in Blobs, Listed(b)' PROVE b \in consented
  <2>1. CASE req.kind = "announce" /\ b \in req.blobs
    BY <2>1 DEF ConsentInv, OnlyConsented
  <2>2. CASE ~(req.kind = "announce" /\ b \in req.blobs)
    <3>1. claim'[Me][b] > 0
      BY <1>2 DEF Listed
    <3>2. Listed(b)
      BY <2>2, <3>1, ListedOnlyByAnnounce
    <3> QED BY <3>2 DEF ConsentInv, OnlyConsented
  <2> QED BY <2>1, <2>2
<1> QED BY <1>1, <1>2 DEF ConsentInv, ChoicesConsented, ListsConsented, OnlyConsented, choices,
                          user, node

(* A step that does not touch the tracker lists nothing new. *)
LEMMA ListedStays ==
    ASSUME ConsentInv, consented \subseteq consented', UNCHANGED registryVars
    PROVE  \A b \in Blobs : Listed(b)' => b \in consented'
BY DEF ConsentInv, OnlyConsented, Listed, registryVars

LEMMA LoopConsent ==
    ASSUME SharingTypeOK, ConsentInv, LoopStep
    PROVE  ConsentInv'
<1>1. /\ UNCHANGED <<registryVars, choices, user, tasks>>
      /\ UNCHANGED consented
  BY DEF LoopStep, LoopPurge, LoopPass, LoopSeed, LoopReconcile, LoopAnnounce, user
<1>2. ChoicesConsented' /\ \A b \in Blobs : Listed(b)' => b \in consented'
  BY <1>1, ListedStays DEF ConsentInv, ChoicesConsented, choices, user
<1>3. ShareItems \subseteq consented
  BY ShareItemsConsented DEF ConsentInv
<1>4. /\ loop'.todo \cup loop'.current \cup loop'.announced \subseteq consented
      /\ store' \subseteq consented
  <2>0. /\ loop.todo \cup loop.current \cup loop.announced \subseteq consented
        /\ store \subseteq consented
    BY DEF ConsentInv, ListsConsented, OnlyConsented
  <2>1. CASE LoopPurge
    BY <2>0, <2>1 DEF LoopPurge, SharingTypeOK, node
  <2>2. CASE LoopPass
    BY <1>3, <2>0, <2>2 DEF LoopPass, SharingTypeOK, node
  <2>3. ASSUME NEW b \in Blobs, LoopSeed(b)
        PROVE  /\ loop'.todo \cup loop'.current \cup loop'.announced \subseteq consented
               /\ store' \subseteq consented
    BY <2>0, <2>3 DEF LoopSeed, SharingTypeOK
  <2>4. CASE LoopReconcile
    BY <2>0, <2>4 DEF LoopReconcile, SharingTypeOK
  <2>5. CASE LoopAnnounce
    BY <2>0, <2>5 DEF LoopAnnounce, SharingTypeOK, node
  <2> QED BY <2>1, <2>2, <2>3, <2>4, <2>5 DEF LoopStep
<1>5. \A req \in net' : req.kind = "announce" => req.blobs \subseteq consented
  <2>0. \A req \in net : req.kind = "announce" => req.blobs \subseteq consented
    BY DEF ConsentInv, OnlyConsented
  <2>1. CASE LoopPurge
    BY <2>0, <2>1 DEF LoopPurge, Send
  <2>2. CASE LoopReconcile
    BY <2>0, <2>2 DEF LoopReconcile, Send
  <2>3. CASE LoopAnnounce
    <3>1. loop.current \subseteq consented
      BY DEF ConsentInv, ListsConsented
    <3> QED BY <2>0, <2>3, <3>1 DEF LoopAnnounce, Send
  <2> QED BY <2>0, <2>1, <2>2, <2>3 DEF LoopStep, LoopPass, LoopSeed
<1> QED BY <1>1, <1>2, <1>4, <1>5 DEF ConsentInv, ListsConsented, OnlyConsented

LEMMA TaskConsent ==
    ASSUME SharingTypeOK, ConsentInv, TaskStep
    PROVE  ConsentInv'
<1>1. /\ UNCHANGED <<registryVars, choices, user, loop>>
      /\ UNCHANGED consented
  BY DEF TaskStep, TaskWithdraw, TaskUnseed, TaskRefresh, TaskAnnounce, TaskSeed, user
<1>2. ChoicesConsented' /\ \A b \in Blobs : Listed(b)' => b \in consented'
  BY <1>1, ListedStays DEF ConsentInv, ChoicesConsented, choices, user
<1>3. ShareItems \subseteq consented
  BY ShareItemsConsented DEF ConsentInv
<1>4. /\ tasks \subseteq TaskType(session) /\ store \subseteq consented
      /\ \A t \in tasks : t.done \subseteq consented /\ (t.kind = "seeding" => t.blobs \subseteq consented)
      /\ \A req \in net : req.kind = "announce" => req.blobs \subseteq consented
  BY DEF SharingTypeOK, TaskType, ConsentInv, ListsConsented, OnlyConsented
<1> DEFINE Goal == /\ store' \subseteq consented
                   /\ \A t \in tasks' : /\ t.done \subseteq consented
                                        /\ t.kind = "seeding" => t.blobs \subseteq consented
                   /\ \A req \in net' : req.kind = "announce" => req.blobs \subseteq consented
<1>5. ASSUME NEW t \in tasks, TaskWithdraw(t) PROVE Goal
  BY <1>4, <1>5 DEF TaskWithdraw, Send, node
<1>6. ASSUME NEW t \in tasks, TaskUnseed(t) PROVE Goal
  BY <1>4, <1>6 DEF TaskUnseed
<1>7. ASSUME NEW t \in tasks, TaskRefresh(t) PROVE Goal
  <2> DEFINE next == [t EXCEPT !.kind = "seeding", !.blobs = ShareItems]
  <2>1. next.done = t.done /\ next.blobs = ShareItems
    BY <1>4 DEF TaskType
  <2>2. tasks' = (tasks \ {t}) \cup {next} /\ store' = store /\ net' = net
    BY <1>7 DEF TaskRefresh, node
  <2> HIDE DEF next
  <2> QED BY <1>3, <1>4, <2>1, <2>2
<1>8. ASSUME NEW t \in tasks, TaskAnnounce(t) PROVE Goal
  BY <1>4, <1>8 DEF TaskAnnounce, Send, node
<1>9. ASSUME NEW t \in tasks, NEW b \in Blobs, TaskSeed(t, b) PROVE Goal
  <2> DEFINE ok == b \in cached /\ Attached(t)
             next == [t EXCEPT !.blobs = @ \ {b}, !.done = IF ok THEN @ \cup {b} ELSE @]
  <2>1. b \in consented /\ t.blobs \subseteq consented
    BY <1>4, <1>9 DEF TaskSeed
  <2>2. next.blobs = t.blobs \ {b} /\ next.done \subseteq t.done \cup {b}
    BY <1>4 DEF TaskType
  <2>3. /\ tasks' = (tasks \ {t}) \cup {next} /\ net' = net
        /\ store' \subseteq store \cup {b}
    BY <1>9 DEF TaskSeed
  <2> HIDE DEF next
  <2> QED BY <1>4, <2>1, <2>2, <2>3
<1>10. Goal
  BY <1>5, <1>6, <1>7, <1>8, <1>9 DEF TaskStep
<1>11. consented' = consented /\ loop' = loop
  BY <1>1
<1>12. ListsConsented'
  <2>1. \A t \in tasks' : /\ t.done \subseteq consented'
                          /\ t.kind = "seeding" => t.blobs \subseteq consented'
    BY <1>10, <1>11
  <2>2. loop'.todo \cup loop'.current \cup loop'.announced \subseteq consented'
    BY <1>11 DEF ConsentInv, ListsConsented
  <2> QED BY <2>1, <2>2 DEF ListsConsented
<1>13. OnlyConsented'
  <2>1. store' \subseteq consented'
    BY <1>10, <1>11
  <2>2. \A req \in net' : req.kind = "announce" => req.blobs \subseteq consented'
    BY <1>10, <1>11
  <2> QED BY <1>2, <2>1, <2>2 DEF OnlyConsented
<1> QED BY <1>2, <1>12, <1>13 DEF ConsentInv

(* The user's steps: the node's store does not grow, and tasks are spawned that
   carry no list yet. *)
LEMMA UserFrame ==
    ASSUME SharingTypeOK, ConsentInv, UserStep
    PROVE  /\ UNCHANGED registryVars
           /\ consented \subseteq consented'
           /\ store' \subseteq store
           /\ loop' = loop \/ (loop'.todo = {} /\ loop'.current = {} /\ loop'.announced = {})
           /\ \A req \in net' : req.kind = "announce" => req \in net
           /\ \A t \in tasks' : t \in tasks \/ (t.kind # "seeding" /\ t.done = {})
<1> DEFINE Frame ==
        /\ UNCHANGED registryVars
        /\ consented \subseteq consented'
        /\ store' \subseteq store
        /\ loop' = loop \/ (loop'.todo = {} /\ loop'.current = {} /\ loop'.announced = {})
        /\ \A req \in net' : req.kind = "announce" => req \in net
        /\ \A t \in tasks' : t \in tasks \/ (t.kind # "seeding" /\ t.done = {})
<1>0. {} \in SUBSET Blobs /\ confirmed \in SUBSET Blobs
  BY DEF SharingTypeOK
<1>1. ASSUME NEW b \in Blobs, ShareOn(b) PROVE Frame
  BY <1>0, <1>1, SpawnTypes DEF ShareOn, Op, node
<1>2. ASSUME NEW b \in Blobs, ShareOff(b) PROVE Frame
  <2>1. {b} \in SUBSET Blobs
    OBVIOUS
  <2>2. \A t \in tasks' : t \in tasks \/ (t.kind # "seeding" /\ t.done = {})
    BY <1>2, <2>1, SpawnTypes DEF ShareOff
  <2> QED BY <1>2, <2>2 DEF ShareOff, Op, node
<1>3. ASSUME NEW b \in Blobs, Delete(b) PROVE Frame
  <2>1. {b} \in SUBSET Blobs
    OBVIOUS
  <2>2. \A t \in tasks' : t \in tasks \/ (t.kind # "seeding" /\ t.done = {})
    BY <1>3, <2>1, SpawnTypes DEF Delete
  <2> QED BY <1>3, <2>2 DEF Delete, Op, node
<1>4. CASE ConfirmGatedShare
  BY <1>0, <1>4, SpawnTypes DEF ConfirmGatedShare, Op, node
<1>5. CASE CancelGatedShare
  BY <1>5 DEF CancelGatedShare, node
<1>6. ASSUME NEW on \in BOOLEAN, SetShareGated(on) PROVE Frame
  <2> DEFINE dropped == IF on THEN {} ELSE confirmed
  <2>1. dropped \in SUBSET Blobs
    BY <1>0
  <2>2. \A t \in tasks' : t \in tasks \/ (t.kind # "seeding" /\ t.done = {})
    BY <1>6, <2>1, SpawnTypes DEF SetShareGated
  <2> QED BY <1>6, <2>2 DEF SetShareGated, Op, node
<1>7. CASE StartWorldwide
  BY <1>7 DEF StartWorldwide, Op, NoLoop
<1>8. CASE StopWorldwide
  BY <1>0, <1>8, SpawnTypes DEF StopWorldwide, Stopped, Op, NoLoop
<1>9. CASE Quit
  BY <1>9 DEF Quit, Stopped, Send, NoLoop
<1> QED BY <1>1, <1>2, <1>3, <1>4, <1>5, <1>6, <1>7, <1>8, <1>9 DEF UserStep

LEMMA UserChoices ==
    ASSUME SharingTypeOK, ConsentInv, UserStep
    PROVE  ChoicesConsented'
<1>0. ChoicesConsented /\ class \in [Blobs -> {"open", "gated", "private"}]
      /\ override \in [Blobs -> {"none", "on", "off"}]
  BY DEF ConsentInv, SharingTypeOK
<1>1. ASSUME NEW b \in Blobs, ShareOn(b) PROVE ChoicesConsented'
  BY <1>0, <1>1 DEF ShareOn, ChoicesConsented, choices
<1>2. ASSUME NEW b \in Blobs, ShareOff(b) PROVE ChoicesConsented'
  BY <1>0, <1>2 DEF ShareOff, ChoicesConsented
<1>3. ASSUME NEW b \in Blobs, Delete(b) PROVE ChoicesConsented'
  BY <1>0, <1>3 DEF Delete, ChoicesConsented
<1>4. CASE ConfirmGatedShare
  BY <1>0, <1>4 DEF ConfirmGatedShare, ChoicesConsented
<1>5. CASE CancelGatedShare
  BY <1>0, <1>5 DEF CancelGatedShare, ChoicesConsented, choices
<1>6. ASSUME NEW on \in BOOLEAN, SetShareGated(on) PROVE ChoicesConsented'
  BY <1>0, <1>6 DEF SetShareGated, ChoicesConsented
<1>7. CASE StartWorldwide \/ StopWorldwide \/ Quit
  BY <1>0, <1>7 DEF StartWorldwide, StopWorldwide, Quit, ChoicesConsented, choices
<1> QED BY <1>1, <1>2, <1>3, <1>4, <1>5, <1>6, <1>7 DEF UserStep

LEMMA ConsentStep ==
    ASSUME SharingTypeOK, ConsentInv, [SharingNext]_sharingVars
    PROVE  ConsentInv'
<1>1. CASE UserStep
  <2>1. \A b \in Blobs : Listed(b)' => b \in consented'
    BY <1>1, UserFrame, ListedStays
  <2>2. ChoicesConsented'
    BY <1>1, UserChoices
  <2>3. ListsConsented' /\ OnlyConsented'
    BY <1>1, <2>1, UserFrame DEF ConsentInv, ListsConsented, OnlyConsented
  <2> QED BY <2>2, <2>3 DEF ConsentInv
<1>2. ASSUME NEW req \in net, Lose(req) PROVE ConsentInv'
  <2>1. UNCHANGED <<registryVars, choices, user, node, loop, tasks>> /\ net' \subseteq net
    BY <1>2 DEF Lose
  <2>2. \A b \in Blobs : Listed(b)' => b \in consented'
    BY <2>1, ListedStays DEF user
  <2> QED BY <2>1, <2>2 DEF ConsentInv, ChoicesConsented, ListsConsented, OnlyConsented, choices,
                            user, node
<1>3. CASE Elapses
  <2>1. UNCHANGED <<choices, user, node, tasks>> /\ Tick
    BY <1>3 DEF Elapses
  <2>2. \A b \in Blobs : Listed(b)' => b \in consented'
    <3> SUFFICES ASSUME NEW b \in Blobs, Listed(b)' PROVE b \in consented'
      OBVIOUS
    <3>1. claim'[Me][b] > 0
      BY DEF Listed
    <3>2. Listed(b)
      BY <2>1, <3>1, ListedOnlyByAnnounce
    <3> QED BY <2>1, <3>2 DEF ConsentInv, OnlyConsented, user
  <2>3. /\ loop'.todo = loop.todo /\ loop'.current = loop.current /\ loop'.announced = loop.announced
    BY <1>3 DEF Elapses, SharingTypeOK
  <2>4. \A req \in net' : \E old \in net : req.kind = old.kind /\ req.blobs = old.blobs
    BY <1>3 DEF Elapses, SharingTypeOK
  <2> QED BY <2>1, <2>2, <2>3, <2>4 DEF ConsentInv, ChoicesConsented, ListsConsented, OnlyConsented,
                                        choices, user, node
<1>4. CASE UNCHANGED sharingVars
  <2>1. \A b \in Blobs : Listed(b)' => b \in consented'
    BY <1>4, ListedStays DEF sharingVars, user
  <2> QED BY <1>4, <2>1 DEF ConsentInv, ChoicesConsented, ListsConsented, OnlyConsented, sharingVars,
                            choices, user, node
<1> QED BY <1>1, <1>2, <1>3, <1>4, LoopConsent, TaskConsent, DeliverConsent DEF SharingNext

-----------------------------------------------------------------------------
LEMMA SharingStart ==
    ASSUME SharingInit
    PROVE  SharingTypeOK /\ LookupInv /\ ConsentInv
<1>1. LookupInv
  BY EmptyTracker DEF SharingInit
<1>2. SharingTypeOK
  <2>1. /\ RegistryTypeOK
        /\ class \in [Blobs -> {"open", "gated", "private"}]
        /\ cached \subseteq Blobs /\ confirmed \subseteq Blobs /\ dialog \subseteq Blobs
        /\ store \subseteq Blobs /\ seeded \subseteq Blobs
    BY <1>1 DEF SharingInit, LookupInv
  <2>2. shareGated \in BOOLEAN
    BY DEF SharingInit
  <2>3. override \in [Blobs -> {"none", "on", "off"}]
    BY DEF SharingInit
  <2>4. /\ loop \in [pc : {"off", "purge", "pass", "seed", "announce", "sleep"},
                     todo : SUBSET Blobs, current : SUBSET Blobs, announced : SUBSET Blobs]
        /\ loop.pc = "off"
    BY DEF SharingInit, NoLoop
  <2>5. /\ running = FALSE /\ session \in Nat /\ tasks = {} /\ net = {} /\ seeded = {}
        /\ ops \in 0 .. MaxOps /\ faults \in 0 .. MaxFaults
    BY SharingAssumption DEF SharingInit, SharingAssumption
  <2> QED BY <2>1, <2>2, <2>3, <2>4, <2>5 DEF SharingTypeOK
<1>3. \A b \in Blobs : ~Listed(b)
  BY SharingAssumption DEF SharingInit, RegistryInit, Listed, SharingAssumption
<1>4. ConsentInv
  BY <1>3 DEF SharingInit, NoLoop, ConsentInv, ChoicesConsented, ListsConsented, OnlyConsented
<1> QED BY <1>1, <1>2, <1>4

(* Whatever the user decides, the loop and the tasks carry along, the network
   loses, delays and delivers: nothing is in the node's store, announced or
   listed that neither the licence nor the user ever let out. *)
THEOREM SharingOnlyConsented == SharingSpec => []SharingInv
<1> DEFINE Inv == SharingTypeOK /\ LookupInv /\ ConsentInv
<1>1. SharingInit => Inv
  BY SharingStart
<1>2. Inv /\ [SharingNext]_sharingVars => Inv'
  BY TypeStep, TrackerStep, ConsentStep
<1>3. Inv => SharingInv
  BY DEF SharingInv, ConsentInv
<1> HIDE DEF Inv
<1> QED BY <1>1, <1>2, <1>3, PTL DEF SharingSpec
-----------------------------------------------------------------------------
(* The striped fetch. *)

FetchType ==
    [phase : Phases, queue : Seq(Pieces \X Nat), left : 0 .. NumPieces, fatal : BOOLEAN,
     limit : Nat, journaling : BOOLEAN, cancel : {"no", "pause", "stop"}, file : Nat]
PeerType == [st : {"out", "dialing", "up"}, fails : Nat]
LaneType == [st : {"gone", "idle", "busy", "append"}, piece : 0 .. NumPieces, tries : Nat,
             file : Nat, cut : BOOLEAN]

Shape ==
    /\ disk \in Seq(FileType) /\ path \in 0 .. Len(disk)
    /\ journal \in JournalType
    /\ fetch \in [Fetches -> FetchType]
    /\ peer \in [Fetches -> [Providers -> PeerType]]
    /\ lane \in [Fetches -> [Providers -> [Lanes -> LaneType]]]
    /\ cleanup \in [Fetches -> {"none", "file", "journal"}]

(* Whatever names a file names one that was created. *)
Named ==
    \A f \in Fetches :
        /\ fetch[f].file <= Len(disk)
        /\ \A p \in Providers, l \in Lanes : lane[f][p][l].file <= Len(disk)

(* The invariants of one fetch, as statements about its locals fe, its peers
   pe and its lanes la. *)
LaneMap == [Providers -> [Lanes -> LaneType]]
PeerMap == [Providers -> PeerType]
Busy(la) == {x \in Providers \X Lanes : la[x[1]][x[2]].st = "busy"}

(* Lanes work for a peer that is up, in a fetch that stripes; a line that is
   being written may outlive both, but no new fetch starts before it ended. *)
Swarm(fe, pe, la) ==
    \A p \in Providers :
        /\ fe.phase # "stripe" => pe[p].st = "out"
        /\ \A l \in Lanes :
            /\ pe[p].st # "up" => la[p][l].st \in {"gone", "append"}
            /\ \/ fe.phase \in {"load", "create", "header"}
               \/ fe.phase = "stripe" /\ pe[p].st # "up"
               => la[p][l].st = "gone"

(* The attempts of a piece stay within the limit, wherever it is. *)
Tried(fe, la) ==
    /\ \A i \in 1 .. Len(fe.queue) : fe.queue[i][2] <= fe.limit
    /\ \A p \in Providers, l \in Lanes :
        /\ la[p][l].st \in {"busy", "append"} => la[p][l].piece \in Pieces
        /\ la[p][l].st = "busy" => la[p][l].tries <= fe.limit
        /\ la[p][l].st # "busy" => la[p][l].tries = 0

(* A peer out of its budget takes no more pieces: what it can still fail are
   the pieces its lanes hold. *)
BusyOf(la, p) == {l \in Lanes : la[p][l].st = "busy"}
Budget(pe, la) ==
    \A p \in Providers :
        pe[p].fails + Cardinality(BusyOf(la, p)) <= FailBudget + Cardinality(Lanes)

(* Every piece is in one place at most, and the count of pieces left is that
   of the places, more only when a piece was given up. *)
Places(fe, la) ==
    /\ \A i, j \in 1 .. Len(fe.queue) : fe.queue[i][1] = fe.queue[j][1] => i = j
    /\ \A x, y \in Busy(la) : la[x[1]][x[2]].piece = la[y[1]][y[2]].piece => x = y
    /\ \A i \in 1 .. Len(fe.queue), x \in Busy(la) :
          fe.queue[i][1] # la[x[1]][x[2]].piece
Counted(fe, la) ==
    IF fe.fatal THEN fe.left > Len(fe.queue) + Cardinality(Busy(la))
                ELSE fe.left = Len(fe.queue) + Cardinality(Busy(la))
Accounted(fe, la) ==
    /\ fe.phase = "stripe" => Places(fe, la) /\ Counted(fe, la)
    /\ fe.fatal => fe.phase = "stripe"

Sound(fe, pe, la) ==
    Swarm(fe, pe, la) /\ Tried(fe, la) /\ Budget(pe, la) /\ Accounted(fe, la)

(* The invariant of the accounting of pieces. *)
PiecesInv ==
    Shape /\ Named /\ \A f \in Fetches : Sound(fetch[f], peer[f], lane[f])

----------------------------------------------------------------------------
(* The invariants of the scratch file, for the fetch f that uses it. *)

(* A line of the journal names a piece that is in the file. *)
LinesHeld(f) ==
    path # 0 /\ disk[path].full /\ fetch[f].phase # "header"
        => journal.lines \subseteq disk[path].right

(* So does a line that is about to be written. *)
AppendsHeld(f) ==
    \A p \in Providers, l \in Lanes :
        lane[f][p][l].st = "append" /\ path # 0 => lane[f][p][l].piece \in disk[path].right

(* The lanes of a swarm write to the scratch file, as long as it is there, and
   nothing has truncated it under them. *)
Works(f, p, l) ==
    lane[f][p][l].st \in {"idle", "busy"} \/ (lane[f][p][l].st = "append" /\ fetch[f].phase = "stripe")
LanesWrite(f) ==
    \A p \in Providers, l \in Lanes :
        /\ Works(f, p, l) => lane[f][p][l].file # 0 /\ path \in {0, lane[f][p][l].file}
        /\ lane[f][p][l].st = "busy" => ~lane[f][p][l].cut

(* Unless a piece was given up, what is not in the file is still to come. *)
Coming(f, x) ==
    \/ \E i \in 1 .. Len(fetch[f].queue) : fetch[f].queue[i][1] = x
    \/ \E p \in Providers, l \in Lanes : lane[f][p][l].st = "busy" /\ lane[f][p][l].piece = x
Covered(f) ==
    fetch[f].phase = "stripe" /\ ~fetch[f].fatal /\ path # 0 =>
        \A x \in Pieces : x \in disk[path].right \/ Coming(f, x)

(* What is streamed is the whole blob. *)
Whole(f) ==
    fetch[f].phase = "stream" => fetch[f].file # 0 /\ disk[fetch[f].file].right = Pieces

(* The invariant of the scratch file. *)
FileInv(f) == LinesHeld(f) /\ AppendsHeld(f) /\ LanesWrite(f) /\ Covered(f) /\ Whole(f)

----------------------------------------------------------------------------
(* The operators *)

LEMMA StripedConstants ==
    /\ NumPieces \in Nat /\ NumPieces > 0
    /\ BaseAttempts \in Nat /\ FailBudget \in Nat /\ MaxPeers \in Nat
    /\ IsFiniteSet(Providers) /\ IsFiniteSet(Lanes) /\ Cardinality(Lanes) \in Nat
    /\ IsFiniteSet(Pieces) /\ Cardinality(Pieces) = NumPieces
    /\ CrashPoints \subseteq Phases
<1>1. NumPieces \in Nat /\ NumPieces > 0 /\ IsFiniteSet(Lanes)
  BY StripedFetchAssumption DEF StripedFetchAssumption
<1>2. IsFiniteSet(1 .. NumPieces) /\ Cardinality(1 .. NumPieces) = NumPieces
  BY <1>1, FS_Interval
<1>3. Cardinality(Lanes) \in Nat
  BY <1>1, FS_CardinalityType
<1> QED BY <1>1, <1>2, <1>3, StripedFetchAssumption DEF StripedFetchAssumption, Pieces

(* The pieces of a set in order: each of them once. *)
LEMMA InOrderEnumerates ==
    ASSUME NEW S \in SUBSET Pieces
    PROVE  /\ Cardinality(S) \in 0 .. NumPieces
           /\ InOrder(S) \in [1 .. Cardinality(S) -> S]
           /\ \A i, j \in 1 .. Cardinality(S) : InOrder(S)[i] = InOrder(S)[j] => i = j
           /\ \A x \in S : \E i \in 1 .. Cardinality(S) : InOrder(S)[i] = x
<1> DEFINE n == Cardinality(S)
           Upto(x) == {y \in S : y <= x}
           rank == [x \in S |-> Cardinality(Upto(x))]
<1>1. IsFiniteSet(S) /\ n \in Nat /\ n <= NumPieces
  BY StripedConstants, FS_Subset, FS_CardinalityType
<1>2. \A x \in S : IsFiniteSet(Upto(x)) /\ Cardinality(Upto(x)) \in 1 .. n
  <2> SUFFICES ASSUME NEW x \in S PROVE IsFiniteSet(Upto(x)) /\ Cardinality(Upto(x)) \in 1 .. n
    OBVIOUS
  <2>1. Upto(x) \in SUBSET S /\ x \in Upto(x)
    BY StripedConstants DEF Pieces
  <2> HIDE DEF Upto
  <2>2. IsFiniteSet(Upto(x)) /\ Cardinality(Upto(x)) <= n /\ Cardinality(Upto(x)) \in Nat
    BY <1>1, <2>1, FS_Subset, FS_CardinalityType
  <2>3. Cardinality(Upto(x)) # 0
    BY <2>1, <2>2, FS_EmptySet
  <2> QED BY <1>1, <2>2, <2>3
<1>3. rank \in [S -> 1 .. n]
  BY <1>2
<1>4. \A x, y \in S : x < y => rank[x] < rank[y]
  <2> SUFFICES ASSUME NEW x \in S, NEW y \in S, x < y PROVE rank[x] < rank[y]
    OBVIOUS
  <2>1. x \in Nat /\ y \in Nat /\ \A z \in S : z \in Nat
    BY StripedConstants DEF Pieces
  <2>2. Upto(x) \in SUBSET Upto(y) /\ y \in Upto(y) /\ y \notin Upto(x)
    <3>1. ASSUME NEW z \in Upto(x) PROVE z \in Upto(y)
      <4>1. z \in S /\ z \in Nat /\ z <= x
        BY <2>1, <3>1
      <4> QED BY <2>1, <4>1
    <3>2. y \in Upto(y) /\ y \notin Upto(x)
      BY <2>1
    <3> HIDE DEF Upto
    <3> QED BY <3>1, <3>2
  <2>3. IsFiniteSet(Upto(y)) /\ rank[x] = Cardinality(Upto(x)) /\ rank[y] = Cardinality(Upto(y))
    BY <1>2
  <2>4. Upto(x) # Upto(y)
    BY <2>2
  <2>5. Cardinality(Upto(x)) \in Nat /\ Cardinality(Upto(y)) \in Nat
    BY <1>1, <1>2
  <2> HIDE DEF Upto, rank
  <2>6. Cardinality(Upto(x)) <= Cardinality(Upto(y)) /\ Cardinality(Upto(y)) # Cardinality(Upto(x))
    BY <2>2, <2>3, <2>4, FS_Subset
  <2> QED BY <2>3, <2>5, <2>6
<1>5. \A x, y \in S : rank[x] = rank[y] => x = y
  <2> SUFFICES ASSUME NEW x \in S, NEW y \in S, rank[x] = rank[y] PROVE x = y
    OBVIOUS
  <2>1. x \in Nat /\ y \in Nat /\ rank[x] \in Nat /\ rank[y] \in Nat
    BY <1>1, <1>3, StripedConstants DEF Pieces
  <2>2. ~(x < y) /\ ~(y < x)
    BY <1>4, <2>1
  <2> QED BY <2>1, <2>2
<1> HIDE DEF rank
<1>6. \A i \in 1 .. n : \E x \in S : rank[x] = i
  <2>1. rank \in Injection(S, 1 .. n)
    BY <1>3, <1>5 DEF Injection, IsInjective
  <2>2. IsFiniteSet(1 .. n) /\ Cardinality(1 .. n) = n
    BY <1>1, FS_Interval
  <2>3. rank \in Surjection(S, 1 .. n)
    BY <2>1, <2>2, FS_Injection
  <2> QED BY <2>3 DEF Surjection
<1>7. \A i \in 1 .. n : /\ InOrder(S)[i] = CHOOSE x \in S : rank[x] = i
                        /\ InOrder(S)[i] \in S /\ rank[InOrder(S)[i]] = i
  <2> SUFFICES ASSUME NEW i \in 1 .. n
               PROVE  /\ InOrder(S)[i] = CHOOSE x \in S : rank[x] = i
                      /\ InOrder(S)[i] \in S /\ rank[InOrder(S)[i]] = i
    OBVIOUS
  <2>1. \A x \in S : rank[x] = Cardinality({y \in S : y <= x})
    BY DEF rank
  <2>2. InOrder(S)[i] = CHOOSE x \in S : Cardinality({y \in S : y <= x}) = i
    BY DEF InOrder
  <2>3. (CHOOSE x \in S : Cardinality({y \in S : y <= x}) = i) = CHOOSE x \in S : rank[x] = i
    BY <2>1
  <2>4. \E x \in S : rank[x] = i
    BY <1>6
  <2> QED BY <2>2, <2>3, <2>4
<1>8. InOrder(S) \in [1 .. n -> S]
  <2>1. DOMAIN InOrder(S) = 1 .. n /\ InOrder(S) = [i \in 1 .. n |-> InOrder(S)[i]]
    BY DEF InOrder
  <2> QED BY <1>7, <2>1
<1>9. \A x \in S : InOrder(S)[rank[x]] = x
  BY <1>3, <1>5, <1>7
<1> QED BY <1>1, <1>3, <1>7, <1>8, <1>9, StripedConstants

----------------------------------------------------------------------------
(* The lanes of one fetch *)

LEMMA BusyFinite ==
    ASSUME NEW la
    PROVE  /\ IsFiniteSet(Busy(la)) /\ Cardinality(Busy(la)) \in Nat
           /\ \A p \in Providers : /\ IsFiniteSet(BusyOf(la, p)) /\ Cardinality(BusyOf(la, p)) \in Nat
                                   /\ Cardinality(BusyOf(la, p)) <= Cardinality(Lanes)
<1>1. IsFiniteSet(Providers \X Lanes)
  BY StripedConstants, FS_Product
<1>2. Busy(la) \in SUBSET (Providers \X Lanes)
  BY DEF Busy
<1>3. IsFiniteSet(Busy(la)) /\ Cardinality(Busy(la)) \in Nat
  BY <1>1, <1>2, FS_Subset, FS_CardinalityType
<1>4. ASSUME NEW p \in Providers
      PROVE  /\ IsFiniteSet(BusyOf(la, p)) /\ Cardinality(BusyOf(la, p)) \in Nat
             /\ Cardinality(BusyOf(la, p)) <= Cardinality(Lanes)
  <2>1. BusyOf(la, p) \in SUBSET Lanes
    BY DEF BusyOf
  <2> QED BY <2>1, StripedConstants, FS_Subset, FS_CardinalityType
<1> QED BY <1>3, <1>4

(* lb is la but for lane l of peer p. *)
OneLane(la, lb, p, l) ==
    \A q \in Providers, m \in Lanes : q # p \/ m # l => lb[q][m] = la[q][m]

(* Which lanes are busy when one of them has changed. *)
LEMMA OtherLanes ==
    ASSUME NEW la, NEW lb, NEW p \in Providers, NEW l \in Lanes, OneLane(la, lb, p, l)
    PROVE  /\ \A x \in Providers \X Lanes : x # <<p, l>> => lb[x[1]][x[2]] = la[x[1]][x[2]]
           /\ \A q \in Providers : q # p => BusyOf(lb, q) = BusyOf(la, q)
<1>1. ASSUME NEW x \in Providers \X Lanes, x # <<p, l>>
      PROVE  lb[x[1]][x[2]] = la[x[1]][x[2]]
  <2>1. x[1] \in Providers /\ x[2] \in Lanes /\ (x[1] # p \/ x[2] # l)
    BY <1>1
  <2> QED BY <2>1 DEF OneLane
<1>2. \A q \in Providers : q # p => BusyOf(lb, q) = BusyOf(la, q)
  BY DEF BusyOf, OneLane
<1> QED BY <1>1, <1>2

LEMMA BusyStays ==
    ASSUME NEW la, NEW lb, NEW p \in Providers, NEW l \in Lanes, OneLane(la, lb, p, l),
           lb[p][l].st # "busy", la[p][l].st # "busy"
    PROVE  /\ Busy(lb) = Busy(la) /\ <<p, l>> \notin Busy(la)
           /\ \A q \in Providers : BusyOf(lb, q) = BusyOf(la, q)
<1>1. /\ \A x \in Providers \X Lanes : x # <<p, l>> => lb[x[1]][x[2]] = la[x[1]][x[2]]
      /\ \A q \in Providers : q # p => BusyOf(lb, q) = BusyOf(la, q)
  BY OtherLanes
<1>2. <<p, l>> \in Providers \X Lanes /\ <<p, l>>[1] = p /\ <<p, l>>[2] = l
  OBVIOUS
<1>3. Busy(lb) = Busy(la) /\ <<p, l>> \notin Busy(la)
  BY <1>1, <1>2 DEF Busy
<1>4. BusyOf(lb, p) = BusyOf(la, p)
  BY DEF BusyOf, OneLane
<1> QED BY <1>1, <1>3, <1>4

LEMMA BusyJoins ==
    ASSUME NEW la, NEW lb, NEW p \in Providers, NEW l \in Lanes, OneLane(la, lb, p, l),
           lb[p][l].st = "busy", la[p][l].st # "busy"
    PROVE  /\ Busy(lb) = Busy(la) \cup {<<p, l>>} /\ <<p, l>> \notin Busy(la)
           /\ Cardinality(Busy(lb)) = Cardinality(Busy(la)) + 1
<1>1. \A x \in Providers \X Lanes : x # <<p, l>> => lb[x[1]][x[2]] = la[x[1]][x[2]]
  BY OtherLanes
<1>2. <<p, l>> \in Providers \X Lanes /\ <<p, l>>[1] = p /\ <<p, l>>[2] = l
  OBVIOUS
<1>3. Busy(lb) = Busy(la) \cup {<<p, l>>} /\ <<p, l>> \notin Busy(la)
  BY <1>1, <1>2 DEF Busy
<1>4. Cardinality(Busy(la) \cup {<<p, l>>}) = Cardinality(Busy(la)) + 1
  BY <1>3, BusyFinite, FS_AddElement
<1> QED BY <1>3, <1>4

LEMMA BusyLeaves ==
    ASSUME NEW la, NEW lb, NEW p \in Providers, NEW l \in Lanes, OneLane(la, lb, p, l),
           lb[p][l].st # "busy", la[p][l].st = "busy"
    PROVE  /\ Busy(lb) = Busy(la) \ {<<p, l>>} /\ <<p, l>> \in Busy(la)
           /\ Cardinality(Busy(lb)) = Cardinality(Busy(la)) - 1
           /\ Cardinality(BusyOf(lb, p)) = Cardinality(BusyOf(la, p)) - 1
<1>1. \A x \in Providers \X Lanes : x # <<p, l>> => lb[x[1]][x[2]] = la[x[1]][x[2]]
  BY OtherLanes
<1>2. <<p, l>> \in Providers \X Lanes /\ <<p, l>>[1] = p /\ <<p, l>>[2] = l
  OBVIOUS
<1>3. Busy(lb) = Busy(la) \ {<<p, l>>} /\ <<p, l>> \in Busy(la)
  BY <1>1, <1>2 DEF Busy
<1>4. BusyOf(lb, p) = BusyOf(la, p) \ {l} /\ l \in BusyOf(la, p)
  BY DEF BusyOf, OneLane
<1>5. Cardinality(Busy(la) \ {<<p, l>>}) = Cardinality(Busy(la)) - 1
  BY <1>3, BusyFinite, FS_RemoveElement
<1>6. Cardinality(BusyOf(la, p) \ {l}) = Cardinality(BusyOf(la, p)) - 1
  BY <1>4, BusyFinite, FS_RemoveElement
<1> QED BY <1>3, <1>4, <1>5, <1>6

(* Lanes of which none is busy. *)
LEMMA NoneBusy ==
    ASSUME NEW la, \A p \in Providers, l \in Lanes : la[p][l].st # "busy"
    PROVE  Busy(la) = {} /\ Cardinality(Busy(la)) = 0
           /\ \A p \in Providers : BusyOf(la, p) = {} /\ Cardinality(BusyOf(la, p)) = 0
BY FS_EmptySet DEF Busy, BusyOf

(* A fetch that does not stripe holds no piece. *)
LEMMA SoundAtRest ==
    ASSUME NEW fe \in FetchType, NEW pe \in PeerMap, NEW la \in LaneMap,
           fe.phase # "stripe", ~fe.fatal,
           \/ fe.queue = <<>>
           \/ \A i \in 1 .. Len(fe.queue) : fe.queue[i][2] <= fe.limit,
           \A p \in Providers : pe[p].st = "out" /\ pe[p].fails <= FailBudget + Cardinality(Lanes),
           \A p \in Providers, l \in Lanes :
              /\ la[p][l].st \in {"gone", "append"} /\ la[p][l].tries = 0
              /\ la[p][l].st = "append" => la[p][l].piece \in Pieces
              /\ fe.phase \in {"load", "create", "header"} => la[p][l].st = "gone"
    PROVE  Sound(fe, pe, la)
<1>1. \A p \in Providers : Cardinality(BusyOf(la, p)) = 0
  BY NoneBusy
<1>2. Budget(pe, la)
  <2> SUFFICES ASSUME NEW p \in Providers
               PROVE pe[p].fails + Cardinality(BusyOf(la, p)) <= FailBudget + Cardinality(Lanes)
    BY DEF Budget
  <2> QED BY <1>1, StripedConstants DEF PeerMap, PeerType
<1>3. Swarm(fe, pe, la)
  BY DEF Swarm
<1>4. Tried(fe, la)
  BY DEF Tried
<1> QED BY <1>2, <1>3, <1>4 DEF Sound, Accounted

(* A fetch that nobody touches, but for its journal handle and truncated files. *)
LEMMA SoundUntouched ==
    ASSUME NEW fe \in FetchType, NEW pe \in PeerMap, NEW la \in LaneMap,
           NEW fb \in FetchType, NEW lb \in LaneMap, Sound(fe, pe, la),
           fb.phase = fe.phase, fb.queue = fe.queue, fb.left = fe.left, fb.fatal = fe.fatal,
           fb.limit = fe.limit,
           \A p \in Providers, l \in Lanes :
              /\ lb[p][l].st = la[p][l].st /\ lb[p][l].piece = la[p][l].piece
              /\ lb[p][l].tries = la[p][l].tries
    PROVE  Sound(fb, pe, lb) /\ Busy(lb) = Busy(la)
<1>1. Busy(lb) = Busy(la)
  BY DEF Busy
<1>2. \A p \in Providers : BusyOf(lb, p) = BusyOf(la, p)
  BY DEF BusyOf
<1>3. Swarm(fb, pe, lb)
  BY DEF Sound, Swarm
<1>4. Tried(fb, lb)
  BY DEF Sound, Tried
<1>5. Budget(pe, lb)
  BY <1>2 DEF Sound, Budget
<1>6. ASSUME NEW x \in Busy(la) PROVE lb[x[1]][x[2]].piece = la[x[1]][x[2]].piece
  BY <1>6 DEF Busy
<1>7. Accounted(fb, lb)
  BY <1>1, <1>6 DEF Sound, Accounted, Places, Counted
<1> QED BY <1>1, <1>3, <1>4, <1>5, <1>7 DEF Sound

(* A lane that is not busy before or after: it leaves, or ends its line. *)
LEMMA SoundLane ==
    ASSUME NEW fe \in FetchType, NEW pe \in PeerMap, NEW la \in LaneMap, Sound(fe, pe, la),
           NEW p \in Providers, NEW l \in Lanes, NEW lb \in LaneMap, OneLane(la, lb, p, l),
           la[p][l].st # "busy", lb[p][l].st \in {"gone", "idle"}, lb[p][l].tries = 0,
           lb[p][l].st = "idle" => fe.phase = "stripe" /\ la[p][l].st # "gone"
    PROVE  Sound(fe, pe, lb) /\ Busy(lb) = Busy(la)
<1>1. \A q \in Providers, m \in Lanes : q # p \/ m # l => lb[q][m] = la[q][m]
  BY DEF OneLane
<1>2. /\ Busy(lb) = Busy(la) /\ \A q \in Providers : BusyOf(lb, q) = BusyOf(la, q)
      /\ <<p, l>> \notin Busy(la)
      /\ \A x \in Providers \X Lanes : x # <<p, l>> => lb[x[1]][x[2]] = la[x[1]][x[2]]
  <2>1. lb[p][l].st # "busy"
    OBVIOUS
  <2>2. /\ Busy(lb) = Busy(la) /\ <<p, l>> \notin Busy(la)
        /\ \A q \in Providers : BusyOf(lb, q) = BusyOf(la, q)
    BY <2>1, BusyStays, Zenon
  <2>3. \A x \in Providers \X Lanes : x # <<p, l>> => lb[x[1]][x[2]] = la[x[1]][x[2]]
    BY OtherLanes
  <2> QED BY <2>2, <2>3
<1>3. Swarm(fe, pe, lb)
  BY <1>1 DEF Sound, Swarm
<1>4. Tried(fe, lb)
  BY <1>1 DEF Sound, Tried
<1>5. Budget(pe, lb)
  BY <1>2 DEF Sound, Budget
<1>6. \A x \in Busy(la) : lb[x[1]][x[2]].piece = la[x[1]][x[2]].piece
  BY <1>2 DEF Busy
<1>7. Accounted(fe, lb)
  BY <1>2, <1>6 DEF Sound, Accounted, Places, Counted
<1> QED BY <1>2, <1>3, <1>4, <1>5, <1>7 DEF Sound

(* A peer that changes while none of its lanes works. *)
LEMMA SoundPeer ==
    ASSUME NEW fe \in FetchType, NEW pe \in PeerMap, NEW la \in LaneMap, Sound(fe, pe, la),
           fe.phase = "stripe", NEW pb \in PeerMap,
           \A p \in Providers : \/ pb[p] = pe[p]
                                \/ /\ pb[p].st # "up" /\ pb[p].fails \in {0, pe[p].fails}
                                   /\ \A l \in Lanes : la[p][l].st = "gone"
    PROVE  Sound(fe, pb, la)
<1>1. Swarm(fe, pb, la)
  BY DEF Sound, Swarm
<1>2. ASSUME NEW p \in Providers
      PROVE  pb[p].fails + Cardinality(BusyOf(la, p)) <= FailBudget + Cardinality(Lanes)
  <2>1. pb[p].fails <= pe[p].fails /\ pb[p].fails \in Nat /\ pe[p].fails \in Nat
    BY DEF PeerMap, PeerType
  <2>2. pe[p].fails + Cardinality(BusyOf(la, p)) <= FailBudget + Cardinality(Lanes)
    BY DEF Sound, Budget
  <2>3. Cardinality(BusyOf(la, p)) \in Nat
    BY BusyFinite
  <2> QED BY <2>1, <2>2, <2>3, StripedConstants
<1> QED BY <1>1, <1>2 DEF Sound, Budget

(* A peer is connected: its lanes start, or end at once. *)
LEMMA SoundConnect ==
    ASSUME NEW fe \in FetchType, NEW pe \in PeerMap, NEW la \in LaneMap, Sound(fe, pe, la),
           NEW p \in Providers, pe[p].st = "dialing",
           NEW pb \in PeerMap, pb[p].st = "up", pb[p].fails = pe[p].fails,
           \A q \in Providers : q # p => pb[q] = pe[q],
           NEW lb \in LaneMap,
           \A q \in Providers : q # p => lb[q] = la[q],
           \A l \in Lanes : lb[p][l].st \in {"gone", "idle"} /\ lb[p][l].tries = 0
    PROVE  Sound(fe, pb, lb) /\ Busy(lb) = Busy(la)
<1>1. fe.phase = "stripe" /\ \A l \in Lanes : la[p][l].st = "gone"
  BY DEF Sound, Swarm
<1>2. /\ pb[p].st = "up" /\ pb[p].fails = pe[p].fails
      /\ \A q \in Providers : q # p => pb[q] = pe[q]
  OBVIOUS
<1>3. Busy(lb) = Busy(la) /\ \A q \in Providers : BusyOf(lb, q) = BusyOf(la, q)
  <2>1. Busy(lb) = Busy(la)
    <3>1. ASSUME NEW x \in Providers \X Lanes
          PROVE  lb[x[1]][x[2]].st = "busy" <=> la[x[1]][x[2]].st = "busy"
      <4>1. x[1] \in Providers /\ x[2] \in Lanes
        BY <3>1
      <4> QED BY <1>1, <4>1
    <3> QED BY <3>1 DEF Busy
  <2>2. \A q \in Providers : BusyOf(lb, q) = BusyOf(la, q)
    BY <1>1 DEF BusyOf
  <2> QED BY <2>1, <2>2
<1>4. Swarm(fe, pb, lb)
  BY <1>1, <1>2 DEF Sound, Swarm
<1>5. Tried(fe, lb)
  BY DEF Sound, Tried
<1>6. Budget(pb, lb)
  BY <1>2, <1>3 DEF Sound, Budget
<1>7. ASSUME NEW x \in Busy(la) PROVE lb[x[1]][x[2]].piece = la[x[1]][x[2]].piece
  <2>1. x[1] \in Providers /\ x[2] \in Lanes /\ la[x[1]][x[2]].st = "busy"
    BY <1>7 DEF Busy
  <2> QED BY <1>1, <2>1
<1>8. Accounted(fe, lb)
  BY <1>3, <1>7 DEF Sound, Accounted, Places, Counted
<1> QED BY <1>3, <1>4, <1>5, <1>6, <1>8 DEF Sound

(* A lane takes the head of the queue. *)
LEMMA SoundTake ==
    ASSUME NEW fe \in FetchType, NEW pe \in PeerMap, NEW la \in LaneMap, Sound(fe, pe, la),
           NEW p \in Providers, NEW l \in Lanes, NEW lb \in LaneMap, OneLane(la, lb, p, l),
           la[p][l].st = "idle", fe.queue # <<>>, pe[p].fails < FailBudget,
           lb[p][l].st = "busy", lb[p][l].piece = Head(fe.queue)[1],
           lb[p][l].tries = Head(fe.queue)[2],
           NEW fb, fb = [fe EXCEPT !.queue = Tail(fe.queue)]
    PROVE  /\ fb \in FetchType /\ Sound(fb, pe, lb)
           /\ Busy(lb) = Busy(la) \cup {<<p, l>>} /\ <<p, l>> \notin Busy(la)
<1>1. \A q \in Providers, m \in Lanes : q # p \/ m # l => lb[q][m] = la[q][m]
  BY DEF OneLane
<1>2. /\ Busy(lb) = Busy(la) \cup {<<p, l>>} /\ <<p, l>> \notin Busy(la)
      /\ Cardinality(Busy(lb)) = Cardinality(Busy(la)) + 1
      /\ \A q \in Providers : q # p => BusyOf(lb, q) = BusyOf(la, q)
      /\ \A x \in Providers \X Lanes : x # <<p, l>> => lb[x[1]][x[2]] = la[x[1]][x[2]]
  <2>1. la[p][l].st # "busy"
    OBVIOUS
  <2>2. /\ Busy(lb) = Busy(la) \cup {<<p, l>>} /\ <<p, l>> \notin Busy(la)
        /\ Cardinality(Busy(lb)) = Cardinality(Busy(la)) + 1
    BY <2>1, BusyJoins, Zenon
  <2>3. /\ \A q \in Providers : q # p => BusyOf(lb, q) = BusyOf(la, q)
        /\ \A x \in Providers \X Lanes : x # <<p, l>> => lb[x[1]][x[2]] = la[x[1]][x[2]]
    BY OtherLanes
  <2> QED BY <2>2, <2>3
<1>3. fe.phase = "stripe" /\ pe[p].st = "up"
  BY DEF Sound, Swarm
<1>4. /\ fe.queue \in Seq(Pieces \X Nat) /\ Len(fe.queue) \in Nat /\ Len(fe.queue) > 0
      /\ Head(fe.queue) = fe.queue[1] /\ Tail(fe.queue) \in Seq(Pieces \X Nat)
      /\ Len(Tail(fe.queue)) = Len(fe.queue) - 1
      /\ \A i \in 1 .. Len(Tail(fe.queue)) : Tail(fe.queue)[i] = fe.queue[i + 1]
      /\ Head(fe.queue) \in Pieces \X Nat
  BY HeadTailProperties, LenProperties, EmptySeq DEF FetchType
<1>5. /\ fb \in FetchType /\ fb.queue = Tail(fe.queue) /\ fb.phase = fe.phase /\ fb.left = fe.left
      /\ fb.fatal = fe.fatal /\ fb.limit = fe.limit
  BY <1>4 DEF FetchType
<1>6. Swarm(fb, pe, lb)
  BY <1>1, <1>3, <1>5 DEF Sound, Swarm
<1>7. Tried(fb, lb)
  <2>1. \A i \in 1 .. Len(fb.queue) : fb.queue[i][2] <= fb.limit
    <3> SUFFICES ASSUME NEW i \in 1 .. Len(Tail(fe.queue)) PROVE Tail(fe.queue)[i][2] <= fe.limit
      BY <1>5
    <3>1. i + 1 \in 1 .. Len(fe.queue)
      BY <1>4
    <3> QED BY <1>4, <3>1 DEF Sound, Tried
  <2>2. lb[p][l].piece \in Pieces /\ lb[p][l].tries <= fb.limit
    <3>1. 1 \in 1 .. Len(fe.queue)
      BY <1>4
    <3> QED BY <1>4, <1>5, <3>1 DEF Sound, Tried
  <2> QED BY <1>1, <1>5, <2>1, <2>2 DEF Sound, Tried
<1>8. Budget(pe, lb)
  <2> SUFFICES ASSUME NEW q \in Providers
               PROVE pe[q].fails + Cardinality(BusyOf(lb, q)) <= FailBudget + Cardinality(Lanes)
    BY DEF Budget
  <2>1. CASE q = p
    <3>1. pe[p].fails \in Nat
      BY DEF PeerMap, PeerType
    <3>2. Cardinality(BusyOf(lb, p)) \in Nat /\ Cardinality(BusyOf(lb, p)) <= Cardinality(Lanes)
      BY BusyFinite
    <3> QED BY <2>1, <3>1, <3>2, StripedConstants
  <2>2. CASE q # p
    BY <1>2, <2>2 DEF Sound, Budget
  <2> QED BY <2>1, <2>2
<1>9. Places(fe, la) /\ Counted(fe, la)
  BY <1>3 DEF Sound, Accounted
<1>10. ASSUME NEW x \in Busy(lb)
       PROVE  /\ x = <<p, l>> => lb[x[1]][x[2]].piece = fe.queue[1][1]
              /\ x # <<p, l>> => x \in Busy(la) /\ lb[x[1]][x[2]].piece = la[x[1]][x[2]].piece
  <2>1. x \in Providers \X Lanes
    BY <1>10 DEF Busy
  <2>2. CASE x = <<p, l>>
    BY <1>4, <2>2
  <2>3. CASE x # <<p, l>>
    BY <1>2, <1>10, <2>1, <2>3
  <2> QED BY <2>2, <2>3
<1>11. Places(fb, lb)
  <2>1. /\ 1 \in 1 .. Len(fe.queue) /\ Len(fe.queue) \in Nat
        /\ Len(fb.queue) = Len(fe.queue) - 1
        /\ \A i \in 1 .. Len(fb.queue) : fb.queue[i] = fe.queue[i + 1]
    BY <1>4, <1>5
  <2>2. ASSUME NEW i \in 1 .. Len(fb.queue), NEW j \in 1 .. Len(fb.queue),
               fb.queue[i][1] = fb.queue[j][1]
        PROVE  i = j
    <3>1. i + 1 \in 1 .. Len(fe.queue) /\ j + 1 \in 1 .. Len(fe.queue)
      BY <2>1
    <3>2. fe.queue[i + 1][1] = fe.queue[j + 1][1]
      BY <2>1, <2>2
    <3>3. i + 1 = j + 1
      BY <1>9, <3>1, <3>2 DEF Places
    <3> QED BY <3>3
  <2>3. ASSUME NEW x \in Busy(lb), NEW y \in Busy(lb),
               lb[x[1]][x[2]].piece = lb[y[1]][y[2]].piece
        PROVE  x = y
    BY <1>9, <1>10, <2>1, <2>3 DEF Places
  <2>4. ASSUME NEW i \in 1 .. Len(fb.queue), NEW x \in Busy(lb)
        PROVE  fb.queue[i][1] # lb[x[1]][x[2]].piece
    <3>1. i + 1 \in 1 .. Len(fe.queue) /\ i + 1 # 1 /\ fb.queue[i] = fe.queue[i + 1]
      BY <2>1
    <3>2. fe.queue[i + 1][1] # fe.queue[1][1]
      BY <1>9, <2>1, <3>1 DEF Places
    <3>3. CASE x = <<p, l>>
      <4>1. lb[x[1]][x[2]].piece = fe.queue[1][1]
        BY <1>10, <3>3
      <4> QED BY <3>1, <3>2, <4>1
    <3>4. CASE x # <<p, l>>
      <4>1. x \in Busy(la) /\ lb[x[1]][x[2]].piece = la[x[1]][x[2]].piece
        BY <1>10, <3>4
      <4>2. fe.queue[i + 1][1] # la[x[1]][x[2]].piece
        BY <1>9, <3>1, <4>1 DEF Places
      <4> QED BY <3>1, <4>1, <4>2
    <3> QED BY <3>3, <3>4
  <2> QED BY <2>2, <2>3, <2>4 DEF Places
<1>12. Counted(fb, lb)
  <2>1. Cardinality(Busy(la)) \in Nat
    BY BusyFinite
  <2>2. Len(fb.queue) + Cardinality(Busy(lb)) = Len(fe.queue) + Cardinality(Busy(la))
    BY <1>2, <1>4, <1>5, <2>1
  <2> QED BY <1>5, <1>9, <2>2 DEF Counted
<1> QED BY <1>2, <1>5, <1>6, <1>7, <1>8, <1>11, <1>12 DEF Sound, Accounted

(* A busy lane lets go of its piece, which is then nowhere else. *)
LEMMA LaneReleased ==
    ASSUME NEW fe \in FetchType, NEW pe \in PeerMap, NEW la \in LaneMap, Sound(fe, pe, la),
           NEW p \in Providers, NEW l \in Lanes, NEW lb \in LaneMap, OneLane(la, lb, p, l),
           la[p][l].st = "busy", lb[p][l].st \in {"idle", "append"}, lb[p][l].tries = 0,
           lb[p][l].st = "append" => lb[p][l].piece = la[p][l].piece,
           NEW pb \in PeerMap, pb[p].st = pe[p].st, pb[p].fails \in {0, pe[p].fails + 1},
           \A q \in Providers : q # p => pb[q] = pe[q]
    PROVE  /\ fe.phase = "stripe" /\ la[p][l].piece \in Pieces /\ la[p][l].tries <= fe.limit
           /\ Swarm(fe, pb, lb) /\ Tried(fe, lb) /\ Budget(pb, lb)
           /\ Places(fe, la) /\ Places(fe, lb) /\ Counted(fe, la)
           /\ \A i \in 1 .. Len(fe.queue) : fe.queue[i][1] # la[p][l].piece
           /\ \A x \in Busy(lb) : lb[x[1]][x[2]].piece # la[p][l].piece
           /\ Busy(lb) = Busy(la) \ {<<p, l>>}
           /\ Cardinality(Busy(la)) \in Nat /\ Cardinality(Busy(la)) > 0
           /\ Cardinality(Busy(lb)) = Cardinality(Busy(la)) - 1
<1>1. \A q \in Providers, m \in Lanes : q # p \/ m # l => lb[q][m] = la[q][m]
  BY DEF OneLane
<1>2. /\ Busy(lb) = Busy(la) \ {<<p, l>>} /\ <<p, l>> \in Busy(la)
      /\ Cardinality(Busy(lb)) = Cardinality(Busy(la)) - 1
      /\ Cardinality(BusyOf(lb, p)) = Cardinality(BusyOf(la, p)) - 1
  <2>1. lb[p][l].st # "busy"
    OBVIOUS
  <2> QED BY <2>1, BusyLeaves, Zenon
<1>3. /\ \A q \in Providers : q # p => BusyOf(lb, q) = BusyOf(la, q)
      /\ \A x \in Providers \X Lanes : x # <<p, l>> => lb[x[1]][x[2]] = la[x[1]][x[2]]
  BY OtherLanes
<1>4. fe.phase = "stripe" /\ pe[p].st = "up" /\ Places(fe, la) /\ Counted(fe, la)
  <2>1. fe.phase = "stripe" /\ pe[p].st = "up"
    BY DEF Sound, Swarm
  <2> QED BY <2>1 DEF Sound, Accounted
<1>5. la[p][l].piece \in Pieces /\ la[p][l].tries <= fe.limit
  BY DEF Sound, Tried
<1>6. Swarm(fe, pb, lb)
  BY <1>1, <1>4 DEF Sound, Swarm
<1>7. Tried(fe, lb)
  BY <1>1, <1>5 DEF Sound, Tried
<1>8. Budget(pb, lb)
  <2> SUFFICES ASSUME NEW q \in Providers
               PROVE pb[q].fails + Cardinality(BusyOf(lb, q)) <= FailBudget + Cardinality(Lanes)
    BY DEF Budget
  <2>1. CASE q = p
    <3>1. pe[p].fails \in Nat
      BY DEF PeerMap, PeerType
    <3>2. Cardinality(BusyOf(la, p)) \in Nat
      BY BusyFinite
    <3>3. pe[p].fails + Cardinality(BusyOf(la, p)) <= FailBudget + Cardinality(Lanes)
      BY DEF Sound, Budget
    <3> QED BY <1>2, <2>1, <3>1, <3>2, <3>3, StripedConstants
  <2>2. CASE q # p
    BY <1>3, <2>2 DEF Sound, Budget
  <2> QED BY <2>1, <2>2
<1>9. ASSUME NEW x \in Busy(lb)
      PROVE  /\ x \in Busy(la) /\ x # <<p, l>>
             /\ lb[x[1]][x[2]].piece = la[x[1]][x[2]].piece
             /\ lb[x[1]][x[2]].piece # la[p][l].piece
  <2>1. x \in Busy(la) /\ x # <<p, l>> /\ x \in Providers \X Lanes
    BY <1>2, <1>9 DEF Busy
  <2>2. lb[x[1]][x[2]] = la[x[1]][x[2]]
    BY <1>3, <2>1
  <2>3. <<p, l>>[1] = p /\ <<p, l>>[2] = l
    OBVIOUS
  <2>4. la[x[1]][x[2]].piece # la[p][l].piece
    BY <1>2, <1>4, <2>1, <2>3 DEF Places
  <2> QED BY <2>1, <2>2, <2>4
<1>10. \A i \in 1 .. Len(fe.queue) : fe.queue[i][1] # la[p][l].piece
  <2>1. <<p, l>>[1] = p /\ <<p, l>>[2] = l
    OBVIOUS
  <2> QED BY <1>2, <1>4, <2>1 DEF Places
<1>11. Places(fe, lb)
  BY <1>4, <1>9 DEF Places
<1>12. Cardinality(Busy(la)) \in Nat /\ Cardinality(Busy(la)) > 0
  <2>1. Busy(la) # {} /\ IsFiniteSet(Busy(la)) /\ Cardinality(Busy(la)) \in Nat
    BY <1>2, BusyFinite
  <2>2. Cardinality(Busy(la)) # 0
    BY <2>1, FS_EmptySet
  <2> QED BY <2>1, <2>2
<1> QED BY <1>2, <1>4, <1>5, <1>6, <1>7, <1>8, <1>9, <1>10, <1>11, <1>12

(* The piece has come: one less is left. *)
LEMMA SoundReceived ==
    ASSUME NEW fe \in FetchType, NEW pe \in PeerMap, NEW la \in LaneMap, Sound(fe, pe, la),
           NEW p \in Providers, NEW l \in Lanes, NEW lb \in LaneMap, OneLane(la, lb, p, l),
           la[p][l].st = "busy", lb[p][l].st = "append", lb[p][l].tries = 0,
           lb[p][l].piece = la[p][l].piece,
           NEW pb \in PeerMap, pb[p].st = pe[p].st, pb[p].fails = 0,
           \A q \in Providers : q # p => pb[q] = pe[q],
           NEW fb, fb = [fe EXCEPT !.left = fe.left - 1]
    PROVE  fb \in FetchType /\ Sound(fb, pb, lb)
<1>1. /\ fe.phase = "stripe" /\ Swarm(fe, pb, lb) /\ Tried(fe, lb) /\ Budget(pb, lb)
      /\ Places(fe, lb) /\ Counted(fe, la)
      /\ Cardinality(Busy(la)) \in Nat /\ Cardinality(Busy(la)) > 0
      /\ Cardinality(Busy(lb)) = Cardinality(Busy(la)) - 1
  <2>1. lb[p][l].st \in {"idle", "append"} /\ pb[p].fails \in {0, pe[p].fails + 1}
    OBVIOUS
  <2> QED BY <2>1, LaneReleased
<1>2. /\ fe.queue \in Seq(Pieces \X Nat) /\ fe.left \in 0 .. NumPieces /\ Len(fe.queue) \in Nat
      /\ fe.fatal \in BOOLEAN
  BY LenProperties DEF FetchType
<1>3. fe.left - 1 \in 0 .. NumPieces
  BY <1>1, <1>2, StripedConstants DEF Counted
<1>4. /\ fb \in FetchType /\ fb.queue = fe.queue /\ fb.phase = fe.phase /\ fb.left = fe.left - 1
      /\ fb.fatal = fe.fatal /\ fb.limit = fe.limit
  BY <1>3 DEF FetchType
<1>5. Swarm(fb, pb, lb) /\ Tried(fb, lb) /\ Places(fb, lb)
  BY <1>1, <1>4 DEF Swarm, Tried, Places
<1>6. Counted(fb, lb)
  BY <1>1, <1>2, <1>4, StripedConstants DEF Counted
<1> QED BY <1>1, <1>4, <1>5, <1>6 DEF Sound, Accounted

LEMMA PlacesSame ==
    ASSUME NEW fe, NEW fb, NEW la, fb.queue = fe.queue, Places(fe, la)
    PROVE  Places(fb, la)
BY DEF Places

(* The lane has failed: its piece goes to the end of the queue, or is given
   up. *)
LEMMA SoundFails ==
    ASSUME NEW fe \in FetchType, NEW pe \in PeerMap, NEW la \in LaneMap, Sound(fe, pe, la),
           NEW p \in Providers, NEW l \in Lanes, NEW lb \in LaneMap, OneLane(la, lb, p, l),
           la[p][l].st = "busy", lb[p][l].st = "idle", lb[p][l].tries = 0,
           NEW pb \in PeerMap, pb[p].st = pe[p].st, pb[p].fails = pe[p].fails + 1,
           \A q \in Providers : q # p => pb[q] = pe[q],
           NEW num, num = la[p][l].piece, NEW n, n = la[p][l].tries + 1,
           NEW fb, fb = Requeue(fe, num, n)
    PROVE  /\ fb \in FetchType /\ Sound(fb, pb, lb)
           /\ fb.phase = fe.phase /\ fb.file = fe.file /\ fb.cancel = fe.cancel
           /\ fb.journaling = fe.journaling
           /\ ~fb.fatal => /\ ~fe.fatal /\ Len(fb.queue) = Len(fe.queue) + 1
                           /\ fb.queue[Len(fb.queue)][1] = num
                           /\ \A i \in 1 .. Len(fe.queue) : fb.queue[i] = fe.queue[i]
<1>1. /\ fe.phase = "stripe" /\ num \in Pieces /\ la[p][l].tries <= fe.limit
      /\ Swarm(fe, pb, lb) /\ Tried(fe, lb) /\ Budget(pb, lb)
      /\ Places(fe, lb) /\ Counted(fe, la)
      /\ \A i \in 1 .. Len(fe.queue) : fe.queue[i][1] # num
      /\ \A x \in Busy(lb) : lb[x[1]][x[2]].piece # num
      /\ Cardinality(Busy(la)) \in Nat /\ Cardinality(Busy(la)) > 0
      /\ Cardinality(Busy(lb)) = Cardinality(Busy(la)) - 1
  <2>1. /\ lb[p][l].st \in {"idle", "append"} /\ pb[p].fails \in {0, pe[p].fails + 1}
        /\ lb[p][l].st # "append"
    OBVIOUS
  <2> QED BY <2>1, LaneReleased
<1>2. /\ fe.queue \in Seq(Pieces \X Nat) /\ fe.left \in 0 .. NumPieces /\ Len(fe.queue) \in Nat
      /\ fe.fatal \in BOOLEAN /\ fe.limit \in Nat
  BY LenProperties DEF FetchType
<1>3. n \in Nat
  BY DEF LaneMap, LaneType
<1>4. fb = IF n >= fe.limit THEN [fe EXCEPT !.fatal = TRUE]
                            ELSE [fe EXCEPT !.queue = Append(@, <<num, n>>)]
  BY DEF Requeue
<1>5. CASE n >= fe.limit
  <2>1. /\ fb \in FetchType /\ fb.queue = fe.queue /\ fb.phase = fe.phase /\ fb.left = fe.left
        /\ fb.fatal = TRUE /\ fb.limit = fe.limit /\ fb.file = fe.file /\ fb.cancel = fe.cancel
        /\ fb.journaling = fe.journaling
    BY <1>4, <1>5 DEF FetchType
  <2>2. Swarm(fb, pb, lb) /\ Tried(fb, lb) /\ Places(fb, lb)
    <3>1. Swarm(fb, pb, lb)
      BY <1>1, <2>1 DEF Swarm
    <3>2. Tried(fb, lb)
      BY <1>1, <2>1 DEF Tried
    <3>3. Places(fb, lb)
      <4>1. Places(fe, lb) /\ fb.queue = fe.queue
        BY <1>1, <2>1
      <4> QED BY <4>1, PlacesSame
    <3> QED BY <3>1, <3>2, <3>3
  <2>3. Counted(fb, lb)
    BY <1>1, <1>2, <2>1, StripedConstants DEF Counted
  <2> QED BY <1>1, <2>1, <2>2, <2>3 DEF Sound, Accounted
<1>6. CASE ~(n >= fe.limit)
  <2> DEFINE qu == Append(fe.queue, <<num, n>>)
  <2>1. /\ qu \in Seq(Pieces \X Nat) /\ Len(qu) = Len(fe.queue) + 1
        /\ \A i \in 1 .. Len(fe.queue) : qu[i] = fe.queue[i]
        /\ qu[Len(fe.queue) + 1] = <<num, n>>
    <3>1. <<num, n>> \in Pieces \X Nat
      BY <1>1, <1>3
    <3> QED BY <1>2, <3>1, AppendProperties
  <2> HIDE DEF qu
  <2>2. fb = [fe EXCEPT !.queue = qu]
    BY <1>4, <1>6 DEF qu
  <2>3. /\ fb \in FetchType /\ fb.queue = qu /\ fb.phase = fe.phase /\ fb.left = fe.left
        /\ fb.fatal = fe.fatal /\ fb.limit = fe.limit /\ fb.file = fe.file
        /\ fb.cancel = fe.cancel /\ fb.journaling = fe.journaling
    BY <2>1, <2>2 DEF FetchType
  <2>4. Swarm(fb, pb, lb)
    BY <1>1, <2>3 DEF Swarm
  <2>5. ASSUME NEW i \in 1 .. Len(qu)
        PROVE  /\ i \in 1 .. Len(fe.queue) \/ i = Len(fe.queue) + 1
               /\ i \in 1 .. Len(fe.queue) => qu[i] = fe.queue[i]
               /\ i = Len(fe.queue) + 1 => qu[i][1] = num /\ qu[i][2] = n
               /\ qu[i][2] <= fe.limit
    <3>1. i \in 1 .. Len(fe.queue) \/ i = Len(fe.queue) + 1
      BY <1>2, <2>1
    <3>2. qu[Len(fe.queue) + 1][1] = num /\ qu[Len(fe.queue) + 1][2] = n /\ n <= fe.limit
      BY <1>2, <1>3, <1>6, <2>1
    <3> QED BY <1>1, <2>1, <3>1, <3>2 DEF Tried
  <2>6. Tried(fb, lb)
    <3>1. \A i \in 1 .. Len(fb.queue) : fb.queue[i][2] <= fb.limit
      BY <2>3, <2>5
    <3> QED BY <1>1, <2>3, <3>1 DEF Tried
  <2>7. Places(fb, lb)
    <3>1. \A i, j \in 1 .. Len(fb.queue) : fb.queue[i][1] = fb.queue[j][1] => i = j
      <4> SUFFICES ASSUME NEW i \in 1 .. Len(qu), NEW j \in 1 .. Len(qu), qu[i][1] = qu[j][1]
                   PROVE  i = j
        BY <2>3
      <4>1. CASE i \in 1 .. Len(fe.queue) /\ j \in 1 .. Len(fe.queue)
        BY <1>1, <2>5, <4>1 DEF Places
      <4>2. CASE i = Len(fe.queue) + 1 \/ j = Len(fe.queue) + 1
        BY <1>1, <2>5, <4>2
      <4> QED BY <2>5, <4>1, <4>2
    <3>2. \A x, y \in Busy(lb) : lb[x[1]][x[2]].piece = lb[y[1]][y[2]].piece => x = y
      BY <1>1 DEF Places
    <3>3. ASSUME NEW i \in 1 .. Len(fb.queue), NEW x \in Busy(lb)
          PROVE  fb.queue[i][1] # lb[x[1]][x[2]].piece
      <4>1. i \in 1 .. Len(qu)
        BY <2>3
      <4>2. CASE i \in 1 .. Len(fe.queue)
        BY <1>1, <2>3, <2>5, <4>1, <4>2 DEF Places
      <4>3. CASE i = Len(fe.queue) + 1
        BY <1>1, <2>3, <2>5, <4>1, <4>3
      <4> QED BY <2>5, <4>1, <4>2, <4>3
    <3> QED BY <3>1, <3>2, <3>3 DEF Places
  <2>8. Counted(fb, lb)
    <3>1. Len(fb.queue) + Cardinality(Busy(lb)) = Len(fe.queue) + Cardinality(Busy(la))
      <4>1. Len(fb.queue) = Len(fe.queue) + 1 /\ Len(fe.queue) \in Nat
        BY <1>2, <2>1, <2>3
      <4>2. PICK b \in Nat : b = Cardinality(Busy(la)) /\ Cardinality(Busy(lb)) = b - 1
        BY <1>1
      <4> QED BY <4>1, <4>2
    <3>2. Counted(fe, la) /\ fb.left = fe.left /\ fb.fatal = fe.fatal
      BY <1>1, <2>3
    <3> QED BY <3>1, <3>2 DEF Counted
  <2>9. fb.queue[Len(fb.queue)][1] = num
    BY <2>1, <2>3
  <2> QED BY <1>1, <2>1, <2>3, <2>4, <2>6, <2>7, <2>8, <2>9 DEF Sound, Accounted
<1> QED BY <1>5, <1>6

(* The same, but for the queue. *)
LEMMA SoundFailsOnly ==
    ASSUME NEW fe \in FetchType, NEW pe \in PeerMap, NEW la \in LaneMap, Sound(fe, pe, la),
           NEW p \in Providers, NEW l \in Lanes, NEW lb \in LaneMap, OneLane(la, lb, p, l),
           la[p][l].st = "busy", lb[p][l].st = "idle", lb[p][l].tries = 0,
           NEW pb \in PeerMap, pb[p].st = pe[p].st, pb[p].fails = pe[p].fails + 1,
           \A q \in Providers : q # p => pb[q] = pe[q]
    PROVE  LET fb == Requeue(fe, la[p][l].piece, la[p][l].tries + 1)
           IN fb \in FetchType /\ Sound(fb, pb, lb) /\ fb.file = fe.file
<1>1. PICK num, n : num = la[p][l].piece /\ n = la[p][l].tries + 1
  OBVIOUS
<1>2. PICK fb : fb = Requeue(fe, num, n)
  OBVIOUS
<1>3. fb \in FetchType /\ Sound(fb, pb, lb) /\ fb.file = fe.file
  BY <1>1, <1>2, SoundFails
<1> QED BY <1>1, <1>2, <1>3

(* Peers join the swarm and every piece may be tried more often. *)
LEMMA SoundRefresh ==
    ASSUME NEW fe \in FetchType, NEW pe \in PeerMap, NEW la \in LaneMap, Sound(fe, pe, la),
           fe.phase = "stripe", NEW fb \in FetchType, fb.queue = fe.queue, fb.phase = fe.phase,
           fb.left = fe.left, fb.fatal = fe.fatal, fb.limit >= fe.limit, NEW pb \in PeerMap,
           \A p \in Providers : \/ pb[p] = pe[p]
                                \/ pe[p].st = "out" /\ pb[p].st = "dialing" /\ pb[p].fails = 0
    PROVE  Sound(fb, pb, la)
<1>1. fb.limit \in Nat /\ fe.limit \in Nat
  BY DEF FetchType
<1>2. \A p \in Providers : \/ pb[p] = pe[p]
                           \/ /\ pb[p].st # "up" /\ pb[p].fails \in {0, pe[p].fails}
                              /\ \A l \in Lanes : la[p][l].st = "gone"
  BY DEF Sound, Swarm
<1>3. Sound(fe, pb, la)
  BY <1>2, SoundPeer
<1>4. Swarm(fb, pb, la) /\ Budget(pb, la) /\ Accounted(fb, la)
  BY <1>1, <1>3 DEF Sound, Swarm, Accounted, Places, Counted
<1>5. Tried(fb, la)
  <2>1. fe.queue \in Seq(Pieces \X Nat)
    BY DEF FetchType
  <2>2. ASSUME NEW i \in 1 .. Len(fb.queue) PROVE fb.queue[i][2] <= fb.limit
    <3>1. fe.queue[i] \in Pieces \X Nat /\ fe.queue[i][2] <= fe.limit
      BY <1>1, <2>1, <2>2, ElementOfSeq DEF Sound, Tried
    <3>2. PICK k \in Nat : k = fe.queue[i][2]
      BY <3>1
    <3> QED BY <1>1, <3>1, <3>2
  <2>3. ASSUME NEW p \in Providers, NEW l \in Lanes, la[p][l].st = "busy"
        PROVE  la[p][l].tries <= fb.limit
    <3>1. la[p][l].tries \in Nat /\ la[p][l].tries <= fe.limit
      BY <2>3 DEF Sound, Tried, LaneMap, LaneType
    <3> QED BY <1>1, <3>1
  <2> QED BY <1>1, <2>2, <2>3 DEF Sound, Tried
<1> QED BY <1>4, <1>5 DEF Sound

(* A sequence of pieces, none of them tried. *)
LEMMA Untried ==
    ASSUME NEW T, NEW c \in Nat, NEW qu \in [1 .. c -> T \X Nat]
    PROVE  qu \in Seq(T \X Nat) /\ Len(qu) = c
<1>1. qu \in Seq(T \X Nat)
  OBVIOUS
<1>2. DOMAIN qu = 1 .. c
  OBVIOUS
<1> QED BY <1>1, <1>2, LenProperties

(* The pieces that are not done, as BeginStriping queues them. *)
UntriedQueue(S) == [i \in 1 .. Cardinality(S) |-> <<InOrder(S)[i], 0>>]

LEMMA QueueOf ==
    ASSUME NEW S \in SUBSET Pieces, NEW qu, qu = UntriedQueue(S)
    PROVE  /\ Cardinality(S) \in 0 .. NumPieces
           /\ qu \in Seq(Pieces \X Nat) /\ Len(qu) = Cardinality(S)
           /\ \A i \in 1 .. Len(qu) : qu[i][2] = 0
           /\ \A i, k \in 1 .. Len(qu) : qu[i][1] = qu[k][1] => i = k
           /\ \A x \in S : \E i \in 1 .. Len(qu) : qu[i][1] = x
<1>1. PICK c \in 0 .. NumPieces : c = Cardinality(S)
  BY InOrderEnumerates
<1>2. /\ InOrder(S) \in [1 .. c -> S]
      /\ \A i, k \in 1 .. c : InOrder(S)[i] = InOrder(S)[k] => i = k
      /\ \A x \in S : \E i \in 1 .. c : InOrder(S)[i] = x
  BY <1>1, InOrderEnumerates
<1>3. c \in Nat
  BY StripedConstants
<1>4. /\ qu \in Seq(Pieces \X Nat) /\ Len(qu) = c
      /\ \A i \in 1 .. c : qu[i][1] = InOrder(S)[i] /\ qu[i][2] = 0
  <2>1. PICK o \in [1 .. c -> S] : o = InOrder(S)
    BY <1>2
  <2>2. qu = [i \in 1 .. c |-> <<o[i], 0>>]
    BY <1>1, <2>1 DEF UntriedQueue
  <2>3. o \in [1 .. c -> Pieces]
    BY <2>1
  <2>4. \A i \in 1 .. c : <<o[i], 0>> \in Pieces \X Nat
    BY <2>1
  <2>5. qu \in [1 .. c -> Pieces \X Nat] /\ \A i \in 1 .. c : qu[i] = <<o[i], 0>>
    BY <2>2, <2>4
  <2>6. qu \in Seq(Pieces \X Nat) /\ Len(qu) = c
    BY <1>3, <2>5, Untried, Zenon
  <2>7. ASSUME NEW i \in 1 .. c PROVE qu[i][1] = o[i] /\ qu[i][2] = 0
    <3>1. qu[i] = <<o[i], 0>>
      BY <2>5
    <3>2. <<o[i], 0>>[1] = o[i] /\ <<o[i], 0>>[2] = 0
      OBVIOUS
    <3> QED BY <3>1, <3>2, Zenon
  <2> QED BY <2>1, <2>6, <2>7
<1> QED BY <1>1, <1>2, <1>4

(* The swarm starts with the pieces that are not done. *)
LEMMA SoundBegin ==
    ASSUME NEW fe \in FetchType, NEW pe \in PeerMap, NEW la \in LaneMap, Sound(fe, pe, la),
           fe.phase \in {"load", "header"},
           NEW fb \in FetchType, fb.phase = "stripe", fb.fatal = fe.fatal,
           fb.left = Len(fb.queue),
           \A i \in 1 .. Len(fb.queue) : fb.queue[i][2] = 0,
           \A i, k \in 1 .. Len(fb.queue) : fb.queue[i][1] = fb.queue[k][1] => i = k,
           NEW pb \in PeerMap, \A p \in Providers : pb[p].st # "up" /\ pb[p].fails = 0
    PROVE  Sound(fb, pb, la)
<1>1. \A p \in Providers, l \in Lanes : la[p][l].st = "gone"
  BY DEF Sound, Swarm
<1>2. /\ Busy(la) = {} /\ Cardinality(Busy(la)) = 0
      /\ \A p \in Providers : Cardinality(BusyOf(la, p)) = 0
  <2>1. \A p \in Providers, l \in Lanes : la[p][l].st # "busy"
    BY <1>1
  <2> QED BY <2>1, NoneBusy
<1>3. ~fe.fatal
  BY DEF Sound, Accounted
<1>4. fb.limit \in Nat /\ Len(fb.queue) \in Nat
  BY LenProperties DEF FetchType
<1>5. Swarm(fb, pb, la)
  BY <1>1 DEF Swarm
<1>6. Tried(fb, la)
  <2>1. \A i \in 1 .. Len(fb.queue) : fb.queue[i][2] <= fb.limit
    BY <1>4
  <2> QED BY <1>1, <2>1 DEF Sound, Tried
<1>7. Budget(pb, la)
  BY <1>2, StripedConstants DEF Budget
<1>8. Places(fb, la)
  BY <1>2 DEF Places
<1>9. Counted(fb, la)
  BY <1>2, <1>3, <1>4 DEF Counted
<1> QED BY <1>5, <1>6, <1>7, <1>8, <1>9 DEF Sound, Accounted

----------------------------------------------------------------------------
(* The accounting of pieces, for any number of fetches *)

(* A step of one fetch does not touch fetch g: at most it cuts its journal
   handle off or truncates the file of its lanes. *)
Untouched(g) ==
    /\ peer'[g] = peer[g]
    /\ fetch'[g].phase = fetch[g].phase /\ fetch'[g].queue = fetch[g].queue
    /\ fetch'[g].left = fetch[g].left /\ fetch'[g].fatal = fetch[g].fatal
    /\ fetch'[g].limit = fetch[g].limit /\ fetch'[g].file = fetch[g].file
    /\ \A p \in Providers, l \in Lanes :
        /\ lane'[g][p][l].st = lane[g][p][l].st /\ lane'[g][p][l].piece = lane[g][p][l].piece
        /\ lane'[g][p][l].tries = lane[g][p][l].tries
        /\ lane'[g][p][l].file = lane[g][p][l].file

(* A fetch whose invariants hold after the step. *)
Kept(g) ==
    /\ Sound(fetch'[g], peer'[g], lane'[g])
    /\ fetch'[g].file <= Len(disk')
    /\ \A p \in Providers, l \in Lanes : lane'[g][p][l].file <= Len(disk')

LEMMA ShapeUse ==
    ASSUME PiecesInv, NEW f \in Fetches
    PROVE  /\ fetch[f] \in FetchType /\ peer[f] \in PeerMap /\ lane[f] \in LaneMap
           /\ Sound(fetch[f], peer[f], lane[f])
           /\ fetch[f].file \in Nat /\ fetch[f].file <= Len(disk) /\ Len(disk) \in Nat
           /\ \A p \in Providers, l \in Lanes :
                /\ lane[f][p][l] \in LaneType /\ lane[f][p][l].file <= Len(disk)
                /\ lane[f][p][l].file \in Nat
           /\ \A p \in Providers : peer[f][p] \in PeerType
<1>1. /\ fetch[f] \in FetchType /\ peer[f] \in PeerMap /\ lane[f] \in LaneMap
      /\ \A p \in Providers, l \in Lanes : lane[f][p][l] \in LaneType
      /\ \A p \in Providers : peer[f][p] \in PeerType
  BY DEF PiecesInv, Shape, PeerMap, LaneMap
<1>2. Len(disk) \in Nat
  BY LenProperties DEF PiecesInv, Shape
<1>3. fetch[f].file \in Nat /\ \A p \in Providers, l \in Lanes : lane[f][p][l].file \in Nat
  BY <1>1 DEF FetchType, LaneType
<1> QED BY <1>1, <1>2, <1>3 DEF PiecesInv, Named

LEMMA PiecesFrame ==
    ASSUME PiecesInv, Shape', Len(disk') >= Len(disk),
           \A g \in Fetches : Untouched(g) \/ Kept(g)
    PROVE  PiecesInv'
<1>1. ASSUME NEW g \in Fetches PROVE Kept(g)
  <2>1. CASE Untouched(g)
    <3>1. /\ fetch[g] \in FetchType /\ peer[g] \in PeerMap /\ lane[g] \in LaneMap
          /\ Sound(fetch[g], peer[g], lane[g])
      BY ShapeUse
    <3>2. fetch'[g] \in FetchType /\ lane'[g] \in LaneMap
      BY DEF Shape, LaneMap
    <3>3. Sound(fetch'[g], peer[g], lane'[g])
      BY <2>1, <3>1, <3>2, SoundUntouched DEF Untouched
    <3>4. Len(disk') \in Nat
      BY LenProperties DEF Shape
    <3>5. /\ fetch[g].file \in Nat /\ fetch[g].file <= Len(disk) /\ Len(disk) \in Nat
          /\ \A p \in Providers, l \in Lanes :
               lane[g][p][l].file <= Len(disk) /\ lane[g][p][l].file \in Nat
      BY ShapeUse
    <3> QED BY <2>1, <3>3, <3>4, <3>5 DEF Untouched, Kept
  <2>2. CASE Kept(g)
    BY <2>2
  <2> QED BY <1>1, <2>1, <2>2
<1> QED BY <1>1 DEF Kept, PiecesInv, Named

(* A step that changes one fetch only. *)
LEMMA OneFetchFiles ==
    ASSUME PiecesInv, NEW f \in Fetches,
           fetch' \in [Fetches -> FetchType], peer' \in [Fetches -> PeerMap],
           lane' \in [Fetches -> LaneMap],
           \A g \in Fetches : g # f => /\ fetch'[g] = fetch[g] /\ peer'[g] = peer[g]
                                       /\ lane'[g] = lane[g],
           Kept(f), disk' \in Seq(FileType), Len(disk') >= Len(disk), path' \in 0 .. Len(disk'),
           journal' \in JournalType, cleanup' \in [Fetches -> {"none", "file", "journal"}]
    PROVE  PiecesInv'
<1>1. Shape'
  BY DEF Shape, PeerMap, LaneMap
<1>2. \A g \in Fetches : g # f => Untouched(g)
  BY DEF Untouched
<1> QED BY <1>1, <1>2, PiecesFrame

LEMMA OneFetch ==
    ASSUME PiecesInv, NEW f \in Fetches,
           fetch' \in [Fetches -> FetchType], peer' \in [Fetches -> PeerMap],
           lane' \in [Fetches -> LaneMap],
           \A g \in Fetches : g # f => /\ fetch'[g] = fetch[g] /\ peer'[g] = peer[g]
                                       /\ lane'[g] = lane[g],
           Kept(f), UNCHANGED <<files, cleanup>>
    PROVE  PiecesInv'
<1>1. /\ disk' \in Seq(FileType) /\ path' \in 0 .. Len(disk') /\ journal' \in JournalType
      /\ cleanup' \in [Fetches -> {"none", "file", "journal"}]
  BY DEF PiecesInv, Shape, files
<1>2. Len(disk') >= Len(disk)
  <2>1. Len(disk) \in Nat /\ disk' = disk
    BY LenProperties DEF PiecesInv, Shape, files
  <2> QED BY <2>1
<1> QED BY <1>1, <1>2, OneFetchFiles

LEMMA ShapeTyped ==
    ASSUME PiecesInv
    PROVE  /\ fetch \in [Fetches -> FetchType] /\ peer \in [Fetches -> PeerMap]
           /\ lane \in [Fetches -> LaneMap] /\ disk \in Seq(FileType) /\ Len(disk) \in Nat
           /\ path \in 0 .. Len(disk) /\ path \in Nat /\ journal \in JournalType
           /\ cleanup \in [Fetches -> {"none", "file", "journal"}]
<1>1. Len(disk) \in Nat
  BY LenProperties DEF PiecesInv, Shape
<1> QED BY <1>1 DEF PiecesInv, Shape, PeerMap, LaneMap

LEMMA IdleLaneTyped ==
    /\ IdleLane \in LaneType /\ IdleLane.st = "gone" /\ IdleLane.tries = 0
    /\ IdleLane.piece = 0 /\ IdleLane.file = 0 /\ IdleLane.cut = FALSE
BY StripedConstants DEF IdleLane, LaneType

LEMMA StepConnect ==
    ASSUME PiecesInv, NEW f \in Fetches, NEW p \in Providers, Connect(f, p)
    PROVE  PiecesInv'
<1> DEFINE r == [peer[f][p] EXCEPT !.st = "up"]
           s == [l \in Lanes |-> [IdleLane EXCEPT !.st = IF path = 0 THEN "gone" ELSE "idle",
                                                  !.file = path]]
<1>1. /\ fetch[f] \in FetchType /\ peer[f] \in PeerMap /\ lane[f] \in LaneMap
      /\ Sound(fetch[f], peer[f], lane[f]) /\ fetch[f].file <= Len(disk)
      /\ \A q \in Providers, l \in Lanes : lane[f][q][l].file <= Len(disk)
      /\ peer[f][p] \in PeerType
  BY ShapeUse
<1>2. r \in PeerType /\ r.st = "up" /\ r.fails = peer[f][p].fails
  BY <1>1 DEF PeerType
<1>3. /\ s \in [Lanes -> LaneType]
      /\ \A l \in Lanes : s[l].st \in {"gone", "idle"} /\ s[l].tries = 0 /\ s[l].file = path
  <2>1. PICK w \in {"gone", "idle"} : w = IF path = 0 THEN "gone" ELSE "idle"
    OBVIOUS
  <2> DEFINE i == [IdleLane EXCEPT !.st = w, !.file = path]
  <2>2. IdleLane \in LaneType /\ IdleLane.tries = 0
    BY IdleLaneTyped
  <2>3. path \in Nat
    BY ShapeTyped
  <2>4. i \in LaneType /\ i.st \in {"gone", "idle"} /\ i.tries = 0 /\ i.file = path
    BY <2>1, <2>2, <2>3 DEF LaneType
  <2> HIDE DEF i
  <2>5. s = [l \in Lanes |-> i]
    BY <2>1 DEF i
  <2> HIDE DEF s
  <2> QED BY <2>4, <2>5
<1>4. peer' = [peer EXCEPT ![f][p] = r] /\ lane' = [lane EXCEPT ![f][p] = s]
      /\ fetch' = fetch /\ UNCHANGED <<files, cleanup>> /\ peer[f][p].st = "dialing"
  BY ShapeTyped DEF Connect, PeerMap
<1> HIDE DEF r, s
<1>5. /\ peer' \in [Fetches -> PeerMap] /\ peer'[f][p] = r
      /\ \A q \in Providers : q # p => peer'[f][q] = peer[f][q]
      /\ \A g \in Fetches : g # f => peer'[g] = peer[g]
  BY <1>2, <1>4, ShapeTyped DEF PeerMap
<1>6. /\ lane' \in [Fetches -> LaneMap] /\ lane'[f][p] = s
      /\ \A q \in Providers : q # p => lane'[f][q] = lane[f][q]
      /\ \A g \in Fetches : g # f => lane'[g] = lane[g]
  BY <1>3, <1>4, ShapeTyped DEF LaneMap
<1>7. Sound(fetch[f], peer'[f], lane'[f])
  <2>1. peer'[f] \in PeerMap /\ lane'[f] \in LaneMap
    BY <1>5, <1>6
  <2>2. \A l \in Lanes : lane'[f][p][l].st \in {"gone", "idle"} /\ lane'[f][p][l].tries = 0
    BY <1>3, <1>6
  <2>3. peer'[f][p].st = "up" /\ peer'[f][p].fails = peer[f][p].fails
    BY <1>2, <1>5
  <2>4. /\ \A q \in Providers : q # p => peer'[f][q] = peer[f][q]
        /\ \A q \in Providers : q # p => lane'[f][q] = lane[f][q]
    BY <1>5, <1>6
  <2>5. peer[f][p].st = "dialing"
    BY <1>4
  <2> QED BY <1>1, <2>1, <2>2, <2>3, <2>4, <2>5, SoundConnect
<1>8. \A q \in Providers, l \in Lanes : lane'[f][q][l].file <= Len(disk)
  BY <1>1, <1>3, <1>6, ShapeTyped
<1>9. Kept(f)
  BY <1>1, <1>4, <1>7, <1>8 DEF Kept, files
<1> QED BY <1>4, <1>5, <1>6, <1>9, OneFetch, ShapeTyped

LEMMA StepConnectFails ==
    ASSUME PiecesInv, NEW f \in Fetches, NEW p \in Providers,
           ConnectFails(f, p) \/ PeerLeaves(f, p)
    PROVE  PiecesInv'
<1>1. /\ fetch[f] \in FetchType /\ peer[f] \in PeerMap /\ lane[f] \in LaneMap
      /\ Sound(fetch[f], peer[f], lane[f]) /\ fetch[f].file <= Len(disk)
      /\ \A q \in Providers, l \in Lanes : lane[f][q][l].file <= Len(disk)
      /\ peer[f][p] \in PeerType
  BY ShapeUse
<1>2. PICK r \in PeerType : /\ r.st = "out" /\ r.fails \in {0, peer[f][p].fails}
                            /\ peer' = [peer EXCEPT ![f][p] = r]
  <2>1. CASE ConnectFails(f, p)
    <3> DEFINE r == [peer[f][p] EXCEPT !.st = "out"]
    <3>1. r \in PeerType /\ r.st = "out" /\ r.fails = peer[f][p].fails
      BY <1>1 DEF PeerType
    <3>2. peer' = [peer EXCEPT ![f][p] = r]
      BY <2>1, ShapeTyped DEF ConnectFails, PeerMap
    <3> HIDE DEF r
    <3> QED BY <3>1, <3>2
  <2>2. CASE PeerLeaves(f, p)
    <3> DEFINE r == [st |-> "out", fails |-> 0]
    <3>1. r \in PeerType /\ r.st = "out" /\ r.fails = 0
      BY DEF PeerType
    <3>2. peer' = [peer EXCEPT ![f][p] = r]
      BY <2>2 DEF PeerLeaves
    <3> HIDE DEF r
    <3> QED BY <3>1, <3>2
  <2> QED BY <2>1, <2>2
<1>3. fetch' = fetch /\ lane' = lane /\ UNCHANGED <<files, cleanup>>
  BY DEF ConnectFails, PeerLeaves
<1>4. fetch[f].phase = "stripe" /\ \A l \in Lanes : lane[f][p][l].st = "gone"
  BY <1>1 DEF ConnectFails, PeerLeaves, Sound, Swarm
<1>5. /\ peer' \in [Fetches -> PeerMap] /\ peer'[f][p] = r
      /\ \A q \in Providers : q # p => peer'[f][q] = peer[f][q]
      /\ \A g \in Fetches : g # f => peer'[g] = peer[g]
  BY <1>2, ShapeTyped DEF PeerMap
<1>6. Sound(fetch[f], peer'[f], lane[f])
  <2>1. peer'[f] \in PeerMap
    BY <1>5
  <2>2. \A q \in Providers : \/ peer'[f][q] = peer[f][q]
                             \/ /\ peer'[f][q].st # "up" /\ peer'[f][q].fails \in {0, peer[f][q].fails}
                                /\ \A l \in Lanes : lane[f][q][l].st = "gone"
    BY <1>2, <1>4, <1>5
  <2> QED BY <1>1, <1>4, <2>1, <2>2, SoundPeer
<1>7. Kept(f)
  BY <1>1, <1>3, <1>6 DEF Kept, files
<1> QED BY <1>3, <1>5, <1>7, OneFetch, ShapeTyped

LEMMA StepTake ==
    ASSUME PiecesInv, NEW f \in Fetches, NEW p \in Providers, NEW l \in Lanes, Take(f, p, l)
    PROVE  PiecesInv'
<1> DEFINE hd == Head(fetch[f].queue)
           r == [lane[f][p][l] EXCEPT !.st = "busy", !.cut = FALSE, !.piece = hd[1], !.tries = hd[2]]
           fb == [fetch[f] EXCEPT !.queue = Tail(fetch[f].queue)]
<1>1. /\ fetch[f] \in FetchType /\ peer[f] \in PeerMap /\ lane[f] \in LaneMap
      /\ Sound(fetch[f], peer[f], lane[f]) /\ fetch[f].file <= Len(disk)
      /\ \A q \in Providers, m \in Lanes : lane[f][q][m].file <= Len(disk)
      /\ lane[f][p][l] \in LaneType /\ peer[f][p] \in PeerType
  BY ShapeUse
<1>2. /\ lane[f][p][l].st = "idle" /\ fetch[f].queue # <<>> /\ ~(peer[f][p].fails >= FailBudget)
      /\ lane' = [lane EXCEPT ![f][p][l] = r] /\ fetch' = [fetch EXCEPT ![f] = fb]
      /\ peer' = peer /\ UNCHANGED <<files, cleanup>>
  BY ShapeTyped DEF Take, MustLeave
<1>3. hd \in Pieces \X Nat
  <2>1. fetch[f].queue \in Seq(Pieces \X Nat)
    BY <1>1 DEF FetchType
  <2> QED BY <1>2, <2>1
<1> HIDE DEF hd
<1>4. hd[1] \in 0 .. NumPieces /\ hd[2] \in Nat
  BY <1>3, StripedConstants DEF Pieces
<1>5. /\ r \in LaneType /\ r.st = "busy" /\ r.piece = hd[1] /\ r.tries = hd[2]
      /\ r.file = lane[f][p][l].file
  BY <1>1, <1>4 DEF LaneType
<1> HIDE DEF r, fb
<1>6. /\ lane' \in [Fetches -> LaneMap] /\ lane'[f][p][l] = r
      /\ OneLane(lane[f], lane'[f], p, l)
      /\ \A g \in Fetches : g # f => lane'[g] = lane[g]
  BY <1>2, <1>5, ShapeTyped DEF LaneMap, OneLane
<1>7. fb \in FetchType /\ Sound(fb, peer[f], lane'[f])
  <2>1. peer[f][p].fails < FailBudget
    BY <1>1, <1>2, StripedConstants DEF PeerType
  <2>2. /\ lane'[f] \in LaneMap /\ lane'[f][p][l].st = "busy"
        /\ lane'[f][p][l].piece = Head(fetch[f].queue)[1]
        /\ lane'[f][p][l].tries = Head(fetch[f].queue)[2]
    BY <1>5, <1>6 DEF hd
  <2> QED BY <1>1, <1>2, <1>6, <2>1, <2>2, SoundTake DEF fb
<1>8. /\ fetch' \in [Fetches -> FetchType] /\ fetch'[f] = fb
      /\ \A g \in Fetches : g # f => fetch'[g] = fetch[g]
  BY <1>2, <1>7, ShapeTyped
<1>9. fb.file = fetch[f].file
  BY <1>1 DEF fb, FetchType
<1>10. \A q \in Providers, m \in Lanes : lane'[f][q][m].file <= Len(disk)
  BY <1>1, <1>5, <1>6 DEF OneLane
<1>11. Kept(f)
  BY <1>1, <1>2, <1>7, <1>8, <1>9, <1>10 DEF Kept, files
<1> QED BY <1>2, <1>6, <1>8, <1>11, OneFetch, ShapeTyped

LEMMA StepLaneLeaves ==
    ASSUME PiecesInv, NEW f \in Fetches, NEW p \in Providers, NEW l \in Lanes,
           LaneLeaves(f, p, l)
    PROVE  PiecesInv'
<1>1. /\ fetch[f] \in FetchType /\ peer[f] \in PeerMap /\ lane[f] \in LaneMap
      /\ Sound(fetch[f], peer[f], lane[f]) /\ fetch[f].file <= Len(disk) /\ Len(disk) \in Nat
      /\ \A q \in Providers, m \in Lanes : lane[f][q][m].file <= Len(disk)
  BY ShapeUse
<1>2. /\ lane[f][p][l].st = "idle" /\ lane' = [lane EXCEPT ![f][p][l] = IdleLane]
      /\ fetch' = fetch /\ peer' = peer /\ UNCHANGED <<files, cleanup>>
  BY DEF LaneLeaves
<1>3. /\ lane' \in [Fetches -> LaneMap] /\ lane'[f][p][l] = IdleLane
      /\ OneLane(lane[f], lane'[f], p, l)
      /\ \A g \in Fetches : g # f => lane'[g] = lane[g]
  BY <1>2, IdleLaneTyped, ShapeTyped DEF LaneMap, OneLane
<1>4. Sound(fetch[f], peer[f], lane'[f])
  <2>1. /\ lane'[f] \in LaneMap /\ lane'[f][p][l].st = "gone" /\ lane'[f][p][l].tries = 0
    BY <1>3, IdleLaneTyped
  <2>2. /\ lane[f][p][l].st # "busy" /\ lane'[f][p][l].st \in {"gone", "idle"}
        /\ lane'[f][p][l].st # "idle"
    BY <1>2, <2>1
  <2> QED BY <1>1, <1>3, <2>1, <2>2, SoundLane
<1>5. \A q \in Providers, m \in Lanes : lane'[f][q][m].file <= Len(disk)
  BY <1>1, <1>3, IdleLaneTyped DEF OneLane
<1>6. Kept(f)
  BY <1>1, <1>2, <1>4, <1>5 DEF Kept, files
<1> QED BY <1>2, <1>3, <1>6, OneFetch, ShapeTyped

(* What a line adds to the journal, torn or not. *)
LEMMA AppendLineTyped ==
    ASSUME NEW j \in JournalType, NEW num \in Pieces
    PROVE  /\ AppendLine(j, num) \in JournalType
           /\ AppendLine(j, num).lines \subseteq j.lines \cup {num}
           /\ AppendLine(j, num).there = j.there
<1> DEFINE ls == CASE j.torn = "no" -> j.lines \cup {num}
                   [] j.torn = "start" /\ j.last = 1 -> j.lines \cup {num}
                   [] j.torn = "pair" -> j.lines \ {j.last}
                   [] OTHER -> j.lines
           gb == j.garbled \/ (j.torn = "start" /\ j.last # 1)
<1>1. num \in 0 .. NumPieces
  BY StripedConstants DEF Pieces
<1>2. ls \in SUBSET Pieces /\ ls \subseteq j.lines \cup {num}
  BY DEF JournalType
<1>3. AppendLine(j, num) = [j EXCEPT !.lines = ls, !.garbled = gb, !.torn = "no", !.last = num]
  BY DEF AppendLine
<1>4. gb \in BOOLEAN
  OBVIOUS
<1> HIDE DEF ls, gb
<1> QED BY <1>1, <1>2, <1>3, <1>4 DEF JournalType

LEMMA TornTyped ==
    ASSUME NEW j \in JournalType, NEW num \in Pieces, NEW k \in TornAppends(j, num)
    PROVE  k \in JournalType /\ k.lines \subseteq j.lines \cup {num}
<1>1. PICK t \in {"start", "space", "pair"} :
         k = [j EXCEPT !.torn = t, !.last = num, !.lines = IF t = "pair" THEN @ \cup {num} ELSE @]
  BY DEF TornAppends
<1>2. PICK ls \in SUBSET Pieces : /\ ls = IF t = "pair" THEN j.lines \cup {num} ELSE j.lines
                                  /\ ls \subseteq j.lines \cup {num}
  BY DEF JournalType
<1>3. num \in 0 .. NumPieces
  BY StripedConstants DEF Pieces
<1>4. k = [j EXCEPT !.torn = t, !.last = num, !.lines = ls]
  BY <1>1, <1>2
<1> QED BY <1>1, <1>2, <1>3, <1>4 DEF JournalType

(* What Received does to the disk: the piece is added to the lane's file, or
   nothing is. *)
LEMMA DiskSet ==
    ASSUME disk \in Seq(FileType), NEW k \in Nat, NEW R \in SUBSET Pieces,
           disk' = [disk EXCEPT ![k].right = R]
    PROVE  /\ disk' \in Seq(FileType) /\ Len(disk') = Len(disk) /\ Len(disk) \in Nat
           /\ \A i \in 1 .. Len(disk) : /\ disk'[i].full = disk[i].full
                                        /\ i # k => disk'[i] = disk[i]
                                        /\ i = k => disk'[i].right = R
<1>1. Len(disk) \in Nat /\ disk \in [1 .. Len(disk) -> FileType]
  BY LenProperties
<1>2. disk' \in [1 .. Len(disk) -> FileType]
  BY <1>1 DEF FileType
<1>3. disk' \in Seq(FileType) /\ Len(disk') = Len(disk)
  <2>1. disk' \in Seq(FileType)
    BY <1>1, <1>2
  <2>2. DOMAIN disk' = 1 .. Len(disk)
    BY <1>2
  <2> QED BY <1>1, <2>1, <2>2, LenProperties
<1>4. \A i \in 1 .. Len(disk) : /\ disk'[i].full = disk[i].full
                                /\ i # k => disk'[i] = disk[i]
                                /\ i = k => disk'[i].right = R
  BY <1>1 DEF FileType
<1> QED BY <1>1, <1>3, <1>4

LEMMA ReceivedDisk ==
    ASSUME PiecesInv, NEW f \in Fetches, NEW p \in Providers, NEW l \in Lanes,
           Received(f, p, l)
    PROVE  /\ disk' \in Seq(FileType) /\ Len(disk') = Len(disk) /\ Len(disk) \in Nat
           /\ lane[f][p][l].piece \in Pieces
           /\ \A i \in 1 .. Len(disk) :
                /\ disk'[i].full = disk[i].full
                /\ i # lane[f][p][l].file => disk'[i] = disk[i]
                /\ disk[i].right \subseteq disk'[i].right
                /\ i = lane[f][p][l].file /\ ~lane[f][p][l].cut =>
                      disk'[i].right = disk[i].right \cup {lane[f][p][l].piece}
<1>1. PICK k \in Nat : k = lane[f][p][l].file /\ k <= Len(disk)
  BY ShapeUse
<1>2. PICK num \in Pieces : num = lane[f][p][l].piece
  BY ShapeUse DEF Received, Sound, Tried
<1>3. PICK whole \in BOOLEAN :
        /\ ~lane[f][p][l].cut => whole
        /\ disk' = [disk EXCEPT ![k].right = IF whole THEN @ \cup {num} ELSE @]
  BY <1>1, <1>2 DEF Received
<1> DEFINE R == IF whole THEN disk[k].right \cup {num} ELSE disk[k].right
<1>4. disk' = [disk EXCEPT ![k].right = R]
  BY <1>3
<1>5. disk \in Seq(FileType) /\ Len(disk) \in Nat
  BY ShapeTyped
<1>6. CASE k \in 1 .. Len(disk)
  <2>1. disk[k] \in FileType
    BY <1>5, <1>6, ElementOfSeq
  <2>2. R \in SUBSET Pieces /\ disk[k].right \subseteq R /\ (whole => R = disk[k].right \cup {num})
    BY <2>1 DEF FileType
  <2> HIDE DEF R
  <2>3. PICK T \in SUBSET Pieces : T = R
    BY <2>2
  <2>4. disk' = [disk EXCEPT ![k].right = T]
    BY <1>4, <2>3
  <2>5. /\ disk' \in Seq(FileType) /\ Len(disk') = Len(disk)
        /\ \A i \in 1 .. Len(disk) : /\ disk'[i].full = disk[i].full
                                     /\ i # k => disk'[i] = disk[i]
                                     /\ i = k => disk'[i].right = T
    BY <1>5, <2>4, DiskSet
  <2> QED BY <1>1, <1>2, <1>3, <1>5, <2>2, <2>3, <2>5
<1>7. CASE k \notin 1 .. Len(disk)
  <2> HIDE DEF R
  <2>1. disk' = disk
    BY <1>4, <1>5, <1>7
  <2> QED BY <1>1, <1>2, <1>5, <1>7, <2>1
<1> QED BY <1>6, <1>7

LEMMA StepReceived ==
    ASSUME PiecesInv, NEW f \in Fetches, NEW p \in Providers, NEW l \in Lanes,
           Received(f, p, l)
    PROVE  PiecesInv'
<1> DEFINE r == [lane[f][p][l] EXCEPT !.st = "append", !.tries = 0]
           s == [peer[f][p] EXCEPT !.fails = 0]
           fb == [fetch[f] EXCEPT !.left = fetch[f].left - 1]
<1>1. /\ fetch[f] \in FetchType /\ peer[f] \in PeerMap /\ lane[f] \in LaneMap
      /\ Sound(fetch[f], peer[f], lane[f]) /\ fetch[f].file <= Len(disk)
      /\ \A q \in Providers, m \in Lanes : lane[f][q][m].file <= Len(disk)
      /\ lane[f][p][l] \in LaneType /\ peer[f][p] \in PeerType
  BY ShapeUse
<1>2. /\ lane[f][p][l].st = "busy"
      /\ lane' = [lane EXCEPT ![f][p][l] = r] /\ fetch' = [fetch EXCEPT ![f] = fb]
      /\ peer' = [peer EXCEPT ![f][p] = s] /\ UNCHANGED <<path, journal, cleanup>>
  BY ShapeTyped DEF Received, PeerMap
<1>3. /\ r \in LaneType /\ r.st = "append" /\ r.tries = 0 /\ r.piece = lane[f][p][l].piece
      /\ r.file = lane[f][p][l].file
  BY <1>1 DEF LaneType
<1>4. s \in PeerType /\ s.st = peer[f][p].st /\ s.fails = 0
  BY <1>1 DEF PeerType
<1> HIDE DEF r, s, fb
<1>5. /\ lane' \in [Fetches -> LaneMap] /\ lane'[f][p][l] = r
      /\ OneLane(lane[f], lane'[f], p, l)
      /\ \A g \in Fetches : g # f => lane'[g] = lane[g]
  BY <1>2, <1>3, ShapeTyped DEF LaneMap, OneLane
<1>6. /\ peer' \in [Fetches -> PeerMap] /\ peer'[f][p] = s
      /\ \A q \in Providers : q # p => peer'[f][q] = peer[f][q]
      /\ \A g \in Fetches : g # f => peer'[g] = peer[g]
  BY <1>2, <1>4, ShapeTyped DEF PeerMap
<1>7. fb \in FetchType /\ Sound(fb, peer'[f], lane'[f])
  <2>1. /\ lane'[f] \in LaneMap /\ lane'[f][p][l].st = "append" /\ lane'[f][p][l].tries = 0
        /\ lane'[f][p][l].piece = lane[f][p][l].piece
    BY <1>3, <1>5
  <2>2. peer'[f] \in PeerMap /\ peer'[f][p].st = peer[f][p].st /\ peer'[f][p].fails = 0
    BY <1>4, <1>6
  <2>3. fb = [fetch[f] EXCEPT !.left = fetch[f].left - 1]
    BY DEF fb
  <2>4. \A q \in Providers : q # p => peer'[f][q] = peer[f][q]
    BY <1>6
  <2>5. OneLane(lane[f], lane'[f], p, l) /\ lane[f][p][l].st = "busy"
    BY <1>2, <1>5
  <2> QED BY <1>1, <2>1, <2>2, <2>3, <2>4, <2>5, SoundReceived
<1>8. /\ fetch' \in [Fetches -> FetchType] /\ fetch'[f] = fb
      /\ \A g \in Fetches : g # f => fetch'[g] = fetch[g]
  BY <1>2, <1>7, ShapeTyped
<1>9. fb.file = fetch[f].file
  BY <1>1 DEF fb, FetchType
<1>10. \A q \in Providers, m \in Lanes : lane'[f][q][m].file <= Len(disk)
  BY <1>1, <1>3, <1>5 DEF OneLane
<1>11. disk' \in Seq(FileType) /\ Len(disk') = Len(disk) /\ Len(disk) \in Nat
  BY ReceivedDisk
<1>12. Kept(f)
  BY <1>1, <1>7, <1>8, <1>9, <1>10, <1>11 DEF Kept
<1>13. path' \in 0 .. Len(disk') /\ Len(disk') >= Len(disk) /\ journal' \in JournalType
       /\ cleanup' \in [Fetches -> {"none", "file", "journal"}]
  BY <1>2, <1>11, ShapeTyped
<1> QED BY <1>5, <1>6, <1>8, <1>11, <1>12, <1>13, OneFetchFiles

LEMMA StepLaneFails ==
    ASSUME PiecesInv, NEW f \in Fetches, NEW p \in Providers, NEW l \in Lanes,
           LaneFails(f, p, l)
    PROVE  PiecesInv'
<1> DEFINE r == [lane[f][p][l] EXCEPT !.st = "idle", !.piece = 0, !.tries = 0]
           s == [peer[f][p] EXCEPT !.fails = peer[f][p].fails + 1]
           fb == Requeue(fetch[f], lane[f][p][l].piece, lane[f][p][l].tries + 1)
<1>1. /\ fetch[f] \in FetchType /\ peer[f] \in PeerMap /\ lane[f] \in LaneMap
      /\ Sound(fetch[f], peer[f], lane[f]) /\ fetch[f].file <= Len(disk)
      /\ \A q \in Providers, m \in Lanes : lane[f][q][m].file <= Len(disk)
      /\ lane[f][p][l] \in LaneType /\ peer[f][p] \in PeerType
  BY ShapeUse
<1>2. /\ lane[f][p][l].st = "busy"
      /\ lane' = [lane EXCEPT ![f][p][l] = r] /\ fetch' = [fetch EXCEPT ![f] = fb]
      /\ peer' = [peer EXCEPT ![f][p] = s] /\ UNCHANGED <<files, cleanup>>
  BY ShapeTyped DEF LaneFails, PeerMap
<1>3. /\ r \in LaneType /\ r.st = "idle" /\ r.tries = 0 /\ r.file = lane[f][p][l].file
  <2>1. 0 \in 0 .. NumPieces
    BY StripedConstants
  <2> QED BY <1>1, <2>1 DEF LaneType
<1>4. s \in PeerType /\ s.st = peer[f][p].st /\ s.fails = peer[f][p].fails + 1
  BY <1>1 DEF PeerType
<1> HIDE DEF r, s, fb
<1>5. /\ lane' \in [Fetches -> LaneMap] /\ lane'[f][p][l] = r
      /\ OneLane(lane[f], lane'[f], p, l)
      /\ \A g \in Fetches : g # f => lane'[g] = lane[g]
  BY <1>2, <1>3, ShapeTyped DEF LaneMap, OneLane
<1>6. /\ peer' \in [Fetches -> PeerMap] /\ peer'[f][p] = s
      /\ \A q \in Providers : q # p => peer'[f][q] = peer[f][q]
      /\ \A g \in Fetches : g # f => peer'[g] = peer[g]
  BY <1>2, <1>4, ShapeTyped DEF PeerMap
<1>7. fb \in FetchType /\ Sound(fb, peer'[f], lane'[f]) /\ fb.file = fetch[f].file
  <2>1. lane'[f] \in LaneMap /\ lane'[f][p][l].st = "idle" /\ lane'[f][p][l].tries = 0
    BY <1>3, <1>5
  <2>2. /\ peer'[f] \in PeerMap /\ peer'[f][p].st = peer[f][p].st
        /\ peer'[f][p].fails = peer[f][p].fails + 1
    BY <1>4, <1>6
  <2>3. \A q \in Providers : q # p => peer'[f][q] = peer[f][q]
    BY <1>6
  <2>4. OneLane(lane[f], lane'[f], p, l) /\ lane[f][p][l].st = "busy"
    BY <1>2, <1>5
  <2>5. PICK pb \in PeerMap : pb = peer'[f]
    BY <2>2
  <2>6. PICK lb \in LaneMap : lb = lane'[f]
    BY <2>1
  <2>7. /\ lb[p][l].st = "idle" /\ lb[p][l].tries = 0 /\ OneLane(lane[f], lb, p, l)
        /\ pb[p].st = peer[f][p].st /\ pb[p].fails = peer[f][p].fails + 1
        /\ \A q \in Providers : q # p => pb[q] = peer[f][q]
    BY <2>1, <2>2, <2>3, <2>4, <2>5, <2>6
  <2> QED BY <1>1, <2>4, <2>5, <2>6, <2>7, SoundFailsOnly DEF fb
<1>8. /\ fetch' \in [Fetches -> FetchType] /\ fetch'[f] = fb
      /\ \A g \in Fetches : g # f => fetch'[g] = fetch[g]
  BY <1>2, <1>7, ShapeTyped
<1>9. \A q \in Providers, m \in Lanes : lane'[f][q][m].file <= Len(disk)
  BY <1>1, <1>3, <1>5 DEF OneLane
<1>10. Kept(f)
  BY <1>1, <1>2, <1>7, <1>8, <1>9 DEF Kept, files
<1> QED BY <1>2, <1>5, <1>6, <1>8, <1>10, OneFetch, ShapeTyped

LEMMA StepJournal ==
    ASSUME PiecesInv, NEW f \in Fetches, NEW p \in Providers, NEW l \in Lanes,
           Journal(f, p, l)
    PROVE  PiecesInv'
<1>1. /\ fetch[f] \in FetchType /\ peer[f] \in PeerMap /\ lane[f] \in LaneMap
      /\ Sound(fetch[f], peer[f], lane[f]) /\ fetch[f].file <= Len(disk) /\ Len(disk) \in Nat
      /\ \A q \in Providers, m \in Lanes : lane[f][q][m].file <= Len(disk)
      /\ lane[f][p][l] \in LaneType
  BY ShapeUse
<1>2. /\ lane[f][p][l].st = "append" /\ fetch' = fetch /\ peer' = peer
      /\ UNCHANGED <<path, disk, cleanup>>
  BY DEF Journal
<1>3. PICK r \in LaneType : /\ r.st \in {"gone", "idle"} /\ r.tries = 0
                            /\ r.st = "idle" => fetch[f].phase = "stripe"
                            /\ r.file \in {0, lane[f][p][l].file}
                            /\ lane' = [lane EXCEPT ![f][p][l] = r]
  <2>1. CASE Striping(f)
    <3> DEFINE r == [lane[f][p][l] EXCEPT !.st = "idle", !.piece = 0, !.tries = 0]
    <3>1. 0 \in 0 .. NumPieces
      BY StripedConstants
    <3>2. r \in LaneType /\ r.st = "idle" /\ r.tries = 0 /\ r.file = lane[f][p][l].file
      BY <1>1, <3>1 DEF LaneType
    <3>3. lane' = [lane EXCEPT ![f][p][l] = r]
      BY <2>1, ShapeTyped DEF Journal, LaneMap
    <3> HIDE DEF r
    <3> QED BY <2>1, <3>2, <3>3 DEF Striping
  <2>2. CASE ~Striping(f)
    <3>1. lane' = [lane EXCEPT ![f][p][l] = IdleLane]
      BY <2>2 DEF Journal
    <3> QED BY <3>1, IdleLaneTyped
  <2> QED BY <2>1, <2>2
<1>4. /\ lane' \in [Fetches -> LaneMap] /\ lane'[f][p][l] = r
      /\ OneLane(lane[f], lane'[f], p, l)
      /\ \A g \in Fetches : g # f => lane'[g] = lane[g]
  BY <1>3, ShapeTyped DEF LaneMap, OneLane
<1>5. Sound(fetch[f], peer[f], lane'[f])
  <2>1. /\ lane'[f] \in LaneMap /\ lane[f][p][l].st # "busy" /\ lane'[f][p][l].tries = 0
        /\ lane'[f][p][l].st \in {"gone", "idle"}
        /\ lane'[f][p][l].st = "idle" => fetch[f].phase = "stripe" /\ lane[f][p][l].st # "gone"
    BY <1>2, <1>3, <1>4
  <2> QED BY <1>1, <1>4, <2>1, SoundLane
<1>6. \A q \in Providers, m \in Lanes : lane'[f][q][m].file <= Len(disk)
  BY <1>1, <1>3, <1>4 DEF OneLane
<1>7. Kept(f)
  BY <1>1, <1>2, <1>5, <1>6 DEF Kept
<1>8. journal' \in JournalType
  <2>1. lane[f][p][l].piece \in Pieces
    BY <1>1, <1>2 DEF Sound, Tried
  <2>2. journal' \in {journal, AppendLine(journal, lane[f][p][l].piece)}
    BY DEF Journal
  <2> QED BY <2>1, <2>2, ShapeTyped, AppendLineTyped
<1>9. /\ disk' \in Seq(FileType) /\ Len(disk') >= Len(disk) /\ path' \in 0 .. Len(disk')
      /\ cleanup' \in [Fetches -> {"none", "file", "journal"}]
  BY <1>1, <1>2, ShapeTyped
<1> QED BY <1>2, <1>4, <1>7, <1>8, <1>9, OneFetchFiles, ShapeTyped

LEMMA StepRefresh ==
    ASSUME PiecesInv, NEW f \in Fetches, Refresh(f)
    PROVE  PiecesInv'
<1>1. /\ fetch[f] \in FetchType /\ peer[f] \in PeerMap /\ lane[f] \in LaneMap
      /\ Sound(fetch[f], peer[f], lane[f]) /\ fetch[f].file <= Len(disk)
      /\ \A q \in Providers, m \in Lanes : lane[f][q][m].file <= Len(disk)
  BY ShapeUse
<1>2. PICK fresh \in SUBSET (Providers \ ActivePeers(f)), joined \in SUBSET Providers :
        /\ joined \subseteq fresh
        /\ fetch' = [fetch EXCEPT ![f].limit =
              IF @ < Cardinality(ActivePeers(f)) + Cardinality(fresh) + 2
              THEN Cardinality(ActivePeers(f)) + Cardinality(fresh) + 2 ELSE @]
        /\ peer' = [peer EXCEPT ![f] = [p \in Providers |->
              IF p \in joined THEN [st |-> "dialing", fails |-> 0] ELSE peer[f][p]]]
  BY DEF Refresh
<1>3. /\ fetch[f].phase = "stripe" /\ lane' = lane /\ UNCHANGED <<files, cleanup>>
  BY DEF Refresh, Striping
<1>4. PICK m \in Nat : m = Cardinality(ActivePeers(f)) + Cardinality(fresh) + 2
  <2>1. IsFiniteSet(ActivePeers(f)) /\ IsFiniteSet(fresh)
    BY <1>2, StripedConstants, FS_Subset DEF ActivePeers
  <2>2. Cardinality(ActivePeers(f)) \in Nat /\ Cardinality(fresh) \in Nat
    BY <2>1, FS_CardinalityType
  <2> QED BY <2>2
<1>5. PICK n \in Nat : n = (IF fetch[f].limit < m THEN m ELSE fetch[f].limit) /\ n >= fetch[f].limit
  BY <1>1, <1>4 DEF FetchType
<1> DEFINE fb == [fetch[f] EXCEPT !.limit = n]
           pb == [p \in Providers |->
                    IF p \in joined THEN [st |-> "dialing", fails |-> 0] ELSE peer[f][p]]
<1>6. fetch' = [fetch EXCEPT ![f] = fb] /\ peer' = [peer EXCEPT ![f] = pb]
  <2>1. fetch' = [fetch EXCEPT ![f].limit = n]
    BY <1>2, <1>4, <1>5, ShapeTyped
  <2> QED BY <1>2, <2>1
<1>7. fb \in FetchType /\ pb \in PeerMap /\ Sound(fb, pb, lane[f]) /\ fb.file = fetch[f].file
  <2>1. \A p \in joined : peer[f][p].st = "out"
    BY <1>2 DEF ActivePeers
  <2>2. /\ pb \in PeerMap
        /\ \A p \in Providers :
             \/ pb[p] = peer[f][p]
             \/ peer[f][p].st = "out" /\ pb[p].st = "dialing" /\ pb[p].fails = 0
    BY <1>1, <2>1 DEF PeerMap, PeerType
  <2>3. /\ fb \in FetchType /\ fb.queue = fetch[f].queue /\ fb.phase = fetch[f].phase
        /\ fb.left = fetch[f].left /\ fb.fatal = fetch[f].fatal /\ fb.limit = n
        /\ fb.file = fetch[f].file
    BY <1>1, <1>5 DEF FetchType
  <2> HIDE DEF fb, pb
  <2> QED BY <1>1, <1>3, <1>5, <2>2, <2>3, SoundRefresh
<1> HIDE DEF fb, pb
<1>8. /\ fetch' \in [Fetches -> FetchType] /\ fetch'[f] = fb
      /\ \A g \in Fetches : g # f => fetch'[g] = fetch[g]
      /\ peer' \in [Fetches -> PeerMap] /\ peer'[f] = pb
      /\ \A g \in Fetches : g # f => peer'[g] = peer[g]
  BY <1>6, <1>7, ShapeTyped
<1>9. Kept(f)
  BY <1>1, <1>3, <1>7, <1>8 DEF Kept, files
<1> QED BY <1>3, <1>8, <1>9, OneFetch, ShapeTyped

LEMMA NoFetchTyped ==
    /\ NoFetch \in FetchType /\ NoFetch.phase = "idle" /\ NoFetch.queue = <<>>
    /\ NoFetch.fatal = FALSE /\ NoFetch.file = 0 /\ NoFetch.journaling = FALSE
<1>1. /\ 0 \in 0 .. NumPieces /\ "idle" \in Phases /\ <<>> \in Seq(Pieces \X Nat)
  BY StripedConstants DEF Phases
<1> QED BY <1>1 DEF NoFetch, FetchType

LEMMA LeaveTyped ==
    ASSUME NEW fe \in FetchType, NEW ph \in Phases
    PROVE  /\ Leave(fe, ph) \in FetchType /\ Leave(fe, ph).phase = ph
           /\ Leave(fe, ph).queue = <<>> /\ Leave(fe, ph).fatal = FALSE
           /\ Leave(fe, ph).file = 0 /\ Leave(fe, ph).journaling = fe.journaling
<1>1. Leave(fe, ph) = [NoFetch EXCEPT !.phase = ph, !.journaling = fe.journaling,
                                      !.cancel = fe.cancel]
  BY DEF Leave
<1>2. fe.journaling \in BOOLEAN /\ fe.cancel \in {"no", "pause", "stop"}
  BY DEF FetchType
<1> QED BY <1>1, <1>2, NoFetchTyped DEF FetchType

LEMMA LeaveIdle ==
    ASSUME NEW fe \in FetchType, NEW fb, fb = [Leave(fe, "idle") EXCEPT !.cancel = "no"]
    PROVE  /\ fb \in FetchType /\ fb.phase = "idle" /\ fb.queue = <<>> /\ fb.fatal = FALSE
           /\ fb.file = 0
<1>1. "idle" \in Phases
  BY DEF Phases
<1>2. PICK fa \in FetchType : /\ fa = Leave(fe, "idle") /\ fa.phase = "idle"
                              /\ fa.queue = <<>> /\ fa.fatal = FALSE /\ fa.file = 0
  BY <1>1, LeaveTyped
<1>3. fb = [fa EXCEPT !.cancel = "no"]
  BY <1>2
<1> QED BY <1>2, <1>3 DEF FetchType

LEMMA DeliverTyped ==
    ASSUME NEW fe \in FetchType, NEW ino \in Nat
    PROVE  /\ DeliverBlob(fe, ino) \in FetchType /\ DeliverBlob(fe, ino).queue = <<>>
           /\ DeliverBlob(fe, ino).fatal = FALSE /\ DeliverBlob(fe, ino).file = ino
           /\ DeliverBlob(fe, ino).phase \in {"idle", "stream"}
<1>1. PICK fb : fb = DeliverBlob(fe, ino)
  OBVIOUS
<1>2. CASE ino = 0
  <2>1. fb = [Leave(fe, "idle") EXCEPT !.cancel = "no"]
    BY <1>1, <1>2 DEF DeliverBlob
  <2> QED BY <1>1, <1>2, <2>1, LeaveIdle
<1>3. CASE ino # 0
  <2>1. "stream" \in Phases
    BY DEF Phases
  <2>2. PICK fa \in FetchType : /\ fa = Leave(fe, "stream") /\ fa.phase = "stream"
                                /\ fa.queue = <<>> /\ fa.fatal = FALSE
    BY <2>1, LeaveTyped
  <2>3. fb = [fa EXCEPT !.file = ino]
    BY <1>1, <1>3, <2>2 DEF DeliverBlob
  <2> QED BY <1>1, <1>3, <2>2, <2>3 DEF FetchType
<1> QED BY <1>2, <1>3

(* The fetch moves on while no peer is in its swarm. *)
LEMMA SoundMove ==
    ASSUME NEW fe \in FetchType, NEW pe \in PeerMap, NEW la \in LaneMap, Sound(fe, pe, la),
           \A p \in Providers : pe[p].st = "out",
           NEW fb \in FetchType, fb.phase # "stripe", ~fb.fatal,
           fb.queue = <<>> \/ (fb.queue = fe.queue /\ fb.limit = fe.limit),
           fb.phase \in {"load", "create", "header"} =>
              \A p \in Providers, l \in Lanes : la[p][l].st = "gone"
    PROVE  Sound(fb, pe, la)
<1>1. \A p \in Providers : pe[p].fails <= FailBudget + Cardinality(Lanes)
  <2> SUFFICES ASSUME NEW p \in Providers PROVE pe[p].fails <= FailBudget + Cardinality(Lanes)
    OBVIOUS
  <2>1. pe[p].fails \in Nat
    BY DEF PeerMap, PeerType
  <2>2. PICK b \in Nat : b = Cardinality(BusyOf(la, p))
    BY BusyFinite
  <2>3. pe[p].fails + b <= FailBudget + Cardinality(Lanes)
    BY <2>2 DEF Sound, Budget
  <2> QED BY <2>1, <2>2, <2>3, StripedConstants
<1>2. \A p \in Providers, l \in Lanes :
          /\ la[p][l].st \in {"gone", "append"} /\ la[p][l].tries = 0
          /\ la[p][l].st = "append" => la[p][l].piece \in Pieces
  BY DEF Sound, Swarm, Tried
<1>3. \/ fb.queue = <<>>
      \/ \A i \in 1 .. Len(fb.queue) : fb.queue[i][2] <= fb.limit
  BY DEF Sound, Tried
<1>4. \A p \in Providers : pe[p].st = "out" /\ pe[p].fails <= FailBudget + Cardinality(Lanes)
  BY <1>1
<1>5. \A p \in Providers, l \in Lanes :
          /\ la[p][l].st \in {"gone", "append"} /\ la[p][l].tries = 0
          /\ la[p][l].st = "append" => la[p][l].piece \in Pieces
          /\ fb.phase \in {"load", "create", "header"} => la[p][l].st = "gone"
  BY <1>2
<1> QED BY <1>3, <1>4, <1>5, SoundAtRest

(* The steps of the driver in which no peer is in the swarm of f. *)
LEMMA StepMove ==
    ASSUME PiecesInv, NEW f \in Fetches, \A p \in Providers : peer[f][p].st = "out",
           NEW fb \in FetchType, fb.phase # "stripe", ~fb.fatal,
           fb.queue = <<>> \/ (fb.queue = fetch[f].queue /\ fb.limit = fetch[f].limit),
           fb.phase \in {"load", "create", "header"} =>
              \A p \in Providers, l \in Lanes : lane[f][p][l].st = "gone",
           fetch' = [fetch EXCEPT ![f] = fb], peer' = peer, lane' = lane,
           disk' \in Seq(FileType), Len(disk') >= Len(disk), path' \in 0 .. Len(disk'),
           fb.file <= Len(disk'),
           journal' \in JournalType, cleanup' \in [Fetches -> {"none", "file", "journal"}]
    PROVE  PiecesInv'
<1>1. /\ fetch[f] \in FetchType /\ peer[f] \in PeerMap /\ lane[f] \in LaneMap
      /\ Sound(fetch[f], peer[f], lane[f]) /\ Len(disk) \in Nat
  BY ShapeUse
<1>2. Len(disk') \in Nat
  BY LenProperties
<1>3. Sound(fb, peer[f], lane[f])
  BY <1>1, SoundMove
<1>4. /\ fetch' \in [Fetches -> FetchType] /\ fetch'[f] = fb
      /\ \A g \in Fetches : g # f => fetch'[g] = fetch[g]
  BY ShapeTyped
<1>5. \A p \in Providers, l \in Lanes : lane'[f][p][l].file <= Len(disk')
  <2> SUFFICES ASSUME NEW p \in Providers, NEW l \in Lanes
               PROVE  lane[f][p][l].file <= Len(disk')
    OBVIOUS
  <2>1. lane[f][p][l].file <= Len(disk) /\ lane[f][p][l].file \in Nat
    BY ShapeUse
  <2> QED BY <1>1, <1>2, <2>1
<1>6. Kept(f)
  BY <1>3, <1>4, <1>5 DEF Kept
<1>7. /\ peer' \in [Fetches -> PeerMap] /\ lane' \in [Fetches -> LaneMap]
      /\ \A g \in Fetches : g # f => /\ fetch'[g] = fetch[g] /\ peer'[g] = peer[g]
                                     /\ lane'[g] = lane[g]
  BY <1>4, ShapeTyped
<1> QED BY <1>4, <1>6, <1>7, OneFetchFiles

(* The same for all fetches at once: their journal handles are cut off. *)
LEMMA StepCutOff ==
    ASSUME PiecesInv, NEW f \in Fetches, \A p \in Providers : peer[f][p].st = "out",
           NEW fb \in FetchType, fb.phase \in {"idle", "stream"}, ~fb.fatal,
           fb.queue = <<>> \/ (fb.queue = fetch[f].queue /\ fb.limit = fetch[f].limit),
           fetch' = [g \in Fetches |-> IF g = f THEN fb
                                       ELSE [fetch[g] EXCEPT !.journaling = FALSE]],
           peer' = peer, lane' = lane, disk' = disk, path' \in 0 .. Len(disk),
           fb.file <= Len(disk),
           journal' \in JournalType, UNCHANGED cleanup
    PROVE  PiecesInv'
<1>1. /\ fetch[f] \in FetchType /\ peer[f] \in PeerMap /\ lane[f] \in LaneMap
      /\ Sound(fetch[f], peer[f], lane[f]) /\ Len(disk) \in Nat
      /\ \A p \in Providers, l \in Lanes : lane[f][p][l].file <= Len(disk)
  BY ShapeUse
<1>2. fb.phase # "stripe" /\ fb.phase \notin {"load", "create", "header"}
  OBVIOUS
<1>3. Sound(fb, peer[f], lane[f])
  BY <1>1, <1>2, SoundMove
<1>4. ASSUME NEW g \in Fetches, g # f
      PROVE  fetch'[g] = [fetch[g] EXCEPT !.journaling = FALSE] /\ fetch'[g] \in FetchType
  <2>1. fetch'[g] = [fetch[g] EXCEPT !.journaling = FALSE] /\ fetch[g] \in FetchType
    BY <1>4, ShapeTyped
  <2> QED BY <2>1 DEF FetchType
<1>5. /\ fetch' \in [Fetches -> FetchType] /\ fetch'[f] = fb
  <2>1. fetch'[f] = fb
    OBVIOUS
  <2>2. DOMAIN fetch' = Fetches /\ fetch' = [g \in Fetches |-> fetch'[g]]
    OBVIOUS
  <2> QED BY <1>4, <2>1, <2>2
<1>6. Kept(f)
  BY <1>1, <1>3, <1>5 DEF Kept
<1>7. ASSUME NEW g \in Fetches, g # f PROVE Untouched(g)
  <2>1. fetch[g] \in FetchType /\ fetch'[g] = [fetch[g] EXCEPT !.journaling = FALSE]
    BY <1>4, <1>7, ShapeTyped
  <2>2. /\ fetch'[g].phase = fetch[g].phase /\ fetch'[g].queue = fetch[g].queue
        /\ fetch'[g].left = fetch[g].left /\ fetch'[g].fatal = fetch[g].fatal
        /\ fetch'[g].limit = fetch[g].limit /\ fetch'[g].file = fetch[g].file
    BY <2>1 DEF FetchType
  <2> QED BY <2>2 DEF Untouched
<1>8. Shape'
  BY <1>5, ShapeTyped DEF Shape, PeerMap, LaneMap
<1>9. Len(disk') >= Len(disk)
  BY <1>1
<1> QED BY <1>6, <1>7, <1>8, <1>9, PiecesFrame

LEMMA NoJournalTyped == NoJournal \in JournalType /\ [NoJournal EXCEPT !.there = TRUE] \in JournalType
                        /\ NoJournal.lines = {} /\ [NoJournal EXCEPT !.there = TRUE].lines = {}
<1>1. 0 \in 0 .. NumPieces
  BY StripedConstants
<1> QED BY <1>1 DEF NoJournal, JournalType

LEMMA OutOfSwarm ==
    ASSUME PiecesInv, NEW f \in Fetches, fetch[f].phase # "stripe" \/ ActivePeers(f) = {}
    PROVE  \A p \in Providers : peer[f][p].st = "out"
<1>1. Sound(fetch[f], peer[f], lane[f])
  BY ShapeUse
<1> QED BY <1>1 DEF Sound, Swarm, ActivePeers

LEMMA StepOpen ==
    ASSUME PiecesInv, NEW f \in Fetches, IrohOpen(f)
    PROVE  PiecesInv'
<1> DEFINE fb == [NoFetch EXCEPT !.phase = IF NumPieces >= 2 THEN "load" ELSE "single"]
<1>1. /\ fetch[f].phase = "idle" /\ fetch' = [fetch EXCEPT ![f] = fb]
      /\ peer' = peer /\ lane' = lane /\ UNCHANGED <<disk, journal, cleanup>>
      /\ path' = IF journal.there THEN path ELSE 0
  BY DEF IrohOpen
<1>2. /\ fb \in FetchType /\ fb.phase \in {"load", "single"} /\ fb.queue = <<>>
      /\ ~fb.fatal /\ fb.file = 0
  <2>1. PICK ph \in {"load", "single"} : ph = IF NumPieces >= 2 THEN "load" ELSE "single"
    OBVIOUS
  <2>2. ph \in Phases
    BY <2>1 DEF Phases
  <2>3. fb = [NoFetch EXCEPT !.phase = ph]
    BY <2>1
  <2> HIDE DEF fb
  <2> QED BY <2>1, <2>2, <2>3, NoFetchTyped DEF FetchType
<1> HIDE DEF fb
<1>3. \A p \in Providers : peer[f][p].st = "out"
  BY <1>1, OutOfSwarm
<1>4. \A p \in Providers, l \in Lanes : lane[f][p][l].st = "gone"
  <2>1. \A p \in Providers, l \in Lanes : lane[f][p][l].st # "append"
    BY DEF IrohOpen, Appending
  <2> QED BY <1>3, <2>1, ShapeUse DEF Sound, Swarm
<1>5. /\ disk' \in Seq(FileType) /\ Len(disk') >= Len(disk) /\ path' \in 0 .. Len(disk')
      /\ fb.file <= Len(disk') /\ journal' \in JournalType
      /\ cleanup' \in [Fetches -> {"none", "file", "journal"}]
  BY <1>1, <1>2, ShapeTyped
<1>6. fb.phase # "stripe"
  BY <1>2
<1> QED BY <1>1, <1>2, <1>3, <1>4, <1>5, <1>6, StepMove

LEMMA DiskGrows ==
    ASSUME NEW d \in Seq(FileType), NEW x \in FileType, NEW e, e = Append(d, x)
    PROVE  /\ e \in Seq(FileType) /\ Len(e) = Len(d) + 1 /\ Len(d) \in Nat /\ e[Len(d) + 1] = x
           /\ \A i \in 1 .. Len(d) : e[i] = d[i]
BY AppendProperties, LenProperties

LEMMA StepSingle ==
    ASSUME PiecesInv, NEW f \in Fetches,
           SingleDownloaded(f) \/ Export(f) \/ SingleFails(f)
    PROVE  PiecesInv'
<1>1. /\ fetch[f] \in FetchType /\ fetch[f].file <= Len(disk) /\ Sound(fetch[f], peer[f], lane[f])
  BY ShapeUse
<1>2. /\ fetch[f].phase \in {"single", "export"} /\ peer' = peer /\ lane' = lane
      /\ UNCHANGED <<journal, cleanup>>
  BY DEF SingleDownloaded, Export, SingleFails, files
<1>3. \A p \in Providers : peer[f][p].st = "out"
  BY <1>2, OutOfSwarm
<1>4. journal' \in JournalType /\ cleanup' \in [Fetches -> {"none", "file", "journal"}]
  BY <1>2, ShapeTyped
<1>5. CASE SingleDownloaded(f)
  <2> DEFINE fb == [fetch[f] EXCEPT !.phase = "export"]
  <2>1. /\ fb \in FetchType /\ fb.phase = "export" /\ fb.fatal = fetch[f].fatal
        /\ fb.queue = fetch[f].queue /\ fb.limit = fetch[f].limit /\ fb.file = fetch[f].file
    BY <1>1 DEF FetchType, Phases
  <2>2. fetch' = [fetch EXCEPT ![f] = fb] /\ path' = 0 /\ disk' = disk
    BY <1>5 DEF SingleDownloaded
  <2> HIDE DEF fb
  <2>3. ~fetch[f].fatal
    BY <1>1, <1>2 DEF Sound, Accounted
  <2>4. /\ disk' \in Seq(FileType) /\ Len(disk') >= Len(disk) /\ path' \in 0 .. Len(disk')
        /\ fb.file <= Len(disk')
    BY <1>1, <2>1, <2>2, ShapeTyped
  <2>5. fb.phase # "stripe" /\ fb.phase \notin {"load", "create", "header"} /\ ~fb.fatal
    BY <2>1, <2>3
  <2> QED BY <1>2, <1>3, <1>4, <2>1, <2>2, <2>4, <2>5, StepMove
<1>6. CASE Export(f)
  <2>1. PICK ino \in Nat : ino = Len(disk) + 1
    BY ShapeTyped
  <2>2. PICK fb : fb = DeliverBlob(fetch[f], ino)
    OBVIOUS
  <2>3. /\ fb \in FetchType /\ fb.queue = <<>> /\ fb.fatal = FALSE
        /\ fb.phase \in {"idle", "stream"} /\ fb.file = ino
    BY <1>1, <2>1, <2>2, DeliverTyped
  <2>4. /\ fetch' = [fetch EXCEPT ![f] = fb] /\ path' = ino
        /\ disk' = Append(disk, [full |-> TRUE, right |-> Pieces])
    BY <1>6, <2>1, <2>2 DEF Export
  <2>5. disk' \in Seq(FileType) /\ Len(disk') = Len(disk) + 1 /\ Len(disk) \in Nat
    <3>1. [full |-> TRUE, right |-> Pieces] \in FileType
      BY DEF FileType
    <3> QED BY <2>4, <3>1, ShapeTyped, DiskGrows
  <2>6. Len(disk') >= Len(disk) /\ path' \in 0 .. Len(disk') /\ fb.file <= Len(disk')
    BY <2>1, <2>3, <2>4, <2>5
  <2>7. fb.phase # "stripe" /\ fb.phase \notin {"load", "create", "header"} /\ ~fb.fatal
    BY <2>3
  <2> QED BY <1>2, <1>3, <1>4, <2>3, <2>4, <2>5, <2>6, <2>7, StepMove
<1>7. CASE SingleFails(f)
  <2>1. PICK fb : fb = [Leave(fetch[f], "idle") EXCEPT !.cancel = "no"]
    OBVIOUS
  <2>2. /\ fb \in FetchType /\ fb.queue = <<>> /\ fb.fatal = FALSE /\ fb.phase = "idle"
        /\ fb.file = 0
    BY <1>1, <2>1, LeaveIdle
  <2>3. fetch' = [fetch EXCEPT ![f] = fb] /\ path' = path /\ disk' = disk
    BY <1>7, <2>1 DEF SingleFails, files
  <2>4. /\ disk' \in Seq(FileType) /\ Len(disk') >= Len(disk) /\ path' \in 0 .. Len(disk')
        /\ fb.file <= Len(disk')
    BY <2>2, <2>3, ShapeTyped
  <2>5. fb.phase # "stripe" /\ fb.phase \notin {"load", "create", "header"} /\ ~fb.fatal
    BY <2>2
  <2> QED BY <1>2, <1>3, <1>4, <2>2, <2>3, <2>4, <2>5, StepMove
<1> QED BY <1>5, <1>6, <1>7

LEMMA StepStreamEnds ==
    ASSUME PiecesInv, NEW f \in Fetches, IrohStreamEnds(f) \/ StreamDropped(f)
    PROVE  PiecesInv'
<1>1. fetch[f].phase = "stream" /\ peer' = peer /\ lane' = lane /\ disk' = disk
      /\ UNCHANGED cleanup
  BY DEF IrohStreamEnds, StreamDropped, files
<1>2. \A p \in Providers : peer[f][p].st = "out"
  BY <1>1, OutOfSwarm
<1>3. PICK fb \in FetchType : /\ fb = NoFetch /\ fb.phase = "idle" /\ fb.queue = <<>>
                              /\ fb.fatal = FALSE /\ fb.file = 0
  BY NoFetchTyped
<1>4. /\ fb.phase # "stripe" /\ fb.phase \notin {"load", "create", "header"} /\ ~fb.fatal
      /\ fb.phase \in {"idle", "stream"}
  BY <1>3
<1>5. disk \in Seq(FileType) /\ Len(disk) \in Nat /\ path \in 0 .. Len(disk)
      /\ cleanup \in [Fetches -> {"none", "file", "journal"}] /\ journal \in JournalType
  BY ShapeTyped
<1>6. CASE IrohStreamEnds(f)
  <2>1. /\ path' = 0 /\ journal' = NoJournal
        /\ fetch' = [g \in Fetches |-> IF g = f THEN fb
                                       ELSE [fetch[g] EXCEPT !.journaling = FALSE]]
    BY <1>3, <1>6 DEF IrohStreamEnds
  <2>2. path' \in 0 .. Len(disk) /\ fb.file <= Len(disk) /\ journal' \in JournalType
    BY <1>3, <1>5, <2>1, NoJournalTyped
  <2> QED BY <1>1, <1>2, <1>3, <1>4, <2>1, <2>2, StepCutOff
<1>7. CASE StreamDropped(f)
  <2>1. fetch' = [fetch EXCEPT ![f] = fb] /\ path' = path /\ journal' = journal
    BY <1>3, <1>7 DEF StreamDropped, files
  <2>2. /\ disk' \in Seq(FileType) /\ Len(disk') >= Len(disk) /\ path' \in 0 .. Len(disk')
        /\ fb.file <= Len(disk') /\ journal' \in JournalType
        /\ cleanup' \in [Fetches -> {"none", "file", "journal"}]
    BY <1>1, <1>3, <1>5, <2>1
  <2> QED BY <1>1, <1>2, <1>3, <1>4, <2>1, <2>2, StepMove
<1> QED BY <1>6, <1>7

LEMMA StepDrained ==
    ASSUME PiecesInv, NEW f \in Fetches, Drained(f)
    PROVE  PiecesInv'
<1>1. fetch[f].phase = "stripe" /\ ActivePeers(f) = {} /\ peer' = peer /\ lane' = lane
      /\ path' = path /\ disk' = disk /\ UNCHANGED cleanup
  BY DEF Drained, Striping
<1>2. \A p \in Providers : peer[f][p].st = "out"
  BY <1>1, OutOfSwarm
<1>3. /\ disk \in Seq(FileType) /\ Len(disk) \in Nat /\ path \in 0 .. Len(disk) /\ path \in Nat
      /\ cleanup \in [Fetches -> {"none", "file", "journal"}] /\ journal \in JournalType
      /\ fetch[f] \in FetchType
  BY ShapeTyped
<1>4. CASE fetch[f].left = 0
  <2> DEFINE fa == [fetch[f] EXCEPT !.journaling = FALSE]
  <2>1. fa \in FetchType
    BY <1>3 DEF FetchType
  <2> HIDE DEF fa
  <2>2. PICK fb \in FetchType : /\ fb = DeliverBlob(fa, path) /\ fb.queue = <<>>
                                /\ fb.fatal = FALSE /\ fb.file = path
                                /\ fb.phase \in {"idle", "stream"}
    BY <1>3, <2>1, DeliverTyped
  <2>3. /\ journal' = NoJournal
        /\ fetch' = [g \in Fetches |-> IF g = f THEN fb
                                       ELSE [fetch[g] EXCEPT !.journaling = FALSE]]
    BY <1>4, <2>2 DEF Drained, fa
  <2>4. /\ path' \in 0 .. Len(disk) /\ fb.file <= Len(disk) /\ journal' \in JournalType
        /\ ~fb.fatal
    BY <1>1, <1>3, <2>2, <2>3, NoJournalTyped
  <2> QED BY <1>1, <1>2, <2>2, <2>3, <2>4, StepCutOff
<1>5. CASE fetch[f].left # 0
  <2>1. "single" \in Phases
    BY DEF Phases
  <2>2. PICK fb \in FetchType : /\ fb = Leave(fetch[f], "single") /\ fb.phase = "single"
                                /\ fb.queue = <<>> /\ fb.fatal = FALSE /\ fb.file = 0
    BY <1>3, <2>1, LeaveTyped
  <2>3. fetch' = [fetch EXCEPT ![f] = fb] /\ journal' = journal
    BY <1>5, <2>2 DEF Drained
  <2>4. /\ disk' \in Seq(FileType) /\ Len(disk') >= Len(disk) /\ path' \in 0 .. Len(disk')
        /\ fb.file <= Len(disk') /\ journal' \in JournalType
        /\ cleanup' \in [Fetches -> {"none", "file", "journal"}]
    BY <1>1, <1>3, <2>2, <2>3
  <2>5. fb.phase # "stripe" /\ fb.phase \notin {"load", "create", "header"} /\ ~fb.fatal
    BY <2>2
  <2> QED BY <1>1, <1>2, <2>2, <2>3, <2>4, <2>5, StepMove
<1> QED BY <1>4, <1>5

(* abort_all: the lanes and peers of f are gone but for lines being written. *)
LEMMA StepAbort ==
    ASSUME PiecesInv, NEW f \in Fetches, AbortLanes(f),
           NEW fb \in FetchType, fb.phase \in {"idle", "single"}, fb.fatal = FALSE,
           fb.queue = <<>>, fb.file = 0,
           fetch' = [fetch EXCEPT ![f] = fb], UNCHANGED files,
           cleanup' \in [Fetches -> {"none", "file", "journal"}]
    PROVE  PiecesInv'
<1> DEFINE pb == [p \in Providers |-> [st |-> "out", fails |-> 0]]
           lb == [p \in Providers |-> [l \in Lanes |->
                    IF lane[f][p][l].st = "append" THEN lane[f][p][l] ELSE IdleLane]]
<1>1. /\ fetch[f] \in FetchType /\ peer[f] \in PeerMap /\ lane[f] \in LaneMap
      /\ Sound(fetch[f], peer[f], lane[f]) /\ Len(disk) \in Nat
      /\ \A p \in Providers, l \in Lanes : /\ lane[f][p][l].file <= Len(disk)
                                           /\ lane[f][p][l] \in LaneType
  BY ShapeUse
<1>2. peer' = [peer EXCEPT ![f] = pb] /\ lane' = [lane EXCEPT ![f] = lb]
  BY DEF AbortLanes
<1>3. pb \in PeerMap /\ \A p \in Providers : pb[p].st = "out" /\ pb[p].fails = 0
  BY DEF PeerMap, PeerType
<1>4. \A p \in Providers, l \in Lanes :
         /\ lb[p][l] \in LaneType
         /\ \/ lb[p][l] = lane[f][p][l] /\ lane[f][p][l].st = "append"
            \/ lb[p][l] = IdleLane
  BY <1>1, IdleLaneTyped
<1>5. lb \in LaneMap
  <2>1. lb = [p \in Providers |-> [l \in Lanes |-> lb[p][l]]]
    OBVIOUS
  <2> HIDE DEF lb
  <2> QED BY <1>4, <2>1 DEF LaneMap
<1> HIDE DEF pb, lb
<1>6. Sound(fb, pb, lb)
  <2>1. \A p \in Providers, l \in Lanes :
           /\ lane[f][p][l].st = "append" => lane[f][p][l].piece \in Pieces
           /\ lane[f][p][l].st # "busy" => lane[f][p][l].tries = 0
    BY <1>1 DEF Sound, Tried
  <2>2. fb.phase # "stripe" /\ ~fb.fatal /\ fb.phase \notin {"load", "create", "header"}
    OBVIOUS
  <2>3. \A p \in Providers, l \in Lanes :
              /\ lb[p][l].st \in {"gone", "append"} /\ lb[p][l].tries = 0
              /\ lb[p][l].st = "append" => lb[p][l].piece \in Pieces
              /\ fb.phase \in {"load", "create", "header"} => lb[p][l].st = "gone"
    <3> SUFFICES ASSUME NEW p \in Providers, NEW l \in Lanes
                 PROVE  /\ lb[p][l].st \in {"gone", "append"} /\ lb[p][l].tries = 0
                        /\ lb[p][l].st = "append" => lb[p][l].piece \in Pieces
      BY <2>2
    <3>1. CASE lb[p][l] = lane[f][p][l] /\ lane[f][p][l].st = "append"
      BY <2>1, <3>1
    <3>2. CASE lb[p][l] = IdleLane
      BY <3>2, IdleLaneTyped
    <3> QED BY <1>4, <3>1, <3>2
  <2>4. \A p \in Providers : pb[p].st = "out" /\ pb[p].fails <= FailBudget + Cardinality(Lanes)
    BY <1>3, StripedConstants
  <2> QED BY <1>3, <1>5, <2>2, <2>3, <2>4, SoundAtRest
<1>7. /\ fetch' \in [Fetches -> FetchType] /\ fetch'[f] = fb
      /\ peer' \in [Fetches -> PeerMap] /\ peer'[f] = pb
      /\ lane' \in [Fetches -> LaneMap] /\ lane'[f] = lb
      /\ \A g \in Fetches : g # f => /\ fetch'[g] = fetch[g] /\ peer'[g] = peer[g]
                                     /\ lane'[g] = lane[g]
  BY <1>2, <1>3, <1>5, ShapeTyped
<1>8. \A p \in Providers, l \in Lanes : lb[p][l].file <= Len(disk)
  BY <1>1, <1>4, IdleLaneTyped
<1>9. Kept(f)
  BY <1>1, <1>6, <1>7, <1>8 DEF Kept, files
<1>10. /\ disk' \in Seq(FileType) /\ Len(disk') >= Len(disk) /\ path' \in 0 .. Len(disk')
       /\ journal' \in JournalType
  BY <1>1, ShapeTyped DEF files
<1> QED BY <1>7, <1>9, <1>10, OneFetchFiles

LEMMA StepWatchdog ==
    ASSUME PiecesInv, NEW f \in Fetches, Watchdog(f)
    PROVE  PiecesInv'
<1>1. fetch[f] \in FetchType /\ "single" \in Phases
  BY ShapeTyped DEF Phases
<1>2. PICK fb \in FetchType : /\ fb = Leave(fetch[f], "single") /\ fb.phase = "single"
                              /\ fb.queue = <<>> /\ fb.fatal = FALSE /\ fb.file = 0
  BY <1>1, LeaveTyped
<1>3. AbortLanes(f) /\ fetch' = [fetch EXCEPT ![f] = fb] /\ UNCHANGED <<files, cleanup>>
  BY <1>2 DEF Watchdog
<1>4. fb.phase \in {"idle", "single"} /\ cleanup' \in [Fetches -> {"none", "file", "journal"}]
  BY <1>2, <1>3, ShapeTyped
<1> QED BY <1>2, <1>3, <1>4, StepAbort

LEMMA StepCancelled ==
    ASSUME PiecesInv, NEW f \in Fetches, IrohCancelled(f)
    PROVE  PiecesInv'
<1>1. fetch[f] \in FetchType
  BY ShapeTyped
<1>2. PICK fb \in FetchType : /\ fb = [Leave(fetch[f], "idle") EXCEPT !.cancel = "no"]
                              /\ fb.phase = "idle" /\ fb.queue = <<>> /\ fb.fatal = FALSE
                              /\ fb.file = 0
  BY <1>1, LeaveIdle
<1>3. AbortLanes(f) /\ fetch' = [fetch EXCEPT ![f] = fb] /\ UNCHANGED files
  BY <1>2 DEF IrohCancelled
<1>4. cleanup' \in [Fetches -> {"none", "file", "journal"}]
  BY ShapeTyped DEF IrohCancelled
<1>5. fb.phase \in {"idle", "single"}
  BY <1>2
<1> QED BY <1>2, <1>3, <1>4, <1>5, StepAbort

(* The start of a swarm, resumed or fresh. *)
LEMMA StepBegin ==
    ASSUME PiecesInv, NEW f \in Fetches, fetch[f].phase \in {"load", "header"},
           NEW done \in SUBSET Pieces, NEW nodes \in SUBSET Providers, NEW j \in JournalType,
           BeginStriping(f, done, nodes, j), UNCHANGED <<path, disk, lane, cleanup>>,
           journal' \in JournalType
    PROVE  /\ PiecesInv' /\ fetch'[f].phase = "stripe" /\ fetch'[f].file = fetch[f].file
           /\ \A g \in Fetches : g # f => fetch'[g] = fetch[g]
           /\ \A x \in Pieces \ done :
                \E i \in 1 .. Len(fetch'[f].queue) : fetch'[f].queue[i][1] = x
           /\ \A p \in Providers, l \in Lanes : lane[f][p][l].st = "gone"
<1>1. /\ fetch[f] \in FetchType /\ peer[f] \in PeerMap /\ lane[f] \in LaneMap
      /\ Sound(fetch[f], peer[f], lane[f]) /\ fetch[f].file <= Len(disk) /\ Len(disk) \in Nat
      /\ \A p \in Providers, l \in Lanes : lane[f][p][l].file <= Len(disk)
  BY ShapeUse
<1>2. PICK S \in SUBSET Pieces : S = Pieces \ done
  OBVIOUS
<1>3. PICK qu : qu = UntriedQueue(S)
  OBVIOUS
<1>4. PICK n \in Nat : n = IF Cardinality(nodes) + 2 > BaseAttempts
                           THEN Cardinality(nodes) + 2 ELSE BaseAttempts
  <2>1. Cardinality(nodes) \in Nat
    BY StripedConstants, FS_Subset, FS_CardinalityType
  <2> QED BY <2>1, StripedConstants
<1>5. PICK jn \in BOOLEAN : jn = j.there
  BY DEF JournalType
<1>6. /\ Cardinality(S) \in 0 .. NumPieces
      /\ qu \in Seq(Pieces \X Nat) /\ Len(qu) = Cardinality(S)
      /\ \A i \in 1 .. Len(qu) : qu[i][2] = 0
      /\ \A i, k \in 1 .. Len(qu) : qu[i][1] = qu[k][1] => i = k
      /\ \A x \in S : \E i \in 1 .. Len(qu) : qu[i][1] = x
  BY <1>3, QueueOf
<1> DEFINE fb == [fetch[f] EXCEPT !.phase = "stripe", !.queue = qu, !.left = Cardinality(S),
                                  !.limit = n, !.journaling = jn]
           pb == [p \in Providers |->
                    [st |-> IF p \in nodes THEN "dialing" ELSE "out", fails |-> 0]]
<1>7. /\ fb \in FetchType /\ fb.phase = "stripe" /\ fb.queue = qu /\ fb.left = Cardinality(S)
      /\ fb.fatal = fetch[f].fatal /\ fb.file = fetch[f].file
  BY <1>1, <1>6 DEF FetchType, Phases
<1>8. pb \in PeerMap /\ \A p \in Providers : pb[p].st # "up" /\ pb[p].fails = 0
  BY DEF PeerMap, PeerType
<1>9. peer' = [peer EXCEPT ![f] = pb]
  BY DEF BeginStriping
<1>10. fetch' = [fetch EXCEPT ![f] = fb]
  <2>1. fetch' = [fetch EXCEPT ![f].phase = "stripe", ![f].queue = qu,
                               ![f].left = Cardinality(S), ![f].limit = n, ![f].journaling = jn]
    BY <1>2, <1>3, <1>4, <1>5 DEF BeginStriping, UntriedQueue
  <2> QED BY <2>1, ShapeTyped
<1> HIDE DEF fb, pb
<1>11. Sound(fb, pb, lane[f])
  <2>1. /\ fb.left = Len(fb.queue)
        /\ \A i \in 1 .. Len(fb.queue) : fb.queue[i][2] = 0
        /\ \A i, k \in 1 .. Len(fb.queue) : fb.queue[i][1] = fb.queue[k][1] => i = k
    BY <1>6, <1>7
  <2> QED BY <1>1, <1>7, <1>8, <2>1, SoundBegin
<1>12. /\ fetch' \in [Fetches -> FetchType] /\ fetch'[f] = fb
       /\ peer' \in [Fetches -> PeerMap] /\ peer'[f] = pb /\ lane' \in [Fetches -> LaneMap]
       /\ \A g \in Fetches : g # f => /\ fetch'[g] = fetch[g] /\ peer'[g] = peer[g]
                                      /\ lane'[g] = lane[g]
  BY <1>7, <1>8, <1>9, <1>10, ShapeTyped
<1>13. Kept(f)
  BY <1>1, <1>7, <1>11, <1>12 DEF Kept
<1>14. /\ disk' \in Seq(FileType) /\ Len(disk') >= Len(disk) /\ path' \in 0 .. Len(disk')
       /\ cleanup' \in [Fetches -> {"none", "file", "journal"}]
  BY <1>1, ShapeTyped
<1>15. PiecesInv'
  BY <1>12, <1>13, <1>14, OneFetchFiles
<1>16. \A p \in Providers, l \in Lanes : lane[f][p][l].st = "gone"
  BY <1>1 DEF Sound, Swarm
<1> QED BY <1>2, <1>6, <1>7, <1>12, <1>15, <1>16

LEMMA LoadedPieces == ASSUME Shape PROVE Loaded \in SUBSET Pieces
BY DEF Loaded, Shape, JournalType

LEMMA StepLoad ==
    ASSUME PiecesInv, NEW f \in Fetches, Load(f)
    PROVE  PiecesInv'
<1>1. fetch[f].phase = "load" /\ UNCHANGED <<path, disk, lane, cleanup>>
  BY DEF Load
<1>2. \A p \in Providers : peer[f][p].st = "out"
  BY <1>1, OutOfSwarm
<1>3. /\ disk \in Seq(FileType) /\ Len(disk) \in Nat /\ path \in 0 .. Len(disk) /\ path \in Nat
      /\ cleanup \in [Fetches -> {"none", "file", "journal"}] /\ journal \in JournalType
      /\ fetch[f] \in FetchType
  BY ShapeTyped
<1>4. ~fetch[f].fatal /\ \A p \in Providers, l \in Lanes : lane[f][p][l].st = "gone"
  <2>1. Sound(fetch[f], peer[f], lane[f])
    BY ShapeUse
  <2> QED BY <1>1, <2>1 DEF Sound, Swarm, Accounted
<1>5. CASE fetch' = [fetch EXCEPT ![f].phase = "create"] /\ UNCHANGED <<journal, peer>>
  <2> DEFINE fb == [fetch[f] EXCEPT !.phase = "create"]
  <2>1. /\ fb \in FetchType /\ fb.phase = "create" /\ fb.fatal = fetch[f].fatal
        /\ fb.queue = fetch[f].queue /\ fb.limit = fetch[f].limit /\ fb.file = fetch[f].file
    BY <1>3 DEF FetchType, Phases
  <2>2. fetch' = [fetch EXCEPT ![f] = fb]
    BY <1>5
  <2> HIDE DEF fb
  <2>3. fetch[f].file <= Len(disk)
    BY ShapeUse
  <2>4. /\ disk' \in Seq(FileType) /\ Len(disk') >= Len(disk) /\ path' \in 0 .. Len(disk')
        /\ fb.file <= Len(disk') /\ journal' \in JournalType /\ peer' = peer /\ lane' = lane
        /\ cleanup' \in [Fetches -> {"none", "file", "journal"}]
    BY <1>1, <1>3, <1>5, <2>1, <2>3
  <2>5. fb.phase # "stripe" /\ ~fb.fatal
    BY <1>4, <2>1
  <2> QED BY <1>2, <1>4, <2>1, <2>2, <2>4, <2>5, StepMove
<1>6. CASE /\ journal' = NoJournal
           /\ fetch' = [g \in Fetches |-> [fetch[g] EXCEPT
                          !.journaling = FALSE,
                          !.phase = IF g = f THEN "stream" ELSE @,
                          !.file = IF g = f THEN path ELSE @]]
           /\ UNCHANGED peer
  <2> DEFINE fb == [fetch[f] EXCEPT !.journaling = FALSE, !.phase = "stream", !.file = path]
  <2>1. /\ fb \in FetchType /\ fb.phase = "stream" /\ fb.fatal = fetch[f].fatal
        /\ fb.queue = fetch[f].queue /\ fb.limit = fetch[f].limit /\ fb.file = path
    BY <1>3 DEF FetchType, Phases
  <2>2. ASSUME NEW g \in Fetches
        PROVE  fetch'[g] = IF g = f THEN fb ELSE [fetch[g] EXCEPT !.journaling = FALSE]
    <3>1. fetch[g] \in FetchType
      BY ShapeTyped
    <3>2. CASE g = f
      BY <1>6, <3>2
    <3>3. CASE g # f
      <4>1. fetch'[g] = [fetch[g] EXCEPT !.journaling = FALSE, !.phase = fetch[g].phase,
                                         !.file = fetch[g].file]
        BY <1>6, <3>3
      <4>2. @ = [fetch[g] EXCEPT !.journaling = FALSE]
        BY <3>1 DEF FetchType
      <4> QED BY <3>3, <4>1, <4>2
    <3> QED BY <3>2, <3>3
  <2>3. fetch' = [g \in Fetches |-> IF g = f THEN fb ELSE [fetch[g] EXCEPT !.journaling = FALSE]]
    <3>1. fetch' = [g \in Fetches |-> fetch'[g]]
      BY <1>6
    <3> HIDE DEF fb
    <3> QED BY <2>2, <3>1
  <2> HIDE DEF fb
  <2>4. /\ path' \in 0 .. Len(disk) /\ fb.file <= Len(disk) /\ journal' \in JournalType
        /\ ~fb.fatal /\ fb.phase \in {"idle", "stream"} /\ peer' = peer /\ lane' = lane
        /\ disk' = disk /\ UNCHANGED cleanup
    <3>1. path' = path /\ lane' = lane /\ disk' = disk /\ peer' = peer /\ UNCHANGED cleanup
      BY <1>1, <1>6
    <3>2. journal' \in JournalType
      BY <1>6, NoJournalTyped
    <3>3. ~fb.fatal /\ fb.phase \in {"idle", "stream"}
      BY <1>4, <2>1
    <3> QED BY <1>3, <2>1, <3>1, <3>2, <3>3
  <2> QED BY <1>2, <2>1, <2>3, <2>4, StepCutOff
<1>7. CASE /\ \E nodes \in SUBSET Providers \ {{}} : BeginStriping(f, Loaded, nodes, journal)
           /\ UNCHANGED journal
  <2>1. PICK nodes \in SUBSET Providers : BeginStriping(f, Loaded, nodes, journal)
    BY <1>7
  <2>2. Loaded \in SUBSET Pieces
    BY LoadedPieces DEF PiecesInv
  <2>3. fetch[f].phase \in {"load", "header"} /\ journal' \in JournalType
    BY <1>1, <1>3, <1>7
  <2> QED BY <1>1, <1>3, <2>1, <2>2, <2>3, StepBegin
<1> QED BY <1>5, <1>6, <1>7 DEF Load

LEMMA StepWriteHeader ==
    ASSUME PiecesInv, NEW f \in Fetches, WriteHeader(f)
    PROVE  PiecesInv'
<1>1. /\ fetch[f].phase \in {"load", "header"} /\ UNCHANGED <<path, disk, lane, cleanup>>
      /\ journal' = [NoJournal EXCEPT !.there = TRUE]
  BY DEF WriteHeader
<1>2. PICK j \in JournalType : j = journal'
  BY <1>1, NoJournalTyped
<1>3. PICK nodes \in SUBSET Providers : BeginStriping(f, {}, nodes, j)
  BY <1>2 DEF WriteHeader
<1>4. {} \in SUBSET Pieces /\ journal' \in JournalType
  BY <1>2
<1> QED BY <1>1, <1>3, <1>4, StepBegin

(* Lanes of which at most the mark of a truncated file has changed. *)
SameLanes(g) ==
    \A p \in Providers, l \in Lanes :
        /\ lane'[g][p][l].st = lane[g][p][l].st /\ lane'[g][p][l].piece = lane[g][p][l].piece
        /\ lane'[g][p][l].tries = lane[g][p][l].tries
        /\ lane'[g][p][l].file = lane[g][p][l].file

LEMMA CreateLanes ==
    ASSUME PiecesInv, NEW f \in Fetches, Create(f)
    PROVE  lane' \in [Fetches -> LaneMap] /\ \A g \in Fetches : SameLanes(g)
<1>1. CASE path = 0
  <2>1. lane' = lane
    BY <1>1 DEF Create
  <2> QED BY <2>1, ShapeTyped DEF SameLanes
<1>2. CASE path # 0
  <2>1. lane' = [g \in Fetches |-> [p \in Providers |-> [l \in Lanes |->
                    [lane[g][p][l] EXCEPT
                        !.cut = lane[g][p][l].file = path /\ lane[g][p][l].st = "busy"]]]]
    BY <1>2 DEF Create
  <2>2. ASSUME NEW g \in Fetches, NEW p \in Providers, NEW l \in Lanes
        PROVE  /\ lane'[g][p][l] \in LaneType
               /\ lane'[g][p][l].st = lane[g][p][l].st /\ lane'[g][p][l].piece = lane[g][p][l].piece
               /\ lane'[g][p][l].tries = lane[g][p][l].tries
               /\ lane'[g][p][l].file = lane[g][p][l].file
    <3>1. PICK c \in BOOLEAN : c = (lane[g][p][l].file = path /\ lane[g][p][l].st = "busy")
      OBVIOUS
    <3>2. PICK r \in LaneType : r = lane[g][p][l]
      BY ShapeTyped DEF LaneMap
    <3>3. lane'[g][p][l] = [r EXCEPT !.cut = c]
      BY <2>1, <3>1, <3>2
    <3>4. /\ [r EXCEPT !.cut = c] \in LaneType /\ [r EXCEPT !.cut = c].st = r.st
          /\ [r EXCEPT !.cut = c].piece = r.piece /\ [r EXCEPT !.cut = c].tries = r.tries
          /\ [r EXCEPT !.cut = c].file = r.file
      BY <3>1, <3>2 DEF LaneType
    <3> QED BY <3>2, <3>3, <3>4
  <2>3. lane' \in [Fetches -> LaneMap]
    <3>1. lane' = [g \in Fetches |-> [p \in Providers |-> [l \in Lanes |-> lane'[g][p][l]]]]
      BY <2>1
    <3> QED BY <2>2, <3>1 DEF LaneMap
  <2> QED BY <2>2, <2>3 DEF SameLanes
<1> QED BY <1>1, <1>2

LEMMA CreateDisk ==
    ASSUME PiecesInv, NEW f \in Fetches, Create(f)
    PROVE  /\ disk' \in Seq(FileType) /\ Len(disk') >= Len(disk) /\ Len(disk') \in Nat
           /\ path' \in 1 .. Len(disk') /\ disk'[path'].full /\ disk'[path'].right = {}
           /\ \A i \in 1 .. Len(disk) : i # path => disk'[i] = disk[i]
<1>1. disk \in Seq(FileType) /\ Len(disk) \in Nat /\ path \in 0 .. Len(disk)
  BY ShapeTyped
<1>2. [full |-> TRUE, right |-> {}] \in FileType
  BY DEF FileType
<1>3. CASE path = 0
  <2>1. disk' = Append(disk, [full |-> TRUE, right |-> {}]) /\ path' = Len(disk) + 1
    BY <1>3 DEF Create
  <2>2. PICK x \in FileType : x = [full |-> TRUE, right |-> {}] /\ x.full /\ x.right = {}
    BY <1>2
  <2>3. /\ disk' \in Seq(FileType) /\ Len(disk') = Len(disk) + 1 /\ disk'[Len(disk) + 1] = x
        /\ \A i \in 1 .. Len(disk) : disk'[i] = disk[i]
    BY <1>1, <2>1, <2>2, DiskGrows
  <2>4. disk'[path'] = x
    BY <2>1, <2>3
  <2>5. path' \in 1 .. Len(disk') /\ Len(disk') >= Len(disk) /\ Len(disk') \in Nat
    BY <1>1, <2>1, <2>3
  <2> QED BY <2>2, <2>3, <2>4, <2>5
<1>4. CASE path # 0
  <2>1. disk' = [disk EXCEPT ![path].full = TRUE, ![path].right = {}] /\ path' = path
    BY <1>4 DEF Create
  <2>2. path \in 1 .. Len(disk) /\ disk \in [1 .. Len(disk) -> FileType]
    BY <1>1, <1>4, LenProperties
  <2>3. /\ disk' \in [1 .. Len(disk) -> FileType] /\ disk'[path].full /\ disk'[path].right = {}
        /\ \A i \in 1 .. Len(disk) : i # path => disk'[i] = disk[i]
    BY <2>1, <2>2 DEF FileType
  <2>4. disk' \in Seq(FileType) /\ Len(disk') = Len(disk)
    <3>1. disk' \in Seq(FileType) /\ DOMAIN disk' = 1 .. Len(disk)
      BY <1>1, <2>3
    <3> QED BY <1>1, <3>1, LenProperties
  <2>5. disk'[path'].full /\ disk'[path'].right = {} /\ path' \in 1 .. Len(disk')
        /\ Len(disk') >= Len(disk) /\ Len(disk') \in Nat
    <3>1. path' = path
      BY <2>1
    <3> QED BY <1>1, <2>2, <2>3, <2>4, <3>1
  <2> QED BY <2>3, <2>4, <2>5
<1> QED BY <1>3, <1>4

LEMMA StepCreate ==
    ASSUME PiecesInv, NEW f \in Fetches, Create(f)
    PROVE  PiecesInv'
<1> DEFINE fb == [fetch[f] EXCEPT !.phase = "header"]
<1>1. /\ fetch[f] \in FetchType /\ peer[f] \in PeerMap /\ lane[f] \in LaneMap
      /\ Sound(fetch[f], peer[f], lane[f]) /\ fetch[f].file <= Len(disk) /\ Len(disk) \in Nat
      /\ fetch[f].file \in Nat
      /\ \A p \in Providers, l \in Lanes : lane[f][p][l].file <= Len(disk)
                                           /\ lane[f][p][l].file \in Nat
  BY ShapeUse
<1>2. /\ fetch[f].phase = "create" /\ fetch' = [fetch EXCEPT ![f] = fb]
      /\ UNCHANGED <<journal, peer, cleanup>>
  BY ShapeTyped DEF Create
<1>3. lane' \in [Fetches -> LaneMap] /\ \A g \in Fetches : SameLanes(g)
  BY CreateLanes
<1>4. /\ disk' \in Seq(FileType) /\ Len(disk') >= Len(disk) /\ Len(disk') \in Nat
      /\ path' \in 1 .. Len(disk')
  BY CreateDisk
<1>5. /\ fb \in FetchType /\ fb.phase = "header" /\ fb.queue = fetch[f].queue
      /\ fb.limit = fetch[f].limit /\ fb.fatal = fetch[f].fatal /\ fb.file = fetch[f].file
  BY <1>1 DEF FetchType, Phases
<1> HIDE DEF fb
<1>6. PICK lb \in LaneMap : lb = lane'[f]
  BY <1>3
<1>7. \A p \in Providers, l \in Lanes :
         /\ lb[p][l].st = lane[f][p][l].st /\ lb[p][l].piece = lane[f][p][l].piece
         /\ lb[p][l].tries = lane[f][p][l].tries
  BY <1>3, <1>6 DEF SameLanes
<1>8. Sound(fetch[f], peer[f], lb)
  BY <1>1, <1>7, SoundUntouched
<1>9. Sound(fb, peer[f], lb)
  <2>1. ~fb.fatal /\ fb.phase # "stripe"
    BY <1>1, <1>2, <1>5 DEF Sound, Accounted
  <2>2. \A p \in Providers : peer[f][p].st = "out"
    BY <1>2, OutOfSwarm
  <2>3. \A p \in Providers, l \in Lanes : lb[p][l].st = "gone"
    BY <1>1, <1>2, <1>7 DEF Sound, Swarm
  <2> QED BY <1>1, <1>5, <1>8, <2>1, <2>2, <2>3, SoundMove
<1>10. /\ fetch' \in [Fetches -> FetchType] /\ fetch'[f] = fb
       /\ \A g \in Fetches : g # f => fetch'[g] = fetch[g]
  BY <1>2, <1>5, ShapeTyped
<1>11. Kept(f)
  <2>1. \A p \in Providers, l \in Lanes : lane'[f][p][l].file <= Len(disk')
    BY <1>1, <1>3, <1>4 DEF SameLanes
  <2>2. Sound(fetch'[f], peer'[f], lane'[f])
    BY <1>2, <1>6, <1>9, <1>10
  <2> QED BY <1>1, <1>4, <1>5, <1>10, <2>1, <2>2 DEF Kept
<1>12. \A g \in Fetches : g # f => Untouched(g)
  BY <1>2, <1>3, <1>10 DEF SameLanes, Untouched
<1>13. Shape'
  BY <1>2, <1>3, <1>4, <1>10, ShapeTyped DEF Shape, PeerMap, LaneMap
<1> QED BY <1>4, <1>11, <1>12, <1>13, PiecesFrame

(* The steps of the user and of the clean-up. *)
LEMMA StepCancel ==
    ASSUME PiecesInv, NEW f \in Fetches, NEW how \in {"pause", "stop"}, Cancel(f, how)
    PROVE  PiecesInv'
<1> DEFINE fb == [fetch[f] EXCEPT !.cancel = how]
<1>1. /\ fetch[f] \in FetchType /\ fetch[f].file <= Len(disk) /\ Len(disk) \in Nat
  BY ShapeUse
<1>2. fetch' = [fetch EXCEPT ![f] = fb] /\ UNCHANGED <<files, peer, lane, cleanup>>
  BY ShapeTyped DEF Cancel
<1>3. /\ fb \in FetchType /\ fb.phase = fetch[f].phase /\ fb.queue = fetch[f].queue
      /\ fb.left = fetch[f].left /\ fb.limit = fetch[f].limit /\ fb.fatal = fetch[f].fatal
      /\ fb.file = fetch[f].file
  BY <1>1 DEF FetchType
<1> HIDE DEF fb
<1>4. /\ fetch' \in [Fetches -> FetchType] /\ fetch'[f] = fb
      /\ \A g \in Fetches : g # f => fetch'[g] = fetch[g]
  BY <1>2, <1>3, ShapeTyped
<1>5. \A g \in Fetches : Untouched(g)
  BY <1>2, <1>3, <1>4 DEF Untouched
<1>6. Shape' /\ Len(disk') >= Len(disk)
  BY <1>1, <1>2, <1>4, ShapeTyped DEF Shape, PeerMap, LaneMap, files
<1> QED BY <1>5, <1>6, PiecesFrame

LEMMA StepCleanup ==
    ASSUME PiecesInv, NEW f \in Fetches, RemoveScratch(f) \/ RemoveStripes(f)
    PROVE  PiecesInv'
<1>1. disk' = disk /\ peer' = peer /\ lane' = lane /\ Len(disk) \in Nat
      /\ cleanup' \in [Fetches -> {"none", "file", "journal"}]
  BY ShapeTyped DEF RemoveScratch, RemoveStripes
<1>2. CASE RemoveScratch(f)
  <2>1. path' = 0 /\ journal' = journal /\ fetch' = fetch
    BY <1>2 DEF RemoveScratch
  <2>2. Shape' /\ Len(disk') >= Len(disk)
    BY <1>1, <2>1, ShapeTyped DEF Shape, PeerMap, LaneMap
  <2>3. \A g \in Fetches : Untouched(g)
    BY <1>1, <2>1 DEF Untouched
  <2> QED BY <2>2, <2>3, PiecesFrame
<1>3. CASE RemoveStripes(f)
  <2>1. /\ path' = path /\ journal' = NoJournal
        /\ fetch' = [g \in Fetches |-> [fetch[g] EXCEPT !.journaling = FALSE]]
    BY <1>3 DEF RemoveStripes, RemoveJournal
  <2>2. ASSUME NEW g \in Fetches
        PROVE  /\ fetch'[g] \in FetchType
               /\ fetch'[g].phase = fetch[g].phase /\ fetch'[g].queue = fetch[g].queue
               /\ fetch'[g].left = fetch[g].left /\ fetch'[g].fatal = fetch[g].fatal
               /\ fetch'[g].limit = fetch[g].limit /\ fetch'[g].file = fetch[g].file
    <3>1. fetch[g] \in FetchType /\ fetch'[g] = [fetch[g] EXCEPT !.journaling = FALSE]
      BY <2>1, ShapeTyped
    <3> QED BY <3>1 DEF FetchType
  <2>3. fetch' \in [Fetches -> FetchType]
    <3>1. fetch' = [g \in Fetches |-> fetch'[g]]
      BY <2>1
    <3> QED BY <2>2, <3>1
  <2>4. Shape' /\ Len(disk') >= Len(disk)
    BY <1>1, <2>1, <2>3, ShapeTyped, NoJournalTyped DEF Shape, PeerMap, LaneMap
  <2>5. \A g \in Fetches : Untouched(g)
    BY <1>1, <2>2 DEF Untouched
  <2> QED BY <2>4, <2>5, PiecesFrame
<1> QED BY <1>2, <1>3

LEMMA CrashDisk ==
    ASSUME PiecesInv, IrohCrash
    PROVE  /\ disk' \in Seq(FileType) /\ Len(disk') \in Nat /\ path' \in 0 .. Len(disk')
           /\ \/ disk' = disk /\ path' = path
              \/ path' # 0 /\ ~disk'[path'].full
<1>1. disk \in Seq(FileType) /\ Len(disk) \in Nat /\ path \in 0 .. Len(disk)
  BY ShapeTyped
<1>2. CASE UNCHANGED <<path, disk>>
  BY <1>1, <1>2
<1>3. CASE Unsized /\ path = 0
  <2>1. [full |-> FALSE, right |-> {}] \in FileType
    BY DEF FileType
  <2>2. PICK x \in FileType : x = [full |-> FALSE, right |-> {}] /\ ~x.full
    BY <2>1
  <2>3. disk' = Append(disk, x) /\ path' = Len(disk) + 1
    <3>1. path = 0 /\ Unsized
      BY <1>3
    <3>2. disk' = Append(disk, [full |-> FALSE, right |-> {}]) /\ path' = Len(disk) + 1
      BY <3>1 DEF Unsized
    <3> QED BY <2>2, <3>2
  <2>4. /\ disk' \in Seq(FileType) /\ Len(disk') = Len(disk) + 1 /\ disk'[Len(disk) + 1] = x
    BY <1>1, <2>3, DiskGrows
  <2>5. disk'[path'] = x /\ path' \in 0 .. Len(disk') /\ path' # 0 /\ Len(disk') \in Nat
    BY <1>1, <2>3, <2>4
  <2> QED BY <2>2, <2>4, <2>5
<1>4. CASE Unsized /\ path # 0
  <2>1. disk' = [disk EXCEPT ![path].full = FALSE, ![path].right = {}] /\ path' = path
    BY <1>4 DEF Unsized
  <2>2. path \in 1 .. Len(disk) /\ disk \in [1 .. Len(disk) -> FileType]
    BY <1>1, <1>4, LenProperties
  <2>3. disk' \in [1 .. Len(disk) -> FileType] /\ ~disk'[path].full
    BY <2>1, <2>2 DEF FileType
  <2>4. disk' \in Seq(FileType) /\ Len(disk') = Len(disk)
    <3>1. disk' \in Seq(FileType) /\ DOMAIN disk' = 1 .. Len(disk)
      BY <1>1, <2>3
    <3> QED BY <1>1, <3>1, LenProperties
  <2>5. ~disk'[path'].full /\ path' \in 0 .. Len(disk') /\ path' # 0 /\ Len(disk') \in Nat
    <3>1. path' = path
      BY <2>1
    <3> QED BY <1>1, <1>4, <2>3, <2>4, <3>1
  <2> QED BY <2>4, <2>5
<1> QED BY <1>2, <1>3, <1>4 DEF IrohCrash

LEMMA CrashJournal ==
    ASSUME PiecesInv, IrohCrash
    PROVE  /\ journal' \in JournalType
           /\ \/ journal' = journal
              \/ \E f \in Fetches, p \in Providers, l \in Lanes :
                    /\ lane[f][p][l].st = "append"
                    /\ journal'.lines \subseteq journal.lines \cup {lane[f][p][l].piece}
<1>1. journal \in JournalType
  BY ShapeTyped
<1>2. CASE journal' = journal
  BY <1>1, <1>2
<1>3. ASSUME NEW f \in Fetches, NEW p \in Providers, NEW l \in Lanes,
             lane[f][p][l].st = "append", journal' \in TornAppends(journal, lane[f][p][l].piece)
      PROVE  /\ journal' \in JournalType
             /\ journal'.lines \subseteq journal.lines \cup {lane[f][p][l].piece}
  <2>1. PICK num \in Pieces : num = lane[f][p][l].piece
    BY <1>3, ShapeUse DEF Sound, Tried
  <2>2. journal' \in TornAppends(journal, num)
    BY <1>3, <2>1
  <2> QED BY <1>1, <2>1, <2>2, TornTyped
<1> QED BY <1>1, <1>2, <1>3 DEF IrohCrash

(* A fetch of which nothing is left. *)
LEMMA SoundNothing ==
    ASSUME NEW pe, pe = [p \in Providers |-> [st |-> "out", fails |-> 0]],
           NEW la, la = [p \in Providers |-> [l \in Lanes |-> IdleLane]]
    PROVE  pe \in PeerMap /\ la \in LaneMap /\ Sound(NoFetch, pe, la)
<1>1. pe \in PeerMap /\ \A p \in Providers : pe[p].st = "out" /\ pe[p].fails = 0
  BY DEF PeerMap, PeerType
<1>2. la \in LaneMap /\ \A p \in Providers, l \in Lanes : la[p][l] = IdleLane
  BY IdleLaneTyped DEF LaneMap
<1>3. \A p \in Providers : pe[p].st = "out" /\ pe[p].fails <= FailBudget + Cardinality(Lanes)
  BY <1>1, StripedConstants
<1>4. \A p \in Providers, l \in Lanes :
              /\ la[p][l].st \in {"gone", "append"} /\ la[p][l].tries = 0
              /\ la[p][l].st = "append" => la[p][l].piece \in Pieces
              /\ NoFetch.phase \in {"load", "create", "header"} => la[p][l].st = "gone"
  BY <1>2, IdleLaneTyped
<1>5. NoFetch.phase # "stripe" /\ ~NoFetch.fatal /\ NoFetch.queue = <<>> /\ NoFetch \in FetchType
  BY NoFetchTyped
<1> QED BY <1>1, <1>2, <1>3, <1>4, <1>5, SoundAtRest

LEMMA StepCrash ==
    ASSUME PiecesInv, IrohCrash
    PROVE  PiecesInv'
<1> DEFINE pe == [p \in Providers |-> [st |-> "out", fails |-> 0]]
           la == [p \in Providers |-> [l \in Lanes |-> IdleLane]]
<1>1. /\ fetch' = [f \in Fetches |-> NoFetch] /\ peer' = [f \in Fetches |-> pe]
      /\ lane' = [f \in Fetches |-> la] /\ cleanup' = [f \in Fetches |-> "none"]
  BY DEF IrohCrash
<1>2. pe \in PeerMap /\ la \in LaneMap /\ Sound(NoFetch, pe, la)
  BY SoundNothing
<1>3. \A p \in Providers, l \in Lanes : la[p][l].file = 0
  BY IdleLaneTyped
<1> HIDE DEF pe, la
<1>4. disk' \in Seq(FileType) /\ Len(disk') \in Nat /\ path' \in 0 .. Len(disk')
  BY CrashDisk
<1>5. journal' \in JournalType
  BY CrashJournal
<1>6. Shape'
  BY <1>1, <1>2, <1>4, <1>5, NoFetchTyped DEF Shape, PeerMap, LaneMap
<1>7. \A f \in Fetches : Sound(fetch'[f], peer'[f], lane'[f])
  BY <1>1, <1>2
<1>8. Named'
  BY <1>1, <1>3, <1>4, NoFetchTyped DEF Named
<1> QED BY <1>6, <1>7, <1>8 DEF PiecesInv

LEMMA PiecesInit == StripedInit => PiecesInv
<1> SUFFICES ASSUME StripedInit PROVE PiecesInv
  OBVIOUS
<1> DEFINE pe == [p \in Providers |-> [st |-> "out", fails |-> 0]]
           la == [p \in Providers |-> [l \in Lanes |-> IdleLane]]
<1>1. /\ fetch = [f \in Fetches |-> NoFetch] /\ peer = [f \in Fetches |-> pe]
      /\ lane = [f \in Fetches |-> la] /\ cleanup = [f \in Fetches |-> "none"]
      /\ disk = <<>> /\ path = 0 /\ journal = NoJournal
  BY DEF StripedInit
<1>2. pe \in PeerMap /\ la \in LaneMap /\ Sound(NoFetch, pe, la)
  BY SoundNothing
<1>3. \A p \in Providers, l \in Lanes : la[p][l].file = 0
  BY IdleLaneTyped
<1> HIDE DEF pe, la
<1>4. disk \in Seq(FileType) /\ Len(disk) = 0 /\ path \in 0 .. Len(disk)
  BY <1>1
<1>5. Shape
  BY <1>1, <1>2, <1>4, NoFetchTyped, NoJournalTyped DEF Shape, PeerMap, LaneMap
<1>6. \A f \in Fetches : Sound(fetch[f], peer[f], lane[f])
  BY <1>1, <1>2
<1>7. Named
  BY <1>1, <1>3, <1>4, NoFetchTyped DEF Named
<1> QED BY <1>5, <1>6, <1>7 DEF PiecesInv

LEMMA PiecesStep == PiecesInv /\ [StripedNext]_stripedVars => PiecesInv'
<1> SUFFICES ASSUME PiecesInv, [StripedNext]_stripedVars PROVE PiecesInv'
  OBVIOUS
<1>1. ASSUME NEW f \in Fetches, LaneStep(f) PROVE PiecesInv'
  <2>1. PICK p \in Providers :
          \/ Connect(f, p) \/ ConnectFails(f, p) \/ PeerLeaves(f, p)
          \/ \E l \in Lanes : \/ Take(f, p, l) \/ LaneLeaves(f, p, l) \/ Received(f, p, l)
                              \/ Journal(f, p, l) \/ LaneFails(f, p, l)
    BY <1>1 DEF LaneStep
  <2>2. CASE Connect(f, p) \/ ConnectFails(f, p) \/ PeerLeaves(f, p)
    BY <2>2, StepConnect, StepConnectFails
  <2>3. ASSUME NEW l \in Lanes, Take(f, p, l) \/ LaneLeaves(f, p, l) \/ Received(f, p, l)
                                \/ Journal(f, p, l) \/ LaneFails(f, p, l)
        PROVE  PiecesInv'
    BY <2>3, StepTake, StepLaneLeaves, StepReceived, StepJournal, StepLaneFails
  <2> QED BY <2>1, <2>2, <2>3
<1>2. ASSUME NEW f \in Fetches, DriverStep(f) PROVE PiecesInv'
  BY <1>2, StepLoad, StepCreate, StepWriteHeader, StepDrained, StepWatchdog, StepCancelled,
     StepSingle, StepStreamEnds DEF DriverStep
<1>3. CASE IrohCrash
  BY <1>3, StepCrash
<1>4. CASE UNCHANGED stripedVars
  <2>1. UNCHANGED <<path, disk, journal, fetch, peer, lane, cleanup>>
    BY <1>4 DEF stripedVars
  <2> QED BY <2>1 DEF PiecesInv, Shape, Named
<1>5. ASSUME NEW f \in Fetches, NEW how \in {"pause", "stop"}, Cancel(f, how) PROVE PiecesInv'
  BY <1>5, StepCancel
<1>6. ASSUME NEW f \in Fetches, IrohOpen(f) \/ Refresh(f) \/ RemoveScratch(f) \/ RemoveStripes(f)
      PROVE  PiecesInv'
  BY <1>6, StepOpen, StepRefresh, StepCleanup
<1> QED BY <1>1, <1>2, <1>3, <1>4, <1>5, <1>6 DEF StripedNext

(* What the invariant says in the terms of the runs. *)
LEMMA PiecesInvUse ==
    ASSUME PiecesInv
    PROVE  StripedTypeOK /\ PiecesConserved
<1>1. StripedTypeOK
  <2>1. path \in 0 .. Len(disk) /\ disk \in Seq(FileType) /\ journal \in JournalType
        /\ cleanup \in [Fetches -> {"none", "file", "journal"}]
    BY DEF PiecesInv, Shape
  <2>2. ASSUME NEW f \in Fetches
        PROVE  /\ fetch[f].phase \in Phases
               /\ fetch[f].queue \in Seq(Pieces \X Nat)
               /\ fetch[f].left \in 0 .. NumPieces
               /\ fetch[f].fatal \in BOOLEAN /\ fetch[f].journaling \in BOOLEAN
               /\ fetch[f].limit \in Nat
               /\ fetch[f].cancel \in {"no", "pause", "stop"}
               /\ fetch[f].file \in 0 .. Len(disk)
    <3>1. fetch[f] \in FetchType /\ fetch[f].file <= Len(disk) /\ fetch[f].file \in Nat
          /\ Len(disk) \in Nat
      BY ShapeUse
    <3> QED BY <3>1 DEF FetchType
  <2>3. ASSUME NEW f \in Fetches, NEW p \in Providers
        PROVE  /\ peer[f][p].st \in {"out", "dialing", "up"}
               /\ peer[f][p].fails \in 0 .. FailBudget + Cardinality(Lanes)
    <3>1. peer[f][p].st \in {"out", "dialing", "up"} /\ peer[f][p].fails \in Nat
          /\ Sound(fetch[f], peer[f], lane[f])
      BY ShapeUse DEF PeerType
    <3>2. PICK b \in Nat : b = Cardinality(BusyOf(lane[f], p))
      BY BusyFinite
    <3>3. peer[f][p].fails + b <= FailBudget + Cardinality(Lanes)
      BY <3>1, <3>2 DEF Sound, Budget
    <3> QED BY <3>1, <3>2, <3>3, StripedConstants
  <2>4. ASSUME NEW f \in Fetches, NEW p \in Providers, NEW l \in Lanes
        PROVE  /\ lane[f][p][l].st \in {"gone", "idle", "busy", "append"}
               /\ lane[f][p][l].piece \in 0 .. NumPieces
               /\ lane[f][p][l].tries \in 0 .. fetch[f].limit
               /\ lane[f][p][l].file \in 0 .. Len(disk)
    <3>1. lane[f][p][l] \in LaneType /\ lane[f][p][l].file <= Len(disk)
          /\ lane[f][p][l].file \in Nat /\ Len(disk) \in Nat /\ fetch[f] \in FetchType
          /\ Sound(fetch[f], peer[f], lane[f])
      BY ShapeUse
    <3>2. lane[f][p][l].st = "busy" => lane[f][p][l].tries <= fetch[f].limit
      BY <3>1 DEF Sound, Tried
    <3>3. lane[f][p][l].st # "busy" => lane[f][p][l].tries = 0
      BY <3>1 DEF Sound, Tried
    <3>4. lane[f][p][l].tries \in Nat /\ fetch[f].limit \in Nat
      BY <3>1 DEF LaneType, FetchType
    <3>5. lane[f][p][l].tries \in 0 .. fetch[f].limit
      BY <3>2, <3>3, <3>4
    <3> QED BY <3>1, <3>5 DEF LaneType
  <2> QED BY <2>1, <2>2, <2>3, <2>4 DEF StripedTypeOK
<1>2. ASSUME NEW f \in Fetches, Striping(f)
      PROVE  /\ Queued(f) \cap Held(f) = {}
             /\ Cardinality(Queued(f)) = Len(fetch[f].queue)
             /\ Cardinality(Held(f)) = Cardinality(BusyLanes(f))
             /\ fetch[f].fatal \/ fetch[f].left = Len(fetch[f].queue) + Cardinality(BusyLanes(f))
  <2>1. BusyLanes(f) = Busy(lane[f])
    BY DEF BusyLanes, Busy
  <2>2. Places(fetch[f], lane[f]) /\ Counted(fetch[f], lane[f])
    BY <1>2, ShapeUse DEF Sound, Accounted, Striping
  <2>3. Queued(f) \cap Held(f) = {}
    BY <2>1, <2>2 DEF Places, Queued, Held
  <2>4. Len(fetch[f].queue) \in Nat /\ IsFiniteSet(1 .. Len(fetch[f].queue))
        /\ Cardinality(1 .. Len(fetch[f].queue)) = Len(fetch[f].queue)
    <3>1. Len(fetch[f].queue) \in Nat
      BY ShapeUse, LenProperties DEF FetchType
    <3> QED BY <3>1, FS_Interval
  <2>5. Cardinality(Queued(f)) = Len(fetch[f].queue)
    <3> DEFINE D == 1 .. Len(fetch[f].queue)
               g == [i \in D |-> fetch[f].queue[i][1]]
    <3>1. g \in Bijection(D, Queued(f))
      <4>1. g \in [D -> Queued(f)] /\ \A y \in Queued(f) : \E i \in D : g[i] = y
        BY DEF Queued
      <4>2. \A i, k \in D : g[i] = g[k] => i = k
        BY <2>2 DEF Places
      <4> HIDE DEF g, D
      <4> QED BY <4>1, <4>2 DEF Bijection, Injection, IsInjective, Surjection
    <3> HIDE DEF g, D
    <3>2. ExistsBijection(D, Queued(f))
      BY <3>1 DEF ExistsBijection
    <3>3. IsFiniteSet(D) /\ Cardinality(D) = Len(fetch[f].queue)
      BY <2>4 DEF D
    <3> QED BY <3>2, <3>3, FS_Bijection
  <2>6. Cardinality(Held(f)) = Cardinality(BusyLanes(f))
    <3> DEFINE D == BusyLanes(f)
               g == [x \in D |-> lane[f][x[1]][x[2]].piece]
    <3>1. g \in Bijection(D, Held(f))
      <4>1. g \in [D -> Held(f)] /\ \A y \in Held(f) : \E i \in D : g[i] = y
        BY DEF Held
      <4>2. \A i, k \in D : g[i] = g[k] => i = k
        BY <2>1, <2>2 DEF Places
      <4> HIDE DEF g, D
      <4> QED BY <4>1, <4>2 DEF Bijection, Injection, IsInjective, Surjection
    <3> HIDE DEF g
    <3>2. ExistsBijection(D, Held(f))
      BY <3>1 DEF ExistsBijection
    <3>3. IsFiniteSet(D)
      BY <2>1, BusyFinite
    <3> QED BY <3>2, <3>3, FS_Bijection
  <2>7. fetch[f].fatal \/ fetch[f].left = Len(fetch[f].queue) + Cardinality(BusyLanes(f))
    BY <2>1, <2>2 DEF Counted
  <2> QED BY <2>3, <2>5, <2>6, <2>7
<1> QED BY <1>1, <1>2 DEF PiecesConserved

(* However many fetches of a blob run, lanes fail and peers come and go: no
   piece is lost and none is handed out twice, and pieces_left counts what is
   left. *)
THEOREM StripedConservesPieces == StripedSpec => [](StripedTypeOK /\ PiecesConserved)
<1>1. StripedInit => PiecesInv
  BY PiecesInit
<1>2. PiecesInv /\ [StripedNext]_stripedVars => PiecesInv'
  BY PiecesStep
<1>3. PiecesInv => StripedTypeOK /\ PiecesConserved
  BY PiecesInvUse
<1> QED BY <1>1, <1>2, <1>3, PTL DEF StripedSpec

----------------------------------------------------------------------------
(* The scratch file of the only fetch *)

(* Steps that leave files, queue and lanes alone, but may remove the path and
   lines of the journal. *)
LEMMA FileQuiet ==
    ASSUME NEW f \in Fetches, FileInv(f), disk' = disk, path' \in {0, path},
           journal'.lines \subseteq journal.lines, lane' = lane,
           fetch'[f].phase = fetch[f].phase, fetch'[f].queue = fetch[f].queue,
           fetch'[f].fatal = fetch[f].fatal, fetch'[f].file = fetch[f].file
    PROVE  FileInv(f)'
<1>1. LinesHeld(f)' /\ AppendsHeld(f)'
  BY DEF FileInv, LinesHeld, AppendsHeld
<1>2. LanesWrite(f)'
  BY DEF FileInv, LanesWrite, Works
<1>3. Covered(f)'
  BY DEF FileInv, Covered, Coming
<1>4. Whole(f)'
  BY DEF FileInv, Whole
<1> QED BY <1>1, <1>2, <1>3, <1>4 DEF FileInv

(* Steps after which f does not stripe. *)
LEMMA FileRest ==
    ASSUME NEW f \in Fetches, FileInv(f), disk' = disk, path' \in {0, path},
           journal'.lines \subseteq journal.lines,
           fetch[f].phase # "header", fetch'[f].phase # "stripe",
           fetch'[f].phase = "stream" =>
              fetch'[f].file # 0 /\ disk[fetch'[f].file].right = Pieces,
           \A p \in Providers, l \in Lanes :
              \/ lane'[f][p][l].st = "gone"
              \/ lane'[f][p][l].st = "append" /\ lane'[f][p][l] = lane[f][p][l]
    PROVE  FileInv(f)'
<1>1. LinesHeld(f)'
  BY DEF FileInv, LinesHeld
<1>2. AppendsHeld(f)'
  BY DEF FileInv, AppendsHeld
<1>3. LanesWrite(f)'
  BY DEF LanesWrite, Works
<1>4. Covered(f)' /\ Whole(f)'
  BY DEF Covered, Whole
<1> QED BY <1>1, <1>2, <1>3, <1>4 DEF FileInv

(* The lanes of a fetch without a swarm. *)
LEMMA RestingLanes ==
    ASSUME PiecesInv, NEW f \in Fetches, \A p \in Providers : peer[f][p].st = "out"
    PROVE  \A p \in Providers, l \in Lanes : lane[f][p][l].st \in {"gone", "append"}
BY ShapeUse DEF Sound, Swarm

LEMMA FileOpen ==
    ASSUME PiecesInv, NEW f \in Fetches, FileInv(f),
           IrohOpen(f) \/ SingleDownloaded(f) \/ SingleFails(f) \/ IrohStreamEnds(f) \/ StreamDropped(f)
    PROVE  FileInv(f)'
<1>1. /\ fetch[f].phase \in {"idle", "single", "export", "stream"} /\ disk' = disk
      /\ path' \in {0, path} /\ lane' = lane
  BY DEF IrohOpen, SingleDownloaded, SingleFails, IrohStreamEnds, StreamDropped, files
<1>2. journal'.lines \subseteq journal.lines
  BY NoJournalTyped DEF IrohOpen, SingleDownloaded, SingleFails, IrohStreamEnds, StreamDropped, files
<1>3. fetch'[f].phase \notin {"stripe", "stream"}
  <2>1. CASE IrohOpen(f)
    <3>1. fetch'[f] = [NoFetch EXCEPT !.phase = IF NumPieces >= 2 THEN "load" ELSE "single"]
      BY <2>1, ShapeTyped DEF IrohOpen
    <3> QED BY <3>1, NoFetchTyped DEF FetchType
  <2>2. CASE SingleDownloaded(f)
    <3>1. fetch'[f] = [fetch[f] EXCEPT !.phase = "export"] /\ fetch[f] \in FetchType
      BY <2>2, ShapeTyped DEF SingleDownloaded
    <3> QED BY <3>1 DEF FetchType
  <2>3. CASE SingleFails(f)
    <3>1. PICK fb : fb = [Leave(fetch[f], "idle") EXCEPT !.cancel = "no"]
      OBVIOUS
    <3>2. fetch'[f] = fb /\ fetch[f] \in FetchType
      BY <2>3, <3>1, ShapeTyped DEF SingleFails
    <3>3. fb.phase = "idle"
      BY <3>1, <3>2, LeaveIdle
    <3> QED BY <3>2, <3>3
  <2>4. CASE IrohStreamEnds(f) \/ StreamDropped(f)
    <3>1. fetch'[f] = NoFetch
      BY <2>4, ShapeTyped DEF IrohStreamEnds, StreamDropped
    <3> QED BY <3>1, NoFetchTyped
  <2> QED BY <2>1, <2>2, <2>3, <2>4
<1>4. \A p \in Providers, l \in Lanes : lane[f][p][l].st \in {"gone", "append"}
  <2>1. fetch[f].phase # "stripe"
    BY <1>1
  <2> QED BY <2>1, OutOfSwarm, RestingLanes
<1> QED BY <1>1, <1>2, <1>3, <1>4, FileRest

LEMMA FileQuietSteps ==
    ASSUME PiecesInv, NEW f \in Fetches, FileInv(f),
           \/ Refresh(f) \/ RemoveScratch(f) \/ RemoveStripes(f)
           \/ \E how \in {"pause", "stop"} : Cancel(f, how)
           \/ \E p \in Providers : ConnectFails(f, p) \/ PeerLeaves(f, p)
    PROVE  FileInv(f)'
<1>1. disk' = disk /\ path' \in {0, path} /\ lane' = lane
  BY DEF Refresh, RemoveScratch, RemoveStripes, Cancel, ConnectFails, PeerLeaves, files
<1>2. journal'.lines \subseteq journal.lines
  BY NoJournalTyped
     DEF Refresh, RemoveScratch, RemoveStripes, RemoveJournal, Cancel, ConnectFails, PeerLeaves, files
<1>3. /\ fetch'[f].phase = fetch[f].phase /\ fetch'[f].queue = fetch[f].queue
      /\ fetch'[f].fatal = fetch[f].fatal /\ fetch'[f].file = fetch[f].file
  <2>1. fetch \in [Fetches -> FetchType] /\ fetch[f] \in FetchType
    BY ShapeTyped
  <2>2. CASE Refresh(f)
    <3>1. PICK n : fetch' = [fetch EXCEPT ![f].limit = n]
      BY <2>2 DEF Refresh
    <3>2. fetch'[f] = [fetch[f] EXCEPT !.limit = n]
      BY <2>1, <3>1
    <3> QED BY <2>1, <3>2 DEF FetchType
  <2>3. CASE RemoveStripes(f)
    <3>1. fetch'[f] = [fetch[f] EXCEPT !.journaling = FALSE]
      BY <2>1, <2>3 DEF RemoveStripes, RemoveJournal
    <3> QED BY <2>1, <3>1 DEF FetchType
  <2>4. ASSUME NEW how \in {"pause", "stop"}, Cancel(f, how)
        PROVE  /\ fetch'[f].phase = fetch[f].phase /\ fetch'[f].queue = fetch[f].queue
               /\ fetch'[f].fatal = fetch[f].fatal /\ fetch'[f].file = fetch[f].file
    <3>1. fetch'[f] = [fetch[f] EXCEPT !.cancel = how]
      BY <2>1, <2>4 DEF Cancel
    <3> QED BY <2>1, <3>1 DEF FetchType
  <2>5. CASE RemoveScratch(f) \/ \E p \in Providers : ConnectFails(f, p) \/ PeerLeaves(f, p)
    BY <2>5 DEF RemoveScratch, ConnectFails, PeerLeaves
  <2> QED BY <2>2, <2>3, <2>4, <2>5
<1> QED BY <1>1, <1>2, <1>3, FileQuiet

LEMMA FileAbort ==
    ASSUME PiecesInv, NEW f \in Fetches, FileInv(f), Watchdog(f) \/ IrohCancelled(f)
    PROVE  FileInv(f)'
<1>1. disk' = disk /\ path' = path /\ journal' = journal /\ AbortLanes(f)
  BY DEF Watchdog, IrohCancelled, files
<1>2. \A p \in Providers, l \in Lanes :
              \/ lane'[f][p][l].st = "gone"
              \/ lane'[f][p][l].st = "append" /\ lane'[f][p][l] = lane[f][p][l]
  <2>1. lane'[f] = [p \in Providers |-> [l \in Lanes |->
                      IF lane[f][p][l].st = "append" THEN lane[f][p][l] ELSE IdleLane]]
    BY <1>1, ShapeTyped DEF AbortLanes
  <2> QED BY <2>1, IdleLaneTyped
<1>3. fetch[f].phase # "header" /\ fetch'[f].phase \notin {"stripe", "stream"}
  <2>1. CASE Watchdog(f)
    <3>1. "single" \in Phases
      BY DEF Phases
    <3>2. fetch'[f] = Leave(fetch[f], "single") /\ fetch[f] \in FetchType
      BY <2>1, ShapeTyped DEF Watchdog
    <3>3. PICK fb \in FetchType : fb = Leave(fetch[f], "single") /\ fb.phase = "single"
      BY <3>1, <3>2, LeaveTyped
    <3>4. fetch[f].phase = "stripe"
      BY <2>1 DEF Watchdog, Striping
    <3> QED BY <3>2, <3>3, <3>4
  <2>2. CASE IrohCancelled(f)
    <3>1. PICK fb : fb = [Leave(fetch[f], "idle") EXCEPT !.cancel = "no"]
      OBVIOUS
    <3>2. fetch'[f] = fb /\ fetch[f] \in FetchType
      BY <2>2, <3>1, ShapeTyped DEF IrohCancelled
    <3>3. fb.phase = "idle"
      BY <3>1, <3>2, LeaveIdle
    <3> QED BY <2>2, <3>2, <3>3 DEF IrohCancelled
  <2> QED BY <2>1, <2>2
<1> QED BY <1>1, <1>2, <1>3, FileRest

(* A peer has connected: its lanes open the file at the path. *)
LEMMA FileConnect ==
    ASSUME PiecesInv, NEW f \in Fetches, FileInv(f), NEW p \in Providers, Connect(f, p)
    PROVE  FileInv(f)'
<1>1. /\ fetch' = fetch /\ path' = path /\ disk' = disk /\ journal' = journal
      /\ peer[f][p].st = "dialing"
  BY DEF Connect, files
<1>2. /\ \A l \in Lanes : /\ lane'[f][p][l].st = (IF path = 0 THEN "gone" ELSE "idle")
                          /\ lane'[f][p][l].file = path
      /\ \A q \in Providers : q # p => lane'[f][q] = lane[f][q]
  <2>1. PICK w \in {"gone", "idle"} : w = IF path = 0 THEN "gone" ELSE "idle"
    OBVIOUS
  <2> DEFINE i == [IdleLane EXCEPT !.st = w, !.file = path]
  <2>2. IdleLane \in LaneType /\ path \in Nat
    BY IdleLaneTyped, ShapeTyped
  <2>3. i.st = w /\ i.file = path
    BY <2>2 DEF LaneType
  <2>4. lane' = [lane EXCEPT ![f][p] = [l \in Lanes |-> i]]
    BY <2>1 DEF Connect
  <2> HIDE DEF i
  <2>5. /\ lane'[f][p] = [l \in Lanes |-> i]
        /\ \A q \in Providers : q # p => lane'[f][q] = lane[f][q]
    BY <2>4, ShapeTyped DEF LaneMap
  <2> QED BY <2>1, <2>3, <2>5
<1>3. \A l \in Lanes : lane[f][p][l].st \in {"gone", "append"}
  <2>1. peer[f][p].st # "up"
    BY <1>1
  <2> QED BY <2>1, ShapeUse DEF Sound, Swarm
<1>4. LinesHeld(f)' /\ Whole(f)'
  BY <1>1 DEF FileInv, LinesHeld, Whole
<1>5. AppendsHeld(f)'
  BY <1>1, <1>2 DEF FileInv, AppendsHeld
<1>6. LanesWrite(f)'
  <2>1. ASSUME NEW q \in Providers, NEW l \in Lanes
        PROVE  /\ Works(f, q, l)' => lane'[f][q][l].file # 0 /\ path' \in {0, lane'[f][q][l].file}
               /\ lane'[f][q][l].st = "busy" => ~lane'[f][q][l].cut
    <3>1. CASE q = p
      BY <1>1, <1>2, <3>1 DEF Works
    <3>2. CASE q # p
      BY <1>1, <1>2, <3>2 DEF FileInv, LanesWrite, Works
    <3> QED BY <3>1, <3>2
  <2> QED BY <2>1 DEF LanesWrite
<1>7. Covered(f)'
  <2>1. ASSUME NEW x, Coming(f, x) PROVE Coming(f, x)'
    <3>1. CASE \E i \in 1 .. Len(fetch[f].queue) : fetch[f].queue[i][1] = x
      BY <1>1, <3>1 DEF Coming
    <3>2. ASSUME NEW q \in Providers, NEW l \in Lanes, lane[f][q][l].st = "busy",
                 lane[f][q][l].piece = x
          PROVE  Coming(f, x)'
      <4>1. q # p
        BY <1>3, <3>2
      <4> QED BY <1>2, <3>2, <4>1 DEF Coming
    <3> QED BY <2>1, <3>1, <3>2 DEF Coming
  <2> QED BY <1>1, <2>1 DEF FileInv, Covered
<1> QED BY <1>4, <1>5, <1>6, <1>7 DEF FileInv

(* A step of one lane that leaves the files alone. *)
LEMMA FileLane ==
    ASSUME PiecesInv, NEW f \in Fetches, FileInv(f), NEW p \in Providers, NEW l \in Lanes,
           OneLane(lane[f], lane'[f], p, l), disk' = disk, path' = path, journal' = journal,
           fetch'[f].phase = fetch[f].phase, fetch'[f].file = fetch[f].file,
           lane[f][p][l].st \in {"idle", "busy"}, lane'[f][p][l].st \in {"gone", "idle", "busy"},
           lane'[f][p][l].st # "gone" => lane'[f][p][l].file = lane[f][p][l].file,
           lane'[f][p][l].st = "busy" => ~lane'[f][p][l].cut,
           ~fetch'[f].fatal => ~fetch[f].fatal,
           ~fetch'[f].fatal => \A x \in Pieces : Coming(f, x) => Coming(f, x)'
    PROVE  FileInv(f)'
<1>1. LinesHeld(f)' /\ Whole(f)'
  BY DEF FileInv, LinesHeld, Whole
<1>2. AppendsHeld(f)'
  BY DEF FileInv, AppendsHeld, OneLane
<1>3. LanesWrite(f)'
  <2>1. ASSUME NEW q \in Providers, NEW m \in Lanes
        PROVE  /\ Works(f, q, m)' => lane'[f][q][m].file # 0 /\ path' \in {0, lane'[f][q][m].file}
               /\ lane'[f][q][m].st = "busy" => ~lane'[f][q][m].cut
    <3>1. CASE q = p /\ m = l
      BY <3>1 DEF FileInv, LanesWrite, Works
    <3>2. CASE q # p \/ m # l
      <4>1. lane'[f][q][m] = lane[f][q][m]
        BY <3>2 DEF OneLane
      <4> QED BY <4>1 DEF FileInv, LanesWrite, Works
    <3> QED BY <3>1, <3>2
  <2> QED BY <2>1 DEF LanesWrite
<1>4. Covered(f)'
  BY DEF FileInv, Covered
<1> QED BY <1>1, <1>2, <1>3, <1>4 DEF FileInv

LEMMA FileLaneLeaves ==
    ASSUME PiecesInv, NEW f \in Fetches, FileInv(f), NEW p \in Providers, NEW l \in Lanes,
           LaneLeaves(f, p, l)
    PROVE  FileInv(f)'
<1>1. /\ fetch' = fetch /\ path' = path /\ disk' = disk /\ journal' = journal
      /\ lane[f][p][l].st = "idle" /\ lane' = [lane EXCEPT ![f][p][l] = IdleLane]
  BY DEF LaneLeaves, files
<1>2. OneLane(lane[f], lane'[f], p, l) /\ lane'[f][p][l] = IdleLane
  BY <1>1, ShapeTyped DEF LaneMap, OneLane
<1>3. \A x \in Pieces : Coming(f, x) => Coming(f, x)'
  <2>1. ASSUME NEW q \in Providers, NEW m \in Lanes, lane[f][q][m].st = "busy"
        PROVE  lane'[f][q][m] = lane[f][q][m]
    BY <1>1, <1>2, <2>1 DEF OneLane
  <2> QED BY <1>1, <2>1 DEF Coming
<1> QED BY <1>1, <1>2, <1>3, IdleLaneTyped, FileLane

LEMMA FileTake ==
    ASSUME PiecesInv, NEW f \in Fetches, FileInv(f), NEW p \in Providers, NEW l \in Lanes,
           Take(f, p, l)
    PROVE  FileInv(f)'
<1> DEFINE hd == Head(fetch[f].queue)
           r == [lane[f][p][l] EXCEPT !.st = "busy", !.cut = FALSE, !.piece = hd[1], !.tries = hd[2]]
           fb == [fetch[f] EXCEPT !.queue = Tail(fetch[f].queue)]
<1>1. fetch[f] \in FetchType /\ lane[f][p][l] \in LaneType
  BY ShapeUse
<1>2. /\ lane[f][p][l].st = "idle" /\ fetch[f].queue # <<>>
      /\ lane' = [lane EXCEPT ![f][p][l] = r] /\ fetch' = [fetch EXCEPT ![f] = fb]
      /\ path' = path /\ disk' = disk /\ journal' = journal
  BY ShapeTyped DEF Take, files
<1>3. /\ r.st = "busy" /\ ~r.cut /\ r.piece = hd[1] /\ r.file = lane[f][p][l].file
  <2> HIDE DEF hd
  <2> QED BY <1>1 DEF LaneType
<1>4. /\ fb.phase = fetch[f].phase /\ fb.file = fetch[f].file /\ fb.fatal = fetch[f].fatal
      /\ fb.queue = Tail(fetch[f].queue)
  BY <1>1 DEF FetchType
<1>5. fetch[f].queue \in Seq(Pieces \X Nat)
  BY <1>1 DEF FetchType
<1> HIDE DEF r, fb, hd
<1>6. OneLane(lane[f], lane'[f], p, l) /\ lane'[f][p][l] = r /\ fetch'[f] = fb
  BY <1>2, ShapeTyped DEF LaneMap, OneLane
<1>7. ASSUME NEW x \in Pieces, Coming(f, x) PROVE Coming(f, x)'
  <2>1. ASSUME NEW q \in Providers, NEW m \in Lanes, lane[f][q][m].st = "busy",
               lane[f][q][m].piece = x
        PROVE  Coming(f, x)'
    <3>1. lane'[f][q][m] = lane[f][q][m]
      BY <1>2, <1>6, <2>1 DEF OneLane
    <3> QED BY <2>1, <3>1 DEF Coming
  <2>2. ASSUME NEW i \in 1 .. Len(fetch[f].queue), fetch[f].queue[i][1] = x
        PROVE  Coming(f, x)'
    <3>1. CASE i = 1
      <4>1. hd[1] = x
        BY <2>2, <3>1 DEF hd
      <4> QED BY <1>3, <1>6, <4>1 DEF Coming
    <3>2. CASE i # 1
      <4>1. PICK qu \in Seq(Pieces \X Nat) : qu = fetch[f].queue /\ qu # <<>> /\ i \in 1 .. Len(qu)
        BY <1>2, <1>5, <2>2
      <4>2. Len(qu) \in Nat /\ i - 1 \in 1 .. Len(qu) - 1 /\ (i - 1) + 1 = i
        BY <3>2, <4>1, LenProperties
      <4>3. Len(Tail(qu)) = Len(qu) - 1 /\ \A k \in 1 .. Len(Tail(qu)) : Tail(qu)[k] = qu[k + 1]
        BY <4>1, HeadTailProperties
      <4>4. i - 1 \in 1 .. Len(Tail(qu)) /\ Tail(qu)[i - 1] = qu[i]
        <5>1. i - 1 \in 1 .. Len(Tail(qu))
          BY <4>2, <4>3
        <5>2. Tail(qu)[i - 1] = qu[(i - 1) + 1]
          BY ONLY <4>3, <5>1
        <5> QED BY <4>2, <5>1, <5>2
      <4>5. fetch'[f].queue = Tail(qu)
        BY <1>4, <1>6, <4>1
      <4> QED BY <2>2, <4>1, <4>4, <4>5 DEF Coming
    <3> QED BY <3>1, <3>2
  <2> QED BY <1>7, <2>1, <2>2 DEF Coming
<1> QED BY <1>2, <1>3, <1>4, <1>6, <1>7, FileLane

LEMMA FileLaneFails ==
    ASSUME PiecesInv, NEW f \in Fetches, FileInv(f), NEW p \in Providers, NEW l \in Lanes,
           LaneFails(f, p, l)
    PROVE  FileInv(f)'
<1> DEFINE r == [lane[f][p][l] EXCEPT !.st = "idle", !.piece = 0, !.tries = 0]
           s == [peer[f][p] EXCEPT !.fails = peer[f][p].fails + 1]
<1>1. /\ fetch[f] \in FetchType /\ peer[f] \in PeerMap /\ lane[f] \in LaneMap
      /\ Sound(fetch[f], peer[f], lane[f]) /\ lane[f][p][l] \in LaneType /\ peer[f][p] \in PeerType
  BY ShapeUse
<1>2. PICK num, n : num = lane[f][p][l].piece /\ n = lane[f][p][l].tries + 1
  OBVIOUS
<1>3. PICK fb : fb = Requeue(fetch[f], num, n)
  OBVIOUS
<1>4. /\ lane[f][p][l].st = "busy"
      /\ lane' = [lane EXCEPT ![f][p][l] = r] /\ fetch' = [fetch EXCEPT ![f] = fb]
      /\ peer' = [peer EXCEPT ![f][p] = s]
      /\ path' = path /\ disk' = disk /\ journal' = journal
  BY <1>2, <1>3, ShapeTyped DEF LaneFails, PeerMap, files
<1>5. r \in LaneType /\ r.st = "idle" /\ r.tries = 0 /\ r.file = lane[f][p][l].file
  <2>1. 0 \in 0 .. NumPieces
    BY StripedConstants
  <2> QED BY <1>1, <2>1 DEF LaneType
<1>6. s \in PeerType /\ s.st = peer[f][p].st /\ s.fails = peer[f][p].fails + 1
  BY <1>1 DEF PeerType
<1> HIDE DEF r, s
<1>7. /\ lane'[f] \in LaneMap /\ lane'[f][p][l] = r /\ OneLane(lane[f], lane'[f], p, l)
  BY <1>4, <1>5, ShapeTyped DEF LaneMap, OneLane
<1>8. /\ peer'[f] \in PeerMap /\ peer'[f][p] = s
      /\ \A q \in Providers : q # p => peer'[f][q] = peer[f][q]
  BY <1>4, <1>6, ShapeTyped DEF PeerMap
<1>9. fetch'[f] = fb
  BY <1>4, ShapeTyped
<1>10. /\ fb.phase = fetch[f].phase /\ fb.file = fetch[f].file
       /\ ~fb.fatal => /\ ~fetch[f].fatal /\ Len(fb.queue) = Len(fetch[f].queue) + 1
                       /\ fb.queue[Len(fb.queue)][1] = num
                       /\ \A i \in 1 .. Len(fetch[f].queue) : fb.queue[i] = fetch[f].queue[i]
  <2>1. PICK pb \in PeerMap : pb = peer'[f]
    BY <1>8
  <2>2. PICK lb \in LaneMap : lb = lane'[f]
    BY <1>7
  <2>3. /\ lb[p][l].st = "idle" /\ lb[p][l].tries = 0 /\ OneLane(lane[f], lb, p, l)
        /\ pb[p].st = peer[f][p].st /\ pb[p].fails = peer[f][p].fails + 1
        /\ lane[f][p][l].st = "busy"
    BY <1>4, <1>5, <1>6, <1>7, <1>8, <2>1, <2>2
  <2>4. \A q \in Providers : q # p => pb[q] = peer[f][q]
    BY <1>8, <2>1
  <2>5. PICK fe \in FetchType, pe \in PeerMap, la \in LaneMap :
          fe = fetch[f] /\ pe = peer[f] /\ la = lane[f]
    BY <1>1
  <2>6. /\ Sound(fe, pe, la) /\ OneLane(la, lb, p, l) /\ la[p][l].st = "busy"
        /\ lb[p][l].st = "idle" /\ lb[p][l].tries = 0
        /\ pb[p].st = pe[p].st /\ pb[p].fails = pe[p].fails + 1
        /\ num = la[p][l].piece /\ n = la[p][l].tries + 1 /\ fb = Requeue(fe, num, n)
    BY <1>1, <1>2, <1>3, <2>3, <2>5
  <2>7. \A q \in Providers : q # p => pb[q] = pe[q]
    BY <2>4, <2>5
  <2>8. /\ fb.phase = fe.phase /\ fb.file = fe.file
        /\ ~fb.fatal => /\ ~fe.fatal /\ Len(fb.queue) = Len(fe.queue) + 1
                        /\ fb.queue[Len(fb.queue)][1] = num
                        /\ \A i \in 1 .. Len(fe.queue) : fb.queue[i] = fe.queue[i]
    BY <2>6, <2>7, SoundFails
  <2> QED BY <2>5, <2>8
<1>11. ASSUME ~fb.fatal, NEW x \in Pieces, Coming(f, x) PROVE Coming(f, x)'
  <2>1. Len(fetch[f].queue) \in Nat
    BY <1>1, LenProperties DEF FetchType
  <2>2. ASSUME NEW q \in Providers, NEW m \in Lanes, lane[f][q][m].st = "busy",
               lane[f][q][m].piece = x
        PROVE  Coming(f, x)'
    <3>1. CASE q = p /\ m = l
      <4>1. Len(fb.queue) \in 1 .. Len(fb.queue) /\ fb.queue[Len(fb.queue)][1] = x
        BY <1>2, <1>10, <1>11, <2>1, <2>2, <3>1
      <4> QED BY <1>9, <4>1 DEF Coming
    <3>2. CASE q # p \/ m # l
      <4>1. lane'[f][q][m] = lane[f][q][m]
        BY <1>7, <3>2 DEF OneLane
      <4> QED BY <2>2, <4>1 DEF Coming
    <3> QED BY <3>1, <3>2
  <2>3. ASSUME NEW i \in 1 .. Len(fetch[f].queue), fetch[f].queue[i][1] = x
        PROVE  Coming(f, x)'
    <3>1. i \in 1 .. Len(fb.queue) /\ fb.queue[i][1] = x
      BY <1>10, <1>11, <2>1, <2>3
    <3> QED BY <1>9, <3>1 DEF Coming
  <2> QED BY <1>11, <2>2, <2>3 DEF Coming
<1>12. /\ lane[f][p][l].st \in {"idle", "busy"} /\ lane'[f][p][l].st = "idle"
       /\ lane'[f][p][l].file = lane[f][p][l].file
       /\ fetch'[f].phase = fetch[f].phase /\ fetch'[f].file = fetch[f].file
       /\ ~fetch'[f].fatal => ~fetch[f].fatal
  BY <1>4, <1>5, <1>7, <1>9, <1>10
<1>13. ~fetch'[f].fatal => \A x \in Pieces : Coming(f, x) => Coming(f, x)'
  BY <1>9, <1>11
<1> QED BY <1>4, <1>7, <1>12, <1>13, FileLane

(* A line is written: the piece it names is in the file. *)
LEMMA FileJournal ==
    ASSUME PiecesInv, NEW f \in Fetches, FileInv(f), NEW p \in Providers, NEW l \in Lanes,
           Journal(f, p, l)
    PROVE  FileInv(f)'
<1>1. /\ fetch' = fetch /\ path' = path /\ disk' = disk /\ lane[f][p][l].st = "append"
      /\ fetch[f].phase # "header" /\ lane[f][p][l] \in LaneType
  <2>1. /\ fetch' = fetch /\ path' = path /\ disk' = disk /\ lane[f][p][l].st = "append"
    BY DEF Journal
  <2> QED BY <2>1, ShapeUse DEF Sound, Swarm
<1>2. PICK r : /\ r.st \in {"gone", "idle"} /\ lane' = [lane EXCEPT ![f][p][l] = r]
               /\ r.st = "idle" => fetch[f].phase = "stripe" /\ r.file = lane[f][p][l].file
  <2>1. CASE Striping(f)
    <3> DEFINE r == [lane[f][p][l] EXCEPT !.st = "idle", !.piece = 0, !.tries = 0]
    <3>1. r.st = "idle" /\ r.file = lane[f][p][l].file
      BY <1>1 DEF LaneType
    <3>2. lane' = [lane EXCEPT ![f][p][l] = r]
      BY <2>1, ShapeTyped DEF Journal, LaneMap
    <3> HIDE DEF r
    <3> QED BY <2>1, <3>1, <3>2 DEF Striping
  <2>2. CASE ~Striping(f)
    <3>1. lane' = [lane EXCEPT ![f][p][l] = IdleLane]
      BY <2>2 DEF Journal
    <3> QED BY <3>1, IdleLaneTyped
  <2> QED BY <2>1, <2>2
<1>3. OneLane(lane[f], lane'[f], p, l) /\ lane'[f][p][l] = r
  BY <1>2, ShapeTyped DEF LaneMap, OneLane
<1>4. LinesHeld(f)'
  <2>1. PICK num \in Pieces : num = lane[f][p][l].piece
    BY <1>1, ShapeUse DEF Sound, Tried
  <2>2. journal'.lines \subseteq journal.lines \cup {num}
    <3>1. journal' \in {journal, AppendLine(journal, num)}
      BY <2>1 DEF Journal
    <3> QED BY <2>1, <3>1, ShapeTyped, AppendLineTyped
  <2>3. path # 0 => num \in disk[path].right
    BY <1>1, <2>1 DEF FileInv, AppendsHeld
  <2> QED BY <1>1, <2>2, <2>3 DEF FileInv, LinesHeld
<1>5. AppendsHeld(f)'
  <2>1. ASSUME NEW q \in Providers, NEW m \in Lanes, lane'[f][q][m].st = "append", path' # 0
        PROVE  lane'[f][q][m].piece \in disk'[path'].right
    <3>1. lane'[f][q][m] = lane[f][q][m]
      BY <1>2, <1>3, <2>1 DEF OneLane
    <3> QED BY <1>1, <2>1, <3>1 DEF FileInv, AppendsHeld
  <2> QED BY <2>1 DEF AppendsHeld
<1>6. LanesWrite(f)'
  <2>1. ASSUME NEW q \in Providers, NEW m \in Lanes
        PROVE  /\ Works(f, q, m)' => lane'[f][q][m].file # 0 /\ path' \in {0, lane'[f][q][m].file}
               /\ lane'[f][q][m].st = "busy" => ~lane'[f][q][m].cut
    <3>1. CASE q = p /\ m = l
      <4>1. r.st = "idle" => Works(f, p, l)
        BY <1>1, <1>2 DEF Works
      <4>2. r.st = "idle" => lane[f][p][l].file # 0 /\ path \in {0, lane[f][p][l].file}
        BY <4>1 DEF FileInv, LanesWrite
      <4> QED BY <1>1, <1>2, <1>3, <3>1, <4>2 DEF Works
    <3>2. CASE q # p \/ m # l
      <4>1. lane'[f][q][m] = lane[f][q][m]
        BY <1>3, <3>2 DEF OneLane
      <4> QED BY <1>1, <4>1 DEF FileInv, LanesWrite, Works
    <3> QED BY <3>1, <3>2
  <2> QED BY <2>1 DEF LanesWrite
<1>7. Covered(f)'
  <2>1. ASSUME NEW q \in Providers, NEW m \in Lanes, lane[f][q][m].st = "busy"
        PROVE  lane'[f][q][m] = lane[f][q][m]
    BY <1>1, <1>3, <2>1 DEF OneLane
  <2>2. \A x \in Pieces : Coming(f, x) => Coming(f, x)'
    BY <1>1, <2>1 DEF Coming
  <2> QED BY <1>1, <2>2 DEF FileInv, Covered
<1>8. Whole(f)'
  BY <1>1 DEF FileInv, Whole
<1> QED BY <1>4, <1>5, <1>6, <1>7, <1>8 DEF FileInv

(* A piece has arrived: the lane writes to the file at the path, or there is
   none. *)
LEMMA FileReceived ==
    ASSUME PiecesInv, NEW f \in Fetches, FileInv(f), NEW p \in Providers, NEW l \in Lanes,
           Received(f, p, l)
    PROVE  FileInv(f)'
<1> DEFINE r == [lane[f][p][l] EXCEPT !.st = "append", !.tries = 0]
           fb == [fetch[f] EXCEPT !.left = fetch[f].left - 1]
<1>1. fetch[f] \in FetchType /\ lane[f][p][l] \in LaneType
  BY ShapeUse
<1>2. /\ lane[f][p][l].st = "busy"
      /\ lane' = [lane EXCEPT ![f][p][l] = r] /\ fetch' = [fetch EXCEPT ![f] = fb]
      /\ path' = path /\ journal' = journal
  BY ShapeTyped DEF Received
<1>3. r.st = "append" /\ r.piece = lane[f][p][l].piece /\ r.file = lane[f][p][l].file
  BY <1>1 DEF LaneType
<1>4. /\ fb.phase = fetch[f].phase /\ fb.file = fetch[f].file /\ fb.fatal = fetch[f].fatal
      /\ fb.queue = fetch[f].queue
  BY <1>1 DEF FetchType
<1> HIDE DEF r, fb
<1>5. OneLane(lane[f], lane'[f], p, l) /\ lane'[f][p][l] = r /\ fetch'[f] = fb
  BY <1>2, ShapeTyped DEF LaneMap, OneLane
<1>6. /\ fetch[f].phase = "stripe" /\ Works(f, p, l) /\ lane[f][p][l].file # 0
      /\ path \in {0, lane[f][p][l].file} /\ ~lane[f][p][l].cut
  <2>1. fetch[f].phase = "stripe"
    BY <1>2, ShapeUse DEF Sound, Swarm
  <2>2. Works(f, p, l)
    BY <1>2 DEF Works
  <2> QED BY <1>2, <2>1, <2>2 DEF FileInv, LanesWrite
<1>7. path # 0 => /\ disk'[path].full = disk[path].full
                  /\ disk'[path].right = disk[path].right \cup {lane[f][p][l].piece}
  <2>1. path # 0 => path \in 1 .. Len(disk) /\ path = lane[f][p][l].file
    BY <1>6, ShapeTyped
  <2> QED BY <1>6, <2>1, ReceivedDisk
<1>8. LinesHeld(f)' /\ Whole(f)'
  BY <1>2, <1>4, <1>5, <1>6, <1>7 DEF FileInv, LinesHeld, Whole
<1>9. AppendsHeld(f)'
  <2>1. ASSUME NEW q \in Providers, NEW m \in Lanes, lane'[f][q][m].st = "append", path' # 0
        PROVE  lane'[f][q][m].piece \in disk'[path'].right
    <3>1. CASE q = p /\ m = l
      BY <1>2, <1>3, <1>5, <1>7, <2>1, <3>1
    <3>2. CASE q # p \/ m # l
      <4>1. lane'[f][q][m] = lane[f][q][m]
        BY <1>5, <3>2 DEF OneLane
      <4>2. lane[f][q][m].piece \in disk[path].right
        BY <1>2, <2>1, <4>1 DEF FileInv, AppendsHeld
      <4> QED BY <1>2, <1>7, <2>1, <4>1, <4>2
    <3> QED BY <3>1, <3>2
  <2> QED BY <2>1 DEF AppendsHeld
<1>10. LanesWrite(f)'
  <2>1. ASSUME NEW q \in Providers, NEW m \in Lanes
        PROVE  /\ Works(f, q, m)' => lane'[f][q][m].file # 0 /\ path' \in {0, lane'[f][q][m].file}
               /\ lane'[f][q][m].st = "busy" => ~lane'[f][q][m].cut
    <3>1. CASE q = p /\ m = l
      BY <1>2, <1>3, <1>5, <1>6, <3>1
    <3>2. CASE q # p \/ m # l
      <4>1. lane'[f][q][m] = lane[f][q][m] /\ fetch'[f].phase = fetch[f].phase
        BY <1>4, <1>5, <3>2 DEF OneLane
      <4> QED BY <1>2, <4>1 DEF FileInv, LanesWrite, Works
    <3> QED BY <3>1, <3>2
  <2> QED BY <2>1 DEF LanesWrite
<1>11. Covered(f)'
  <2>1. ASSUME NEW x \in Pieces, ~fetch[f].fatal, path # 0
        PROVE  x \in disk'[path].right \/ Coming(f, x)'
    <3>1. x \in disk[path].right \/ Coming(f, x)
      BY <1>6, <2>1 DEF FileInv, Covered
    <3>2. CASE x \in disk[path].right
      BY <1>7, <2>1, <3>2
    <3>3. CASE \E i \in 1 .. Len(fetch[f].queue) : fetch[f].queue[i][1] = x
      <4>1. fetch'[f].queue = fetch[f].queue
        BY <1>4, <1>5
      <4> QED BY <3>3, <4>1 DEF Coming
    <3>4. ASSUME NEW q \in Providers, NEW m \in Lanes, lane[f][q][m].st = "busy",
                 lane[f][q][m].piece = x
          PROVE  x \in disk'[path].right \/ Coming(f, x)'
      <4>1. CASE q = p /\ m = l
        BY <1>7, <2>1, <3>4, <4>1
      <4>2. CASE q # p \/ m # l
        <5>1. lane'[f][q][m] = lane[f][q][m]
          BY <1>5, <4>2 DEF OneLane
        <5> QED BY <3>4, <5>1 DEF Coming
      <4> QED BY <4>1, <4>2
    <3> QED BY <3>1, <3>2, <3>3, <3>4 DEF Coming
  <2> QED BY <1>2, <1>4, <1>5, <2>1 DEF Covered
<1> QED BY <1>8, <1>9, <1>10, <1>11 DEF FileInv

(* A swarm starts: what it does not fetch is in the file. *)
LEMMA FileBegin ==
    ASSUME PiecesInv, NEW f \in Fetches, fetch[f].phase \in {"load", "header"},
           NEW done \in SUBSET Pieces, NEW nodes \in SUBSET Providers, NEW j \in JournalType,
           BeginStriping(f, done, nodes, j), UNCHANGED <<path, disk, lane, cleanup>>,
           journal' \in JournalType,
           path # 0 => done \subseteq disk[path].right,
           path # 0 /\ disk[path].full => journal'.lines \subseteq disk[path].right
    PROVE  FileInv(f)'
<1>1. /\ fetch'[f].phase = "stripe"
      /\ \A x \in Pieces \ done :
           \E i \in 1 .. Len(fetch'[f].queue) : fetch'[f].queue[i][1] = x
      /\ \A p \in Providers, l \in Lanes : lane[f][p][l].st = "gone"
  BY StepBegin
<1>2. LinesHeld(f)'
  BY DEF LinesHeld
<1>3. AppendsHeld(f)' /\ LanesWrite(f)'
  BY <1>1 DEF AppendsHeld, LanesWrite, Works
<1>4. Covered(f)'
  BY <1>1 DEF Covered, Coming
<1>5. Whole(f)'
  BY <1>1 DEF Whole
<1> QED BY <1>2, <1>3, <1>4, <1>5 DEF FileInv

LEMMA FileWriteHeader ==
    ASSUME PiecesInv, NEW f \in Fetches, WriteHeader(f)
    PROVE  FileInv(f)'
<1>1. /\ fetch[f].phase \in {"load", "header"} /\ UNCHANGED <<path, disk, lane, cleanup>>
      /\ journal' = [NoJournal EXCEPT !.there = TRUE]
  BY DEF WriteHeader
<1>2. PICK j \in JournalType : j = journal' /\ j.lines = {}
  BY <1>1, NoJournalTyped
<1>3. PICK nodes \in SUBSET Providers : BeginStriping(f, {}, nodes, j)
  BY <1>2 DEF WriteHeader
<1>4. {} \in SUBSET Pieces /\ journal' \in JournalType /\ journal'.lines = {}
  BY <1>2
<1> QED BY <1>1, <1>3, <1>4, FileBegin

(* What a resume takes for done is in the file. *)
LEMMA LoadedHeld ==
    ASSUME PiecesInv, NEW f \in Fetches, FileInv(f), fetch[f].phase # "header"
    PROVE  Loaded # {} => path # 0 /\ Loaded \subseteq disk[path].right
<1>1. CASE path # 0 /\ disk[path].full /\ journal.there /\ ~journal.garbled
  BY <1>1 DEF FileInv, LinesHeld, Loaded
<1>2. CASE ~(path # 0 /\ disk[path].full /\ journal.there /\ ~journal.garbled)
  BY <1>2 DEF Loaded
<1> QED BY <1>1, <1>2

LEMMA FileLoad ==
    ASSUME PiecesInv, NEW f \in Fetches, FileInv(f), Load(f)
    PROVE  FileInv(f)'
<1>1. fetch[f].phase = "load" /\ UNCHANGED <<path, disk, lane, cleanup>>
  BY DEF Load
<1>2. /\ disk \in Seq(FileType) /\ Len(disk) \in Nat /\ path \in 0 .. Len(disk)
      /\ journal \in JournalType /\ fetch[f] \in FetchType
  BY ShapeTyped
<1>3. \A p \in Providers, l \in Lanes : lane[f][p][l].st = "gone"
  BY <1>1, ShapeUse DEF Sound, Swarm
<1>4. Loaded # {} => path # 0 /\ Loaded \subseteq disk[path].right
  BY <1>1, LoadedHeld
<1>5. CASE fetch' = [fetch EXCEPT ![f].phase = "create"] /\ UNCHANGED journal
  <2>1. fetch'[f].phase = "create"
    <3>1. fetch'[f] = [fetch[f] EXCEPT !.phase = "create"]
      BY <1>5, ShapeTyped
    <3> QED BY <1>2, <3>1 DEF FetchType
  <2> QED BY <1>1, <1>3, <1>5, <2>1, FileRest
<1>6. CASE /\ Loaded = Pieces /\ journal' = NoJournal
           /\ fetch' = [g \in Fetches |-> [fetch[g] EXCEPT
                          !.journaling = FALSE,
                          !.phase = IF g = f THEN "stream" ELSE @,
                          !.file = IF g = f THEN path ELSE @]]
  <2>1. fetch'[f].phase = "stream" /\ fetch'[f].file = path
    <3>1. fetch'[f] = [fetch[f] EXCEPT !.journaling = FALSE, !.phase = "stream", !.file = path]
      BY <1>6
    <3> QED BY <1>2, <3>1 DEF FetchType
  <2>2. path # 0 /\ disk[path].right = Pieces
    <3>1. 1 \in Pieces
      BY StripedConstants DEF Pieces
    <3>2. path # 0 /\ Pieces \subseteq disk[path].right
      BY <1>4, <1>6, <3>1
    <3>3. disk[path] \in FileType
      BY <1>2, <3>2, ElementOfSeq
    <3> QED BY <3>2, <3>3 DEF FileType
  <2>3. journal'.lines \subseteq journal.lines
    BY <1>6, NoJournalTyped
  <2> QED BY <1>1, <1>3, <2>1, <2>2, <2>3, FileRest
<1>7. CASE /\ \E nodes \in SUBSET Providers \ {{}} : BeginStriping(f, Loaded, nodes, journal)
           /\ UNCHANGED journal
  <2>1. PICK nodes \in SUBSET Providers : BeginStriping(f, Loaded, nodes, journal)
    BY <1>7
  <2>2. Loaded \in SUBSET Pieces
    BY LoadedPieces DEF PiecesInv
  <2>3. fetch[f].phase \in {"load", "header"} /\ journal' \in JournalType
    BY <1>1, <1>2, <1>7
  <2>4. /\ path # 0 => Loaded \subseteq disk[path].right
        /\ path # 0 /\ disk[path].full => journal'.lines \subseteq disk[path].right
    <3>1. path # 0 /\ disk[path].full => journal.lines \subseteq disk[path].right
      BY <1>1 DEF FileInv, LinesHeld
    <3> QED BY <1>4, <1>7, <3>1
  <2> QED BY <1>1, <1>2, <2>1, <2>2, <2>3, <2>4, FileBegin
<1> QED BY <1>5, <1>6, <1>7 DEF Load

LEMMA FileCreate ==
    ASSUME PiecesInv, NEW f \in Fetches, Create(f)
    PROVE  FileInv(f)'
<1>1. fetch'[f].phase = "header"
  <2>1. fetch'[f] = [fetch[f] EXCEPT !.phase = "header"] /\ fetch[f] \in FetchType
    BY ShapeTyped DEF Create
  <2> QED BY <2>1 DEF FetchType
<1>2. \A p \in Providers, l \in Lanes : lane'[f][p][l].st = "gone"
  <2>1. fetch[f].phase = "create"
    BY DEF Create
  <2>2. \A p \in Providers, l \in Lanes : lane[f][p][l].st = "gone"
    BY <2>1, ShapeUse DEF Sound, Swarm
  <2> QED BY <2>2, CreateLanes DEF SameLanes
<1>3. LinesHeld(f)' /\ Covered(f)' /\ Whole(f)'
  BY <1>1 DEF LinesHeld, Covered, Whole
<1>4. AppendsHeld(f)' /\ LanesWrite(f)'
  BY <1>2 DEF AppendsHeld, LanesWrite, Works
<1> QED BY <1>3, <1>4 DEF FileInv

(* Nothing is left and no lane works: every piece is in the file. *)
LEMMA FileDrained ==
    ASSUME PiecesInv, NEW f \in Fetches, FileInv(f), Drained(f)
    PROVE  FileInv(f)'
<1>1. fetch[f].phase = "stripe" /\ ActivePeers(f) = {} /\ lane' = lane /\ path' = path /\ disk' = disk
  BY DEF Drained, Striping
<1>2. /\ disk \in Seq(FileType) /\ Len(disk) \in Nat /\ path \in 0 .. Len(disk) /\ path \in Nat
      /\ fetch[f] \in FetchType
  BY ShapeTyped
<1>3. \A p \in Providers, l \in Lanes : lane[f][p][l].st \in {"gone", "append"}
  BY <1>1, OutOfSwarm, RestingLanes
<1>4. CASE fetch[f].left = 0
  <2>1. /\ ~fetch[f].fatal /\ Len(fetch[f].queue) = 0
    <3>1. Counted(fetch[f], lane[f])
      BY <1>1, ShapeUse DEF Sound, Accounted
    <3>2. Len(fetch[f].queue) \in Nat /\ Cardinality(Busy(lane[f])) \in Nat
      <4>1. Len(fetch[f].queue) \in Nat
        BY <1>2, LenProperties DEF FetchType
      <4>2. lane[f] \in LaneMap
        BY ShapeUse
      <4> QED BY <4>1, <4>2, BusyFinite
    <3>3. PICK a, b \in Nat : a = Len(fetch[f].queue) /\ b = Cardinality(Busy(lane[f]))
      BY <3>2
    <3>4. IF fetch[f].fatal THEN 0 > a + b ELSE 0 = a + b
      BY <1>4, <3>1, <3>3 DEF Counted
    <3> QED BY <3>3, <3>4
  <2>2. path # 0 => disk[path].right = Pieces
    <3>1. ASSUME path # 0, NEW x \in Pieces PROVE x \in disk[path].right
      <4>1. x \in disk[path].right \/ Coming(f, x)
        BY <1>1, <2>1, <3>1 DEF FileInv, Covered
      <4>2. ~Coming(f, x)
        BY <1>3, <2>1 DEF Coming
      <4> QED BY <4>1, <4>2
    <3>2. path # 0 => disk[path] \in FileType
      BY <1>2, ElementOfSeq
    <3> QED BY <3>1, <3>2 DEF FileType
  <2> DEFINE fa == [fetch[f] EXCEPT !.journaling = FALSE]
  <2>3. fa \in FetchType
    BY <1>2 DEF FetchType
  <2> HIDE DEF fa
  <2>4. PICK fb \in FetchType : /\ fb = DeliverBlob(fa, path) /\ fb.file = path
                                /\ fb.phase \in {"idle", "stream"}
    BY <1>2, <2>3, DeliverTyped
  <2>5. fb.phase = "stream" => path # 0
    <3>1. CASE path = 0
      <4>1. fb = [Leave(fa, "idle") EXCEPT !.cancel = "no"]
        BY <2>4, <3>1 DEF DeliverBlob
      <4> QED BY <2>3, <4>1, LeaveIdle
    <3> QED BY <3>1
  <2>6. fetch'[f] = fb /\ journal'.lines \subseteq journal.lines
    <3>1. journal' = NoJournal /\ fetch'[f] = fb
      BY <1>4, <2>4 DEF Drained, fa
    <3> QED BY <3>1, NoJournalTyped
  <2> QED BY <1>1, <1>3, <2>2, <2>4, <2>5, <2>6, FileRest
<1>5. CASE fetch[f].left # 0
  <2>1. "single" \in Phases
    BY DEF Phases
  <2>2. PICK fb \in FetchType : fb = Leave(fetch[f], "single") /\ fb.phase = "single"
    BY <1>2, <2>1, LeaveTyped
  <2>3. fetch'[f] = fb /\ journal' = journal
    BY <1>5, <2>2, ShapeTyped DEF Drained
  <2> QED BY <1>1, <1>3, <2>2, <2>3, FileRest
<1> QED BY <1>4, <1>5

(* The blob is moved to the path as a new file. *)
LEMMA FileExport ==
    ASSUME PiecesInv, NEW f \in Fetches, FileInv(f), Export(f)
    PROVE  FileInv(f)'
<1>1. /\ fetch[f].phase = "export" /\ lane' = lane /\ journal' = journal
      /\ journal \in JournalType /\ fetch[f] \in FetchType
  BY ShapeTyped DEF Export
<1>2. PICK ino \in Nat : ino = Len(disk) + 1 /\ ino # 0
  BY ShapeTyped
<1>3. PICK x \in FileType : x = [full |-> TRUE, right |-> Pieces] /\ x.right = Pieces
  <2>1. [full |-> TRUE, right |-> Pieces] \in FileType
    BY DEF FileType
  <2> QED BY <2>1
<1>4. disk' = Append(disk, x) /\ path' = ino /\ fetch'[f] = DeliverBlob(fetch[f], ino)
  BY <1>2, <1>3, ShapeTyped DEF Export
<1>5. disk'[ino] = x
  BY <1>2, <1>3, <1>4, ShapeTyped, DiskGrows
<1>6. fetch'[f].phase \in {"idle", "stream"} /\ fetch'[f].file = ino
  <2>1. PICK fb \in FetchType : /\ fb = DeliverBlob(fetch[f], ino) /\ fb.file = ino
                                /\ fb.phase \in {"idle", "stream"}
    BY <1>1, <1>2, DeliverTyped
  <2> QED BY <1>4, <2>1
<1>7. \A p \in Providers, l \in Lanes : /\ lane[f][p][l].st \in {"gone", "append"}
                                        /\ lane[f][p][l].st = "append" => lane[f][p][l].piece \in Pieces
  <2>1. fetch[f].phase # "stripe"
    BY <1>1
  <2>2. \A p \in Providers, l \in Lanes : lane[f][p][l].st \in {"gone", "append"}
    BY <2>1, OutOfSwarm, RestingLanes
  <2> QED BY <2>2, ShapeUse DEF Sound, Tried
<1>8. LinesHeld(f)'
  BY <1>1, <1>3, <1>4, <1>5 DEF LinesHeld, JournalType
<1>9. AppendsHeld(f)'
  BY <1>1, <1>3, <1>4, <1>5, <1>7 DEF AppendsHeld
<1>10. LanesWrite(f)'
  BY <1>1, <1>6, <1>7 DEF LanesWrite, Works
<1>11. Covered(f)'
  BY <1>6 DEF Covered
<1>12. Whole(f)'
  BY <1>2, <1>3, <1>5, <1>6 DEF Whole
<1> QED BY <1>8, <1>9, <1>10, <1>11, <1>12 DEF FileInv

(* The process dies: no line names a piece that is not in the file, unless the
   crash comes between the pre-sizing of a new file and its header. *)
LEMMA FileCrash ==
    ASSUME PiecesInv, NEW f \in Fetches, FileInv(f), Fetches = {f}, "header" \notin CrashPoints,
           IrohCrash
    PROVE  FileInv(f)'
<1>1. fetch'[f] = NoFetch /\ \A p \in Providers, l \in Lanes : lane'[f][p][l] = IdleLane
  BY DEF IrohCrash
<1>2. fetch[f].phase # "header"
  BY DEF IrohCrash
<1>3. LinesHeld(f)'
  <2>1. CASE disk' = disk /\ path' = path /\ path # 0 /\ disk[path].full
    <3>1. journal.lines \subseteq disk[path].right
      BY <1>2, <2>1 DEF FileInv, LinesHeld
    <3>2. journal'.lines \subseteq disk[path].right
      <4>1. ASSUME NEW g \in Fetches, NEW p \in Providers, NEW l \in Lanes,
                   lane[g][p][l].st = "append",
                   journal'.lines \subseteq journal.lines \cup {lane[g][p][l].piece}
            PROVE  journal'.lines \subseteq disk[path].right
        <5>1. lane[g][p][l].piece \in disk[path].right
          BY <2>1, <4>1 DEF FileInv, AppendsHeld
        <5> QED BY <3>1, <4>1, <5>1
      <4> QED BY <3>1, <4>1, CrashJournal
    <3> QED BY <2>1, <3>2 DEF LinesHeld
  <2>2. CASE ~(path' # 0 /\ disk'[path'].full)
    BY <2>2 DEF LinesHeld
  <2> QED BY <2>1, <2>2, CrashDisk
<1>4. AppendsHeld(f)' /\ LanesWrite(f)'
  BY <1>1, IdleLaneTyped DEF AppendsHeld, LanesWrite, Works
<1>5. Covered(f)' /\ Whole(f)'
  BY <1>1, NoFetchTyped DEF Covered, Whole
<1> QED BY <1>3, <1>4, <1>5 DEF FileInv

LEMMA FileInit == ASSUME NEW f \in Fetches, StripedInit PROVE FileInv(f)
<1>1. /\ fetch[f] = NoFetch /\ path = 0
      /\ \A p \in Providers, l \in Lanes : lane[f][p][l] = IdleLane
  BY DEF StripedInit
<1> QED BY <1>1, NoFetchTyped, IdleLaneTyped
        DEF FileInv, LinesHeld, AppendsHeld, LanesWrite, Works, Covered, Whole

LEMMA FileStep ==
    ASSUME NEW f \in Fetches, Fetches = {f}, "header" \notin CrashPoints
    PROVE  PiecesInv /\ FileInv(f) /\ [StripedNext]_stripedVars => FileInv(f)'
<1> SUFFICES ASSUME PiecesInv, FileInv(f), [StripedNext]_stripedVars PROVE FileInv(f)'
  OBVIOUS
<1>1. CASE LaneStep(f)
  <2>1. PICK p \in Providers :
          \/ Connect(f, p) \/ ConnectFails(f, p) \/ PeerLeaves(f, p)
          \/ \E l \in Lanes : \/ Take(f, p, l) \/ LaneLeaves(f, p, l) \/ Received(f, p, l)
                              \/ Journal(f, p, l) \/ LaneFails(f, p, l)
    BY <1>1 DEF LaneStep
  <2>2. CASE Connect(f, p) \/ ConnectFails(f, p) \/ PeerLeaves(f, p)
    BY <2>2, FileConnect, FileQuietSteps
  <2>3. ASSUME NEW l \in Lanes, Take(f, p, l) \/ LaneLeaves(f, p, l) \/ Received(f, p, l)
                                \/ Journal(f, p, l) \/ LaneFails(f, p, l)
        PROVE  FileInv(f)'
    BY <2>3, FileTake, FileLaneLeaves, FileReceived, FileJournal, FileLaneFails
  <2> QED BY <2>1, <2>2, <2>3
<1>2. CASE DriverStep(f)
  BY <1>2, FileLoad, FileCreate, FileWriteHeader, FileDrained, FileAbort, FileOpen, FileExport
     DEF DriverStep
<1>3. CASE IrohCrash
  BY <1>3, FileCrash
<1>4. CASE UNCHANGED stripedVars
  <2>1. UNCHANGED <<path, disk, journal, fetch, lane>>
    BY <1>4 DEF stripedVars
  <2>2. path' \in {0, path} /\ journal'.lines \subseteq journal.lines
    BY <2>1
  <2> QED BY <2>1, <2>2, FileQuiet
<1>5. CASE \/ Refresh(f) \/ RemoveScratch(f) \/ RemoveStripes(f)
           \/ \E how \in {"pause", "stop"} : Cancel(f, how)
  BY <1>5, FileQuietSteps
<1>6. CASE IrohOpen(f)
  BY <1>6, FileOpen
<1> QED BY <1>1, <1>2, <1>3, <1>4, <1>5, <1>6 DEF StripedNext

(* One fetch of a blob, however lanes fail, peers come and go, the user stops
   and the process crashes: no piece is lost, a resume takes from the journal
   only what the scratch file holds, and what open hands to the engine is the
   whole blob.  Of the crashes the one between the pre-sizing of a new file
   and its header is excluded: it breaks the resume. *)
THEOREM StripedDeliversWhole ==
    ASSUME NEW f \in Fetches, Fetches = {f}, "header" \notin CrashPoints
    PROVE  StripedSpec => []StripedInv
<1>1. StripedInit => PiecesInv /\ FileInv(f)
  BY PiecesInit, FileInit
<1>2. PiecesInv /\ FileInv(f) /\ [StripedNext]_stripedVars => PiecesInv' /\ FileInv(f)'
  BY PiecesStep, FileStep
<1>3. PiecesInv /\ FileInv(f) => StripedInv
  <2> SUFFICES ASSUME PiecesInv, FileInv(f) PROVE StripedInv
    OBVIOUS
  <2>1. StripedTypeOK /\ PiecesConserved
    BY PiecesInvUse
  <2>2. JournalSound
    BY LoadedHeld DEF JournalSound
  <2>3. DeliversWhole
    BY DEF FileInv, Whole, DeliversWhole
  <2> QED BY <2>1, <2>2, <2>3 DEF StripedInv
<1> QED BY <1>1, <1>2, <1>3, PTL DEF StripedSpec

-----------------------------------------------------------------------------
(* The download of one artifact (ArtifactDownload), for any sources, any size
   and segmentation of the artifact, any number of runs and attempts. *)

(* Where a source is being tried. *)
AtSource == {"segment", "segverify", "attempt", "open", "stream", "poisoned",
           "commit", "finalize"}

(* A source that is being tried is a source, and the head of the plan is still
   there to be dropped by the failover.  Only a large artifact is segmented. *)
Trying ==
    /\ pc \in AtSource => run.source \in Source /\ run.todo # <<>>
    /\ pc = "segment" => Connections > 1 /\ Size >= 2 * SegmentMin

(* The attempts counted so far. *)
AttemptsLeft ==
    /\ pc \in {"idle", "discover", "next", "segment", "segverify"} => run.attempts = 0
    /\ pc = "attempt" => run.attempts < MaxAttempts

TypeInv == TypeOK /\ Trying /\ AttemptsLeft

(* From the check of the prefix on, the file is what the verifier has seen. *)
FileIsFed ==
    /\ pc \in {"open", "stream"} => part = fed
    /\ pc = "stream" => run.pos = Len(fed)

(* Only the right content reaches the commit. *)
CommitsContent == pc = "commit" => part = Content

SoundInv == FileIsFed /\ CommitsContent /\ CacheIsSound

----------------------------------------------------------------------------
(* The operators *)

LEMMA ArtifactConstants ==
    /\ IsFiniteSet(Source) /\ Http \subseteq Source /\ Nobody \notin Source
    /\ Size \in Nat /\ Size > 0
    /\ MaxAttempts \in Nat /\ MaxAttempts > 0
    /\ MaxRuns \in Nat /\ MaxBans \in Nat
    /\ Connections \in Nat
BY ArtifactAssumption DEF ArtifactAssumption

(* Every segment ends inside the artifact. *)
LEMMA SegmentBounds ==
    ASSUME NEW k \in Segments, Size >= 2 * SegmentMin, Connections > 1
    PROVE  SegmentStart(k) \in 0 .. Size /\ SegmentEnd(k) \in 0 .. Size
<1>1. /\ Size \in Nat /\ Size > 0 /\ SegmentMin \in Nat /\ SegmentMin > 0
      /\ Connections \in Nat /\ Connections > 1
      /\ k \in Nat
  BY ArtifactAssumption DEF ArtifactAssumption, Segments
<1>2. SegmentCount \in Nat /\ SegmentCount > 0
  <2>1. Size \div SegmentMin \in Nat /\ Size \div SegmentMin > 0
    BY <1>1
  <2> QED BY <1>1, <2>1 DEF SegmentCount
<1>3. SegmentSize \in Nat
  BY <1>1, <1>2 DEF SegmentSize
<1>4. k * SegmentSize \in Nat /\ (k + 1) * SegmentSize \in Nat
  BY <1>1, <1>3
<1> QED BY <1>1, <1>4 DEF SegmentStart, SegmentEnd

(* A write inside or at the end of the file keeps it a file of the right size. *)
LEMMA WriteAtType ==
    ASSUME NEW p \in Seq(Cell), NEW at \in Nat, NEW c \in Cell,
           Len(p) <= Size, at < Size
    PROVE  /\ WriteAt(p, at, c) \in Seq(Cell)
           /\ Len(WriteAt(p, at, c)) <= Size
<1> DEFINE n == IF at < Len(p) THEN Len(p) ELSE at + 1
           f == [i \in 1 .. n |->
                    IF i = at + 1 THEN c ELSE IF i <= Len(p) THEN p[i] ELSE Hole]
<1>1. Len(p) \in Nat /\ n \in Nat /\ n <= Size /\ Hole \in Cell
  BY ArtifactConstants, LenProperties DEF Hole, Cell
<1>2. \A i \in 1 .. n : f[i] \in Cell
  <2> SUFFICES ASSUME NEW i \in 1 .. n PROVE f[i] \in Cell
    OBVIOUS
  <2>1. CASE i <= Len(p)
    BY <1>1, <2>1, ElementOfSeq
  <2>2. CASE ~(i <= Len(p))
    BY <1>1, <2>2
  <2> QED BY <2>1, <2>2
<1>3. f \in Seq(Cell) /\ Len(f) = n
  <2>1. f \in [1 .. n -> Cell]
    BY <1>2
  <2> HIDE DEF f, n
  <2> QED BY <1>1, <2>1
<1> QED BY <1>1, <1>3 DEF WriteAt

(* A write at the end of the file appends. *)
LEMMA WriteAtEnd ==
    ASSUME NEW p \in Seq(Cell), NEW c \in Cell
    PROVE  WriteAt(p, Len(p), c) = Append(p, c)
<1>1. Len(p) \in Nat /\ DOMAIN p = 1 .. Len(p)
  BY LenProperties
<1>2. /\ Append(p, c) \in Seq(Cell) /\ Len(Append(p, c)) = Len(p) + 1
      /\ DOMAIN Append(p, c) = 1 .. Len(p) + 1
      /\ \A i \in 1 .. Len(p) : Append(p, c)[i] = p[i]
      /\ Append(p, c)[Len(p) + 1] = c
  BY <1>1, AppendProperties, LenProperties
<1> DEFINE w == [i \in 1 .. Len(p) + 1 |->
                    IF i = Len(p) + 1 THEN c ELSE IF i <= Len(p) THEN p[i] ELSE Hole]
<1>3. WriteAt(p, Len(p), c) = w
  BY <1>1 DEF WriteAt
<1>4. \A i \in 1 .. Len(p) + 1 : w[i] = Append(p, c)[i]
  BY <1>1, <1>2
<1>5. \A i \in 1 .. Len(p) + 1 : w[i] \in Cell
  BY <1>1, <1>2, <1>4, ElementOfSeq
<1>6. w \in Seq(Cell) /\ Len(w) = Len(p) + 1
  <2>1. w \in [1 .. Len(p) + 1 -> Cell] /\ Len(p) + 1 \in Nat
    BY <1>1, <1>5
  <2> HIDE DEF w
  <2> QED BY <2>1
<1> HIDE DEF w
<1>7. w = Append(p, c)
  BY <1>2, <1>4, <1>6, SeqEqual
<1> QED BY <1>3, <1>7

LEMMA SentType ==
    ASSUME NEW s, NEW at \in 0 .. Size - 1, NEW c \in Sent(s, at)
    PROVE  c \in Cell
BY ArtifactConstants DEF Sent, Cell, Bad

----------------------------------------------------------------------------
(* Types.  The parts the actions are made of come first. *)

LEMMA NoRunType == NoRun \in RunType /\ NoRun.attempts = 0
<1>1. [k \in Segments |-> 0] \in [Segments -> 0 .. Size]
  BY ArtifactConstants
<1>2. <<>> \in Seq(Source)
  BY EmptySeq
<1> QED BY ArtifactConstants, <1>1, <1>2 DEF NoRun, RunType

LEMMA ReturnType ==
    ASSUME TypeInv, NEW o \in Outcomes, Return(o)
    PROVE  /\ pc' = "idle" /\ run' \in RunType /\ run'.attempts = 0
           /\ fed' \in Seq(Cell) /\ Len(fed') <= Size
           /\ outcome' \in Outcomes
BY NoRunType, ArtifactConstants, EmptySeq DEF Return

LEMMA FinishCancelledType ==
    ASSUME TypeInv, NEW p \in Seq(Cell), Len(p) <= Size,
           NEW s \in Source \cup {Nobody}, FinishCancelled(p, s),
           UNCHANGED <<world, cancel, runs, bans>>
    PROVE  TypeInv'
<1>1. /\ pc' = "idle" /\ run' \in RunType /\ run'.attempts = 0
      /\ fed' \in Seq(Cell) /\ Len(fed') <= Size /\ outcome' \in Outcomes
  BY ReturnType DEF FinishCancelled, Outcomes
<1>2. part' \in Seq(Cell) /\ Len(part') <= Size
  BY ArtifactConstants, EmptySeq DEF FinishCancelled
<1> QED BY <1>1, <1>2 DEF FinishCancelled, TypeInv, TypeOK, Trying, AttemptsLeft, AtSource, PCs, health

LEMMA FailoverType ==
    ASSUME TypeInv, run.todo # <<>>, NEW p, NEW s \in Source, Failover(p, s)
    PROVE  /\ pc' = "next" /\ run' \in RunType /\ run'.attempts = 0
           /\ fed' \in Seq(Cell) /\ Len(fed') <= Size
           /\ outcome' = outcome
<1>1. Tail(run.todo) \in Seq(Source)
  BY HeadTailProperties DEF TypeInv, TypeOK, RunType
<1>2. /\ pc' = "next" /\ fed' = <<>> /\ outcome' = outcome
      /\ run' = [NoRun EXCEPT !.todo = Tail(run.todo),
                              !.owner = IF p = <<>> THEN Nobody ELSE s]
  BY DEF Failover
<1>3. (IF p = <<>> THEN Nobody ELSE s) \in Source \cup {Nobody}
  OBVIOUS
<1>4. run' \in RunType /\ run'.attempts = 0
  BY <1>1, <1>2, <1>3, NoRunType DEF RunType
<1> QED BY <1>2, <1>4, ArtifactConstants, EmptySeq

LEMMA AttemptFailedType ==
    ASSUME TypeInv, pc \in AtSource, NEW r \in BOOLEAN, AttemptFailed(r),
           UNCHANGED <<durable, health>>, UNCHANGED <<world, cancel, runs, bans>>
    PROVE  TypeInv'
<1>0. run \in RunType /\ run.source \in Source /\ run.todo # <<>>
  BY DEF TypeInv, TypeOK, Trying
<1>1. CASE r /\ run.attempts < MaxAttempts
  <2>1. /\ pc' = "attempt" /\ run' = [run EXCEPT !.pos = 0, !.emitted = 0]
        /\ fed' = <<>> /\ outcome' = outcome
    BY <1>1 DEF AttemptFailed
  <2>2. run.attempts < MaxAttempts
    BY <1>1
  <2>3. run' \in RunType
    <3>1. 0 \in 0 .. Size
      BY ArtifactConstants
    <3> QED BY <1>0, <2>1, <3>1 DEF RunType
  <2>4. /\ run'.attempts < MaxAttempts
        /\ run'.source = run.source /\ run'.todo = run.todo
    BY <1>0, <2>1, <2>2 DEF RunType
  <2> QED BY <1>0, <2>1, <2>3, <2>4, ArtifactConstants, EmptySeq
          DEF TypeInv, TypeOK, Trying, AttemptsLeft, AtSource, PCs, durable, health
<1>2. CASE ~(r /\ run.attempts < MaxAttempts)
  <2>1. /\ pc' = "next" /\ run' \in RunType /\ run'.attempts = 0
        /\ fed' \in Seq(Cell) /\ Len(fed') <= Size /\ outcome' = outcome
    BY <1>0, <1>2, FailoverType DEF AttemptFailed
  <2> QED BY <2>1 DEF TypeInv, TypeOK, Trying, AttemptsLeft, AtSource, PCs, durable, health
<1> QED BY <1>1, <1>2

LEMMA PoisonedType ==
    ASSUME TypeInv, pc \in AtSource, Poisoned, UNCHANGED <<world, cancel, runs, bans>>
    PROVE  TypeInv'
BY DEF Poisoned, TypeInv, TypeOK, Trying, AttemptsLeft, AtSource, PCs, durable

(* The count of cells that are in. *)
LEMMA DoneType ==
    ASSUME NEW file
    PROVE  Cardinality({i \in 1 .. Size : file[i] # Hole}) \in 0 .. Size
<1> DEFINE S == {i \in 1 .. Size : file[i] # Hole}
<1>1. IsFiniteSet(1 .. Size) /\ Cardinality(1 .. Size) = Size
  BY FS_Interval, ArtifactConstants
<1>2. S \in SUBSET (1 .. Size)
  OBVIOUS
<1> HIDE DEF S
<1>3. IsFiniteSet(S) /\ Cardinality(S) <= Size
  BY <1>1, <1>2, FS_Subset
<1>4. Cardinality(S) \in Nat
  BY <1>3, FS_CardinalityType
<1>5. Cardinality(S) \in 0 .. Size
  BY <1>3, <1>4, ArtifactConstants
<1> QED BY <1>5 DEF S

(* One step of the run keeps the types. *)
LEMMA StepType ==
    ASSUME TypeInv, Step
    PROVE  TypeInv'
<1> USE DEF TypeInv, TypeOK, Trying, AttemptsLeft, AtSource
<1>0. UNCHANGED <<world, cancel, runs, bans>>
  BY DEF Step
<1>e. <<>> \in Seq(Cell) /\ Len(<<>>) <= Size /\ 0 \in 0 .. Size
  BY EmptySeq, ArtifactConstants
<1>1. CASE LeaveDiscovery
  <2>1. (IF cancel = "stop" THEN "Stopped" ELSE "Cancelled") \in Outcomes
    BY DEF Outcomes
  <2> QED BY <1>0, <1>1, <2>1, ReturnType DEF LeaveDiscovery, durable, health, PCs
<1>2. CASE NoEligibleSource
  <2>1. "NoEligibleSource" \in Outcomes
    BY DEF Outcomes
  <2> QED BY <1>0, <1>2, <2>1, ReturnType DEF NoEligibleSource, durable, health, PCs
<1>3. CASE Plan
  <2>1. PICK plan \in Plans :
            run' = [NoRun EXCEPT !.todo = plan,
                                 !.owner = IF world.tree \/ part = <<>>
                                             THEN Nobody ELSE rowSource]
    BY <1>3 DEF Plan
  <2>2. plan \in Seq(Source)
    <3> DEFINE n == Cardinality(Source \ banned)
    <3>1. n \in Nat
      BY ArtifactConstants, FS_Subset, FS_CardinalityType
    <3>2. plan \in [1 .. n -> Source]
      BY DEF Plans
    <3> HIDE DEF n
    <3> QED BY <3>1, <3>2
  <2>3. run' \in RunType /\ run'.attempts = 0
    <3>1. (IF world.tree \/ part = <<>> THEN Nobody ELSE rowSource) \in Source \cup {Nobody}
      OBVIOUS
    <3> HIDE DEF TypeInv, TypeOK, Trying, AttemptsLeft
    <3> QED BY <2>1, <2>2, <3>1, NoRunType DEF RunType
  <2>4. part' \in Seq(Cell) /\ Len(part') <= Size
    BY <1>3, <1>e DEF Plan
  <2> QED BY <1>0, <1>3, <2>3, <2>4 DEF Plan, health, PCs
<1>4. CASE SourcesExhausted
  <2>1. "failed" \in Outcomes
    BY DEF Outcomes
  <2> QED BY <1>0, <1>4, <2>1, ReturnType DEF SourcesExhausted, durable, health, PCs
<1>5. CASE LoopCancelled
  BY <1>0, <1>5, FinishCancelledType DEF LoopCancelled
<1>6. CASE SkipBanned
  <2>1. Tail(run.todo) \in Seq(Source)
    BY <1>6, HeadTailProperties DEF SkipBanned, RunType
  <2>2. run' \in RunType /\ run'.attempts = run.attempts
    BY <1>6, <2>1 DEF SkipBanned, RunType
  <2> QED BY <1>0, <1>6, <2>2 DEF SkipBanned, durable, health
<1>7. CASE TrySource
  <2> DEFINE s == Head(run.todo)
  <2>1. s \in Source /\ run.todo # <<>> /\ pc = "next"
    BY <1>7, HeadTailProperties DEF TrySource, RunType
  <2>2. Inherited(s) \in Seq(Cell) /\ Len(Inherited(s)) <= Size
    BY <1>e DEF Inherited
  <2>3. UNCHANGED <<rowSource, blob, indexed, health>>
    BY <1>7 DEF TrySource
  <2>4. CASE part' = Inherited(s) /\ Failover(Inherited(s), s)
    <3>1. /\ pc' = "next" /\ run' \in RunType /\ run'.attempts = 0
          /\ fed' \in Seq(Cell) /\ Len(fed') <= Size /\ outcome' = outcome
      BY <2>1, <2>4, FailoverType
    <3> QED BY <1>0, <2>2, <2>3, <2>4, <3>1 DEF health, PCs
  <2>5. CASE /\ part' = Inherited(s) /\ pc' = "attempt"
             /\ run' = [run EXCEPT !.source = s] /\ UNCHANGED <<fed, outcome>>
    <3>1. /\ run' \in RunType /\ run'.attempts = 0
          /\ run'.source \in Source /\ run'.todo # <<>>
      BY <2>1, <2>5 DEF RunType
    <3> QED BY <1>0, <2>2, <2>3, <2>5, <3>1, ArtifactConstants DEF health, PCs
  <2>6. CASE /\ Segmentable(s)
             /\ part' = [i \in 1 .. Size |-> Hole]
             /\ pc' = "segment"
             /\ run' = [run EXCEPT !.source = s,
                                   !.next = [k \in Segments |-> SegmentStart(k)]]
             /\ UNCHANGED <<fed, outcome>>
    <3>1. [k \in Segments |-> SegmentStart(k)] \in [Segments -> 0 .. Size]
      BY <2>6, SegmentBounds DEF Segmentable
    <3>2. /\ run' \in RunType /\ run'.attempts = 0
          /\ run'.source \in Source /\ run'.todo # <<>>
      BY <2>1, <2>6, <3>1 DEF RunType
    <3>3. part' \in Seq(Cell) /\ Len(part') = Size
      <4>1. part' \in [1 .. Size -> Cell] /\ Size \in Nat
        BY <2>6, ArtifactConstants DEF Hole, Cell
      <4> QED BY <4>1
    <3>4. Len(part') <= Size
      BY <3>3, ArtifactConstants
    <3>5. Connections > 1 /\ Size >= 2 * SegmentMin
      BY <2>6 DEF Segmentable
    <3> QED BY <1>0, <2>3, <2>6, <3>2, <3>3, <3>4, <3>5 DEF health, PCs
  <2>7. \/ part' = Inherited(s) /\ Failover(Inherited(s), s)
        \/ /\ part' = Inherited(s) /\ pc' = "attempt"
           /\ run' = [run EXCEPT !.source = s] /\ UNCHANGED <<fed, outcome>>
        \/ /\ Segmentable(s)
           /\ part' = [i \in 1 .. Size |-> Hole]
           /\ pc' = "segment"
           /\ run' = [run EXCEPT !.source = s,
                                 !.next = [k \in Segments |-> SegmentStart(k)]]
           /\ UNCHANGED <<fed, outcome>>
    BY <1>7, Zenon DEF TrySource
  <2> QED BY <2>4, <2>5, <2>6, <2>7
<1>8. ASSUME NEW k \in Segments, SegmentChunk(k) PROVE TypeInv'
  <2>1. PICK c \in Sent(run.source, run.next[k]) :
          LET file == WriteAt(part, run.next[k], c)
              done == Cardinality({i \in 1 .. Size : file[i] # Hole})
          IN  /\ part' = file
              /\ run' = [run EXCEPT !.next[k] = @ + 1,
                                    !.emitted = IF Emits(done) THEN done ELSE @]
              /\ rowSource' = IF Emits(done) THEN run.source ELSE rowSource
    BY <1>8 DEF SegmentChunk
  <2> DEFINE file == WriteAt(part, run.next[k], c)
             done == Cardinality({i \in 1 .. Size : file[i] # Hole})
  <2>2. run.next[k] \in 0 .. Size /\ run.next[k] < SegmentEnd(k)
    BY <1>8 DEF SegmentChunk, Unfinished, RunType
  <2>3. run.next[k] \in 0 .. Size - 1
    <3>1. SegmentEnd(k) \in Int /\ SegmentEnd(k) <= Size
      BY <1>8, SegmentBounds DEF SegmentChunk
    <3> QED BY <2>2, <3>1, ArtifactConstants
  <2>4. c \in Cell
    BY <2>3, SentType
  <2>5. file \in Seq(Cell) /\ Len(file) <= Size
    BY <2>3, <2>4, WriteAtType, ArtifactConstants
  <2>6. done \in 0 .. Size
    BY DoneType
  <2> HIDE DEF file, done
  <2>7. (IF Emits(done) THEN done ELSE run.emitted) \in 0 .. Size
    BY <2>6 DEF RunType
  <2>8. [run.next EXCEPT ![k] = run.next[k] + 1] \in [Segments -> 0 .. Size]
    BY <2>3, ArtifactConstants DEF RunType
  <2>9. run' = [run EXCEPT !.next = [run.next EXCEPT ![k] = run.next[k] + 1],
                           !.emitted = IF Emits(done) THEN done ELSE run.emitted]
    BY <2>1 DEF file, done, RunType
  <2>10. /\ run' \in RunType /\ run'.source = run.source /\ run'.todo = run.todo
         /\ run'.attempts = run.attempts
    BY <2>7, <2>8, <2>9 DEF RunType
  <2>11. part' = file /\ rowSource' \in Source \cup {Nobody}
    BY <2>1, <1>8 DEF file, SegmentChunk
  <2> QED BY <1>0, <1>8, <2>5, <2>10, <2>11 DEF SegmentChunk, health
<1>9. CASE SegmentFails
  <2>1. run' \in RunType /\ run'.source = run.source /\ run'.todo = run.todo /\ run'.attempts = run.attempts
    BY <1>9, <1>e, NoRunType DEF SegmentFails, RunType
  <2> QED BY <1>0, <1>9, <1>e, <2>1, ArtifactConstants DEF SegmentFails, health, PCs
<1>10. CASE SegmentCancelled
  BY <1>0, <1>10, <1>e, FinishCancelledType DEF SegmentCancelled
<1>11. CASE SegmentsJoined
  <2>1. run' \in RunType /\ run'.source = run.source /\ run'.todo = run.todo /\ run'.attempts = run.attempts
    BY <1>11, <1>e, NoRunType DEF SegmentsJoined, RunType
  <2> QED BY <1>0, <1>11, <2>1 DEF SegmentsJoined, durable, health, PCs
<1>12. CASE VerifySegmented
  <2>1. CASE Cancelled /\ FinishCancelled(part, rowSource)
    BY <1>0, <2>1, FinishCancelledType
  <2>2. CASE pc' = "commit" /\ UNCHANGED <<durable, health, run, fed, outcome>>
    BY <1>0, <1>12, <2>2 DEF VerifySegmented, durable, health, PCs
  <2>3. CASE /\ part' = <<>> /\ pc' = "attempt"
             /\ UNCHANGED <<rowSource, blob, indexed, health, run, fed, outcome>>
    BY <1>0, <1>12, <1>e, <2>3, ArtifactConstants DEF VerifySegmented, health, PCs
  <2> QED BY <1>12, <2>1, <2>2, <2>3 DEF VerifySegmented
<1>13. CASE PrepareResume
  <2>1. CASE FinishCancelled(part, rowSource)
    BY <1>0, <2>1, FinishCancelledType
  <2>2. CASE /\ part' = Resumable /\ fed' = Resumable /\ pc' = "open"
             /\ run' = [run EXCEPT !.attempts = @ + 1]
             /\ UNCHANGED <<rowSource, blob, indexed, health, outcome>>
    <3>1. Resumable \in Seq(Cell) /\ Len(Resumable) <= Size
      BY <1>e DEF Resumable
    <3>2. run.attempts + 1 \in 0 .. MaxAttempts
      BY <1>13, ArtifactConstants DEF PrepareResume, RunType
    <3>3. run' \in RunType /\ run'.source = run.source /\ run'.todo = run.todo
      BY <2>2, <3>2 DEF RunType
    <3> QED BY <1>0, <1>13, <2>2, <3>1, <3>3 DEF PrepareResume, health, PCs
  <2> QED BY <1>13, <2>1, <2>2 DEF PrepareResume
<1>14. CASE Open
  <2>1. Len(fed) \in 0 .. Size
    BY LenProperties, ArtifactConstants
  <2>2. /\ run' \in RunType /\ run'.source = run.source /\ run'.todo = run.todo
        /\ part' \in Seq(Cell) /\ Len(part') <= Size
        /\ fed' \in Seq(Cell) /\ Len(fed') <= Size
    BY <1>14, <1>e, <2>1 DEF Open, RunType
  <2> QED BY <1>0, <1>14, <2>2 DEF Open, health, PCs
<1>15. CASE OpenCancelled
  BY <1>0, <1>15, FinishCancelledType DEF OpenCancelled
<1>16. CASE OpenFails
  BY <1>0, <1>16, AttemptFailedType DEF OpenFails
<1>17. CASE Receive
  <2>0. pc = "stream" /\ run.pos \in 0 .. Size - 1 /\ Len(fed) < Size
    BY <1>17, ArtifactConstants DEF Receive, RunType
  <2>1. PICK c \in Sent(run.source, run.pos) :
          LET done == run.pos + 1 IN
          IF LeavesMatch(Append(fed, c))
            THEN /\ fed' = Append(fed, c)
                 /\ part' = WriteAt(part, run.pos, c)
                 /\ run' = [run EXCEPT !.pos = done,
                                       !.emitted = IF Emits(done) THEN done ELSE @]
                 /\ rowSource' = IF Emits(done) THEN run.source ELSE rowSource
                 /\ UNCHANGED <<blob, indexed, health, pc, outcome>>
            ELSE Poisoned
    BY <1>17 DEF Receive
  <2>2. CASE Poisoned
    BY <1>0, <2>0, <2>2, PoisonedType
  <2>3. CASE /\ fed' = Append(fed, c)
             /\ part' = WriteAt(part, run.pos, c)
             /\ run' = [run EXCEPT !.pos = run.pos + 1,
                                   !.emitted = IF Emits(run.pos + 1) THEN run.pos + 1 ELSE @]
             /\ rowSource' = IF Emits(run.pos + 1) THEN run.source ELSE rowSource
             /\ UNCHANGED <<blob, indexed, health, pc, outcome>>
    <3>1. c \in Cell
      BY <2>0, SentType
    <3>2. fed' \in Seq(Cell) /\ Len(fed') <= Size
      BY <2>0, <2>3, <3>1, AppendProperties, LenProperties, ArtifactConstants
    <3>3. part' \in Seq(Cell) /\ Len(part') <= Size
      BY <2>0, <2>3, <3>1, WriteAtType, ArtifactConstants
    <3>4. run.pos + 1 \in 0 .. Size
      BY <2>0, ArtifactConstants
    <3>5. (IF Emits(run.pos + 1) THEN run.pos + 1 ELSE run.emitted) \in 0 .. Size
      BY <3>4 DEF RunType
    <3>6. /\ run' \in RunType /\ run'.source = run.source /\ run'.todo = run.todo
          /\ run'.attempts = run.attempts
      BY <2>3, <3>4, <3>5 DEF RunType
    <3> QED BY <1>0, <2>0, <2>3, <3>2, <3>3, <3>6 DEF health
  <2> QED BY <2>1, <2>2, <2>3
<1>18. CASE TooManyBytes
  BY <1>0, <1>18, PoisonedType DEF TooManyBytes
<1>19. CASE StreamCancelled
  BY <1>0, <1>19, FinishCancelledType DEF StreamCancelled
<1>20. CASE StreamError
  BY <1>0, <1>20, AttemptFailedType DEF StreamError
<1>21. CASE StreamEnds
  <2>1. CASE AttemptFailed(TRUE) /\ UNCHANGED <<durable, health>>
    BY <1>0, <1>21, <2>1, AttemptFailedType DEF StreamEnds
  <2>2. CASE pc' = "commit" /\ UNCHANGED <<durable, health, run, fed, outcome>>
    BY <1>0, <1>21, <2>2 DEF StreamEnds, durable, health, PCs
  <2>3. CASE Poisoned
    BY <1>0, <1>21, <2>3, PoisonedType DEF StreamEnds
  <2> QED BY <1>21, <2>1, <2>2, <2>3 DEF StreamEnds
<1>22. CASE Quarantine
  <2>1. /\ pc' = "next" /\ run' \in RunType /\ run'.attempts = 0
        /\ fed' \in Seq(Cell) /\ Len(fed') <= Size /\ outcome' = outcome
    BY <1>22, FailoverType DEF Quarantine
  <2> QED BY <1>0, <1>22, <1>e, <2>1 DEF Quarantine, PCs
<1>23. CASE Commit
  BY <1>0, <1>23, <1>e DEF Commit, health, PCs
<1>24. CASE Finalize
  <2>1. "ok" \in Outcomes
    BY DEF Outcomes
  <2> QED BY <1>0, <1>24, <2>1, ReturnType DEF Finalize, PCs
<1> QED BY <1>1, <1>2, <1>3, <1>4, <1>5, <1>6, <1>7, <1>8, <1>9, <1>10, <1>11, <1>12,
           <1>13, <1>14, <1>15, <1>16, <1>17, <1>18, <1>19, <1>20, <1>21, <1>22,
           <1>23, <1>24, Zenon DEF Step

LEMMA TypeInductive == TypeInv /\ [Next]_vars => TypeInv'
<1> SUFFICES ASSUME TypeInv, [Next]_vars PROVE TypeInv'
  OBVIOUS
<1> USE DEF TypeInv, TypeOK, Trying, AttemptsLeft, AtSource
<1>1. CASE CacheHit
  BY <1>1, ArtifactConstants DEF CacheHit, health, local, Outcomes
<1>2. CASE Start
  BY <1>2, ArtifactConstants DEF Start, durable, health, Outcomes, PCs
<1>3. CASE Step
  BY <1>3, StepType
<1>4. CASE Crash
  <2>1. "crashed" \in Outcomes
    BY DEF Outcomes
  <2> QED BY <1>4, <2>1, ReturnType DEF Crash, durable, health, PCs
<1>5. CASE RequestPause
  BY <1>5 DEF RequestPause, durable, health, local
<1>6. CASE RequestStop
  BY <1>6 DEF RequestStop, durable, health, local
<1>7. ASSUME NEW s \in Source, BannedElsewhere(s) PROVE TypeInv'
  BY <1>7, ArtifactConstants DEF BannedElsewhere, durable, local
<1>8. ASSUME NEW s \in Source, CooldownEnds(s) PROVE TypeInv'
  BY <1>8 DEF CooldownEnds, durable, local
<1>9. CASE UNCHANGED vars
  BY <1>9 DEF vars, durable, health, local
<1> QED BY <1>1, <1>2, <1>3, <1>4, <1>5, <1>6, <1>7, <1>8, <1>9 DEF Next

LEMMA TypeInitially == Init => TypeInv
<1> SUFFICES ASSUME Init PROVE TypeInv
  OBVIOUS
<1>1. <<>> \in Seq(Cell) /\ Len(<<>>) <= Size
  BY ArtifactConstants, EmptySeq
<1>2. runs \in 0 .. MaxRuns /\ bans \in 0 .. MaxBans
  BY ArtifactConstants DEF Init
<1>3. run \in RunType /\ run.attempts = 0
  BY NoRunType DEF Init
<1> QED BY <1>1, <1>2, <1>3
        DEF Init, TypeInv, TypeOK, Trying, AttemptsLeft, AtSource, PCs, Outcomes

LEMMA TypeAlways == Spec => []TypeInv
BY TypeInitially, TypeInductive, PTL DEF Spec

(* For any sources, sizes, connections, attempts, runs and bans the variables of
   the download keep their types: in particular the .part never outgrows the
   artifact, no source is tried more than max_attempts_per_source times, and no
   connection writes past the end. *)
THEOREM ArtifactTypeCorrect == Spec => []TypeOK
<1>1. TypeInv => TypeOK
  BY DEF TypeInv
<1> QED BY <1>1, TypeAlways, PTL

----------------------------------------------------------------------------
(* What is committed *)

(* A step of the run keeps the file and the verifier in step, and lets only the
   right content through. *)
LEMMA StepSound ==
    ASSUME TypeInv, SoundInv, Step
    PROVE  SoundInv'
<1> USE DEF SoundInv, FileIsFed, CommitsContent, CacheIsSound
<1>1. CASE LeaveDiscovery
  BY <1>1 DEF LeaveDiscovery, Return, durable
<1>2. CASE NoEligibleSource
  BY <1>2 DEF NoEligibleSource, Return, durable
<1>3. CASE Plan
  BY <1>3 DEF Plan
<1>4. CASE SourcesExhausted
  BY <1>4 DEF SourcesExhausted, Return, durable
<1>5. CASE LoopCancelled
  BY <1>5 DEF LoopCancelled, FinishCancelled, Return
<1>6. CASE SkipBanned
  BY <1>6 DEF SkipBanned, durable
<1>7. CASE TrySource
  <2>1. blob' = blob /\ pc' \in {"next", "attempt", "segment"}
    BY <1>7 DEF TrySource, Failover
  <2> QED BY <2>1
<1>8. ASSUME NEW k \in Segments, SegmentChunk(k) PROVE SoundInv'
  BY <1>8 DEF SegmentChunk
<1>9. CASE SegmentFails
  BY <1>9 DEF SegmentFails
<1>10. CASE SegmentCancelled
  BY <1>10 DEF SegmentCancelled, FinishCancelled, Return
<1>11. CASE SegmentsJoined
  BY <1>11 DEF SegmentsJoined, durable
<1>12. CASE VerifySegmented
  BY <1>12 DEF VerifySegmented, FinishCancelled, Return, Matches, durable
<1>13. CASE PrepareResume
  BY <1>13 DEF PrepareResume, FinishCancelled, Return
<1>14. CASE Open
  <2>1. Len(<<>>) = 0
    BY EmptySeq
  <2>2. run \in RunType
    BY DEF TypeInv, TypeOK
  <2> QED BY <1>14, <2>1, <2>2 DEF Open, RunType
<1>15. CASE OpenCancelled
  BY <1>15 DEF OpenCancelled, FinishCancelled, Return
<1>16. CASE OpenFails
  BY <1>16 DEF OpenFails, AttemptFailed, Failover, durable
<1>17. CASE Receive
  <2>0. /\ pc = "stream" /\ part = fed /\ run.pos = Len(fed) /\ fed \in Seq(Cell)
        /\ run \in RunType /\ run.pos \in 0 .. Size - 1
    BY <1>17, ArtifactConstants DEF Receive, TypeInv, TypeOK, RunType
  <2>1. PICK c \in Sent(run.source, run.pos) :
          \/ /\ fed' = Append(fed, c)
             /\ part' = WriteAt(part, run.pos, c)
             /\ run' = [run EXCEPT !.pos = run.pos + 1,
                                   !.emitted = IF Emits(run.pos + 1) THEN run.pos + 1 ELSE @]
             /\ blob' = blob /\ pc' = pc
          \/ Poisoned
    BY <1>17 DEF Receive
  <2>2. c \in Cell
    BY <2>0, SentType
  <2>3. CASE Poisoned
    BY <2>3 DEF Poisoned, durable
  <2>4. CASE /\ fed' = Append(fed, c)
             /\ part' = WriteAt(part, run.pos, c)
             /\ run' = [run EXCEPT !.pos = run.pos + 1,
                                   !.emitted = IF Emits(run.pos + 1) THEN run.pos + 1 ELSE @]
             /\ blob' = blob /\ pc' = pc
    <3>1. part' = fed'
      BY <2>0, <2>2, <2>4, WriteAtEnd
    <3>2. run'.pos = Len(fed')
      BY <2>0, <2>2, <2>4, AppendProperties DEF RunType
    <3> QED BY <2>0, <2>4, <3>1, <3>2
  <2> QED BY <2>1, <2>3, <2>4
<1>18. CASE TooManyBytes
  BY <1>18 DEF TooManyBytes, Poisoned, durable
<1>19. CASE StreamCancelled
  BY <1>19 DEF StreamCancelled, FinishCancelled, Return
<1>20. CASE StreamError
  BY <1>20 DEF StreamError, AttemptFailed, Failover, durable
<1>21. CASE StreamEnds
  BY <1>21 DEF StreamEnds, AttemptFailed, Failover, Matches, Poisoned, durable
<1>22. CASE Quarantine
  BY <1>22 DEF Quarantine, Failover
<1>23. CASE Commit
  BY <1>23 DEF Commit
<1>24. CASE Finalize
  BY <1>24 DEF Finalize, Return
<1> QED BY <1>1, <1>2, <1>3, <1>4, <1>5, <1>6, <1>7, <1>8, <1>9, <1>10, <1>11, <1>12,
           <1>13, <1>14, <1>15, <1>16, <1>17, <1>18, <1>19, <1>20, <1>21, <1>22,
           <1>23, <1>24, Zenon DEF Step

LEMMA SoundInductive == TypeInv /\ SoundInv /\ [Next]_vars => SoundInv'
<1> SUFFICES ASSUME TypeInv, SoundInv, [Next]_vars PROVE SoundInv'
  OBVIOUS
<1> USE DEF SoundInv, FileIsFed, CommitsContent, CacheIsSound
<1>1. CASE CacheHit
  BY <1>1 DEF CacheHit, local
<1>2. CASE Start
  BY <1>2 DEF Start, durable
<1>3. CASE Step
  BY <1>3, StepSound
<1>4. CASE Crash
  BY <1>4 DEF Crash, Return, durable
<1>5. CASE RequestPause
  BY <1>5 DEF RequestPause, durable, local
<1>6. CASE RequestStop
  BY <1>6 DEF RequestStop, durable, local
<1>7. ASSUME NEW s \in Source, BannedElsewhere(s) PROVE SoundInv'
  BY <1>7 DEF BannedElsewhere, durable, local
<1>8. ASSUME NEW s \in Source, CooldownEnds(s) PROVE SoundInv'
  BY <1>8 DEF CooldownEnds, durable, local
<1>9. CASE UNCHANGED vars
  BY <1>9 DEF vars, durable, local
<1> QED BY <1>1, <1>2, <1>3, <1>4, <1>5, <1>6, <1>7, <1>8, <1>9 DEF Next

LEMMA SoundAlways == Spec => []SoundInv
<1>1. Init => SoundInv
  BY DEF Init, SoundInv, FileIsFed, CommitsContent, CacheIsSound
<1> QED BY <1>1, TypeAlways, SoundInductive, PTL DEF Spec

(* Whatever the sources send, however often the download is interrupted, killed,
   resumed by another source or fetched over several connections, the content
   store holds nothing but the right bytes under the artifact's hash. *)
THEOREM ArtifactCacheIsSound == Spec => []CacheIsSound
<1>1. SoundInv => CacheIsSound
  BY DEF SoundInv
<1> QED BY <1>1, SoundAlways, PTL

(* In every stream the file, the verifier and the write offset agree, so that
   what the verifier accepts is what is committed. *)
THEOREM ArtifactAligned == Spec => []Aligned
<1>1. SoundInv => Aligned
  BY DEF SoundInv, FileIsFed, Aligned
<1> QED BY <1>1, SoundAlways, PTL

----------------------------------------------------------------------------
(* Who is blamed *)

Right(c) == \A i \in 1 .. Len(c) : c[i] = i

(* With honest sources a .part is a prefix of the content or, when several
   connections were at it, as long as the artifact; the latter is never resumed,
   so the verifier sees only right bytes. *)
HonestInv ==
    world.known /\ world.corrupt = {} =>
        /\ quarantine = {}
        /\ pc # "poisoned"
        /\ Right(part) \/ Len(part) = Size
        /\ pc = "segment" => Len(part) = Size
        /\ pc \in {"open", "stream"} => Right(fed)

LEMMA EmptyIsRight == Right(<<>>)
BY EmptySeq DEF Right

LEMMA AppendIsRight ==
    ASSUME NEW p \in Seq(Cell), Len(p) + 1 \in Cell, Right(p)
    PROVE  Right(Append(p, Len(p) + 1))
<1>1. Len(p) \in Nat
  BY LenProperties
<1> QED BY <1>1, AppendProperties DEF Right

LEMMA RightIsContent ==
    ASSUME NEW p \in Seq(Cell), Len(p) = Size, Right(p)
    PROVE  p = Content
<1>1. DOMAIN p = 1 .. Size /\ p = [i \in DOMAIN p |-> p[i]]
  BY LenProperties
<1> QED BY <1>1 DEF Right, Content

(* A prefix of the content has no bad leaf. *)
LEMMA RightLeavesMatch ==
    ASSUME NEW p \in Seq(Cell), Right(p)
    PROVE  LeavesMatch(p)
<1>1. Len(p) \in Nat /\ LeafSize \in Nat /\ LeafSize > 0
  BY LenProperties, ArtifactAssumption DEF ArtifactAssumption
<1>2. (Len(p) \div LeafSize) * LeafSize <= Len(p)
  BY <1>1
<1>3. (Len(p) \div LeafSize) * LeafSize \in Nat
  BY <1>1
<1> HIDE DEF Right
<1>4. \A i \in 1 .. (Len(p) \div LeafSize) * LeafSize : i \in 1 .. Len(p)
  BY <1>1, <1>2, <1>3
<1> QED BY <1>4 DEF LeavesMatch, Right

LEMMA WriteInsideKeepsLength ==
    ASSUME NEW p \in Seq(Cell), NEW at \in Nat, NEW c \in Cell,
           Len(p) = Size, at < Size
    PROVE  Len(WriteAt(p, at, c)) = Size
<1> DEFINE f == [i \in 1 .. Size |->
                    IF i = at + 1 THEN c ELSE IF i <= Len(p) THEN p[i] ELSE Hole]
<1>1. WriteAt(p, at, c) = f
  BY DEF WriteAt
<1>2. DOMAIN f = 1 .. Size
  OBVIOUS
<1>3. f \in Seq(Cell)
  BY <1>1, WriteAtType, ArtifactConstants
<1> HIDE DEF f
<1>4. Len(f) \in Nat /\ DOMAIN f = 1 .. Len(f)
  BY <1>3, LenProperties
<1>5. Len(f) = Size
  BY <1>2, <1>4, ArtifactConstants
<1> QED BY <1>1, <1>5

LEMMA StepHonest ==
    ASSUME TypeInv, SoundInv, HonestInv, Step, world.known, world.corrupt = {}
    PROVE  /\ quarantine' = {}
           /\ pc' # "poisoned"
           /\ Right(part') \/ Len(part') = Size
           /\ pc' = "segment" => Len(part') = Size
           /\ pc' \in {"open", "stream"} => Right(fed')
<1> DEFINE Goal == /\ quarantine' = {}
                   /\ pc' # "poisoned"
                   /\ Right(part') \/ Len(part') = Size
                   /\ pc' = "segment" => Len(part') = Size
                   /\ pc' \in {"open", "stream"} => Right(fed')
<1> SUFFICES Goal
  OBVIOUS
<1>0. /\ quarantine = {} /\ pc # "poisoned"
      /\ Right(part) \/ Len(part) = Size
      /\ pc = "segment" => Len(part) = Size
      /\ pc \in {"open", "stream"} => Right(fed)
      /\ part \in Seq(Cell) /\ fed \in Seq(Cell) /\ run \in RunType
  BY DEF HonestInv, TypeInv, TypeOK
<1>e. Right(<<>>)
  BY EmptyIsRight
<1>c. ASSUME NEW p, NEW s, FinishCancelled(p, s), Right(p) \/ Len(p) = Size PROVE Goal
  BY <1>0, <1>e, <1>c DEF FinishCancelled, Return, health
<1>f. ASSUME NEW p, NEW s, Failover(p, s), UNCHANGED <<durable, health>> PROVE Goal
  BY <1>0, <1>f DEF Failover, durable, health
<1>a. ASSUME NEW r, AttemptFailed(r), UNCHANGED <<durable, health>> PROVE Goal
  <2>1. CASE Failover(part, run.source)
    BY <1>a, <1>f, <2>1
  <2>2. CASE pc' = "attempt"
    BY <1>0, <1>a, <2>2 DEF durable, health
  <2> QED BY <1>a, <2>1, <2>2 DEF AttemptFailed
<1>1. CASE LeaveDiscovery
  BY <1>0, <1>1 DEF LeaveDiscovery, Return, durable, health
<1>2. CASE NoEligibleSource
  BY <1>0, <1>2 DEF NoEligibleSource, Return, durable, health
<1>3. CASE Plan
  BY <1>0, <1>e, <1>3 DEF Plan, health
<1>4. CASE SourcesExhausted
  BY <1>0, <1>4 DEF SourcesExhausted, Return, durable, health
<1>5. CASE LoopCancelled
  BY <1>0, <1>c, <1>5 DEF LoopCancelled
<1>6. CASE SkipBanned
  BY <1>0, <1>6 DEF SkipBanned, durable, health
<1>7. CASE TrySource
  <2> DEFINE s == Head(run.todo)
  <2>1. Right(Inherited(s)) \/ Len(Inherited(s)) = Size
    BY <1>0, <1>e DEF Inherited
  <2>2. quarantine' = quarantine
    BY <1>7 DEF TrySource, health
  <2>3. CASE part' = Inherited(s) /\ pc' \in {"next", "attempt"}
    BY <1>0, <2>1, <2>2, <2>3
  <2>4. CASE part' = [i \in 1 .. Size |-> Hole] /\ pc' = "segment"
    <3>1. part' \in [1 .. Size -> Cell] /\ Size \in Nat
      BY <2>4, ArtifactConstants DEF Hole, Cell
    <3>2. Len(part') = Size
      BY <3>1
    <3> QED BY <1>0, <2>2, <2>4, <3>2
  <2>5. \/ part' = Inherited(s) /\ pc' \in {"next", "attempt"}
        \/ part' = [i \in 1 .. Size |-> Hole] /\ pc' = "segment"
    BY <1>7 DEF TrySource, Failover
  <2> QED BY <2>3, <2>4, <2>5
<1>8. ASSUME NEW k \in Segments, SegmentChunk(k) PROVE Goal
  <2>1. PICK c \in Sent(run.source, run.next[k]) : part' = WriteAt(part, run.next[k], c)
    BY <1>8 DEF SegmentChunk
  <2>2. run.next[k] \in 0 .. Size - 1
    <3>1. SegmentEnd(k) \in Int /\ SegmentEnd(k) <= Size
      BY <1>8, SegmentBounds, ArtifactConstants DEF SegmentChunk, TypeInv, Trying
    <3>2. run.next[k] \in 0 .. Size /\ run.next[k] < SegmentEnd(k)
      BY <1>0, <1>8 DEF SegmentChunk, Unfinished, RunType
    <3> QED BY <3>1, <3>2, ArtifactConstants
  <2>3. c \in Cell
    BY <2>2, SentType
  <2>4. Len(part') = Size
    BY <1>0, <1>8, <2>1, <2>2, <2>3, WriteInsideKeepsLength, ArtifactConstants DEF SegmentChunk
  <2> QED BY <1>0, <1>8, <2>4 DEF SegmentChunk, health
<1>9. CASE SegmentFails
  BY <1>0, <1>e, <1>9 DEF SegmentFails, health
<1>10. CASE SegmentCancelled
  BY <1>c, <1>e, <1>10 DEF SegmentCancelled
<1>11. CASE SegmentsJoined
  BY <1>0, <1>11 DEF SegmentsJoined, durable, health
<1>12. CASE VerifySegmented
  <2>1. CASE FinishCancelled(part, rowSource)
    BY <1>0, <1>c, <2>1
  <2>2. CASE /\ pc' \in {"commit", "attempt"} /\ quarantine' = quarantine
             /\ part' = part \/ part' = <<>>
    BY <1>0, <1>e, <2>2
  <2> QED BY <1>12, <2>1, <2>2 DEF VerifySegmented, durable, health
<1>13. CASE PrepareResume
  <2>1. CASE FinishCancelled(part, rowSource)
    BY <1>0, <1>c, <2>1
  <2>2. CASE /\ part' = Resumable /\ fed' = Resumable /\ pc' = "open"
             /\ quarantine' = quarantine
    <3>1. Right(Resumable)
      <4>1. Len(part) < Size => Right(part)
        BY <1>0, LenProperties, ArtifactConstants
      <4> QED BY <1>e, <4>1 DEF Resumable
    <3> QED BY <1>0, <2>2, <3>1
  <2> QED BY <1>13, <2>1, <2>2 DEF PrepareResume, health
<1>14. CASE Open
  BY <1>0, <1>e, <1>14 DEF Open, health
<1>15. CASE OpenCancelled
  BY <1>0, <1>c, <1>15 DEF OpenCancelled
<1>16. CASE OpenFails
  BY <1>a, <1>16 DEF OpenFails
<1>17. CASE Receive
  <2>0. /\ pc = "stream" /\ part = fed /\ run.pos = Len(fed) /\ run.pos \in 0 .. Size - 1
        /\ Right(fed)
    BY <1>0, <1>17, ArtifactConstants DEF Receive, RunType, SoundInv, FileIsFed
  <2>1. Sent(run.source, run.pos) = {run.pos + 1}
    BY DEF Sent
  <2>2. Len(fed) + 1 \in Cell
    BY <2>0, ArtifactConstants DEF Cell
  <2>3. Right(Append(fed, Len(fed) + 1))
    BY <1>0, <2>0, <2>2, AppendIsRight
  <2>4. LeavesMatch(Append(fed, Len(fed) + 1))
    <3>1. Append(fed, Len(fed) + 1) \in Seq(Cell)
      BY <1>0, <2>2, AppendProperties
    <3> QED BY <2>3, <3>1, RightLeavesMatch
  <2>5. /\ fed' = Append(fed, Len(fed) + 1) /\ part' = WriteAt(part, Len(fed), Len(fed) + 1)
        /\ UNCHANGED <<health, pc>>
    BY <1>17, <2>0, <2>1, <2>4 DEF Receive
  <2>6. part' = fed'
    BY <1>0, <2>0, <2>2, <2>5, WriteAtEnd
  <2> QED BY <1>0, <2>0, <2>3, <2>5, <2>6 DEF health
<1>18. CASE TooManyBytes
  BY <1>18 DEF TooManyBytes
<1>19. CASE StreamCancelled
  BY <1>0, <1>c, <1>19 DEF StreamCancelled
<1>20. CASE StreamError
  BY <1>a, <1>20 DEF StreamError
<1>21. CASE StreamEnds
  <2>1. CASE AttemptFailed(TRUE) /\ UNCHANGED <<durable, health>>
    BY <1>a, <2>1
  <2>2. CASE pc' = "commit" /\ UNCHANGED <<durable, health>>
    BY <1>0, <2>2 DEF durable, health
  <2>3. CASE run.pos = Size /\ ~Matches(fed)
    <3>1. Len(fed) = Size /\ Right(fed)
      BY <1>0, <1>21, <2>3 DEF StreamEnds, SoundInv, FileIsFed
    <3>2. fed = Content
      BY <1>0, <3>1, RightIsContent
    <3> QED BY <2>3, <3>2 DEF Matches
  <2> QED BY <1>21, <2>1, <2>2, <2>3 DEF StreamEnds
<1>22. CASE Quarantine
  BY <1>0, <1>22 DEF Quarantine
<1>23. CASE Commit
  BY <1>0, <1>e, <1>23 DEF Commit, health
<1>24. CASE Finalize
  BY <1>0, <1>24 DEF Finalize, Return
<1> HIDE DEF Goal
<1> QED BY <1>1, <1>2, <1>3, <1>4, <1>5, <1>6, <1>7, <1>8, <1>9, <1>10, <1>11, <1>12,
           <1>13, <1>14, <1>15, <1>16, <1>17, <1>18, <1>19, <1>20, <1>21, <1>22,
           <1>23, <1>24, Zenon DEF Step

LEMMA HonestInductive == TypeInv /\ SoundInv /\ HonestInv /\ [Next]_vars => HonestInv'
<1> SUFFICES ASSUME TypeInv, SoundInv, HonestInv, [Next]_vars PROVE HonestInv'
  OBVIOUS
<1>1. CASE CacheHit
  BY <1>1 DEF HonestInv, CacheHit, health, local
<1>2. CASE Start
  BY <1>2 DEF HonestInv, Start, durable, health
<1>3. CASE Step
  <2>1. world' = world
    BY <1>3 DEF Step
  <2> QED BY <1>3, <2>1, StepHonest DEF HonestInv
<1>4. CASE Crash
  BY <1>4 DEF HonestInv, Crash, Return, durable, health
<1>5. CASE RequestPause
  BY <1>5 DEF HonestInv, RequestPause, durable, health, local
<1>6. CASE RequestStop
  BY <1>6 DEF HonestInv, RequestStop, durable, health, local
<1>7. ASSUME NEW s \in Source, BannedElsewhere(s) PROVE HonestInv'
  BY <1>7 DEF HonestInv, BannedElsewhere, durable, local
<1>8. ASSUME NEW s \in Source, CooldownEnds(s) PROVE HonestInv'
  BY <1>8 DEF HonestInv, CooldownEnds, durable, local
<1>9. CASE UNCHANGED vars
  BY <1>9 DEF HonestInv, vars, durable, health, local
<1> QED BY <1>1, <1>2, <1>3, <1>4, <1>5, <1>6, <1>7, <1>8, <1>9 DEF Next

(* When every source is honest, no pause, stop, crash, broken connection, ignored
   range or leftover of a segmented download ever puts a source into the
   quarantine table, for any artifact of known size whose sources stream into
   the engine's own .part.  The scratch file of a striped Iroh fetch is not
   part of it: what it delivers after a crash may be wrong, whoever sent it. *)
THEOREM ArtifactHonestNeverBlamed == Spec => []HonestNeverBlamed
<1>1. Init => HonestInv
  <2> SUFFICES ASSUME Init PROVE HonestInv
    OBVIOUS
  <2>1. quarantine = {} /\ pc = "idle" /\ Right(part)
    BY EmptyIsRight DEF Init
  <2> QED BY <2>1 DEF HonestInv
<1>2. HonestInv => HonestNeverBlamed
  BY DEF HonestInv, HonestNeverBlamed
<1> QED BY <1>1, <1>2, TypeAlways, SoundAlways, HonestInductive, PTL DEF Spec

----------------------------------------------------------------------------
(* One good source is enough *)

(* The source s is still in the plan. *)
InTodo(s) == \E i \in 1 .. Len(run.todo) : run.todo[i] = s

(* No reliable source falls out of the plan of a run before it is banned: the
   source being tried is the head of the plan until the failover drops it, and
   one found poisoned is banned by then.  A run that goes on has no outcome. *)
PlanInv ==
    /\ pc \notin {"idle", "discover"} =>
          \A s \in world.reliable : s \in banned \/ InTodo(s)
    /\ pc \in AtSource => run.source = Head(run.todo)
    /\ pc = "poisoned" => run.source \in banned
    /\ pc # "idle" => outcome = "none"

(* A plan names every source that is not banned. *)
LEMMA PlanIsComplete ==
    ASSUME NEW plan \in Plans, NEW s \in Source \ banned
    PROVE  plan \in Seq(Source) /\ \E i \in 1 .. Len(plan) : plan[i] = s
<1> DEFINE T == Source \ banned
           n == Cardinality(T)
<1>1. IsFiniteSet(T) /\ n \in Nat
  BY ArtifactConstants, FS_Subset, FS_CardinalityType
<1>2. plan \in [1 .. n -> T] /\ \A i, j \in 1 .. n : plan[i] = plan[j] => i = j
  BY DEF Plans
<1>3. IsFiniteSet(1 .. n) /\ Cardinality(1 .. n) = n
  BY <1>1, FS_Interval
<1> HIDE DEF n
<1>4. plan \in Seq(Source) /\ Len(plan) = n
  <2>1. plan \in [1 .. n -> Source]
    BY <1>2
  <2> QED BY <1>1, <2>1
<1>5. plan \in Injection(1 .. n, T)
  BY <1>2 DEF Injection, IsInjective
<1>6. Cardinality(1 .. n) = Cardinality(T)
  BY <1>3 DEF n
<1>7. plan \in Surjection(1 .. n, T)
  BY <1>1, <1>3, <1>5, <1>6, FS_Injection
<1> QED BY <1>4, <1>7 DEF Surjection

(* Dropping the head of the plan keeps the others in it. *)
LEMMA TailKeeps ==
    ASSUME NEW q \in Seq(Source), q # <<>>, NEW i \in 1 .. Len(q), q[i] # Head(q)
    PROVE  \E j \in 1 .. Len(Tail(q)) : Tail(q)[j] = q[i]
<1>1. Head(q) = q[1] /\ Len(q) \in Nat /\ Len(Tail(q)) = Len(q) - 1
  BY HeadTailProperties, LenProperties
<1>2. \A j \in 1 .. Len(Tail(q)) : Tail(q)[j] = q[j + 1]
  BY HeadTailProperties
<1>3. i # 1
  BY <1>1
<1>4. i - 1 \in 1 .. Len(Tail(q)) /\ (i - 1) + 1 = i
  BY <1>1, <1>3
<1> QED BY <1>2, <1>4

(* A failover from a source that is banned or not reliable loses none. *)
LEMMA FailoverKeepsPlan ==
    ASSUME TypeInv, PlanInv, pc \notin {"idle", "discover"}, run.todo # <<>>,
           NEW p, NEW s, s = Head(run.todo), s \in banned \/ s \notin world.reliable,
           Failover(p, s), world' = world, banned \subseteq banned'
    PROVE  PlanInv'
<1>1. run \in RunType /\ run.todo \in Seq(Source)
  BY DEF TypeInv, TypeOK, RunType
<1>2. /\ pc' = "next" /\ outcome' = outcome
      /\ run' = [NoRun EXCEPT !.todo = Tail(run.todo),
                              !.owner = IF p = <<>> THEN Nobody ELSE s]
  BY DEF Failover
<1>3. run'.todo = Tail(run.todo)
  BY <1>2 DEF NoRun
<1>4. ASSUME NEW t \in world'.reliable PROVE t \in banned' \/ InTodo(t)'
  <2>1. t \in banned \/ InTodo(t)
    BY <1>4 DEF PlanInv
  <2>2. CASE t \in banned
    BY <2>2
  <2>3. CASE t \notin banned
    <3>1. t # Head(run.todo)
      BY <1>4, <2>3
    <3>2. PICK i \in 1 .. Len(run.todo) : run.todo[i] = t
      BY <2>1, <2>3 DEF InTodo
    <3>3. \E j \in 1 .. Len(Tail(run.todo)) : Tail(run.todo)[j] = t
      BY <1>1, <3>1, <3>2, TailKeeps
    <3> QED BY <1>3, <3>3 DEF InTodo
  <2> QED BY <2>2, <2>3
<1> QED BY <1>2, <1>4 DEF PlanInv, AtSource

LEMMA AttemptFailedKeepsPlan ==
    ASSUME TypeInv, PlanInv, pc \in AtSource, run.source \notin world.reliable,
           NEW r \in BOOLEAN, AttemptFailed(r), world' = world, banned' = banned
    PROVE  PlanInv'
<1>0. run \in RunType /\ run.source \in Source /\ run.todo # <<>> /\ run.source = Head(run.todo)
  BY DEF TypeInv, TypeOK, Trying, PlanInv
<1>1. CASE r /\ run.attempts < MaxAttempts
  <2>1. /\ pc' = "attempt" /\ run' = [run EXCEPT !.pos = 0, !.emitted = 0]
        /\ outcome' = outcome
    BY <1>1 DEF AttemptFailed
  <2>2. run'.todo = run.todo /\ run'.source = run.source
    BY <1>0, <2>1 DEF RunType
  <2> QED BY <1>0, <2>1, <2>2 DEF PlanInv, AtSource, InTodo
<1>2. CASE ~(r /\ run.attempts < MaxAttempts)
  <2>1. Failover(part, run.source)
    BY <1>2 DEF AttemptFailed
  <2> QED BY <1>0, <2>1, FailoverKeepsPlan DEF AtSource
<1> QED BY <1>1, <1>2

(* A step that keeps the plan, the source and the bans and goes on. *)
LEMMA GoesOnKeepsPlan ==
    ASSUME TypeInv, PlanInv, pc \in AtSource, pc' \in AtSource \ {"poisoned"},
           run'.todo = run.todo, run'.source = run.source,
           world' = world, banned' = banned, outcome' = outcome
    PROVE  PlanInv'
BY DEF PlanInv, AtSource, InTodo

LEMMA PoisonedKeepsPlan ==
    ASSUME TypeInv, PlanInv, pc \in AtSource, Poisoned, world' = world
    PROVE  PlanInv'
BY DEF Poisoned, PlanInv, AtSource, InTodo

LEMMA FinishKeepsPlan ==
    ASSUME NEW p, NEW s, FinishCancelled(p, s)
    PROVE  PlanInv' /\ pc' = "idle" /\ outcome' \in {"Stopped", "Cancelled"}
BY DEF FinishCancelled, Return, PlanInv, AtSource

(* A run that gives up leaves no reliable source without a ban. *)
GivesUpRightly ==
    pc # "idle" /\ outcome' \in {"failed", "NoEligibleSource"} => world.reliable \subseteq banned

LEMMA StepPlan ==
    ASSUME TypeInv, PlanInv, Step
    PROVE  PlanInv' /\ GivesUpRightly
<1> DEFINE Goal == PlanInv' /\ GivesUpRightly
<1> SUFFICES Goal
  OBVIOUS
<1>0. /\ world' = world
      /\ run \in RunType /\ run.todo \in Seq(Source)
      /\ world.reliable \subseteq Source
      /\ pc \in AtSource => run.source \in Source /\ run.todo # <<>> /\ run.source = Head(run.todo)
  BY DEF Step, TypeInv, TypeOK, Trying, RunType, Worlds, PlanInv
<1>n. pc # "idle" => outcome = "none"
  BY DEF PlanInv
<1>s. ASSUME outcome' = outcome PROVE GivesUpRightly
  BY <1>n, <1>s DEF GivesUpRightly
<1>c. ASSUME NEW p, NEW s, FinishCancelled(p, s) PROVE Goal
  BY <1>c, FinishKeepsPlan DEF GivesUpRightly
<1>r. ASSUME NEW o, Return(o), o \in {"failed", "NoEligibleSource"} => world.reliable \subseteq banned
      PROVE Goal
  BY <1>r DEF Return, PlanInv, AtSource, GivesUpRightly
<1>a. ASSUME NEW r \in BOOLEAN, AttemptFailed(r), UNCHANGED <<durable, health>>,
             pc \in AtSource, run.source \notin world.reliable
      PROVE Goal
  <2>1. outcome' = outcome
    BY <1>a DEF AttemptFailed, Failover
  <2> QED BY <1>0, <1>a, <1>s, <2>1, AttemptFailedKeepsPlan DEF health
<1>g. ASSUME pc \in AtSource, pc' \in AtSource \ {"poisoned"},
             run'.todo = run.todo, run'.source = run.source,
             UNCHANGED <<health, outcome>>
      PROVE Goal
  BY <1>0, <1>g, <1>s, GoesOnKeepsPlan DEF health
<1>p. ASSUME pc \in AtSource, Poisoned PROVE Goal
  <2>1. outcome' = outcome
    BY <1>p DEF Poisoned
  <2> QED BY <1>0, <1>p, <1>s, <2>1, PoisonedKeepsPlan
<1>1. CASE LeaveDiscovery
  BY <1>r, <1>1 DEF LeaveDiscovery
<1>2. CASE NoEligibleSource
  BY <1>0, <1>r, <1>2 DEF NoEligibleSource
<1>3. CASE Plan
  <2>1. PICK plan \in Plans :
            run' = [NoRun EXCEPT !.todo = plan,
                                 !.owner = IF world.tree \/ part = <<>>
                                             THEN Nobody ELSE rowSource]
    BY <1>3 DEF Plan
  <2>2. run'.todo = plan
    BY <2>1 DEF NoRun
  <2>3. pc' = "next" /\ pc = "discover" /\ outcome' = outcome /\ banned' = banned
    BY <1>3 DEF Plan, health
  <2>4. ASSUME NEW s \in world'.reliable PROVE s \in banned' \/ InTodo(s)'
    <3>1. CASE s \in banned
      BY <2>3, <3>1
    <3>2. CASE s \notin banned
      <4>1. \E i \in 1 .. Len(plan) : plan[i] = s
        BY <1>0, <2>4, <3>2, PlanIsComplete
      <4> QED BY <2>2, <4>1 DEF InTodo
    <3> QED BY <3>1, <3>2
  <2> QED BY <1>n, <1>s, <2>3, <2>4 DEF PlanInv, AtSource
<1>4. CASE SourcesExhausted
  <2>1. pc = "next" /\ Len(run.todo) = 0
    BY <1>4 DEF SourcesExhausted
  <2>2. \A s \in world.reliable : s \in banned
    BY <2>1 DEF PlanInv, InTodo
  <2> QED BY <1>r, <1>4, <2>2 DEF SourcesExhausted
<1>5. CASE LoopCancelled
  BY <1>c, <1>5 DEF LoopCancelled
<1>6. CASE SkipBanned
  <2>1. /\ pc = "next" /\ run.todo # <<>> /\ Head(run.todo) \in banned
        /\ run' = [run EXCEPT !.todo = Tail(run.todo)]
        /\ UNCHANGED <<health, pc, outcome>>
    BY <1>6 DEF SkipBanned
  <2>2. run'.todo = Tail(run.todo)
    BY <1>0, <2>1 DEF RunType
  <2>3. ASSUME NEW s \in world'.reliable PROVE s \in banned' \/ InTodo(s)'
    <3>1. CASE s \in banned
      BY <2>1, <3>1 DEF health
    <3>2. CASE s \notin banned
      <4>1. PICK i \in 1 .. Len(run.todo) : run.todo[i] = s
        BY <1>0, <2>1, <2>3, <3>2 DEF PlanInv, InTodo
      <4>2. \E j \in 1 .. Len(Tail(run.todo)) : Tail(run.todo)[j] = s
        BY <1>0, <2>1, <3>2, <4>1, TailKeeps
      <4> QED BY <2>2, <4>2 DEF InTodo
    <3> QED BY <3>1, <3>2
  <2> QED BY <1>n, <1>s, <2>1, <2>3 DEF PlanInv, AtSource
<1>7. CASE TrySource
  <2> DEFINE s == Head(run.todo)
  <2>1. pc = "next" /\ run.todo # <<>> /\ UNCHANGED health
    BY <1>7 DEF TrySource
  <2>2. CASE s \notin world.reliable /\ Failover(Inherited(s), s)
    <3>1. outcome' = outcome
      BY <2>2 DEF Failover
    <3>2. PlanInv'
      BY <1>0, <2>1, <2>2, FailoverKeepsPlan DEF health
    <3> QED BY <1>s, <3>1, <3>2
  <2>3. CASE /\ pc' \in {"attempt", "segment"} /\ outcome' = outcome
             /\ run'.todo = run.todo /\ run'.source = s
    BY <1>0, <1>n, <1>s, <2>1, <2>3 DEF PlanInv, AtSource, InTodo, health
  <2>4. \/ s \notin world.reliable /\ Failover(Inherited(s), s)
        \/ pc' = "attempt" /\ run' = [run EXCEPT !.source = s] /\ outcome' = outcome
        \/ /\ pc' = "segment" /\ outcome' = outcome
           /\ run' = [run EXCEPT !.source = s, !.next = [k \in Segments |-> SegmentStart(k)]]
    BY <1>7 DEF TrySource
  <2> HIDE DEF s
  <2>5. \/ s \notin world.reliable /\ Failover(Inherited(s), s)
        \/ /\ pc' \in {"attempt", "segment"} /\ outcome' = outcome
           /\ run'.todo = run.todo /\ run'.source = s
    BY <1>0, <2>4 DEF RunType
  <2> QED BY <2>2, <2>3, <2>5
<1>8. ASSUME NEW k \in Segments, SegmentChunk(k) PROVE Goal
  <2>1. run'.todo = run.todo /\ run'.source = run.source
    BY <1>0, <1>8 DEF SegmentChunk, RunType
  <2> QED BY <1>g, <1>8, <2>1 DEF SegmentChunk, AtSource
<1>9. CASE SegmentFails
  <2>1. run'.todo = run.todo /\ run'.source = run.source
    BY <1>0, <1>9 DEF SegmentFails, RunType
  <2> QED BY <1>g, <1>9, <2>1 DEF SegmentFails, AtSource
<1>10. CASE SegmentCancelled
  BY <1>c, <1>10 DEF SegmentCancelled
<1>11. CASE SegmentsJoined
  <2>1. run'.todo = run.todo /\ run'.source = run.source
    BY <1>0, <1>11 DEF SegmentsJoined, RunType
  <2> QED BY <1>g, <1>11, <2>1 DEF SegmentsJoined, AtSource
<1>12. CASE VerifySegmented
  <2>1. CASE FinishCancelled(part, rowSource)
    BY <1>c, <2>1
  <2>2. CASE pc' \in {"commit", "attempt"} /\ UNCHANGED <<health, run, outcome>>
    BY <1>g, <1>12, <2>2 DEF VerifySegmented, AtSource
  <2> QED BY <1>12, <2>1, <2>2 DEF VerifySegmented
<1>13. CASE PrepareResume
  <2>1. CASE FinishCancelled(part, rowSource)
    BY <1>c, <2>1
  <2>2. CASE /\ pc' = "open" /\ run' = [run EXCEPT !.attempts = run.attempts + 1]
             /\ UNCHANGED <<health, outcome>>
    <3>1. run'.todo = run.todo /\ run'.source = run.source
      BY <1>0, <2>2 DEF RunType
    <3> QED BY <1>g, <1>13, <2>2, <3>1 DEF PrepareResume, AtSource
  <2> QED BY <1>13, <2>1, <2>2 DEF PrepareResume
<1>14. CASE Open
  <2>1. run'.todo = run.todo /\ run'.source = run.source
    BY <1>0, <1>14 DEF Open, RunType
  <2> QED BY <1>g, <1>14, <2>1 DEF Open, AtSource
<1>15. CASE OpenCancelled
  BY <1>c, <1>15 DEF OpenCancelled
<1>16. CASE OpenFails
  BY <1>a, <1>16 DEF OpenFails, AtSource
<1>17. CASE Receive
  <2>1. CASE Poisoned
    BY <1>p, <1>17, <2>1 DEF Receive, AtSource
  <2>2. CASE /\ UNCHANGED <<health, pc, outcome>>
             /\ run'.todo = run.todo /\ run'.source = run.source
    BY <1>g, <1>17, <2>2 DEF Receive, AtSource
  <2>3. \/ Poisoned
        \/ /\ UNCHANGED <<health, pc, outcome>>
           /\ \E e : run' = [run EXCEPT !.pos = run.pos + 1, !.emitted = e]
    BY <1>17 DEF Receive
  <2>4. \/ Poisoned
        \/ /\ UNCHANGED <<health, pc, outcome>>
           /\ run'.todo = run.todo /\ run'.source = run.source
    BY <1>0, <2>3 DEF RunType
  <2> QED BY <2>1, <2>2, <2>4
<1>18. CASE TooManyBytes
  BY <1>p, <1>18 DEF TooManyBytes, AtSource
<1>19. CASE StreamCancelled
  BY <1>c, <1>19 DEF StreamCancelled
<1>20. CASE StreamError
  BY <1>a, <1>20 DEF StreamError, AtSource
<1>21. CASE StreamEnds
  <2>1. CASE run.pos < Size /\ AttemptFailed(TRUE) /\ UNCHANGED <<durable, health>>
    <3>1. run.source \notin world.reliable
      BY <1>0, <1>21, <2>1, ArtifactConstants DEF StreamEnds, RunType
    <3> QED BY <1>a, <1>21, <2>1, <3>1 DEF StreamEnds, AtSource
  <2>2. CASE pc' = "commit" /\ UNCHANGED <<health, run, outcome>>
    BY <1>g, <1>21, <2>2 DEF StreamEnds, AtSource
  <2>3. CASE Poisoned
    BY <1>p, <1>21, <2>3 DEF StreamEnds, AtSource
  <2> QED BY <1>21, <2>1, <2>2, <2>3 DEF StreamEnds
<1>22. CASE Quarantine
  <2>1. outcome' = outcome
    BY <1>22 DEF Quarantine, Failover
  <2>2. PlanInv'
    BY <1>0, <1>22, FailoverKeepsPlan DEF Quarantine, AtSource, PlanInv
  <2> QED BY <1>s, <2>1, <2>2
<1>23. CASE Commit
  BY <1>g, <1>23 DEF Commit, AtSource
<1>24. CASE Finalize
  BY <1>r, <1>24 DEF Finalize
<1> HIDE DEF Goal
<1> QED
  BY <1>1, <1>2, <1>3, <1>4, <1>5, <1>6, <1>7, <1>8, <1>9, <1>10, <1>11, <1>12,
     <1>13, <1>14, <1>15, <1>16, <1>17, <1>18, <1>19, <1>20, <1>21, <1>22,
     <1>23, <1>24, Zenon DEF Step

LEMMA PlanInductive == TypeInv /\ PlanInv /\ [Next]_vars => PlanInv' /\ GivesUpRightly
<1> SUFFICES ASSUME TypeInv, PlanInv, [Next]_vars PROVE PlanInv' /\ GivesUpRightly
  OBVIOUS
<1> USE DEF PlanInv, GivesUpRightly, InTodo
<1>1. CASE CacheHit
  BY <1>1 DEF CacheHit, health, local, AtSource
<1>2. CASE Start
  BY <1>2 DEF Start, health, AtSource
<1>3. CASE Step
  BY <1>3, StepPlan
<1>4. CASE Crash
  BY <1>4 DEF Crash, Return, AtSource
<1>5. CASE RequestPause
  BY <1>5 DEF RequestPause, health, local
<1>6. CASE RequestStop
  BY <1>6 DEF RequestStop, health, local
<1>7. ASSUME NEW s \in Source, BannedElsewhere(s) PROVE PlanInv' /\ GivesUpRightly
  BY <1>7 DEF BannedElsewhere, local
<1>8. ASSUME NEW s \in Source, CooldownEnds(s) PROVE PlanInv' /\ GivesUpRightly
  BY <1>8 DEF CooldownEnds, local, AtSource
<1>9. CASE UNCHANGED vars
  BY <1>9 DEF vars, health, local
<1> QED BY <1>1, <1>2, <1>3, <1>4, <1>5, <1>6, <1>7, <1>8, <1>9 DEF Next

(* A run of download_artifact fails for want of sources only when every source
   that answers and tells the truth is under a ban, recorded by this run or by
   another transfer: no poisoner, broken source, unusable partial or order of the
   plan costs the download. *)
THEOREM ArtifactGoodSourceSuffices == Spec => GoodSourceSuffices
<1>1. Init => PlanInv
  BY DEF Init, PlanInv, AtSource
<1>2. GivesUpRightly =>
        [pc # "idle" /\ outcome' \in {"failed", "NoEligibleSource"}
            => world.reliable \subseteq banned]_vars
  BY DEF GivesUpRightly
<1> QED BY <1>1, <1>2, TypeAlways, PlanInductive, PTL DEF Spec, GoodSourceSuffices

=============================================================================

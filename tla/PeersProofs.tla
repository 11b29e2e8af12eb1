---------------------------- MODULE PeersProofs -----------------------------
(***************************************************************************)
(* Machine-checked proofs about the BitTorrent adapter: its seeds          *)
(* (BtSeeds), its fetches (BtFetch) and its stop-at-ratio watcher          *)
(* (RatioWatch), for any promotions, file names, fetches, caps, uploads,   *)
(* switches and restarts.                                                  *)
(***************************************************************************)
EXTENDS MCPeers, TLAPS

-----------------------------------------------------------------------------
(* The seeds *)

TaskRec == [pc : Seeds!States, name : Names, wanted : BOOLEAN, aborted : BOOLEAN]

LEMMA NoTaskIsTask == Seeds!NoTask \in TaskRec /\ Seeds!NoTask.pc = "idle"
  <1>1. PICK n \in Names : n = CHOOSE m \in Names : TRUE
    BY PeersAssumed DEF Seeds!SeedsAssumption
  <1>2. Seeds!NoTask = [pc |-> "idle", name |-> n, wanted |-> FALSE, aborted |-> FALSE]
    BY <1>1 DEF Seeds!NoTask
  <1> QED
    BY <1>2 DEF TaskRec, Seeds!States

(* A promotion goes on to its next await, or ends. *)
LEMMA GotoFacts ==
    ASSUME task \in [Proms -> TaskRec], NEW p \in Proms, NEW pc \in Seeds!States, Seeds!Goto(p, pc)
    PROVE  /\ task' \in [Proms -> TaskRec] /\ task'[p].pc = pc /\ task'[p].name = task[p].name
           /\ \A o \in Proms : o # p => task'[o] = task[o]
  <1> DEFINE t == [task[p] EXCEPT !.pc = pc]
  <1>1. task[p] \in TaskRec
    OBVIOUS
  <1>2. t \in TaskRec /\ t.pc = pc /\ t.name = task[p].name
    BY <1>1 DEF TaskRec
  <1>3. task' = [task EXCEPT ![p] = t]
    BY DEF Seeds!Goto
  <1> HIDE DEF t
  <1> QED
    BY <1>2, <1>3

LEMMA EndFacts ==
    ASSUME task \in [Proms -> TaskRec], NEW p \in Proms, task' = [task EXCEPT ![p] = Seeds!NoTask]
    PROVE  /\ task' \in [Proms -> TaskRec] /\ task'[p].pc = "idle"
           /\ \A o \in Proms : o # p => task'[o] = task[o]
  BY NoTaskIsTask

Entry == managed <=> promotions # {} \/ ids # {}

Shapes ==
    /\ shareable \in BOOLEAN /\ magnet \in BOOLEAN /\ managed \in BOOLEAN /\ sessionUp \in BOOLEAN
    /\ promotions \subseteq Proms /\ ids \subseteq Names /\ pushing \subseteq Proms
    /\ session \subseteq Names /\ stored \subseteq Names
    /\ deleting \subseteq Names /\ unowned \subseteq Names
    /\ task \in [Proms -> TaskRec]

LEMMA SeedsParts == Seeds!SeedsTypeOK <=> Shapes /\ Entry
  BY DEF Seeds!SeedsTypeOK, Shapes, Entry, TaskRec

LEMMA SeedsPartsNext == ASSUME Shapes', Entry' PROVE Seeds!SeedsTypeOK'
  BY DEF Seeds!SeedsTypeOK, Shapes, Entry, TaskRec

SeedsInv == Shapes /\ Entry /\ Seeds!NoLeakedSeed

Answering(p, n) == task[p].pc \in {"added", "rollback"} /\ task[p].name = n

(* A step of one promotion that leaves the session as it is: the promotion was
   answering for nothing, or the entry answers for its torrent now. *)
LEMMA OneTaskLeaks ==
    ASSUME Seeds!NoLeakedSeed, NEW p \in Proms,
           \A o \in Proms : o # p => task'[o] = task[o],
           session' \subseteq session, ids \subseteq ids',
           deleting' = deleting, unowned' = unowned,
           \A n \in session' : Answering(p, n) => Answering(p, n)' \/ n \in ids'
    PROVE  Seeds!NoLeakedSeed'
  <1> SUFFICES ASSUME NEW n \in session'
               PROVE  \/ n \in ids' \cup deleting' \cup unowned'
                      \/ \E o \in Proms : Answering(o, n)'
    BY DEF Seeds!NoLeakedSeed, Answering
  <1>1. n \in ids \cup deleting \cup unowned \/ \E o \in Proms : Answering(o, n)
    BY DEF Seeds!NoLeakedSeed, Answering
  <1>2. CASE n \in ids \cup deleting \cup unowned
    BY <1>2
  <1>3. ASSUME NEW o \in Proms, Answering(o, n)
        PROVE  n \in ids' \/ \E x \in Proms : Answering(x, n)'
    <2>1. CASE o = p
      BY <1>3, <2>1
    <2>2. CASE o # p
      BY <1>3, <2>2 DEF Answering
    <2> QED
      BY <2>1, <2>2
  <1> QED
    BY <1>1, <1>2, <1>3

LEMMA GuardFacts ==
    ASSUME Shapes, Entry, NEW p \in Proms, Seeds!DropGuard(p)
    PROVE  Entry' /\ promotions' \subseteq Proms /\ managed' \in BOOLEAN /\ ids' = ids
  BY DEF Shapes, Entry, Seeds!DropGuard

(* What ends a promotion before its add, or after its torrent is recorded. *)
LEMMA EndStep ==
    ASSUME SeedsInv, NEW p \in Proms, Seeds!End(p), task[p].pc \notin {"added", "rollback"},
           stored' \subseteq Names,
           UNCHANGED <<shareable, magnet, pushing, sessionUp, session, deleting, unowned>>
    PROVE  SeedsInv'
  <1>1. Shapes /\ Entry /\ Seeds!NoLeakedSeed
    BY DEF SeedsInv
  <1>2. Seeds!DropGuard(p) /\ task' = [task EXCEPT ![p] = Seeds!NoTask]
    BY DEF Seeds!End
  <1>3. Entry' /\ promotions' \subseteq Proms /\ managed' \in BOOLEAN /\ ids' = ids
    BY <1>1, <1>2, GuardFacts
  <1>4. /\ task' \in [Proms -> TaskRec] /\ task'[p].pc = "idle"
        /\ \A o \in Proms : o # p => task'[o] = task[o]
    BY <1>1, <1>2, EndFacts DEF Shapes
  <1>5. Shapes'
    BY <1>1, <1>3, <1>4 DEF Shapes
  <1>6. Seeds!NoLeakedSeed'
    BY <1>1, <1>3, <1>4, OneTaskLeaks DEF Answering
  <1> QED
    BY <1>3, <1>5, <1>6 DEF SeedsInv

(* What takes a promotion to its next await, with the entry as it was. *)
LEMMA OnStep ==
    ASSUME SeedsInv, NEW p \in Proms, NEW pc \in Seeds!States, Seeds!Goto(p, pc),
           task[p].pc = "added" => pc = "rollback", task[p].pc # "rollback",
           magnet' \in BOOLEAN, pushing' \subseteq Proms,
           UNCHANGED <<shareable, managed, promotions, ids, sessionUp, session, stored, deleting,
                       unowned>>
    PROVE  SeedsInv'
  <1>1. Shapes /\ Entry /\ Seeds!NoLeakedSeed
    BY DEF SeedsInv
  <1>2. /\ task' \in [Proms -> TaskRec] /\ task'[p].pc = pc /\ task'[p].name = task[p].name
        /\ \A o \in Proms : o # p => task'[o] = task[o]
    BY <1>1, GotoFacts DEF Shapes
  <1>3. Shapes'
    BY <1>1, <1>2 DEF Shapes
  <1>4. Entry'
    BY <1>1 DEF Entry
  <1>5. Seeds!NoLeakedSeed'
    BY <1>1, <1>2, OneTaskLeaks DEF Answering
  <1> QED
    BY <1>3, <1>4, <1>5 DEF SeedsInv

LEMMA SeedsStep == ASSUME SeedsInv, Seeds!Next PROVE SeedsInv'
  <1>1. Shapes /\ Entry /\ Seeds!NoLeakedSeed
    BY DEF SeedsInv
  <1> USE DEF Seeds!entry, Seeds!engine
  <1>2. ASSUME NEW p \in Proms, NEW n \in Names, Seeds!EnsureBtSeeded(p, n) PROVE SeedsInv'
    <2>1. PICK t : t = [pc |-> "looked", name |-> n, wanted |-> TRUE, aborted |-> FALSE]
      OBVIOUS
    <2>2. t \in TaskRec
      BY <2>1 DEF TaskRec, Seeds!States
    <2>3. task' = [task EXCEPT ![p] = t] /\ task[p].pc = "idle"
      BY <1>2, <2>1 DEF Seeds!EnsureBtSeeded
    <2>4. task' \in [Proms -> TaskRec] /\ \A o \in Proms : o # p => task'[o] = task[o]
      BY <1>1, <2>2, <2>3 DEF Shapes
    <2>5. UNCHANGED <<shareable, magnet, managed, promotions, ids, pushing, sessionUp, session,
                      stored, deleting, unowned>>
      BY <1>2 DEF Seeds!EnsureBtSeeded
    <2>6. Shapes' /\ Entry'
      BY <1>1, <2>4, <2>5 DEF Shapes, Entry
    <2>7. Seeds!NoLeakedSeed'
      BY <1>1, <2>3, <2>4, <2>5, OneTaskLeaks DEF Answering
    <2> QED
      BY <2>6, <2>7 DEF SeedsInv
  <1>3. ASSUME NEW p \in Proms, Seeds!SeedBlob(p) PROVE SeedsInv'
    <2>1. Seeds!Goto(p, "spawned") /\ task[p].pc = "looked" /\ pushing' = pushing \cup {p}
      BY <1>3 DEF Seeds!SeedBlob
    <2>2. pushing' \subseteq Proms /\ magnet' \in BOOLEAN
      BY <1>1, <1>3, <2>1 DEF Shapes, Seeds!SeedBlob
    <2> QED
      BY <1>3, <2>1, <2>2, OnStep DEF Seeds!SeedBlob, Seeds!States
  <1>4. ASSUME NEW p \in Proms, Seeds!PushPromotion(p) PROVE SeedsInv'
    <2>1. Shapes' /\ Entry'
      BY <1>1, <1>4 DEF Shapes, Entry, Seeds!PushPromotion
    <2>2. Seeds!NoLeakedSeed'
      BY <1>1, <1>4, OneTaskLeaks DEF Seeds!PushPromotion, Answering
    <2> QED
      BY <2>1, <2>2 DEF SeedsInv
  <1>5. ASSUME Seeds!BuildSession PROVE SeedsInv'
    <2>1. Shapes' /\ Entry'
      BY <1>1, <1>5 DEF Shapes, Entry, Seeds!BuildSession
    <2>2. Seeds!NoLeakedSeed'
      BY <1>5 DEF Seeds!BuildSession, Seeds!NoLeakedSeed
    <2> QED
      BY <2>1, <2>2 DEF SeedsInv
  <1>6. ASSUME NEW p \in Proms, Seeds!SessionUp(p) PROVE SeedsInv'
    <2>1. Seeds!Goto(p, "link") /\ task[p].pc = "spawned"
      BY <1>6 DEF Seeds!SessionUp
    <2>2. UNCHANGED <<shareable, magnet, managed, promotions, ids, pushing, stored, deleting>>
          /\ sessionUp' = TRUE
          /\ session' = (IF sessionUp THEN session ELSE stored)
          /\ unowned' = (IF sessionUp THEN unowned ELSE stored)
      BY <1>6 DEF Seeds!SessionUp
    <2>3. /\ task' \in [Proms -> TaskRec] /\ task'[p].pc = "link"
          /\ \A o \in Proms : o # p => task'[o] = task[o]
      BY <1>1, <2>1, GotoFacts DEF Shapes, Seeds!States
    <2>4. Shapes' /\ Entry'
      BY <1>1, <2>2, <2>3 DEF Shapes, Entry
    <2>5. Seeds!NoLeakedSeed'
      <3>1. CASE sessionUp
        BY <1>1, <2>1, <2>2, <2>3, <3>1, OneTaskLeaks DEF Answering
      <3>2. CASE ~sessionUp
        BY <2>2, <3>2 DEF Seeds!NoLeakedSeed
      <3> QED
        BY <3>1, <3>2
    <2> QED
      BY <2>4, <2>5 DEF SeedsInv
  <1>7. ASSUME NEW p \in Proms, Seeds!SessionFails(p) PROVE SeedsInv'
    <2>1. UNCHANGED <<shareable, magnet, managed, promotions, ids, pushing, sessionUp, session,
                      stored, deleting, unowned>>
          /\ task[p].pc = "spawned" /\ task' = [task EXCEPT ![p] = Seeds!NoTask]
      BY <1>7 DEF Seeds!SessionFails
    <2>2. /\ task' \in [Proms -> TaskRec] /\ task'[p].pc = "idle"
          /\ \A o \in Proms : o # p => task'[o] = task[o]
      BY <1>1, <2>1, EndFacts DEF Shapes
    <2>3. Shapes' /\ Entry'
      BY <1>1, <2>1, <2>2 DEF Shapes, Entry
    <2>4. Seeds!NoLeakedSeed'
      BY <1>1, <2>1, <2>2, OneTaskLeaks DEF Answering
    <2> QED
      BY <2>3, <2>4 DEF SeedsInv
  <1>8. ASSUME NEW p \in Proms,
               Seeds!Link(p) \/ Seeds!CreateTorrent(p) \/ Seeds!PersistMagnet(p)
               \/ Seeds!LastCheck(p) \/ Seeds!Resume(p)
        PROVE  SeedsInv'
    <2>1. task[p].pc \in {"link", "create", "magnet", "add", "resume"}
      BY <1>8 DEF Seeds!Link, Seeds!CreateTorrent, Seeds!PersistMagnet, Seeds!LastCheck, Seeds!Resume
    <2>2. UNCHANGED <<shareable, pushing, sessionUp, session, stored, deleting, unowned>>
      BY <1>8 DEF Seeds!Link, Seeds!CreateTorrent, Seeds!PersistMagnet, Seeds!LastCheck, Seeds!Resume
    <2>3. magnet' \in BOOLEAN /\ pushing' \subseteq Proms /\ stored' \subseteq Names
      BY <1>1, <1>8 DEF Shapes, Seeds!Link, Seeds!CreateTorrent, Seeds!PersistMagnet, Seeds!LastCheck,
                        Seeds!Resume
    <2>4. \/ Seeds!End(p) /\ magnet' = magnet
          \/ /\ UNCHANGED <<managed, promotions, ids>>
             /\ \E pc \in {"create", "magnet", "add", "adding"} : Seeds!Goto(p, pc)
      BY <1>8 DEF Seeds!Link, Seeds!CreateTorrent, Seeds!PersistMagnet, Seeds!LastCheck, Seeds!Resume
    <2>5. CASE Seeds!End(p) /\ magnet' = magnet
      BY <2>1, <2>2, <2>3, <2>5, EndStep
    <2>6. ASSUME UNCHANGED <<managed, promotions, ids>>, NEW pc \in {"create", "magnet", "add", "adding"},
                 Seeds!Goto(p, pc)
          PROVE  SeedsInv'
      <3>1. pc \in Seeds!States
        BY DEF Seeds!States
      <3> QED
        BY <2>1, <2>2, <2>3, <2>6, <3>1, OnStep
    <2> QED
      BY <2>4, <2>5, <2>6
  <1>9. ASSUME NEW p \in Proms, Seeds!AddTorrent(p) PROVE SeedsInv'
    <2>1. task[p].pc = "adding"
          /\ UNCHANGED <<shareable, magnet, pushing, sessionUp, deleting, unowned>>
      BY <1>9 DEF Seeds!AddTorrent
    <2>2. CASE Seeds!End(p) /\ UNCHANGED <<session, stored>>
      <3>1. stored' \subseteq Names
        BY <1>1, <2>2 DEF Shapes
      <3> QED
        BY <2>1, <2>2, <3>1, EndStep
    <2>3. CASE /\ session' = session \cup {task[p].name} /\ stored' = stored \cup {task[p].name}
               /\ Seeds!Goto(p, "added") /\ UNCHANGED <<managed, promotions, ids>>
      <3>1. /\ task' \in [Proms -> TaskRec] /\ task'[p].pc = "added" /\ task'[p].name = task[p].name
            /\ \A o \in Proms : o # p => task'[o] = task[o]
        BY <1>1, <2>3, GotoFacts DEF Shapes, Seeds!States
      <3>2. task[p].name \in Names
        BY <1>1 DEF Shapes, TaskRec
      <3>3. Shapes' /\ Entry'
        BY <1>1, <2>1, <2>3, <3>1, <3>2 DEF Shapes, Entry
      <3>4. Seeds!NoLeakedSeed'
        <4> SUFFICES ASSUME NEW n \in session'
                     PROVE  \/ n \in ids' \cup deleting' \cup unowned'
                            \/ \E o \in Proms : Answering(o, n)'
          BY DEF Seeds!NoLeakedSeed, Answering
        <4>1. CASE n = task[p].name
          BY <3>1, <4>1 DEF Answering
        <4>2. CASE n \in session
          <5>1. CASE n \in ids \cup deleting \cup unowned
            BY <2>1, <2>3, <5>1
          <5>2. ASSUME NEW o \in Proms, Answering(o, n) PROVE Answering(o, n)'
            BY <2>1, <3>1, <5>2 DEF Answering
          <5> QED
            BY <1>1, <4>2, <5>1, <5>2 DEF Seeds!NoLeakedSeed, Answering
        <4> QED
          BY <2>3, <4>1, <4>2
      <3> QED
        BY <3>3, <3>4 DEF SeedsInv
    <2> QED
      BY <1>9, <2>2, <2>3 DEF Seeds!AddTorrent
  <1>10. ASSUME NEW p \in Proms, Seeds!Record(p) PROVE SeedsInv'
    <2>1. task[p].pc = "added"
          /\ UNCHANGED <<shareable, magnet, pushing, sessionUp, session, stored, deleting, unowned>>
      BY <1>10 DEF Seeds!Record
    <2>2. CASE managed /\ task[p].wanted
      <3>1. promotions' = promotions \ {p} /\ ids' = ids \cup {task[p].name} /\ managed' = managed
            /\ Seeds!Goto(p, "resume")
        BY <1>10, <2>2 DEF Seeds!Record
      <3>2. /\ task' \in [Proms -> TaskRec]
            /\ \A o \in Proms : o # p => task'[o] = task[o]
        BY <1>1, <3>1, GotoFacts DEF Shapes, Seeds!States
      <3>3. task[p].name \in Names
        BY <1>1 DEF Shapes, TaskRec
      <3>4. Shapes' /\ Entry'
        BY <1>1, <2>1, <2>2, <3>1, <3>2, <3>3 DEF Shapes, Entry
      <3>5. Seeds!NoLeakedSeed'
        BY <1>1, <2>1, <3>1, <3>2, OneTaskLeaks DEF Answering
      <3> QED
        BY <3>4, <3>5 DEF SeedsInv
    <2>3. CASE ~(managed /\ task[p].wanted)
      <3>1. Seeds!Goto(p, "rollback") /\ UNCHANGED <<managed, promotions, ids>>
        BY <1>10, <2>3 DEF Seeds!Record
      <3>2. magnet' \in BOOLEAN /\ pushing' \subseteq Proms /\ "rollback" \in Seeds!States
        BY <1>1, <2>1 DEF Shapes, Seeds!States
      <3> QED
        BY <2>1, <3>1, <3>2, OnStep
    <2> QED
      BY <2>2, <2>3
  <1>11. ASSUME NEW p \in Proms, Seeds!Rollback(p) PROVE SeedsInv'
    <2>1. /\ session' = session \ {task[p].name} /\ stored' = stored \ {task[p].name}
          /\ Seeds!DropGuard(p) /\ task' = [task EXCEPT ![p] = Seeds!NoTask]
          /\ UNCHANGED <<shareable, magnet, pushing, sessionUp, deleting, unowned>>
      BY <1>11 DEF Seeds!Rollback, Seeds!End
    <2>2. Entry' /\ promotions' \subseteq Proms /\ managed' \in BOOLEAN /\ ids' = ids
      BY <1>1, <2>1, GuardFacts
    <2>3. /\ task' \in [Proms -> TaskRec]
          /\ \A o \in Proms : o # p => task'[o] = task[o]
      BY <1>1, <2>1, EndFacts DEF Shapes
    <2>4. Shapes'
      BY <1>1, <2>1, <2>2, <2>3 DEF Shapes
    <2>5. Seeds!NoLeakedSeed'
      BY <1>1, <2>1, <2>2, <2>3, OneTaskLeaks DEF Answering
    <2> QED
      BY <2>2, <2>4, <2>5 DEF SeedsInv
  <1>12. ASSUME NEW p \in Proms, Seeds!Dropped(p) PROVE SeedsInv'
    <2>1. task[p].pc \in Seeds!Awaiting /\ Seeds!End(p)
          /\ UNCHANGED <<shareable, magnet, pushing, sessionUp, session, deleting, unowned>>
      BY <1>12 DEF Seeds!Dropped
    <2>2. task[p].pc \notin {"added", "rollback"}
      BY <2>1 DEF Seeds!Awaiting
    <2>3. stored' \subseteq Names
      BY <1>1, <1>12 DEF Shapes, TaskRec, Seeds!Dropped
    <2> QED
      BY <2>1, <2>2, <2>3, EndStep
  <1>13. ASSUME Seeds!ShareOff PROVE SeedsInv'
    <2>1. /\ shareable' = FALSE /\ magnet' = FALSE /\ managed' = FALSE /\ promotions' = {} /\ ids' = {}
          /\ deleting' = deleting \cup ids
          /\ UNCHANGED <<pushing, sessionUp, session, stored, unowned>>
      BY <1>13 DEF Seeds!ShareOff, Seeds!Unseed
    <2>2. task' = [p \in Proms |-> IF p \in promotions
                                   THEN [task[p] EXCEPT !.wanted = FALSE, !.aborted = TRUE]
                                   ELSE task[p]]
      BY <1>13 DEF Seeds!ShareOff, Seeds!Unseed
    <2>3. ASSUME NEW p \in Proms
          PROVE  /\ task'[p] \in TaskRec /\ task'[p].pc = task[p].pc /\ task'[p].name = task[p].name
      <3> DEFINE t == [task[p] EXCEPT !.wanted = FALSE, !.aborted = TRUE]
      <3>1. task[p] \in TaskRec
        BY <1>1 DEF Shapes
      <3>2. t \in TaskRec /\ t.pc = task[p].pc /\ t.name = task[p].name
        BY <3>1 DEF TaskRec
      <3>3. task'[p] = IF p \in promotions THEN t ELSE task[p]
        BY <2>2
      <3> HIDE DEF t
      <3> QED
        BY <3>1, <3>2, <3>3
    <2>4. task' \in [Proms -> TaskRec]
      <3>1. DOMAIN task' = Proms /\ task' = [p \in Proms |-> task'[p]]
        BY <2>2
      <3> QED
        BY <2>3, <3>1
    <2>5. Shapes' /\ Entry'
      BY <1>1, <2>1, <2>4 DEF Shapes, Entry
    <2>6. Seeds!NoLeakedSeed'
      BY <1>1, <2>1, <2>3 DEF Seeds!NoLeakedSeed
    <2> QED
      BY <2>5, <2>6 DEF SeedsInv
  <1>14. ASSUME Seeds!ShareOn PROVE SeedsInv'
    <2>1. shareable' = TRUE
          /\ UNCHANGED <<magnet, managed, promotions, ids, task, pushing, sessionUp, session, stored,
                         deleting, unowned>>
      BY <1>14 DEF Seeds!ShareOn
    <2>2. Shapes' /\ Entry'
      BY <1>1, <2>1 DEF Shapes, Entry
    <2>3. Seeds!NoLeakedSeed'
      BY <1>1, <2>1 DEF Seeds!NoLeakedSeed
    <2> QED
      BY <2>2, <2>3 DEF SeedsInv
  <1>15. ASSUME NEW n \in Names, Seeds!DeleteTorrent(n) PROVE SeedsInv'
    <2>1. /\ deleting' = deleting \ {n} /\ session' = session \ {n} /\ stored' = stored \ {n}
          /\ unowned' = unowned \ {n}
          /\ UNCHANGED <<shareable, magnet, managed, promotions, ids, task, pushing, sessionUp>>
      BY <1>15 DEF Seeds!DeleteTorrent
    <2>2. Shapes' /\ Entry'
      BY <1>1, <2>1 DEF Shapes, Entry
    <2>3. Seeds!NoLeakedSeed'
      BY <1>1, <2>1 DEF Seeds!NoLeakedSeed
    <2> QED
      BY <2>2, <2>3 DEF SeedsInv
  <1>16. ASSUME Seeds!Restart PROVE SeedsInv'
    <2>1. /\ managed' = FALSE /\ promotions' = {} /\ ids' = {} /\ pushing' = {}
          /\ task' = [p \in Proms |-> Seeds!NoTask]
          /\ sessionUp' = FALSE /\ session' = {} /\ unowned' = {} /\ deleting' = {}
          /\ UNCHANGED <<shareable, magnet, stored>>
      BY <1>16 DEF Seeds!Restart
    <2>2. Shapes' /\ Entry'
      BY <1>1, <2>1, NoTaskIsTask DEF Shapes, Entry
    <2>3. Seeds!NoLeakedSeed'
      BY <2>1 DEF Seeds!NoLeakedSeed
    <2> QED
      BY <2>2, <2>3 DEF SeedsInv
  <1> QED
    BY <1>2, <1>3, <1>4, <1>5, <1>6, <1>7, <1>8, <1>9, <1>10, <1>11, <1>12, <1>13, <1>14, <1>15, <1>16
       DEF Seeds!Next, Seeds!Promote

LEMMA SeedsInit == ASSUME Seeds!Init PROVE SeedsInv
  <1>1. Shapes /\ Entry
    BY NoTaskIsTask DEF Seeds!Init, Shapes, Entry
  <1>2. Seeds!NoLeakedSeed
    BY DEF Seeds!Init, Seeds!NoLeakedSeed
  <1> QED
    BY <1>1, <1>2 DEF SeedsInv

LEMMA SeedsFrame == ASSUME SeedsInv, UNCHANGED seedVars PROVE SeedsInv'
  BY DEF SeedsInv, seedVars, Shapes, Entry, Seeds!NoLeakedSeed

-----------------------------------------------------------------------------
(* The fetches *)

FetchPcs == {"idle", "meta", "add", "unpause", "await", "size", "drop", "stream"}

FetchShape ==
    /\ dir \in {"none", "empty", "partial", "whole", "wrong"}
    /\ leech \in {"none", "live", "paused"}
    /\ fetchUp \in BOOLEAN /\ active \in BOOLEAN /\ alone \subseteq Runs
    /\ run \in [Runs -> FetchPcs] /\ asked \in [Runs -> {"no", "pause", "stop"}]
    /\ \A r \in Runs : run[r] = "idle" => asked[r] = "no"
    /\ crashes \in Nat

(* A run that has the torrent to itself: no other run is under way, and the
   session has the torrent in the state this run left it in. *)
OnItsOwn ==
    \A r \in alone :
        /\ \A o \in Runs : o # r => run[o] = "idle"
        /\ run[r] = "unpause" => leech # "none"
        /\ run[r] = "await" => leech = "live"
        /\ run[r] = "stream" => leech = "none"

FetchInv == FetchShape /\ OnItsOwn

LEMMA FetchSound == ASSUME FetchInv PROVE Fetch!FetchTypeOK /\ Fetch!ResumedIsLive
  BY DEF FetchInv, FetchShape, FetchPcs, OnItsOwn, Fetch!FetchTypeOK, Fetch!ResumedIsLive

(* A step of one run: it goes on or ends, the others wait. *)
Goes(r, pc) ==
    /\ run' = [run EXCEPT ![r] = pc]
    /\ asked' = asked \/ asked' = [asked EXCEPT ![r] = "no"]
    /\ pc = "idle" => asked' = [asked EXCEPT ![r] = "no"]

LEMMA GoesFacts ==
    ASSUME FetchShape, NEW r \in Runs, NEW pc \in FetchPcs, Goes(r, pc), run[r] # "idle",
           dir' \in {"none", "empty", "partial", "whole", "wrong"},
           leech' \in {"none", "live", "paused"}, active' \in BOOLEAN,
           UNCHANGED <<fetchUp, alone, crashes>>
    PROVE  FetchShape' /\ run'[r] = pc /\ \A o \in Runs : o # r => run'[o] = run[o]
  <1>1. run \in [Runs -> FetchPcs] /\ asked \in [Runs -> {"no", "pause", "stop"}]
    BY DEF FetchShape
  <1>2. run' \in [Runs -> FetchPcs] /\ run'[r] = pc /\ \A o \in Runs : o # r => run'[o] = run[o]
    BY <1>1 DEF Goes
  <1>3. asked' \in [Runs -> {"no", "pause", "stop"}]
    BY <1>1 DEF Goes
  <1>4. \A o \in Runs : run'[o] = "idle" => asked'[o] = "no"
    BY <1>1, <1>2 DEF Goes, FetchShape
  <1> QED
    BY <1>2, <1>3, <1>4 DEF FetchShape

(* If the others wait and r was on its way, r is the one that may be alone. *)
LEMMA GoesAlone ==
    ASSUME FetchInv, NEW r \in Runs, NEW pc \in FetchPcs, Goes(r, pc), run[r] # "idle",
           dir' \in {"none", "empty", "partial", "whole", "wrong"},
           leech' \in {"none", "live", "paused"}, active' \in BOOLEAN,
           UNCHANGED <<fetchUp, alone, crashes>>,
           r \in alone => /\ pc = "unpause" => leech' # "none"
                          /\ pc = "await" => leech' = "live"
                          /\ pc = "stream" => leech' = "none"
    PROVE  FetchInv'
  <1>1. FetchShape' /\ run'[r] = pc /\ \A o \in Runs : o # r => run'[o] = run[o]
    BY GoesFacts DEF FetchInv
  <1>2. \A o \in alone : o = r
    BY DEF FetchInv, FetchShape, OnItsOwn
  <1>3. OnItsOwn'
    BY <1>1, <1>2 DEF FetchInv, OnItsOwn
  <1> QED
    BY <1>1, <1>3 DEF FetchInv

LEMMA FetchStep == ASSUME FetchInv, Fetch!Next PROVE FetchInv'
  <1>1. FetchShape /\ OnItsOwn
    BY DEF FetchInv
  <1>2. /\ dir \in {"none", "empty", "partial", "whole", "wrong"}
        /\ leech \in {"none", "live", "paused"} /\ active \in BOOLEAN
        /\ run \in [Runs -> FetchPcs] /\ asked \in [Runs -> {"no", "pause", "stop"}]
    BY <1>1 DEF FetchShape
  <1>3. ASSUME NEW r \in Runs, Fetch!Open(r) PROVE FetchInv'
    <2>1. run[r] = "idle" /\ run' = [run EXCEPT ![r] = "meta"]
          /\ UNCHANGED <<leech, asked, active, crashes>> /\ fetchUp' = TRUE /\ dir' = Fetch!Swept
          /\ alone' = (IF \A o \in Runs : run[o] = "idle" THEN {r} ELSE {})
      BY <1>3 DEF Fetch!Open
    <2>2. /\ run' \in [Runs -> FetchPcs] /\ run'[r] = "meta"
          /\ \A o \in Runs : o # r => run'[o] = run[o]
      BY <1>2, <2>1 DEF FetchPcs
    <2>3. dir' \in {"none", "empty", "partial", "whole", "wrong"}
      BY <1>2, <2>1 DEF Fetch!Swept
    <2>4. FetchShape'
      BY <1>1, <2>1, <2>2, <2>3 DEF FetchShape
    <2>5. OnItsOwn'
      BY <2>1, <2>2 DEF OnItsOwn
    <2> QED
      BY <2>4, <2>5 DEF FetchInv
  <1>4. ASSUME NEW r \in Runs, Fetch!Ask(r) PROVE FetchInv'
    <2>1. PICK a \in {"pause", "stop"} : asked' = [asked EXCEPT ![r] = a]
      BY <1>4 DEF Fetch!Ask
    <2>2. run[r] # "idle" /\ UNCHANGED <<dir, leech, fetchUp, run, active, alone, crashes>>
      BY <1>4 DEF Fetch!Ask
    <2>3. FetchShape'
      BY <1>1, <1>2, <2>1, <2>2 DEF FetchShape
    <2>4. OnItsOwn'
      BY <1>1, <2>2 DEF OnItsOwn
    <2> QED
      BY <2>3, <2>4 DEF FetchInv
  <1>5. ASSUME NEW r \in Runs, Fetch!Metadata(r) PROVE FetchInv'
    <2>1. run[r] = "meta" /\ UNCHANGED <<leech, fetchUp, active, alone, crashes>>
          /\ dir' \in {"none", "empty", "partial", "whole", "wrong"}
      BY <1>2, <1>5 DEF Fetch!Metadata
    <2>2. \E pc \in {"add", "idle"} : Goes(r, pc)
      BY <1>5 DEF Fetch!Metadata, Fetch!End, Goes
    <2> QED
      BY <1>2, <2>1, <2>2, GoesAlone DEF FetchPcs
  <1>6. ASSUME NEW r \in Runs, Fetch!AddTorrent(r) PROVE FetchInv'
    <2>1. run[r] = "add" /\ UNCHANGED <<dir, fetchUp, active, alone, crashes>>
          /\ leech' \in {"none", "live", "paused"}
      BY <1>2, <1>6 DEF Fetch!AddTorrent
    <2>2. Goes(r, "idle") \/ (Goes(r, "unpause") /\ leech' # "none")
      BY <1>6 DEF Fetch!AddTorrent, Fetch!End, Goes
    <2> QED
      BY <1>2, <2>1, <2>2, GoesAlone DEF FetchPcs
  <1>7. ASSUME NEW r \in Runs, Fetch!Unpause(r) PROVE FetchInv'
    <2>1. run[r] = "unpause" /\ UNCHANGED <<dir, fetchUp, alone, crashes>> /\ active' = TRUE
          /\ leech' = (IF leech = "paused" THEN "live" ELSE leech) /\ Goes(r, "await")
      BY <1>7 DEF Fetch!Unpause, Goes
    <2>2. r \in alone => leech' = "live"
      BY <1>1, <1>2, <2>1 DEF OnItsOwn
    <2> QED
      BY <1>2, <2>1, <2>2, GoesAlone DEF FetchPcs
  <1>8. ASSUME Fetch!Swarm PROVE FetchInv'
    <2>1. UNCHANGED <<leech, fetchUp, run, asked, active, alone, crashes>>
      BY <1>8 DEF Fetch!Swarm
    <2>2. dir' \in {"none", "empty", "partial", "whole", "wrong"}
      BY <1>2, <1>8 DEF Fetch!Swarm
    <2> QED
      BY <1>1, <2>1, <2>2 DEF FetchInv, FetchShape, OnItsOwn
  <1>9. ASSUME NEW r \in Runs, Fetch!Completed(r) PROVE FetchInv'
    <2>1. run[r] = "await" /\ UNCHANGED <<dir, leech, fetchUp, alone, crashes>> /\ active' = FALSE
          /\ Goes(r, "size")
      BY <1>9 DEF Fetch!Completed, Goes
    <2> QED
      BY <1>2, <2>1, GoesAlone DEF FetchPcs
  <1>10. ASSUME NEW r \in Runs, Fetch!Cancelled(r) \/ Fetch!Failed(r) PROVE FetchInv'
    <2>1. run[r] = "await" /\ UNCHANGED <<fetchUp, alone, crashes>> /\ active' = FALSE
          /\ Goes(r, "idle") /\ Fetch!Discard(asked[r] = "stop")
      BY <1>10 DEF Fetch!Cancelled, Fetch!Failed, Fetch!End, Goes
    <2>2. dir' \in {"none", "empty", "partial", "whole", "wrong"}
          /\ leech' \in {"none", "live", "paused"}
      BY <1>2, <2>1 DEF Fetch!Discard
    <2> QED
      BY <2>1, <2>2, GoesAlone DEF FetchPcs
  <1>11. ASSUME NEW r \in Runs, Fetch!SizeCheck(r) PROVE FetchInv'
    <2>1. run[r] = "size" /\ UNCHANGED <<fetchUp, active, alone, crashes>>
      BY <1>11 DEF Fetch!SizeCheck
    <2>2. dir' \in {"none", "empty", "partial", "whole", "wrong"}
          /\ leech' \in {"none", "live", "paused"}
      BY <1>2, <1>11 DEF Fetch!SizeCheck
    <2>3. \E pc \in {"drop", "idle"} : Goes(r, pc)
      BY <1>11 DEF Fetch!SizeCheck, Fetch!End, Goes
    <2> QED
      BY <1>2, <2>1, <2>2, <2>3, GoesAlone DEF FetchPcs
  <1>12. ASSUME NEW r \in Runs, Fetch!DropTorrent(r) PROVE FetchInv'
    <2>1. run[r] = "drop" /\ UNCHANGED <<dir, fetchUp, active, alone, crashes>> /\ leech' = "none"
      BY <1>12 DEF Fetch!DropTorrent
    <2>2. \E pc \in {"stream", "idle"} : Goes(r, pc)
      BY <1>12 DEF Fetch!DropTorrent, Fetch!End, Goes
    <2> QED
      BY <1>2, <2>1, <2>2, GoesAlone DEF FetchPcs
  <1>13. ASSUME NEW r \in Runs, Fetch!StreamEnds(r) PROVE FetchInv'
    <2>1. run[r] = "stream" /\ UNCHANGED <<leech, fetchUp, active, alone, crashes>> /\ dir' = "none"
          /\ Goes(r, "idle")
      BY <1>13 DEF Fetch!StreamEnds, Fetch!End, Goes
    <2> QED
      BY <1>2, <2>1, GoesAlone DEF FetchPcs
  <1>14. ASSUME Fetch!Crash PROVE FetchInv'
    <2>1. crashes' \in Nat
      BY <1>1, <1>14 DEF Fetch!Crash, FetchShape
    <2>2. /\ fetchUp' = FALSE /\ active' = FALSE /\ alone' = {} /\ UNCHANGED <<dir, leech>>
          /\ run' = [r \in Runs |-> "idle"] /\ asked' = [r \in Runs |-> "no"]
      BY <1>14 DEF Fetch!Crash
    <2>3. run' \in [Runs -> FetchPcs] /\ asked' \in [Runs -> {"no", "pause", "stop"}]
          /\ \A r \in Runs : asked'[r] = "no"
      BY <2>2 DEF FetchPcs
    <2>4. FetchShape'
      BY <1>2, <2>1, <2>2, <2>3 DEF FetchShape
    <2> QED
      BY <2>2, <2>4 DEF FetchInv, OnItsOwn
  <1> QED
    BY <1>3, <1>4, <1>5, <1>6, <1>7, <1>8, <1>9, <1>10, <1>11, <1>12, <1>13, <1>14
       DEF Fetch!Next, Fetch!Step

(* The pieces on disk go only with a stop, a wrong length or their stream. *)
LEMMA PiecesKeptStep == ASSUME FetchInv, Fetch!Next PROVE Fetch!PiecesKept
  <1> SUFFICES ASSUME Fetch!Pieces, dir' = "none"
               PROVE  \E r \in Runs : \/ run[r] = "await" /\ asked[r] = "stop"
                                      \/ run[r] = "size" /\ dir # "whole"
                                      \/ run[r] = "stream"
    BY DEF Fetch!PiecesKept
  <1>1. dir \in {"partial", "whole", "wrong"}
    BY DEF Fetch!Pieces
  <1>2. ~Fetch!Swarm /\ ~Fetch!Crash
    BY <1>1 DEF Fetch!Swarm, Fetch!Crash
  <1>3. PICK r \in Runs : Fetch!Open(r) \/ Fetch!Ask(r) \/ Fetch!Step(r)
    BY <1>2 DEF Fetch!Next
  <1>4. ~Fetch!Open(r) /\ ~Fetch!Ask(r)
    BY <1>1 DEF Fetch!Open, Fetch!Ask, Fetch!Swept
  <1>5. ~Fetch!Metadata(r) /\ ~Fetch!AddTorrent(r) /\ ~Fetch!Unpause(r) /\ ~Fetch!Completed(r)
        /\ ~Fetch!DropTorrent(r)
    BY <1>1 DEF Fetch!Metadata, Fetch!AddTorrent, Fetch!Unpause, Fetch!Completed, Fetch!DropTorrent
  <1>6. CASE Fetch!Cancelled(r) \/ Fetch!Failed(r)
    <2>1. run[r] = "await" /\ Fetch!Discard(asked[r] = "stop")
      BY <1>6 DEF Fetch!Cancelled, Fetch!Failed
    <2>2. asked[r] = "stop"
      BY <1>1, <2>1 DEF Fetch!Discard
    <2> QED
      BY <2>1, <2>2
  <1>7. CASE Fetch!SizeCheck(r)
    BY <1>1, <1>7 DEF Fetch!SizeCheck
  <1>8. CASE Fetch!StreamEnds(r)
    BY <1>8 DEF Fetch!StreamEnds
  <1> QED
    BY <1>3, <1>4, <1>5, <1>6, <1>7, <1>8 DEF Fetch!Step

(* A stop that the wait saw, or the end of a stream, leaves nothing of the one
   run under way. *)
LEMMA ScratchGoesStep == ASSUME FetchInv, Fetch!Next PROVE Fetch!ScratchGoes
  <1> SUFFICES ASSUME NEW r \in alone, run'[r] = "idle", crashes' = crashes,
                      (run[r] = "await" /\ asked[r] = "stop") \/ run[r] = "stream"
               PROVE  dir' = "none" /\ leech' = "none"
    BY DEF Fetch!ScratchGoes
  <1>1. r \in Runs /\ run \in [Runs -> FetchPcs] /\ crashes \in Nat
        /\ \A o \in Runs : o # r => run[o] = "idle"
    BY DEF FetchInv, FetchShape, OnItsOwn
  <1>2. ~Fetch!Crash /\ ~Fetch!Swarm
    BY <1>1 DEF Fetch!Crash, Fetch!Swarm
  <1>3. PICK o \in Runs : Fetch!Open(o) \/ Fetch!Ask(o) \/ Fetch!Step(o)
    BY <1>2 DEF Fetch!Next
  <1>4. ~Fetch!Ask(o)
    BY DEF Fetch!Ask
  <1>5. ~Fetch!Open(o)
    BY <1>1 DEF Fetch!Open
  <1>6. o = r
    BY <1>1, <1>3, <1>4, <1>5 DEF Fetch!Step, Fetch!Metadata, Fetch!AddTorrent, Fetch!Unpause,
       Fetch!Completed, Fetch!Cancelled, Fetch!Failed, Fetch!SizeCheck, Fetch!DropTorrent,
       Fetch!StreamEnds
  <1>7. CASE run[r] = "await" /\ asked[r] = "stop"
    <2>1. ~Fetch!Completed(r)
      BY <1>1 DEF Fetch!Completed
    <2>2. Fetch!Cancelled(r) \/ Fetch!Failed(r)
      BY <1>3, <1>4, <1>5, <1>6, <1>7, <2>1 DEF Fetch!Step, Fetch!Metadata, Fetch!AddTorrent,
         Fetch!Unpause, Fetch!SizeCheck, Fetch!DropTorrent, Fetch!StreamEnds
    <2> QED
      BY <1>7, <2>2 DEF Fetch!Cancelled, Fetch!Failed, Fetch!Discard
  <1>8. CASE run[r] = "stream"
    <2>1. Fetch!StreamEnds(r)
      BY <1>3, <1>4, <1>5, <1>6, <1>8 DEF Fetch!Step, Fetch!Metadata, Fetch!AddTorrent, Fetch!Unpause,
         Fetch!Completed, Fetch!Cancelled, Fetch!Failed, Fetch!SizeCheck, Fetch!DropTorrent
    <2>2. leech = "none"
      BY <1>8 DEF FetchInv, OnItsOwn
    <2> QED
      BY <2>1, <2>2 DEF Fetch!StreamEnds
  <1> QED
    BY <1>7, <1>8

LEMMA FetchInit == ASSUME Fetch!Init PROVE FetchInv
  BY DEF Fetch!Init, FetchInv, FetchShape, FetchPcs, OnItsOwn

LEMMA FetchFrame == ASSUME FetchInv, UNCHANGED fetchVars PROVE FetchInv'
  BY DEF FetchInv, fetchVars, FetchShape, OnItsOwn

-----------------------------------------------------------------------------
(* The ratio watcher *)

RatioShape ==
    /\ cap \in Caps /\ blobCap \in Caps \cup {Ratio!NoCap}
    /\ torrent \in {"absent", "live", "paused"} /\ mark \in BOOLEAN /\ reset \in BOOLEAN
    /\ watch \in {"idle", "pause", "mark", "unpause", "unmark"}
    /\ promote \in {"idle", "look", "pause", "mark", "unpause", "unmark"}

UploadShape ==
    /\ uploaded \in 0 .. MaxUp /\ base \in 0 .. MaxUp \cup {Ratio!NotRead} /\ life \in 0 .. MaxUp
    /\ total \in 0 .. MaxUp
    /\ torrent = "absent" => uploaded = 0

(* What the record, the baseline and this session account for was really
   uploaded; while no torrent was deleted, the record is not ahead of them. *)
Accounted ==
    /\ life <= total
    /\ base = Ratio!NotRead => life + uploaded <= total
    /\ base # Ratio!NotRead => base + uploaded <= total
    /\ base # Ratio!NotRead /\ ~reset => life <= base + uploaded

RatioInv == RatioShape /\ UploadShape /\ Accounted

LEMMA RatioSound == ASSUME RatioInv PROVE Ratio!RatioTypeOK /\ Ratio!LifetimeSound
  BY DEF RatioInv, RatioShape, UploadShape, Accounted, Ratio!RatioTypeOK, Ratio!LifetimeSound

LEMMA BaselineFacts ==
    ASSUME UploadShape, Accounted
    PROVE  /\ Ratio!Baseline \in 0 .. MaxUp /\ Ratio!Baseline + uploaded <= total
           /\ Ratio!Baseline # Ratio!NotRead
           /\ ~reset => life <= Ratio!Baseline + uploaded
           /\ Ratio!Baseline + uploaded \in 0 .. MaxUp
  <1>1. MaxUp \in Nat
    BY PeersAssumed DEF Ratio!RatioAssumption
  <1>2. CASE base = Ratio!NotRead
    BY <1>1, <1>2 DEF UploadShape, Accounted, Ratio!Baseline, Ratio!NotRead
  <1>3. CASE base # Ratio!NotRead
    BY <1>1, <1>3 DEF UploadShape, Accounted, Ratio!Baseline, Ratio!NotRead
  <1> QED
    BY <1>2, <1>3

LEMMA RatioStep == ASSUME RatioInv, Ratio!Next PROVE RatioInv' /\ Ratio!LifetimeKept
  <1>1. RatioShape /\ UploadShape /\ Accounted
    BY DEF RatioInv
  <1>2. MaxUp \in Nat
    BY PeersAssumed DEF Ratio!RatioAssumption
  <1>3. RatioShape'
    <2>1. cap' \in Caps /\ blobCap' \in Caps \cup {Ratio!NoCap}
      BY <1>1 DEF RatioShape, Ratio!Next, Ratio!Upload, Ratio!Watcher, Ratio!Tick, Ratio!WatchPause,
         Ratio!WatchMark, Ratio!WatchUnpause, Ratio!WatchUnmark, Ratio!Promoter, Ratio!PromoteLook,
         Ratio!PromoteAct, Ratio!PromoteMark, Ratio!Add, Ratio!SetMaxRatio, Ratio!SetBlobMaxRatio,
         Ratio!Unseed, Ratio!Restart
    <2>2. torrent' \in {"absent", "live", "paused"}
      BY <1>1 DEF RatioShape, Ratio!Next, Ratio!Upload, Ratio!Watcher, Ratio!Tick, Ratio!WatchPause,
         Ratio!WatchMark, Ratio!WatchUnpause, Ratio!WatchUnmark, Ratio!Promoter, Ratio!PromoteLook,
         Ratio!PromoteAct, Ratio!PromoteMark, Ratio!Add, Ratio!SetMaxRatio, Ratio!SetBlobMaxRatio,
         Ratio!Unseed, Ratio!Restart, Ratio!Act
    <2>3. mark' \in BOOLEAN /\ reset' \in BOOLEAN
      BY <1>1, Zenon DEF RatioShape, Ratio!Next, Ratio!Upload, Ratio!Watcher, Ratio!Tick, Ratio!WatchPause,
         Ratio!WatchMark, Ratio!WatchUnpause, Ratio!WatchUnmark, Ratio!Promoter, Ratio!PromoteLook,
         Ratio!PromoteAct, Ratio!PromoteMark, Ratio!Add, Ratio!SetMaxRatio, Ratio!SetBlobMaxRatio,
         Ratio!Unseed, Ratio!Restart, Ratio!Act
    <2>4. /\ watch' \in {"idle", "pause", "mark", "unpause", "unmark"}
          /\ promote' \in {"idle", "look", "pause", "mark", "unpause", "unmark"}
      BY <1>1 DEF RatioShape, Ratio!Next, Ratio!Upload, Ratio!Watcher, Ratio!Tick, Ratio!WatchPause,
         Ratio!WatchMark, Ratio!WatchUnpause, Ratio!WatchUnmark, Ratio!Promoter, Ratio!PromoteLook,
         Ratio!PromoteAct, Ratio!PromoteMark, Ratio!Add, Ratio!SetMaxRatio, Ratio!SetBlobMaxRatio,
         Ratio!Unseed, Ratio!Restart
    <2> QED
      BY <2>1, <2>2, <2>3, <2>4 DEF RatioShape
  <1>4. CASE Ratio!Upload
    <2>1. uploaded' = uploaded + 1 /\ total' = total + 1 /\ total < MaxUp /\ torrent = "live"
          /\ UNCHANGED <<torrent, base, life, reset>>
      BY <1>4 DEF Ratio!Upload
    <2>2. uploaded <= total
      BY <1>1, <1>2 DEF UploadShape, Accounted, Ratio!NotRead
    <2>3. UploadShape'
      BY <1>1, <1>2, <2>1, <2>2 DEF UploadShape
    <2>4. Accounted'
      BY <1>1, <1>2, <2>1 DEF UploadShape, Accounted, Ratio!NotRead
    <2> QED
      BY <1>1, <1>2, <1>3, <2>1, <2>3, <2>4 DEF RatioInv, UploadShape, Ratio!LifetimeKept
  <1>5. CASE Ratio!Tick
    <2>1. PICK bl : bl = Ratio!Baseline /\ bl \in 0 .. MaxUp /\ bl # Ratio!NotRead
                    /\ bl + uploaded <= total /\ bl + uploaded \in 0 .. MaxUp
                    /\ (~reset => life <= bl + uploaded)
      BY <1>1, BaselineFacts
    <2>2. base' = bl /\ life' = bl + uploaded /\ UNCHANGED <<torrent, uploaded, total, reset>>
      BY <1>5, <2>1 DEF Ratio!Tick
    <2>3. UploadShape'
      BY <1>1, <2>1, <2>2 DEF UploadShape
    <2>4. Accounted'
      BY <1>1, <1>2, <2>1, <2>2 DEF UploadShape, Accounted, Ratio!NotRead
    <2>5. Ratio!LifetimeKept
      BY <1>1, <1>2, <2>1, <2>2 DEF UploadShape, Ratio!LifetimeKept
    <2> QED
      BY <1>3, <2>3, <2>4, <2>5 DEF RatioInv
  <1>6. CASE Ratio!Unseed
    <2>1. torrent' = "absent" /\ uploaded' = 0 /\ reset' = TRUE /\ UNCHANGED <<base, life, total>>
      BY <1>6 DEF Ratio!Unseed
    <2>2. UploadShape' /\ Accounted'
      BY <1>1, <1>2, <2>1 DEF UploadShape, Accounted, Ratio!NotRead
    <2> QED
      BY <1>1, <1>2, <1>3, <2>1, <2>2 DEF RatioInv, UploadShape, Ratio!LifetimeKept
  <1>7. CASE Ratio!Restart
    <2>1. torrent' = "absent" /\ uploaded' = 0 /\ base' = Ratio!NotRead /\ UNCHANGED <<life, total>>
      BY <1>7 DEF Ratio!Restart
    <2>2. UploadShape' /\ Accounted'
      BY <1>1, <1>2, <2>1 DEF UploadShape, Accounted, Ratio!NotRead
    <2> QED
      BY <1>1, <1>2, <1>3, <2>1, <2>2 DEF RatioInv, UploadShape, Ratio!LifetimeKept
  <1>8. CASE ~(Ratio!Upload \/ Ratio!Tick \/ Ratio!Unseed \/ Ratio!Restart)
    <2>1. UNCHANGED <<uploaded, base, life, total, reset>>
          /\ (torrent' = "absent" => torrent = "absent")
      BY <1>8 DEF Ratio!Next, Ratio!Watcher, Ratio!WatchPause, Ratio!WatchMark, Ratio!WatchUnpause,
         Ratio!WatchUnmark, Ratio!Promoter, Ratio!PromoteLook, Ratio!PromoteAct, Ratio!PromoteMark,
         Ratio!Add, Ratio!SetMaxRatio, Ratio!SetBlobMaxRatio, Ratio!Act
    <2>2. UploadShape' /\ Accounted'
      BY <1>1, <2>1 DEF UploadShape, Accounted
    <2> QED
      BY <1>1, <1>2, <1>3, <2>1, <2>2 DEF RatioInv, UploadShape, Ratio!LifetimeKept
  <1> QED
    BY <1>4, <1>5, <1>6, <1>7, <1>8

LEMMA RatioInit == ASSUME Ratio!Init PROVE RatioInv
  <1>1. MaxUp \in Nat
    BY PeersAssumed DEF Ratio!RatioAssumption
  <1>2. RatioShape
    BY DEF Ratio!Init, RatioShape
  <1>3. uploaded = 0 /\ base = Ratio!NotRead /\ life = 0 /\ total = 0
    BY DEF Ratio!Init
  <1>4. UploadShape /\ Accounted
    BY <1>1, <1>3 DEF UploadShape, Accounted
  <1> QED
    BY <1>2, <1>4 DEF RatioInv

LEMMA RatioFrame == ASSUME RatioInv, UNCHANGED ratioVars PROVE RatioInv'
  BY DEF RatioInv, ratioVars, RatioShape, UploadShape, Accounted

-----------------------------------------------------------------------------
(* The parts together: each behaviour is one of one part *)

LEMMA PeerParts ==
    ASSUME [Next]_vars
    PROVE  /\ Seeds!Next \/ UNCHANGED seedVars
           /\ Fetch!Next \/ UNCHANGED fetchVars
           /\ Ratio!Next \/ UNCHANGED ratioVars
  BY DEF Next, vars, InSeeds, InFetch, InRatio, InUploads

PeersIInv == SeedsInv /\ FetchInv /\ RatioInv

LEMMA PeersAlways == Spec => []PeersIInv
  <1>1. Init => PeersIInv
    BY SeedsInit, FetchInit, RatioInit DEF Init, PeersIInv
  <1>2. PeersIInv /\ [Next]_vars => PeersIInv'
    <2> SUFFICES ASSUME PeersIInv, [Next]_vars PROVE PeersIInv'
      OBVIOUS
    <2>1. SeedsInv'
      BY PeerParts, SeedsStep, SeedsFrame DEF PeersIInv
    <2>2. FetchInv'
      BY PeerParts, FetchStep, FetchFrame DEF PeersIInv
    <2>3. RatioInv'
      BY PeerParts, RatioStep, RatioFrame DEF PeersIInv
    <2> QED
      BY <2>1, <2>2, <2>3 DEF PeersIInv
  <1> QED
    BY <1>1, <1>2, PTL DEF Spec

(* For any promotions, names, fetches and restarts: somebody answers for every
   torrent the session serves, a fetch that has its torrent to itself waits for
   one that runs, and the lifetime upload counts no byte twice. *)
THEOREM PeersCorrect == Spec => []PeersInv
  <1>1. PeersIInv => PeersInv
    BY FetchSound, RatioSound, SeedsParts DEF PeersIInv, SeedsInv, PeersInv
  <1> QED
    BY <1>1, PeersAlways, PTL

(* Only a stop, a wrong length or the end of the stream costs the pieces of a
   fetch, its scratch folder never outlives its use, and the lifetime upload
   falls only after a torrent of the session was deleted. *)
THEOREM PeersKeepPieces == Spec => PeersKeep
  <1>1. ASSUME PeersIInv, Next PROVE Fetch!PiecesKept /\ Fetch!ScratchGoes /\ Ratio!LifetimeKept
    <2>1. Fetch!PiecesKept /\ Fetch!ScratchGoes
      <3>1. CASE Fetch!Next
        BY <1>1, <3>1, PiecesKeptStep, ScratchGoesStep DEF PeersIInv
      <3>2. CASE UNCHANGED fetchVars
        <4>1. Fetch!PiecesKept
          BY <3>2 DEF fetchVars, Fetch!PiecesKept, Fetch!Pieces
        <4>2. Fetch!ScratchGoes
          BY <3>2 DEF fetchVars, Fetch!ScratchGoes
        <4> QED
          BY <4>1, <4>2
      <3> QED
        BY <1>1, <3>1, <3>2, PeerParts
    <2>2. Ratio!LifetimeKept
      <3>1. CASE Ratio!Next
        BY <1>1, <3>1, RatioStep DEF PeersIInv
      <3>2. CASE UNCHANGED ratioVars
        <4>1. life \in Nat /\ life' = life
          BY <1>1, <3>2, PeersAssumed DEF PeersIInv, RatioInv, UploadShape, ratioVars,
             Ratio!RatioAssumption
        <4> QED
          BY <4>1 DEF Ratio!LifetimeKept
      <3> QED
        BY <1>1, <3>1, <3>2, PeerParts
    <2> QED
      BY <2>1, <2>2
  <1>2. PeersIInv /\ [Next]_vars
          => [Fetch!PiecesKept /\ Fetch!ScratchGoes /\ Ratio!LifetimeKept]_vars
    BY <1>1
  <1> QED
    BY <1>2, PeersAlways, PTL DEF Spec, PeersKeep

=============================================================================

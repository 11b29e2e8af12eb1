--------------------------- MODULE DownloadQueue ---------------------------
(***************************************************************************)
(* The admission gate in front of the download-concurrency limit           *)
(* (crates/core/src/engine.rs, struct DownloadQueue).                      *)
(*                                                                         *)
(* A semaphore of Slots permits, a mutex-protected list of waiting transfer *)
(* ids, and a tokio Notify.  Every step below is one atomic operation of   *)
(* the code: one critical section of the `waiting` mutex, one semaphore    *)
(* operation or one notify_waiters call, so the interleavings are those of *)
(* a multi-threaded runtime.                                               *)
(*                                                                         *)
(* A Task is a caller of `acquire`; idOf[t] is the transfer id it passes.  *)
(* notify_waiters wakes every Notified future that exists at the call and  *)
(* stores nothing for later ones: woken[t] is the wake-up of the Notified  *)
(* future that t has, and is FALSE while t has none.                       *)
(***************************************************************************)
EXTENDS Naturals, Sequences, SequencesExt, FiniteSets

CONSTANTS
    Task,           \* callers of acquire()
    Id,             \* transfer ids
    idOf,           \* the id each caller queues under
    Slots,          \* the configured number of concurrent downloads
    MaxReorders     \* bound: reorder operations the user performs

ASSUME QueueAssumption ==
    /\ idOf \in [Task -> Id]
    /\ Slots \in Nat
    /\ MaxReorders \in Nat
    /\ IsFiniteSet(Task)

VARIABLES
    permits,        \* available permits of the semaphore
    waiting,        \* the waiting list, front first
    woken,          \* per task: its current Notified future has been woken
    qpc,            \* per task: where it is in acquire / drop
    reorderNotify,  \* reorder() has moved an entry and not yet notified
    reorders        \* reorder operations so far

qvars == <<permits, waiting, woken, qpc, reorderNotify, reorders>>

(* Semaphore::new(slots.max(1)) *)
SlotCount == IF Slots = 0 THEN 1 ELSE Slots

QueueMove == {"Up", "Down", "Top", "Bottom"}

(* Program points of a caller:
     idle      not inside acquire, holds nothing
     pushed    id is in the list, notify_waiters of the enqueue outstanding
     register  about to create its Notified future
     check     Notified created, about to look at the front of the list
     try       saw itself at the front, about to try_acquire a permit
     parked    awaiting the Notified future
     dequeue   has a permit, about to remove itself from the list
     announce  removed itself, notify_waiters outstanding
     held      owns a QueuePermit
     released  dropped the permit, notify_waiters outstanding
     dropped   future dropped while parked: removed, notify outstanding *)
QueuePc == {"idle", "pushed", "register", "check", "try", "parked",
            "dequeue", "announce", "held", "released", "dropped"}

(* Owning one of the semaphore's permits. *)
Owning == {"dequeue", "announce", "held"}

(* Inside acquire with the id in the waiting list. *)
Queued == {"pushed", "register", "check", "try", "parked", "dequeue"}

(* Has a Notified future: it is created before the check and the attempt. *)
Listening == {"check", "try", "parked"}

(* Has changed the state a parked task waits for, and still has to notify. *)
Notifying == {"pushed", "announce", "released", "dropped"}

QTypeOK ==
    /\ permits \in 0 .. SlotCount
    /\ waiting \in Seq(Id)
    /\ woken \in [Task -> BOOLEAN]
    /\ qpc \in [Task -> QueuePc]
    /\ reorderNotify \in BOOLEAN
    /\ reorders \in 0 .. MaxReorders

(* DownloadQueue::new *)
QInit ==
    /\ permits = SlotCount
    /\ waiting = <<>>
    /\ woken = [t \in Task |-> FALSE]
    /\ qpc = [t \in Task |-> "idle"]
    /\ reorderNotify = FALSE
    /\ reorders = 0

----------------------------------------------------------------------------
(* Helpers *)

Goto(t, from, to) == qpc[t] = from /\ qpc' = [qpc EXCEPT ![t] = to]

(* q.iter().position(|x| x == id) *)
Position(q, id) == CHOOSE i \in 1 .. Len(q) : q[i] = id

(* retain(|x| *x != id): an id is in the list at most once (the enqueue checks
   it, and WaitingIsExact says so), hence there is one entry to remove. *)
Without(q, id) == IF Contains(q, id) THEN RemoveAt(q, Position(q, id)) ELSE q

(* notify.notify_waiters() *)
NotifyWaiters == woken' = [t \in Task |-> woken[t] \/ qpc[t] \in Listening]

(* Mutant: being in the list is enough. *)
Listed(t) == Contains(waiting, idOf[t])

AtFront(t) == waiting # <<>> /\ Head(waiting) = idOf[t]

----------------------------------------------------------------------------
(* acquire *)

(* Lock the list; push the id if it is not there. *)
Enqueue(t) ==
    /\ Goto(t, "idle", "pushed")
    /\ waiting' = IF Contains(waiting, idOf[t]) THEN waiting
                  ELSE Append(waiting, idOf[t])
    /\ UNCHANGED <<permits, woken, reorderNotify, reorders>>

NotifyEnqueued(t) ==
    /\ Goto(t, "pushed", "register")
    /\ NotifyWaiters
    /\ UNCHANGED <<permits, waiting, reorderNotify, reorders>>

(* `let notified = self.notify.notified()` - before the check. *)
Register(t) ==
    /\ Goto(t, "register", "check")
    /\ UNCHANGED <<permits, waiting, woken, reorderNotify, reorders>>

CheckFront(t) ==
    /\ Goto(t, "check", IF AtFront(t) THEN "try" ELSE "parked")
    /\ UNCHANGED <<permits, waiting, woken, reorderNotify, reorders>>

TryAcquire(t) ==
    /\ Goto(t, "try", IF permits > 0 THEN "dequeue" ELSE "parked")
    /\ permits' = IF permits > 0 THEN permits - 1 ELSE permits
    /\ woken' = IF permits > 0 THEN [woken EXCEPT ![t] = FALSE] ELSE woken
    /\ UNCHANGED <<waiting, reorderNotify, reorders>>

Dequeue(t) ==
    /\ Goto(t, "dequeue", "announce")
    /\ waiting' = Without(waiting, idOf[t])
    /\ UNCHANGED <<permits, woken, reorderNotify, reorders>>

(* Disarm the guard, notify, return the permit. *)
Announce(t) ==
    /\ Goto(t, "announce", "held")
    /\ NotifyWaiters
    /\ UNCHANGED <<permits, waiting, reorderNotify, reorders>>

(* notified.await returns: around the loop. *)
Wake(t) ==
    /\ woken[t]
    /\ Goto(t, "parked", "register")
    /\ woken' = [woken EXCEPT ![t] = FALSE]
    /\ UNCHANGED <<permits, waiting, reorderNotify, reorders>>

----------------------------------------------------------------------------
(* Drop of a held QueuePermit: release first, then notify. *)

(* Mutant: the permit is forgotten instead of dropped. *)
ForgetPermit(t) ==
    /\ Goto(t, "held", "released")
    /\ UNCHANGED <<permits, waiting, woken, reorderNotify, reorders>>

ReleasePermit(t) ==
    /\ Goto(t, "held", "released")
    /\ permits' = permits + 1
    /\ UNCHANGED <<waiting, woken, reorderNotify, reorders>>

(* Mutant: the slot is freed and nobody is told. *)
ReleaseSilently(t) ==
    /\ Goto(t, "released", "idle")
    /\ UNCHANGED <<permits, waiting, woken, reorderNotify, reorders>>

NotifyReleased(t) ==
    /\ Goto(t, "released", "idle")
    /\ NotifyWaiters
    /\ UNCHANGED <<permits, waiting, reorderNotify, reorders>>

(* Mutant: the guard was disarmed too early. *)
DropKeepsEntry(t) ==
    /\ Goto(t, "parked", "dropped")
    /\ woken' = [woken EXCEPT ![t] = FALSE]
    /\ UNCHANGED <<permits, waiting, reorderNotify, reorders>>

(* Mutant: dropping the future also hands back a permit it never had. *)
DropReturnsPermit(t) ==
    /\ Goto(t, "parked", "dropped")
    /\ waiting' = Without(waiting, idOf[t])
    /\ permits' = permits + 1
    /\ woken' = [woken EXCEPT ![t] = FALSE]
    /\ UNCHANGED <<reorderNotify, reorders>>

(* Drop of the acquire future at its only await point: the armed
   DequeueGuard removes the id, then notifies. *)
DropAcquire(t) ==
    /\ Goto(t, "parked", "dropped")
    /\ waiting' = Without(waiting, idOf[t])
    /\ woken' = [woken EXCEPT ![t] = FALSE]
    /\ UNCHANGED <<permits, reorderNotify, reorders>>

NotifyDropped(t) ==
    /\ Goto(t, "dropped", "idle")
    /\ NotifyWaiters
    /\ UNCHANGED <<permits, waiting, reorderNotify, reorders>>

----------------------------------------------------------------------------
(* reorder *)

Swap(q, i, j) == [q EXCEPT ![i] = q[j], ![j] = q[i]]

(* The list after moving position i, or the list itself where the code
   returns without moving anything. *)
Moved(q, i, mv) ==
    CASE mv = "Up"     /\ i > 1      -> Swap(q, i, i - 1)
      [] mv = "Down"   /\ i < Len(q) -> Swap(q, i, i + 1)
      [] mv = "Top"    /\ i > 1      -> <<q[i]>> \o RemoveAt(q, i)
      [] mv = "Bottom" /\ i < Len(q) -> Append(RemoveAt(q, i), q[i])
      [] OTHER                       -> q

Reorder(id, mv) ==
    /\ reorders < MaxReorders
    /\ ~reorderNotify
    /\ Contains(waiting, id)
    /\ waiting' = Moved(waiting, Position(waiting, id), mv)
    /\ waiting' # waiting
    /\ reorders' = reorders + 1
    /\ reorderNotify' = TRUE
    /\ UNCHANGED <<permits, woken, qpc>>

NotifyReordered ==
    /\ reorderNotify
    /\ reorderNotify' = FALSE
    /\ NotifyWaiters
    /\ UNCHANGED <<permits, waiting, qpc, reorders>>

----------------------------------------------------------------------------
(* One poll of the acquire future and everything it runs synchronously. *)
AcquireStep(t) ==
    \/ NotifyEnqueued(t) \/ Register(t) \/ CheckFront(t) \/ TryAcquire(t)
    \/ Dequeue(t) \/ Announce(t) \/ Wake(t)

FinishStep(t) == NotifyReleased(t) \/ NotifyDropped(t)

QNext ==
    \/ \E t \in Task : \/ Enqueue(t)
                       \/ AcquireStep(t)
                       \/ ReleasePermit(t)
                       \/ DropAcquire(t)
                       \/ FinishStep(t)
    \/ \E id \in Id, mv \in QueueMove : Reorder(id, mv)
    \/ NotifyReordered

(* The runtime keeps polling woken tasks and running drops, and every
   download ends (completes, fails or is interrupted), which drops its
   permit.  Nobody has to start a download, cancel one or reorder. *)
QFairness ==
    /\ \A t \in Task : WF_qvars(AcquireStep(t) \/ ReleasePermit(t) \/ FinishStep(t))
    /\ WF_qvars(NotifyReordered)

QSpec == QInit /\ [][QNext]_qvars /\ QFairness

----------------------------------------------------------------------------
(* Properties *)

(* Contract of the callers: no two callers with the same id are inside
   acquire or hold a permit at a time (TransferControl::try_begin and the
   transfer registry are meant to ensure it; see Transfers). *)
DistinctIds == \A t, u \in Task : t # u => idOf[t] # idOf[u]

(* Permits are neither lost nor duplicated by cancellation, release and
   admission racing each other: free permits and their owners always add up
   to the configured number of slots. *)
SlotsConserved ==
    permits + Cardinality({t \in Task : qpc[t] \in Owning}) = SlotCount

(* The list the UI shows and reorders is exactly the set of transfers that
   wait: each waiter is in it once, and no entry outlives its waiter
   (DequeueGuard, the retain in acquire, and the contains check of the
   enqueue). *)
WaitingIsExact ==
    /\ IsInjective(waiting)
    /\ ToSet(waiting) = {idOf[t] : t \in {u \in Task : qpc[u] \in Queued}}

(* No lost wake-up ("Register interest BEFORE checking, so a notify between
   the check and the await is not lost"): when a slot is free and the front
   of the queue is parked, its wake-up has happened or somebody is still
   about to notify. *)
NoLostWakeup ==
    \A t \in Task :
        (permits > 0 /\ AtFront(t) /\ qpc[t] = "parked")
            => \/ woken[t]
               \/ reorderNotify
               \/ \E u \in Task : qpc[u] \in Notifying

(* Every transfer that queues is eventually admitted, unless it is
   cancelled while queued. *)
EventuallyAdmitted ==
    \A t \in Task : (qpc[t] \in Queued) ~> (qpc[t] \in {"held", "dropped"})

(* A transfer runs from the moment it leaves the list with a permit until it
   gives the permit back. *)
AdmittedIds == {idOf[t] : t \in {u \in Task : qpc[u] \in {"announce", "held"}}}

(* The queue seen as an AdmissionQueue. *)
Admission == INSTANCE AdmissionQueue WITH
    Transfer  <- Id,
    Limit     <- SlotCount,
    line      <- waiting,
    running   <- AdmittedIds,
    reordered <- reorders > 0

(* The queue implements its abstract specification: admission in order, the
   slot limit, and service of everybody who waits. *)
ImplementsAdmission == Admission!ASpec
============================================================================

-------------------------- MODULE AdmissionQueue ---------------------------
(***************************************************************************)
(* What the download queue promises, without semaphore, mutex or wake-ups: *)
(* a line of transfers and a bounded set of running ones, each operation   *)
(* atomic.  The front of the line is admitted first; only a reorder by the *)
(* user lets another transfer pass it, and the front that was already      *)
(* being admitted when the reorder came in.                                *)
(***************************************************************************)
EXTENDS Naturals, Sequences, SequencesExt, FiniteSets

CONSTANTS Transfer, Limit

VARIABLES
    line,       \* transfers waiting, front first
    running,    \* transfers that hold a slot
    reordered   \* the user has reordered the line at least once

avars == <<line, running, reordered>>

AInit == line = <<>> /\ running = {} /\ reordered = FALSE

(* x gives up its place in the line. *)
Depart(x) == \E i \in 1 .. Len(line) : line[i] = x /\ line' = RemoveAt(line, i)

Join(x) ==
    /\ ~Contains(line, x) /\ x \notin running
    /\ line' = Append(line, x)
    /\ UNCHANGED <<running, reordered>>

Admit(x) ==
    /\ Depart(x)
    /\ ~reordered => x = Head(line)
    /\ Cardinality(running) < Limit
    /\ running' = running \cup {x}
    /\ UNCHANGED reordered

Leave(x) ==
    /\ Depart(x)
    /\ UNCHANGED <<running, reordered>>

Finish(x) ==
    /\ x \in running
    /\ running' = running \ {x}
    /\ UNCHANGED <<line, reordered>>

(* A reorder permutes the line: it neither drops nor adds an entry. *)
Rearrange ==
    /\ reordered' = TRUE
    /\ Len(line') = Len(line)
    /\ ToSet(line') = ToSet(line)
    /\ UNCHANGED running

ANext ==
    \/ \E x \in Transfer : Join(x) \/ Admit(x) \/ Leave(x) \/ Finish(x)
    \/ Rearrange

(* Everybody in line is served or leaves. *)
Served == \A x \in Transfer : Contains(line, x) ~> ~Contains(line, x)

(* The steps, and the service. *)
ASteps == AInit /\ [][ANext]_avars
ASpec == ASteps /\ Served
============================================================================

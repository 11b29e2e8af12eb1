---------------------------- MODULE UploadSlots ----------------------------
(***************************************************************************)
(* The serving side of an Iroh node (crates/core/src/iroh_node.rs): the    *)
(* upload slots of ProviderEventSink and the counters of IrohMetrics, fed  *)
(* by provider events, the reaper, the end of a connection and the hard    *)
(* share-off of one blob.                                                  *)
(*                                                                         *)
(* Events of one request come in order; events of different requests, the  *)
(* reaper and the end of a connection interleave at every lock.  `sent` is *)
(* what really went over the wire for a request; the serving loop of       *)
(* iroh-blobs, which emits the events, is external.                        *)
(***************************************************************************)
EXTENDS Naturals, FiniteSets

CONSTANTS
    Requests,   \* (connection, request) pairs
    Conn,       \* Conn[r]: the connection of a request
    Hash,       \* Hash[r]: the blob it asks for
    Prefix,     \* Prefix[r]: what the peer has from an earlier attempt
    Size,       \* units of a blob
    MaxStalls   \* bound: pauses of a live request longer than UPLOAD_STALL_TIMEOUT

Conns == {Conn[r] : r \in Requests}
Hashes == {Hash[r] : r \in Requests}

UploadsAssumption ==
    /\ IsFiniteSet(Requests) /\ Requests # {}
    /\ Size \in Nat /\ MaxStalls \in Nat
    /\ \A r \in Requests : Prefix[r] \in 0 .. Size

VARIABLES
    slots,      \* ProviderEventSink.progress: the keys in the map
    upload,     \* the Upload of a key that is in the map
    active,     \* IrohMetrics.active_uploads
    byHash,     \* IrohMetrics.active_by_hash
    finishing,  \* per blob: note_finished calls between the removal and finish_upload
    counted,    \* what uploaded_bytes owes to a request
    reaping,    \* the keys the reaper has listed and not finished yet
    closing,    \* per connection: keys listed by connection_closed
    conn,       \* per connection: "new", "open", "closed" or "ended"
    wire,       \* per request: what the serving loop and the peer do
    seeded,     \* the blobs in the node's store
    off,        \* a call of unseed_and_disconnect
    reaps, stalls

sink == <<slots, upload, active, byHash, finishing, counted>>
uploadVars == <<sink, reaping, closing, conn, wire, seeded, off, reaps, stalls>>

NoUpload == [sent |-> 0, last |-> Size + 1, idle |-> FALSE]   \* last = Size + 1: None

UploadsTypeOK ==
    /\ slots \subseteq Requests
    /\ upload \in [Requests -> [sent : 0 .. Size, last : 0 .. Size + 1, idle : BOOLEAN]]
    /\ active \in Nat /\ byHash \in [Hashes -> Nat] /\ finishing \in [Hashes -> Nat]
    /\ counted \in [Requests -> Nat]
    /\ reaping \subseteq Requests
    /\ closing \in [Conns -> SUBSET Requests]
    /\ conn \in [Conns -> {"new", "open", "closed", "ended"}]
    /\ wire \in [Requests -> [st : {"new", "live", "mute", "done", "completed"},
                              from : 0 .. Size, sent : 0 .. Size, late : BOOLEAN]]
    /\ seeded \subseteq Hashes
    /\ off.pc \in {"idle", "delete", "close", "done"} /\ off.ids \subseteq Conns

Init ==
    /\ slots = {} /\ upload = [r \in Requests |-> NoUpload]
    /\ active = 0 /\ byHash = [h \in Hashes |-> 0] /\ finishing = [h \in Hashes |-> 0]
    /\ counted = [r \in Requests |-> 0]
    /\ reaping = {} /\ closing = [c \in Conns |-> {}]
    /\ conn = [c \in Conns |-> "new"]
    /\ wire = [r \in Requests |-> [st |-> "new", from |-> Prefix[r], sent |-> 0, late |-> FALSE]]
    /\ seeded = Hashes
    /\ off = [pc |-> "idle", hash |-> CHOOSE h \in Hashes : TRUE, ids |-> {}]
    /\ reaps = [r \in Requests |-> 0] /\ stalls = 0

-----------------------------------------------------------------------------
(* IrohMetrics and ProviderEventSink *)

(* start_upload, called with the map locked. *)
StartUpload(r) ==
    /\ active' = active + 1
    /\ byHash' = [byHash EXCEPT ![Hash[r]] = @ + 1]

NoteStarted(r) ==
    /\ slots' = slots \cup {r}
    /\ IF r \in slots THEN UNCHANGED <<upload, active, byHash>>
       ELSE upload' = [upload EXCEPT ![r] = NoUpload] /\ StartUpload(r)
    /\ UNCHANGED <<finishing, counted>>

(* Mutant: the first event of a slot is counted from the start of the blob. *)
AdvanceFromZero(up, offset) ==
    [sent |-> IF up.last <= Size THEN up.sent + (offset - up.last) ELSE offset,
     last |-> offset, idle |-> FALSE]

(* note_progress: the first offset of a slot is a baseline, the growth since
   the last one is counted. *)
Advance(up, offset) ==
    [sent |-> IF up.last <= Size /\ offset > up.last THEN up.sent + (offset - up.last) ELSE up.sent,
     last |-> IF up.last <= Size /\ offset < up.last THEN up.last ELSE offset,
     idle |-> FALSE]

NoteProgress(r, offset) ==
    LET old == IF r \in slots THEN upload[r] ELSE NoUpload
        new == Advance(old, offset)
    IN /\ slots' = slots \cup {r}
       /\ upload' = [upload EXCEPT ![r] = new]
       /\ IF r \in slots THEN UNCHANGED <<active, byHash>> ELSE StartUpload(r)
       /\ counted' = [counted EXCEPT ![r] = @ + (new.sent - old.sent)]
       /\ UNCHANGED finishing

(* Mutant: the counters go down for a slot that is already gone. *)
NoteFinishedAnyway(r, final) ==
    /\ slots' = slots \ {r}
    /\ finishing' = [finishing EXCEPT ![Hash[r]] = @ + 1]
    /\ upload' = [upload EXCEPT ![r] = NoUpload]
    /\ UNCHANGED <<active, byHash, counted>>

(* note_finished up to the release of the map: the slot is removed and, with
   a wire total, what was not counted yet is. *)
NoteFinished(r, final) ==
    /\ slots' = slots \ {r}
    /\ finishing' = IF r \in slots THEN [finishing EXCEPT ![Hash[r]] = @ + 1] ELSE finishing
    /\ counted' = IF r \in slots /\ final > upload[r].sent
                  THEN [counted EXCEPT ![r] = @ + (final - upload[r].sent)] ELSE counted
    /\ upload' = [upload EXCEPT ![r] = NoUpload]
    /\ UNCHANGED <<active, byHash>>

(* finish_upload: both counters go down, never below zero. *)
FinishUpload(h) ==
    /\ finishing[h] > 0
    /\ finishing' = [finishing EXCEPT ![h] = @ - 1]
    /\ active' = IF active = 0 THEN 0 ELSE active - 1
    /\ byHash' = [byHash EXCEPT ![h] = IF @ = 0 THEN 0 ELSE @ - 1]
    /\ UNCHANGED <<slots, upload, counted, reaping, closing, conn, wire, seeded, off, reaps, stalls>>

-----------------------------------------------------------------------------
(* BlobServer::accept and the events of iroh-blobs *)

Accept(c) ==
    /\ conn[c] = "new"
    /\ conn' = [conn EXCEPT ![c] = "open"]
    /\ UNCHANGED <<sink, reaping, closing, wire, seeded, off, reaps, stalls>>

(* A peer asks for a blob the node still has; `late` remembers that a
   share-off had already looked at the connections. *)
GetRequestReceived(r) ==
    /\ conn[Conn[r]] = "open" /\ wire[r].st = "new" /\ Hash[r] \in seeded
    /\ wire' = [wire EXCEPT ![r].st = "live",
                            ![r].late = off.pc # "idle" /\ off.hash = Hash[r]]
    /\ NoteStarted(r)
    /\ UNCHANGED <<reaping, closing, conn, seeded, off, reaps, stalls>>

TransferProgress(r) ==
    /\ wire[r].st = "live" /\ conn[Conn[r]] = "open"
    /\ wire[r].from + wire[r].sent < Size
    /\ wire' = [wire EXCEPT ![r].sent = @ + 1]
    /\ NoteProgress(r, wire[r].from + wire'[r].sent)
    /\ UNCHANGED <<reaping, closing, conn, seeded, off, reaps, stalls>>

TransferCompleted(r) ==
    /\ wire[r].st = "live" /\ wire[r].from + wire[r].sent = Size
    /\ wire' = [wire EXCEPT ![r].st = "completed"]
    /\ NoteFinished(r, wire[r].sent)
    /\ UNCHANGED <<reaping, closing, conn, seeded, off, reaps, stalls>>

(* With the bytes sent or without; also after the connection has ended. *)
TransferAborted(r) ==
    /\ wire[r].st = "live"
    /\ wire' = [wire EXCEPT ![r].st = "done"]
    /\ \E final \in {0, wire[r].sent} : NoteFinished(r, final)
    /\ UNCHANGED <<reaping, closing, conn, seeded, off, reaps, stalls>>

(* The peer is gone and no event will say so. *)
Vanish(r) ==
    /\ wire[r].st = "live"
    /\ wire' = [wire EXCEPT ![r].st = "mute"]
    /\ UNCHANGED <<sink, reaping, closing, conn, seeded, off, reaps, stalls>>

(* UPLOAD_STALL_TIMEOUT passes without an event for a slot. *)
Stall(r) ==
    /\ r \in slots /\ ~upload[r].idle
    /\ wire[r].st = "live" => stalls < MaxStalls
    /\ upload' = [upload EXCEPT ![r].idle = TRUE]
    /\ stalls' = IF wire[r].st = "live" THEN stalls + 1 ELSE stalls
    /\ UNCHANGED <<slots, active, byHash, finishing, counted, reaping, closing, conn, wire, seeded, off, reaps>>

-----------------------------------------------------------------------------
(* The reaper, the end of a connection *)

(* Mutant: only slots that have seen progress are reaped. *)
ReapStarted ==
    /\ reaping = {} /\ \E r \in slots : upload[r].idle /\ upload[r].last <= Size
    /\ reaping' = {r \in slots : upload[r].idle /\ upload[r].last <= Size}
    /\ UNCHANGED <<sink, closing, conn, wire, seeded, off, reaps, stalls>>

(* reap_stalled lists under the lock and finishes the slots one by one
   after it, without looking again. *)
ReapStalled ==
    /\ reaping = {} /\ \E r \in slots : upload[r].idle
    /\ reaping' = {r \in slots : upload[r].idle}
    /\ UNCHANGED <<sink, closing, conn, wire, seeded, off, reaps, stalls>>

ReapOne(r) ==
    /\ r \in reaping
    /\ reaping' = reaping \ {r}
    /\ NoteFinished(r, 0)
    /\ reaps' = IF r \in slots THEN [reaps EXCEPT ![r] = @ + 1] ELSE reaps
    /\ UNCHANGED <<closing, conn, wire, seeded, off, stalls>>

(* The serving loop of a connection ends, by the peer or by our close. *)
ConnectionClosed(c) ==
    /\ conn[c] \in {"open", "closed"}
    /\ conn' = [conn EXCEPT ![c] = "ended"]
    /\ closing' = [closing EXCEPT ![c] = {r \in slots : Conn[r] = c}]
    /\ UNCHANGED <<sink, reaping, wire, seeded, off, reaps, stalls>>

CloseOne(r) ==
    /\ r \in closing[Conn[r]]
    /\ closing' = [closing EXCEPT ![Conn[r]] = @ \ {r}]
    /\ NoteFinished(r, 0)
    /\ UNCHANGED <<reaping, conn, wire, seeded, off, reaps, stalls>>

-----------------------------------------------------------------------------
(* unseed_and_disconnect *)

(* Mutant: only requests that have seen progress are looked at. *)
ConnectionIdsStarted(h) ==
    {Conn[r] : r \in {q \in slots : Hash[q] = h /\ upload[q].last <= Size}}

ConnectionIdsForHash(h) == {Conn[r] : r \in {q \in slots : Hash[q] = h}}

ShareOff(h) ==
    /\ off.pc = "idle"
    /\ off' = [pc |-> "delete", hash |-> h, ids |-> ConnectionIdsForHash(h)]
    /\ UNCHANGED <<sink, reaping, closing, conn, wire, seeded, reaps, stalls>>

(* unseed: the tag and the store's entry go; transfers that are under way may
   go on or abort. *)
Unseed ==
    /\ off.pc = "delete"
    /\ seeded' = seeded \ {off.hash}
    /\ off' = [off EXCEPT !.pc = "close"]
    /\ UNCHANGED <<sink, reaping, closing, conn, wire, reaps, stalls>>

(* ConnRegistry::close *)
Disconnect ==
    /\ off.pc = "close"
    /\ conn' = [c \in Conns |-> IF c \in off.ids /\ conn[c] = "open" THEN "closed" ELSE conn[c]]
    /\ off' = [off EXCEPT !.pc = "done"]
    /\ UNCHANGED <<sink, reaping, closing, wire, seeded, reaps, stalls>>

-----------------------------------------------------------------------------
Event(r) ==
    GetRequestReceived(r) \/ TransferProgress(r) \/ TransferCompleted(r) \/ TransferAborted(r)

Housekeeping ==
    \/ ReapStalled
    \/ \E r \in Requests : ReapOne(r) \/ CloseOne(r)
    \/ \E h \in Hashes : FinishUpload(h)

Next ==
    \/ Housekeeping
    \/ \E r \in Requests : Event(r) \/ Vanish(r) \/ Stall(r)
    \/ \E c \in Conns : Accept(c) \/ ConnectionClosed(c)
    \/ (\E h \in Hashes : ShareOff(h)) \/ Unseed \/ Disconnect

(* The reaper's interval and the tasks of the node keep running, and time
   passes for a slot nobody feeds. *)
Spec ==
    /\ Init /\ [][Next]_uploadVars
    /\ WF_uploadVars(Housekeeping)
    /\ \A r \in Requests : WF_uploadVars(Stall(r) /\ wire[r].st # "live")

-----------------------------------------------------------------------------
(* The finish_upload calls under way: those for a blob are numbered. *)
Finishes == UNION {{h} \X (1 .. finishing[h]) : h \in Hashes}

(* "Pulling now", in total and for one blob, is exactly the number of slots,
   give or take the finish_upload calls under way: no order of events, reaps,
   closings and re-created slots leaks a count or eats another's. *)
CountsExact ==
    /\ active = Cardinality(slots) + Cardinality(Finishes)
    /\ \A h \in Hashes :
        byHash[h] = Cardinality({r \in slots : Hash[r] = h}) + finishing[h]

(* uploaded_bytes never counts a prefix the peer already had, and a completed
   request counts exactly what was sent.  Every time the reaper takes the
   slot of a request that then goes on, at most what had been sent can be
   counted once more. *)
UploadedExact ==
    \A r \in Requests :
        /\ counted[r] <= wire[r].sent * (1 + reaps[r])
        /\ wire[r].st = "completed" /\ reaps[r] = 0 /\ conn[Conn[r]] = "open"
              => counted[r] = wire[r].sent

(* After a hard share-off the peers still pulling the blob are only those
   whose request came while the share-off was under way or whose slot the
   reaper had taken. *)
ShareOffSevers ==
    off.pc = "done" =>
        \A r \in Requests :
            Hash[r] = off.hash /\ wire[r].st = "live" /\ conn[Conn[r]] = "open"
                => wire[r].late \/ reaps[r] > 0

(* A slot whose peer vanished without an event, or whose request is over, does
   not pin the counts: it is reclaimed. *)
SlotsReclaimed ==
    \A r \in Requests : wire[r].st \in {"mute", "done", "completed"} ~> r \notin slots
=============================================================================

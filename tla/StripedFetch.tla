---------------------------- MODULE StripedFetch ----------------------------
(***************************************************************************)
(* The Iroh fetch of one blob: IrohAdapter::open (crates/core/src/         *)
(* transport.rs) around fetch_from_providers, fetch_striped, the lanes of  *)
(* spawn_stripe_peer, the resume journal and the single-peer fallback      *)
(* fetch_hash (crates/core/src/iroh_node.rs).                              *)
(*                                                                         *)
(* A Fetch is one transfer that wants the blob.  All of them use the same  *)
(* scratch file and the same journal beside it: scratch_path names them    *)
(* after the blob.  Content is a set of pieces: `right` holds the pieces   *)
(* whose verified bytes are in a file.  Files are numbered like inodes,    *)
(* since lanes keep writing to a file that has been unlinked.  Timeouts    *)
(* (connect, stall, idle polls, watchdog) may fire at any time at which    *)
(* the code is waiting.                                                    *)
(***************************************************************************)
EXTENDS Naturals, Sequences, FiniteSets

CONSTANTS
    Fetches,       \* transfers of this blob
    Providers,     \* peers that may have the blob
    Lanes,         \* PIPELINE_PER_PEER lanes of a peer
    NumPieces,     \* pieces of the blob
    BaseAttempts,  \* the constants of max_attempts: (nodes + 2).max(6)
    FailBudget,    \* PEER_FAIL_BUDGET
    MaxPeers,      \* MAX_STRIPE_PEERS
    MaxOpens,      \* bound: calls of open
    MaxRefreshes,  \* bound: answers of the tracker during fetches
    MaxCrashes,    \* bound: process crashes
    CrashPoints    \* the phases of a fetch in which the process may crash

Phases == {"idle", "load", "create", "header", "stripe", "single", "export", "stream"}

ASSUME StripedFetchAssumption ==
    /\ NumPieces \in Nat \ {0}
    /\ {BaseAttempts, FailBudget, MaxPeers, MaxOpens, MaxRefreshes, MaxCrashes} \subseteq Nat
    /\ IsFiniteSet(Providers) /\ IsFiniteSet(Lanes)
    /\ CrashPoints \subseteq Phases

VARIABLES
    path,      \* the file at scratch_path, 0 when there is none
    disk,      \* the files created so far
    journal,   \* the .stripes file
    fetch,     \* per fetch: the local state of open and StripeShared
    peer,      \* per fetch and peer: in the swarm or not, consecutive failures
    lane,      \* per fetch, peer and lane
    cleanup,   \* the background removal a Stop has handed off
    opens, refreshes, crashes

bounds == <<opens, refreshes, crashes>>
files == <<path, disk, journal>>
stripedVars == <<path, disk, journal, fetch, peer, lane, cleanup, bounds>>

Pieces == 1 .. NumPieces

FileType == [full : BOOLEAN, right : SUBSET Pieces]

(* `torn`: how far the last line got before a crash; `garbled`: a line that
   parses to a pair outside the grid. *)
JournalType == [there : BOOLEAN, lines : SUBSET Pieces, garbled : BOOLEAN,
                torn : {"no", "start", "space", "pair"}, last : 0 .. NumPieces]
NoJournal == [there |-> FALSE, lines |-> {}, garbled |-> FALSE, torn |-> "no", last |-> 0]

(* cut: the file was truncated under the piece this lane is receiving. *)
IdleLane == [st |-> "gone", piece |-> 0, tries |-> 0, file |-> 0, cut |-> FALSE]

NoFetch == [phase |-> "idle", queue |-> <<>>, left |-> 0, fatal |-> FALSE, limit |-> 0,
            journaling |-> FALSE, cancel |-> "no", file |-> 0]

StripedTypeOK ==
    /\ path \in 0 .. Len(disk)
    /\ disk \in Seq(FileType)
    /\ journal \in JournalType
    /\ \A f \in Fetches :
        /\ fetch[f].phase \in Phases
        /\ fetch[f].queue \in Seq(Pieces \X Nat)
        /\ fetch[f].left \in 0 .. NumPieces
        /\ fetch[f].fatal \in BOOLEAN /\ fetch[f].journaling \in BOOLEAN
        /\ fetch[f].limit \in Nat
        /\ fetch[f].cancel \in {"no", "pause", "stop"}
        /\ fetch[f].file \in 0 .. Len(disk)
        /\ \A p \in Providers :
            /\ peer[f][p].st \in {"out", "dialing", "up"}
            /\ peer[f][p].fails \in 0 .. FailBudget + Cardinality(Lanes)
            /\ \A l \in Lanes :
                /\ lane[f][p][l].st \in {"gone", "idle", "busy", "append"}
                /\ lane[f][p][l].piece \in 0 .. NumPieces
                /\ lane[f][p][l].tries \in 0 .. fetch[f].limit
                /\ lane[f][p][l].file \in 0 .. Len(disk)
    /\ cleanup \in [Fetches -> {"none", "file", "journal"}]

StripedInit ==
    /\ path = 0 /\ disk = <<>> /\ journal = NoJournal
    /\ fetch = [f \in Fetches |-> NoFetch]
    /\ peer = [f \in Fetches |-> [p \in Providers |-> [st |-> "out", fails |-> 0]]]
    /\ lane = [f \in Fetches |-> [p \in Providers |-> [l \in Lanes |-> IdleLane]]]
    /\ cleanup = [f \in Fetches |-> "none"]
    /\ opens = 0 /\ refreshes = 0 /\ crashes = 0

-----------------------------------------------------------------------------
(* The journal *)

(* Mutant: the length of the scratch file is not compared. *)
LoadedAnySize == IF path # 0 /\ journal.there /\ ~journal.garbled THEN journal.lines ELSE {}

(* load_stripe_journal and the comparison with the grid in fetch_striped:
   the pieces a fetch takes as done. *)
Loaded ==
    IF path # 0 /\ disk[path].full /\ journal.there /\ ~journal.garbled
    THEN journal.lines
    ELSE {}

(* writeln! in complete_piece.  After a torn line the first append continues
   that line: the start of a piece followed by "start end" parses to another
   pair, unless the torn start was the 0 of the first piece; the other two
   merged lines do not parse at all. *)
AppendLine(j, piece) ==
    [j EXCEPT
        !.lines = CASE j.torn = "no" -> @ \cup {piece}
                    [] j.torn = "start" /\ j.last = 1 -> @ \cup {piece}
                    [] j.torn = "pair" -> @ \ {j.last}
                    [] OTHER -> @,
        !.garbled = @ \/ (j.torn = "start" /\ j.last # 1),
        !.torn = "no",
        !.last = piece]

(* A crash in the middle of writeln!, which writes the two numbers, the
   space and the newline one after the other. *)
TornAppends(j, piece) ==
    {[j EXCEPT !.torn = t, !.last = piece,
               !.lines = IF t = "pair" THEN @ \cup {piece} ELSE @]
        : t \in {"start", "space", "pair"}}

(* Removing the journal also cuts off the fetches that append to it. *)
RemoveJournal ==
    /\ journal' = NoJournal
    /\ fetch' = [g \in Fetches |-> [fetch[g] EXCEPT !.journaling = FALSE]]

-----------------------------------------------------------------------------
(* IrohAdapter::open and the start of fetch_striped *)

Appending(f) == \E p \in Providers, l \in Lanes : lane[f][p][l].st = "append"

(* open: a leftover without a journal is removed.  A blob of fewer than two
   pieces is not striped.  An aborted lane is taken to have finished its
   journal line before the transfer is opened again. *)
IrohOpen(f) ==
    /\ fetch[f].phase = "idle" /\ opens < MaxOpens
    /\ ~Appending(f)
    /\ path' = IF journal.there THEN path ELSE 0
    /\ fetch' = [fetch EXCEPT ![f] =
                    [NoFetch EXCEPT !.phase = IF NumPieces >= 2 THEN "load" ELSE "single"]]
    /\ opens' = opens + 1
    /\ UNCHANGED <<disk, journal, peer, lane, cleanup, refreshes, crashes>>

(* A set of pieces in the order of the blob: the filter over `all`. *)
InOrder(S) ==
    [i \in 1 .. Cardinality(S) |->
        CHOOSE x \in S : Cardinality({y \in S : y <= x}) = i]

(* The swarm of `nodes`; `done` are the pieces that need no fetching. *)
BeginStriping(f, done, nodes, j) ==
    /\ fetch' = [fetch EXCEPT ![f].phase = "stripe",
                              ![f].queue = [i \in 1 .. Cardinality(Pieces \ done) |->
                                              <<InOrder(Pieces \ done)[i], 0>>],
                              ![f].left = Cardinality(Pieces \ done),
                              ![f].limit = IF Cardinality(nodes) + 2 > BaseAttempts
                                           THEN Cardinality(nodes) + 2 ELSE BaseAttempts,
                              ![f].journaling = j.there]
    /\ peer' = [peer EXCEPT ![f] = [p \in Providers |->
                    [st |-> IF p \in nodes THEN "dialing" ELSE "out", fails |-> 0]]]

(* fetch_striped up to the choice between a resume and a fresh start.  With
   every piece in the journal it returns at once. *)
Load(f) ==
    /\ fetch[f].phase = "load"
    /\ \/ /\ Loaded = {}
          /\ fetch' = [fetch EXCEPT ![f].phase = "create"]
          /\ UNCHANGED <<journal, peer>>
       \/ /\ Loaded = Pieces
          /\ journal' = NoJournal
          /\ fetch' = [g \in Fetches |-> [fetch[g] EXCEPT
                          !.journaling = FALSE,
                          !.phase = IF g = f THEN "stream" ELSE @,
                          !.file = IF g = f THEN path ELSE @]]
          /\ UNCHANGED peer
       \/ /\ Loaded \notin {{}, Pieces}
          /\ \E nodes \in SUBSET Providers \ {{}} : BeginStriping(f, Loaded, nodes, journal)
          /\ UNCHANGED journal
    /\ UNCHANGED <<path, disk, lane, cleanup, bounds>>

(* File::create and set_len: a file that is there is truncated in place. *)
Create(f) ==
    /\ fetch[f].phase = "create"
    /\ IF path = 0
       THEN /\ disk' = Append(disk, [full |-> TRUE, right |-> {}])
            /\ path' = Len(disk) + 1
            /\ UNCHANGED lane
       ELSE /\ disk' = [disk EXCEPT ![path].full = TRUE, ![path].right = {}]
            /\ lane' = [g \in Fetches |-> [p \in Providers |-> [l \in Lanes |->
                          [lane[g][p][l] EXCEPT
                              !.cut = lane[g][p][l].file = path /\ lane[g][p][l].st = "busy"]]]]
            /\ UNCHANGED path
    /\ fetch' = [fetch EXCEPT ![f].phase = "header"]
    /\ UNCHANGED <<journal, peer, cleanup, bounds>>

(* The journal of an earlier attempt is overwritten by a header. *)
WriteHeader(f) ==
    /\ fetch[f].phase = "header"
    /\ journal' = [NoJournal EXCEPT !.there = TRUE]
    /\ \E nodes \in SUBSET Providers \ {{}} : BeginStriping(f, {}, nodes, journal')
    /\ UNCHANGED <<path, disk, lane, cleanup, bounds>>

-----------------------------------------------------------------------------
(* spawn_stripe_peer *)

Striping(f) == fetch[f].phase = "stripe"
ActivePeers(f) == {p \in Providers : peer[f][p].st # "out"}

(* The connection is up: every lane opens the scratch file, and leaves when
   there is none. *)
Connect(f, p) ==
    /\ peer[f][p].st = "dialing"
    /\ peer' = [peer EXCEPT ![f][p].st = "up"]
    /\ lane' = [lane EXCEPT ![f][p] = [l \in Lanes |->
                    [IdleLane EXCEPT !.st = IF path = 0 THEN "gone" ELSE "idle", !.file = path]]]
    /\ UNCHANGED <<files, fetch, cleanup, bounds>>

ConnectFails(f, p) ==
    /\ peer[f][p].st = "dialing"
    /\ peer' = [peer EXCEPT ![f][p].st = "out"]
    /\ UNCHANGED <<files, fetch, lane, cleanup, bounds>>

(* What ends a lane's loop before it looks at the queue. *)
MustLeave(f, p) ==
    fetch[f].fatal \/ fetch[f].cancel # "no" \/ peer[f][p].fails >= FailBudget

Take(f, p, l) ==
    /\ lane[f][p][l].st = "idle" /\ ~MustLeave(f, p)
    /\ fetch[f].queue # <<>>
    /\ lane' = [lane EXCEPT ![f][p][l] =
                    [@ EXCEPT !.st = "busy", !.cut = FALSE,
                              !.piece = Head(fetch[f].queue)[1],
                              !.tries = Head(fetch[f].queue)[2]]]
    /\ fetch' = [fetch EXCEPT ![f].queue = Tail(@)]
    /\ UNCHANGED <<files, peer, cleanup, bounds>>

(* A lane leaves: told to, or the queue is empty and either everything is
   done or nothing has come back to the queue for 200 polls. *)
LaneLeaves(f, p, l) ==
    /\ lane[f][p][l].st = "idle"
    /\ MustLeave(f, p) \/ fetch[f].queue = <<>>
    /\ lane' = [lane EXCEPT ![f][p][l] = IdleLane]
    /\ UNCHANGED <<files, fetch, peer, cleanup, bounds>>

(* get_blob_range has verified and written the piece, and complete_piece has
   counted it. *)
Received(f, p, l) ==
    /\ lane[f][p][l].st = "busy"
    /\ \E whole \in IF lane[f][p][l].cut THEN BOOLEAN ELSE {TRUE} :
          disk' = [disk EXCEPT ![lane[f][p][l].file].right =
                      IF whole THEN @ \cup {lane[f][p][l].piece} ELSE @]
    /\ lane' = [lane EXCEPT ![f][p][l] = [@ EXCEPT !.st = "append", !.tries = 0]]
    /\ peer' = [peer EXCEPT ![f][p].fails = 0]
    /\ fetch' = [fetch EXCEPT ![f].left = @ - 1]
    /\ UNCHANGED <<path, journal, cleanup, bounds>>

(* The journal line of complete_piece; a removed journal takes it along. *)
Journal(f, p, l) ==
    /\ lane[f][p][l].st = "append"
    /\ journal' = IF fetch[f].journaling THEN AppendLine(journal, lane[f][p][l].piece)
                                         ELSE journal
    /\ lane' = [lane EXCEPT ![f][p][l] =
                    IF Striping(f) THEN [@ EXCEPT !.st = "idle", !.piece = 0, !.tries = 0]
                                   ELSE IdleLane]
    /\ UNCHANGED <<path, disk, fetch, peer, cleanup, bounds>>

(* Mutant: a piece out of attempts is dropped without setting fatal. *)
RequeueOrDrop(fe, piece, tries) ==
    IF tries >= fe.limit THEN fe ELSE [fe EXCEPT !.queue = Append(@, <<piece, tries>>)]

(* The peer fails or stalls: requeue_piece, at the end of the queue. *)
Requeue(fe, piece, tries) ==
    IF tries >= fe.limit THEN [fe EXCEPT !.fatal = TRUE]
                         ELSE [fe EXCEPT !.queue = Append(@, <<piece, tries>>)]

(* Mutant: a stalled piece goes back without being counted as a failure. *)
LaneFailsUncounted(f, p, l) ==
    /\ lane[f][p][l].st = "busy"
    /\ fetch' = [fetch EXCEPT ![f] = Requeue(@, lane[f][p][l].piece, lane[f][p][l].tries)]
    /\ lane' = [lane EXCEPT ![f][p][l] = [@ EXCEPT !.st = "idle", !.piece = 0, !.tries = 0]]
    /\ UNCHANGED <<files, peer, cleanup, bounds>>

LaneFails(f, p, l) ==
    /\ lane[f][p][l].st = "busy"
    /\ peer' = [peer EXCEPT ![f][p].fails = @ + 1]
    /\ fetch' = [fetch EXCEPT ![f] = Requeue(@, lane[f][p][l].piece, lane[f][p][l].tries + 1)]
    /\ lane' = [lane EXCEPT ![f][p][l] = [@ EXCEPT !.st = "idle", !.piece = 0, !.tries = 0]]
    /\ UNCHANGED <<files, cleanup, bounds>>

(* All lanes have ended: the ActiveGuard takes the peer out of the swarm. *)
PeerLeaves(f, p) ==
    /\ peer[f][p].st = "up"
    /\ \A l \in Lanes : lane[f][p][l].st = "gone"
    /\ peer' = [peer EXCEPT ![f][p] = [st |-> "out", fails |-> 0]]
    /\ UNCHANGED <<files, fetch, lane, cleanup, bounds>>

-----------------------------------------------------------------------------
(* The driver of fetch_striped *)

(* An answer of the tracker: providers that are not in the swarm join it, up
   to MAX_STRIPE_PEERS, and every piece gets attempts for them. *)
Refresh(f) ==
    /\ Striping(f) /\ fetch[f].left > 0 /\ refreshes < MaxRefreshes
    /\ \E fresh \in SUBSET (Providers \ ActivePeers(f)), joined \in SUBSET Providers :
        /\ fresh # {} /\ joined \subseteq fresh
        /\ Cardinality(joined) =
              IF Cardinality(ActivePeers(f)) >= MaxPeers THEN 0
              ELSE IF Cardinality(fresh) < MaxPeers - Cardinality(ActivePeers(f))
                   THEN Cardinality(fresh) ELSE MaxPeers - Cardinality(ActivePeers(f))
        /\ fetch' = [fetch EXCEPT ![f].limit =
              IF @ < Cardinality(ActivePeers(f)) + Cardinality(fresh) + 2
              THEN Cardinality(ActivePeers(f)) + Cardinality(fresh) + 2 ELSE @]
        /\ peer' = [peer EXCEPT ![f] = [p \in Providers |->
              IF p \in joined THEN [st |-> "dialing", fails |-> 0] ELSE peer[f][p]]]
    /\ refreshes' = refreshes + 1
    /\ UNCHANGED <<files, lane, cleanup, opens, crashes>>

(* abort_all: a lane inside complete_piece runs to the end of it. *)
AbortLanes(f) ==
    /\ peer' = [peer EXCEPT ![f] = [p \in Providers |-> [st |-> "out", fails |-> 0]]]
    /\ lane' = [lane EXCEPT ![f] = [p \in Providers |-> [l \in Lanes |->
                    IF lane[f][p][l].st = "append" THEN lane[f][p][l] ELSE IdleLane]]]

(* StripeShared is dropped; the journal handle lives on in an aborted lane. *)
Leave(fe, phase) ==
    [NoFetch EXCEPT !.phase = phase, !.journaling = fe.journaling, !.cancel = fe.cancel]

(* The open that follows a successful fetch; without a file it is an error. *)
DeliverBlob(fe, ino) ==
    IF ino = 0 THEN [Leave(fe, "idle") EXCEPT !.cancel = "no"] ELSE [Leave(fe, "stream") EXCEPT !.file = ino]

(* Mutant: an empty queue is taken for completion. *)
DrainedQueue(f) ==
    /\ Striping(f) /\ ActivePeers(f) = {}
    /\ IF fetch[f].queue = <<>>
       THEN /\ journal' = NoJournal
            /\ fetch' = [fetch EXCEPT ![f] = DeliverBlob([@ EXCEPT !.journaling = FALSE], path)]
       ELSE /\ fetch' = [fetch EXCEPT ![f] = Leave(@, "single")]
            /\ UNCHANGED journal
    /\ UNCHANGED <<path, disk, peer, lane, cleanup, bounds>>

(* The last peer has left. *)
Drained(f) ==
    /\ Striping(f) /\ ActivePeers(f) = {}
    /\ IF fetch[f].left = 0
       THEN /\ journal' = NoJournal
            /\ fetch' = [g \in Fetches |->
                  LET gone == [fetch[g] EXCEPT !.journaling = FALSE]
                  IN IF g = f THEN DeliverBlob(gone, path) ELSE gone]
       ELSE /\ fetch' = [fetch EXCEPT ![f] = Leave(@, "single")]
            /\ UNCHANGED journal
    /\ UNCHANGED <<path, disk, peer, lane, cleanup, bounds>>

(* No progress for too long: fatal, and the single-peer download is next. *)
Watchdog(f) ==
    /\ Striping(f)
    /\ AbortLanes(f)
    /\ fetch' = [fetch EXCEPT ![f] = Leave(@, "single")]
    /\ UNCHANGED <<files, cleanup, bounds>>

(* The user pauses or stops: only a flag. *)
Cancel(f, how) ==
    /\ fetch[f].phase # "idle" /\ fetch[f].cancel = "no"
    /\ fetch' = [fetch EXCEPT ![f].cancel = how]
    /\ UNCHANGED <<files, peer, lane, cleanup, bounds>>

(* A tick of fetch_striped or fetch_hash sees the flag.  After a Stop open
   hands the removal of the scratch file and the journal to a task. *)
IrohCancelled(f) ==
    /\ fetch[f].phase \in {"stripe", "single", "export"} /\ fetch[f].cancel # "no"
    /\ AbortLanes(f)
    /\ cleanup' = [cleanup EXCEPT ![f] = IF fetch[f].cancel = "stop" THEN "file" ELSE @]
    /\ fetch' = [fetch EXCEPT ![f] = [Leave(@, "idle") EXCEPT !.cancel = "no"]]
    /\ UNCHANGED <<files, bounds>>

RemoveScratch(f) ==
    /\ cleanup[f] = "file"
    /\ path' = 0
    /\ cleanup' = [cleanup EXCEPT ![f] = "journal"]
    /\ UNCHANGED <<disk, journal, fetch, peer, lane, bounds>>

RemoveStripes(f) ==
    /\ cleanup[f] = "journal"
    /\ RemoveJournal
    /\ cleanup' = [cleanup EXCEPT ![f] = "none"]
    /\ UNCHANGED <<path, disk, peer, lane, bounds>>

-----------------------------------------------------------------------------
(* fetch_hash and the stream *)

(* The blob is whole in the node's own store: a leftover at the destination
   is removed and the blob is moved there. *)
SingleDownloaded(f) ==
    /\ fetch[f].phase = "single"
    /\ path' = 0
    /\ fetch' = [fetch EXCEPT ![f].phase = "export"]
    /\ UNCHANGED <<disk, journal, peer, lane, cleanup, bounds>>

Export(f) ==
    /\ fetch[f].phase = "export"
    /\ disk' = Append(disk, [full |-> TRUE, right |-> Pieces])
    /\ path' = Len(disk) + 1
    /\ fetch' = [fetch EXCEPT ![f] = DeliverBlob(@, Len(disk) + 1)]
    /\ UNCHANGED <<journal, peer, lane, cleanup, bounds>>

(* The download or both exports fail, or the watchdog ends them. *)
SingleFails(f) ==
    /\ fetch[f].phase \in {"single", "export"}
    /\ fetch' = [fetch EXCEPT ![f] = [Leave(@, "idle") EXCEPT !.cancel = "no"]]
    /\ UNCHANGED <<files, peer, lane, cleanup, bounds>>

(* The engine has read the scratch file to its end. *)
IrohStreamEnds(f) ==
    /\ fetch[f].phase = "stream"
    /\ path' = 0
    /\ journal' = NoJournal
    /\ fetch' = [g \in Fetches |-> IF g = f THEN NoFetch
                                   ELSE [fetch[g] EXCEPT !.journaling = FALSE]]
    /\ UNCHANGED <<disk, peer, lane, cleanup, bounds>>

(* The engine drops the stream: a cancel, or bytes that do not verify. *)
StreamDropped(f) ==
    /\ fetch[f].phase = "stream"
    /\ fetch' = [fetch EXCEPT ![f] = NoFetch]
    /\ UNCHANGED <<files, peer, lane, cleanup, bounds>>

(* A crash between File::create and set_len leaves an empty file. *)
Unsized ==
    /\ \E f \in Fetches : fetch[f].phase = "create"
    /\ disk' = IF path = 0 THEN Append(disk, [full |-> FALSE, right |-> {}])
               ELSE [disk EXCEPT ![path].full = FALSE, ![path].right = {}]
    /\ path' = IF path = 0 THEN Len(disk) + 1 ELSE path

(* The process dies: files stay, a line being written may be torn. *)
IrohCrash ==
    /\ crashes < MaxCrashes
    /\ \A f \in Fetches : fetch[f].phase \in CrashPoints
    /\ \/ UNCHANGED journal
       \/ \E f \in Fetches, p \in Providers, l \in Lanes :
            /\ journal.torn = "no" /\ fetch[f].journaling /\ lane[f][p][l].st = "append"
            /\ journal' \in TornAppends(journal, lane[f][p][l].piece)
    /\ fetch' = [f \in Fetches |-> NoFetch]
    /\ peer' = [f \in Fetches |-> [p \in Providers |-> [st |-> "out", fails |-> 0]]]
    /\ lane' = [f \in Fetches |-> [p \in Providers |-> [l \in Lanes |-> IdleLane]]]
    /\ cleanup' = [f \in Fetches |-> "none"]
    /\ crashes' = crashes + 1
    /\ Unsized \/ UNCHANGED <<path, disk>>
    /\ UNCHANGED <<opens, refreshes>>

-----------------------------------------------------------------------------
LaneStep(f) ==
    \E p \in Providers :
        \/ Connect(f, p) \/ ConnectFails(f, p) \/ PeerLeaves(f, p)
        \/ \E l \in Lanes : \/ Take(f, p, l) \/ LaneLeaves(f, p, l) \/ Received(f, p, l)
                            \/ Journal(f, p, l) \/ LaneFails(f, p, l)

DriverStep(f) ==
    \/ Load(f) \/ Create(f) \/ WriteHeader(f) \/ Drained(f) \/ Watchdog(f) \/ IrohCancelled(f)
    \/ SingleDownloaded(f) \/ Export(f) \/ SingleFails(f) \/ IrohStreamEnds(f) \/ StreamDropped(f)

StripedNext ==
    \/ \E f \in Fetches :
        \/ IrohOpen(f) \/ LaneStep(f) \/ DriverStep(f) \/ Refresh(f)
        \/ \E how \in {"pause", "stop"} : Cancel(f, how)
        \/ RemoveScratch(f) \/ RemoveStripes(f)
    \/ IrohCrash

StripedSpec == StripedInit /\ [][StripedNext]_stripedVars

(* The runtime polls every task and timer of a fetch; nothing is assumed of
   the user, the tracker and crashes. *)
StripedFairSpec == StripedSpec /\ \A f \in Fetches : WF_stripedVars(LaneStep(f) \/ DriverStep(f))

-----------------------------------------------------------------------------
BusyLanes(f) == {x \in Providers \X Lanes : lane[f][x[1]][x[2]].st = "busy"}
Held(f) == {lane[f][x[1]][x[2]].piece : x \in BusyLanes(f)}
Queued(f) == {fetch[f].queue[i][1] : i \in 1 .. Len(fetch[f].queue)}

(* No piece is lost or handed out twice: while a swarm works, the pieces that
   are left are in the queue or with one lane each, however lanes fail, leave
   and join, and only a piece that ran out of attempts (fatal) is missing.
   pieces_left is what decides that the blob is complete (fetch_striped). *)
PiecesConserved ==
    \A f \in Fetches : Striping(f) =>
        /\ Queued(f) \cap Held(f) = {}
        /\ Cardinality(Queued(f)) = Len(fetch[f].queue)
        /\ Cardinality(Held(f)) = Cardinality(BusyLanes(f))
        /\ fetch[f].fatal \/ fetch[f].left = Len(fetch[f].queue) + Cardinality(BusyLanes(f))

(* The pieces a resume would take from the journal are in the scratch file,
   through crashes, torn lines, stops and their late clean-up, fallbacks and
   ignored leftovers (load_stripe_journal).  Between the pre-sizing of a new
   file and the new header the old lines are still there.  A crash at that
   point, with "header" in CrashPoints, makes this and DeliversWhole false. *)
JournalSound ==
    (\A f \in Fetches : fetch[f].phase # "header") /\ Loaded # {} =>
        Loaded \subseteq disk[path].right

(* What open hands to the engine is the whole blob: a fetch that counts its
   pieces down to zero or resumes a complete journal has every one of them. *)
DeliversWhole ==
    \A f \in Fetches :
        fetch[f].phase = "stream" => fetch[f].file # 0 /\ disk[fetch[f].file].right = Pieces

(* A striped fetch loses no piece and hands none out twice, takes from its
   journal only what the scratch file holds, and delivers nothing but the
   whole blob. *)
StripedInv == StripedTypeOK /\ PiecesConserved /\ JournalSound /\ DeliversWhole

(* Every fetch comes to an end, even if the watchdog never fires: attempts
   per piece, failures per peer and the polls of an idle lane are bounded, so
   the swarm drains. *)
FetchEnds == \A f \in Fetches : fetch[f].phase # "idle" ~> fetch[f].phase = "idle"
=============================================================================

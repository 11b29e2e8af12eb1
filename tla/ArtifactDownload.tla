-------------------------- MODULE ArtifactDownload --------------------------
(***************************************************************************)
(* The bytes of one artifact: Engine::download_artifact with try_source,   *)
(* stream_once, stream_segmented, prepare_resume and finish_cancelled      *)
(* (crates/core/src/engine.rs), the StreamingVerifier (verify.rs), the     *)
(* commit and the quarantine of the content store (cas.rs) and the source  *)
(* health table (db.rs).                                                   *)
(*                                                                         *)
(* Content is a sequence of Size cells.  Cell i of the right content is    *)
(* the number i, so bytes at the wrong offset are wrong bytes; Bad is what *)
(* a poisoning source sends and Hole what set_len or a write past the end  *)
(* of the file leaves.  A digest matches exactly the right content.        *)
(*                                                                         *)
(* One run at a time writes the .part file (module Transfers is about      *)
(* that); between two runs there may be a pause, a stop, a failure or a    *)
(* crash, and all of them leave the .part and the downloads row behind for *)
(* the next run to find.                                                   *)
(***************************************************************************)
EXTENDS Naturals, Sequences, FiniteSets

CONSTANTS
    Source,         \* the sources of the artifact that policy allows
    Http,           \* those that take byte ranges (http_range_class)
    Nobody,         \* no source
    Size,           \* cells of the artifact
    LeafSize,       \* cells of a leaf of the chunk tree
    SegmentMin,     \* SEGMENT_MIN_BYTES, in cells
    Connections,    \* max_download_connections
    EmitEvery,      \* the 4 MiB between two updates of the row, in cells
    MaxAttempts,    \* max_attempts_per_source
    MaxRuns,        \* bound: runs of download_artifact
    MaxBans         \* bound: bans that other transfers record meanwhile

ASSUME ArtifactAssumption ==
    /\ IsFiniteSet(Source)
    /\ Http \subseteq Source
    /\ Nobody \notin Source
    /\ Size \in Nat \ {0}
    /\ LeafSize \in Nat \ {0}
    /\ SegmentMin \in Nat \ {0}
    /\ Connections \in Nat \ {0}
    /\ EmitEvery \in Nat
    /\ MaxAttempts \in Nat \ {0}
    /\ MaxRuns \in Nat
    /\ MaxBans \in Nat

VARIABLES
    world,      \* what the artifact declares and what its sources are like
    part,       \* the .part file, empty or absent: <<>>
    rowSource,  \* source_id of the downloads row
    blob,       \* the blob under the artifact's hash, none: <<>>
    indexed,    \* the cache index resolves the artifact's digest
    banned,     \* sources under an active ban
    quarantine, \* sources named by the quarantine table
    cancel,     \* what the transfer's control asks of the run
    pc,         \* where the run is
    run,        \* its locals
    fed,        \* what its StreamingVerifier has consumed
    outcome,    \* how the last run ended
    runs, bans

durable == <<part, rowSource, blob, indexed>>
health == <<banned, quarantine>>
local == <<pc, run, fed>>
vars == <<world, durable, health, cancel, local, outcome, runs, bans>>

Bad == 0
Hole == Size + 1
Cell == 0 .. Size + 1

(* The right content. *)
Content == [i \in 1 .. Size |-> i]

(* known: size_bytes is not 0; tree: a chunk tree that matches the signed
   root is cached; blake3: the manifest declares a blake3 digest, and not
   only a sha256.
   corrupt: sources that may send wrong bytes; reliable: sources that
   always answer and never break off. *)
Worlds ==
    {w \in [known : BOOLEAN, tree : BOOLEAN, blake3 : BOOLEAN,
            corrupt : SUBSET Source, reliable : SUBSET Source] :
        /\ w.tree => w.known /\ w.blake3
        /\ w.corrupt \cap w.reliable = {}}

(* The connections a segmented download opens, and their half-open ranges. *)
Segments == 0 .. Connections - 1
SegmentCount ==
    IF Size \div SegmentMin < Connections THEN Size \div SegmentMin ELSE Connections
SegmentSize == (Size + SegmentCount - 1) \div SegmentCount
SegmentStart(k) == IF k * SegmentSize < Size THEN k * SegmentSize ELSE Size
SegmentEnd(k) == IF (k + 1) * SegmentSize < Size THEN (k + 1) * SegmentSize ELSE Size

NoRun == [todo |-> <<>>, source |-> Nobody, owner |-> Nobody, attempts |-> 0,
          pos |-> 0, emitted |-> 0, next |-> [k \in Segments |-> 0]]

PCs == {"idle", "discover", "next", "segment", "segverify", "attempt", "open",
        "stream", "poisoned", "commit", "finalize"}

Outcomes == {"none", "ok", "cached", "Cancelled", "Stopped", "failed",
             "NoEligibleSource", "crashed"}

RunType ==
    [todo : Seq(Source), source : Source \cup {Nobody}, owner : Source \cup {Nobody},
     attempts : 0 .. MaxAttempts, pos : 0 .. Size, emitted : 0 .. Size,
     next : [Segments -> 0 .. Size]]

TypeOK ==
    /\ world \in Worlds
    /\ part \in Seq(Cell) /\ Len(part) <= Size
    /\ rowSource \in Source \cup {Nobody}
    /\ blob \in Seq(Cell)
    /\ indexed \in BOOLEAN
    /\ banned \subseteq Source
    /\ quarantine \subseteq Source
    /\ cancel \in {"no", "pause", "stop"}
    /\ pc \in PCs
    /\ run \in RunType
    /\ fed \in Seq(Cell) /\ Len(fed) <= Size
    /\ outcome \in Outcomes
    /\ runs \in 0 .. MaxRuns
    /\ bans \in 0 .. MaxBans

Init ==
    /\ world \in Worlds
    /\ part = <<>>
    /\ rowSource = Nobody
    /\ blob = <<>>
    /\ indexed = FALSE
    /\ banned = {}
    /\ quarantine = {}
    /\ cancel = "no"
    /\ pc = "idle"
    /\ run = NoRun
    /\ fed = <<>>
    /\ outcome = "none"
    /\ runs = 0
    /\ bans = 0

----------------------------------------------------------------------------
(* Helpers *)

(* Writing cell c at offset `at` of file p; a gap reads as zeroes. *)
WriteAt(p, at, c) ==
    [i \in 1 .. IF at < Len(p) THEN Len(p) ELSE at + 1 |->
        IF i = at + 1 THEN c ELSE IF i <= Len(p) THEN p[i] ELSE Hole]

(* StreamingVerifier::feed: with a chunk tree every complete leaf is right. *)
LeavesMatch(c) ==
    world.tree => \A i \in 1 .. (Len(c) \div LeafSize) * LeafSize : c[i] = i

(* Mutant: with a chunk tree the trailing partial leaf is not looked at. *)
MatchesLeaves(c) ==
    IF world.tree THEN Len(c) = Size /\ LeavesMatch(c) ELSE c = Content

(* StreamingVerifier::finish: size, trailing leaf and digests. *)
Matches(c) == c = Content

(* What a source may send for the cell at offset `at`. *)
Sent(s, at) == {at + 1} \cup IF s \in world.corrupt THEN {Bad} ELSE {}

Cancelled == cancel # "no"

(* The run is over; its locals are gone. *)
Return(o) ==
    /\ pc' = "idle"
    /\ run' = NoRun
    /\ fed' = <<>>
    /\ outcome' = o

(* finish_cancelled, on a .part file p and a row of source s: a stop deletes
   both, a pause keeps both. *)
FinishCancelled(p, s) ==
    /\ part' = IF cancel = "stop" THEN <<>> ELSE p
    /\ rowSource' = IF cancel = "stop" THEN Nobody ELSE s
    /\ Return(IF cancel = "stop" THEN "Stopped" ELSE "Cancelled")
    /\ UNCHANGED <<blob, indexed, health>>

(* The next source of the plan, when source s has failed and left p. *)
Failover(p, s) ==
    /\ pc' = "next"
    /\ run' = [NoRun EXCEPT !.todo = Tail(run.todo),
                            !.owner = IF p = <<>> THEN Nobody ELSE s]
    /\ fed' = <<>>
    /\ UNCHANGED outcome

(* The row's source_id once `done` cells are in. *)
Emits(done) == done - run.emitted > EmitEvery \/ (world.known /\ done = Size)

----------------------------------------------------------------------------
(* download_artifact: cache, plan, and the loop over the plan *)

(* Any order: the score depends on latency, preference and past results. *)
Plans == {p \in [1 .. Cardinality(Source \ banned) -> Source \ banned] :
            \A i, j \in DOMAIN p : p[i] = p[j] => i = j}

Cached == indexed \/ (world.blake3 /\ blob # <<>>)

CacheHit ==
    /\ pc = "idle" /\ runs < MaxRuns
    /\ Cached
    /\ indexed' = TRUE
    /\ outcome' = "cached"
    /\ runs' = runs + 1
    /\ UNCHANGED <<world, part, rowSource, blob, health, cancel, local, bans>>

Start ==
    /\ pc = "idle" /\ runs < MaxRuns
    /\ ~Cached
    /\ pc' = "discover"
    /\ cancel' = "no"
    /\ outcome' = "none"
    /\ runs' = runs + 1
    /\ UNCHANGED <<world, durable, health, run, fed, bans>>

LeaveDiscovery ==
    /\ pc = "discover" /\ Cancelled
    /\ Return(IF cancel = "stop" THEN "Stopped" ELSE "Cancelled")
    /\ UNCHANGED <<durable, health>>

NoEligibleSource ==
    /\ pc = "discover" /\ ~Cancelled
    /\ Source \subseteq banned
    /\ Return("NoEligibleSource")
    /\ UNCHANGED <<durable, health>>

(* The row is upserted and keeps its source_id.  Without a chunk tree a .part
   of unknown origin is dropped. *)
Plan ==
    /\ pc = "discover" /\ ~Cancelled
    /\ \E plan \in Plans :
        /\ plan # <<>>
        /\ run' = [NoRun EXCEPT !.todo = plan,
                                !.owner = IF world.tree \/ part = <<>>
                                            THEN Nobody ELSE rowSource]
    /\ part' = IF ~world.tree /\ rowSource = Nobody THEN <<>> ELSE part
    /\ pc' = "next"
    /\ UNCHANGED <<rowSource, blob, indexed, health, fed, outcome>>

SourcesExhausted ==
    /\ pc = "next" /\ run.todo = <<>>
    /\ Return("failed")
    /\ UNCHANGED <<durable, health>>

LoopCancelled ==
    /\ pc = "next" /\ run.todo # <<>> /\ Cancelled
    /\ FinishCancelled(part, rowSource)

(* Mutant: a source banned meanwhile ends the loop. *)
BreakOnBanned ==
    /\ pc = "next" /\ run.todo # <<>> /\ ~Cancelled
    /\ Head(run.todo) \in banned
    /\ Return("failed")
    /\ UNCHANGED <<durable, health>>

SkipBanned ==
    /\ pc = "next" /\ run.todo # <<>> /\ ~Cancelled
    /\ Head(run.todo) \in banned
    /\ run' = [run EXCEPT !.todo = Tail(@)]
    /\ UNCHANGED <<durable, health, pc, fed, outcome>>

(* Without a chunk tree the partial of another source is dropped. *)
Inherited(s) ==
    IF ~world.tree /\ run.owner \notin {Nobody, s} THEN <<>> ELSE part

(* The source in turn: it may want a token we do not have; it is fetched over
   several connections when the file is fresh, large and of a source that takes
   ranges and the speed is not capped; otherwise it is streamed. *)
Segmentable(s) ==
    /\ world.known /\ Connections > 1 /\ Size >= 2 * SegmentMin
    /\ s \in Http
    /\ Inherited(s) = <<>>

TrySource ==
    /\ pc = "next" /\ run.todo # <<>> /\ ~Cancelled
    /\ LET s == Head(run.todo) IN
        /\ s \notin banned
        /\ \/ /\ s \notin world.reliable
              /\ part' = Inherited(s)
              /\ Failover(Inherited(s), s)
           \/ /\ part' = Inherited(s)
              /\ pc' = "attempt"
              /\ run' = [run EXCEPT !.source = s]
              /\ UNCHANGED <<fed, outcome>>
           \/ /\ Segmentable(s)
              /\ part' = [i \in 1 .. Size |-> Hole]
              /\ pc' = "segment"
              /\ run' = [run EXCEPT !.source = s,
                                    !.next = [k \in Segments |-> SegmentStart(k)]]
              /\ UNCHANGED <<fed, outcome>>
    /\ UNCHANGED <<rowSource, blob, indexed, health>>

----------------------------------------------------------------------------
(* stream_segmented *)

(* next[k] is the offset connection k writes at. *)
Unfinished(k) == run.next[k] < SegmentEnd(k)

SegmentChunk(k) ==
    /\ pc = "segment" /\ ~Cancelled
    /\ Unfinished(k)
    /\ \E c \in Sent(run.source, run.next[k]) :
        LET file == WriteAt(part, run.next[k], c)
            done == Cardinality({i \in 1 .. Size : file[i] # Hole})
        IN  /\ part' = file
            /\ run' = [run EXCEPT !.next[k] = @ + 1,
                                  !.emitted = IF Emits(done) THEN done ELSE @]
            /\ rowSource' = IF Emits(done) THEN run.source ELSE rowSource
    /\ UNCHANGED <<blob, indexed, health, pc, fed, outcome>>

(* A connection is refused, ignores its range or breaks off; the first error
   drops the others, and try_source empties the file and streams instead. *)
SegmentFails ==
    /\ pc = "segment"
    /\ \E k \in Segments : Unfinished(k)
    /\ part' = <<>>
    /\ pc' = "attempt"
    /\ run' = [run EXCEPT !.next = NoRun.next, !.emitted = 0]
    /\ UNCHANGED <<rowSource, blob, indexed, health, fed, outcome>>

(* Seen by a connection or after the join: reset_segmented_partial. *)
SegmentCancelled ==
    /\ pc = "segment" /\ Cancelled
    /\ FinishCancelled(<<>>, run.source)

SegmentsJoined ==
    /\ pc = "segment" /\ ~Cancelled
    /\ \A k \in Segments : ~Unfinished(k)
    /\ pc' = "segverify"
    /\ run' = [run EXCEPT !.next = NoRun.next, !.emitted = 0]
    /\ UNCHANGED <<durable, health, fed, outcome>>

(* verify_temp_full looks for a cancel between two reads.  A mismatch is no
   verdict on the source yet: the single stream decides. *)
VerifySegmented ==
    /\ pc = "segverify"
    /\ \/ /\ Cancelled
          /\ FinishCancelled(part, rowSource)
       \/ /\ Matches(part)
          /\ pc' = "commit"
          /\ UNCHANGED <<durable, health, run, fed, outcome>>
       \/ /\ ~Matches(part)
          /\ part' = <<>>
          /\ pc' = "attempt"
          /\ UNCHANGED <<rowSource, blob, indexed, health, run, fed, outcome>>

----------------------------------------------------------------------------
(* try_source and stream_once *)

(* Mutant: a file as long as the artifact counts as resumable. *)
ResumableWhole ==
    IF world.known /\ Len(part) <= Size /\ LeavesMatch(part) THEN part ELSE <<>>

(* The bytes an attempt starts from: never a file that is already as long as
   the artifact, nor any when the size is unknown, nor a bad leaf. *)
Resumable ==
    IF world.known /\ Len(part) < Size /\ LeavesMatch(part) THEN part ELSE <<>>

PrepareResume ==
    /\ pc = "attempt"
    /\ IF Cancelled /\ world.known /\ Len(part) \in 1 .. Size - 1
       THEN FinishCancelled(part, rowSource)
       ELSE /\ part' = Resumable
            /\ fed' = Resumable
            /\ pc' = "open"
            /\ run' = [run EXCEPT !.attempts = @ + 1]
            /\ UNCHANGED <<rowSource, blob, indexed, health, outcome>>

(* Mutant: a source that restarts at 0 leaves the old bytes in the file. *)
OpenWithoutTruncate ==
    /\ pc = "open"
    /\ \/ /\ run' = [run EXCEPT !.pos = Len(fed), !.emitted = 0]
          /\ UNCHANGED fed
       \/ /\ run' = [run EXCEPT !.pos = 0, !.emitted = 0]
          /\ fed' = <<>>
    /\ pc' = "stream"
    /\ UNCHANGED <<durable, health, outcome>>

(* The source continues at the offset asked for or restarts at 0; in that case
   file and verifier are both reset to it. *)
Open ==
    /\ pc = "open"
    /\ \/ /\ run' = [run EXCEPT !.pos = Len(fed), !.emitted = 0]
          /\ UNCHANGED <<part, fed>>
       \/ /\ run' = [run EXCEPT !.pos = 0, !.emitted = 0]
          /\ part' = <<>>
          /\ fed' = <<>>
    /\ pc' = "stream"
    /\ UNCHANGED <<rowSource, blob, indexed, health, outcome>>

(* Only the transports that fetch inside open() watch the control there. *)
OpenCancelled ==
    /\ pc = "open" /\ Cancelled
    /\ run.source \notin Http
    /\ FinishCancelled(part, rowSource)

(* Mutant: attempts are not counted against the limit. *)
RetryForever(retriable) ==
    IF retriable
      THEN /\ pc' = "attempt"
           /\ run' = [run EXCEPT !.pos = 0, !.emitted = 0, !.attempts = 0]
           /\ fed' = <<>>
           /\ UNCHANGED outcome
      ELSE Failover(part, run.source)

(* Mutant: one attempt too many. *)
RetryOnceMore(retriable) ==
    IF retriable /\ run.attempts <= MaxAttempts
      THEN /\ pc' = "attempt"
           /\ run' = [run EXCEPT !.pos = 0, !.emitted = 0]
           /\ fed' = <<>>
           /\ UNCHANGED outcome
      ELSE Failover(part, run.source)

(* A failed attempt: try again, or leave this source. *)
AttemptFailed(retriable) ==
    IF retriable /\ run.attempts < MaxAttempts
      THEN /\ pc' = "attempt"
           /\ run' = [run EXCEPT !.pos = 0, !.emitted = 0]
           /\ fed' = <<>>
           /\ UNCHANGED outcome
      ELSE Failover(part, run.source)

OpenFails ==
    /\ pc = "open"
    /\ run.source \notin world.reliable
    /\ \E retriable \in BOOLEAN : AttemptFailed(retriable)
    /\ UNCHANGED <<durable, health>>

(* record_source_result of an integrity failure: the source is banned. *)
Poisoned ==
    /\ banned' = banned \cup {run.source}
    /\ pc' = "poisoned"
    /\ UNCHANGED <<durable, quarantine, run, fed, outcome>>

(* A chunk arrives: the verifier sees it before the file does. *)
Receive ==
    /\ pc = "stream" /\ ~Cancelled
    /\ Len(fed) < Size /\ run.pos < Size
    /\ \E c \in Sent(run.source, run.pos) :
        LET done == run.pos + 1 IN
        IF LeavesMatch(Append(fed, c))
          THEN /\ fed' = Append(fed, c)
               /\ part' = WriteAt(part, run.pos, c)
               /\ run' = [run EXCEPT !.pos = done,
                                     !.emitted = IF Emits(done) THEN done ELSE @]
               /\ rowSource' = IF Emits(done) THEN run.source ELSE rowSource
               /\ UNCHANGED <<blob, indexed, health, pc, outcome>>
          ELSE Poisoned

(* More bytes than declared; of an unknown size, more than the disk can take. *)
TooManyBytes ==
    /\ pc = "stream" /\ ~Cancelled
    /\ IF world.known
         THEN run.pos = Size /\ run.source \in world.corrupt
         ELSE run.pos < Size
    /\ Poisoned

(* The control is looked at only when the stream yields something. *)
StreamCancelled ==
    /\ pc = "stream" /\ Cancelled
    /\ FinishCancelled(part, run.source)

StreamError ==
    /\ pc = "stream" /\ ~Cancelled
    /\ run.source \notin world.reliable
    /\ AttemptFailed(TRUE)
    /\ UNCHANGED <<durable, health>>

StreamEnds ==
    /\ pc = "stream"
    /\ run.source \in world.reliable => run.pos = Size
    /\ \/ /\ world.known /\ run.pos < Size
          /\ AttemptFailed(TRUE)
          /\ UNCHANGED <<durable, health>>
       \/ /\ world.known => run.pos = Size
          /\ Matches(fed)
          /\ pc' = "commit"
          /\ UNCHANGED <<durable, health, run, fed, outcome>>
       \/ /\ world.known => run.pos = Size
          /\ ~Matches(fed)
          /\ Poisoned

(* The .part moves to the quarantine and the source is named there. *)
Quarantine ==
    /\ pc = "poisoned"
    /\ part' = <<>>
    /\ quarantine' = quarantine \cup {run.source}
    /\ Failover(<<>>, run.source)
    /\ UNCHANGED <<rowSource, blob, indexed, banned>>

----------------------------------------------------------------------------
(* Commit, crash, and the rest of the process *)

(* commit_blob: the rename publishes the .part; a blob that is there stays. *)
Commit ==
    /\ pc = "commit"
    /\ blob' = IF blob = <<>> THEN part ELSE blob
    /\ part' = <<>>
    /\ pc' = "finalize"
    /\ UNCHANGED <<rowSource, indexed, health, run, fed, outcome>>

(* record_source_result of a success clears the ban; finalize_blob indexes. *)
Finalize ==
    /\ pc = "finalize"
    /\ banned' = banned \ {run.source}
    /\ indexed' = TRUE
    /\ Return("ok")
    /\ UNCHANGED <<part, rowSource, blob, quarantine>>

Crash ==
    /\ pc # "idle"
    /\ Return("crashed")
    /\ UNCHANGED <<world, durable, health, cancel, runs, bans>>

RequestPause ==
    /\ pc # "idle"
    /\ cancel' = "pause"
    /\ UNCHANGED <<world, durable, health, local, outcome, runs, bans>>

RequestStop ==
    /\ pc # "idle"
    /\ cancel' = "stop"
    /\ UNCHANGED <<world, durable, health, local, outcome, runs, bans>>

(* The health table is shared by all transfers. *)
BannedElsewhere(s) ==
    /\ pc # "idle" /\ bans < MaxBans
    /\ banned' = banned \cup {s}
    /\ bans' = bans + 1
    /\ UNCHANGED <<world, durable, quarantine, cancel, local, outcome, runs>>

(* ban_active: six hours.  A ban that ends during a run is one that ends after
   it: the plan of the run is made. *)
CooldownEnds(s) ==
    /\ pc = "idle" /\ runs < MaxRuns
    /\ s \in banned
    /\ banned' = banned \ {s}
    /\ UNCHANGED <<world, durable, quarantine, cancel, local, outcome, runs, bans>>

Step ==
    /\ \/ LeaveDiscovery \/ NoEligibleSource \/ Plan
       \/ SourcesExhausted \/ LoopCancelled \/ SkipBanned \/ TrySource
       \/ \E k \in Segments : SegmentChunk(k)
       \/ SegmentFails \/ SegmentCancelled \/ SegmentsJoined \/ VerifySegmented
       \/ PrepareResume \/ Open \/ OpenCancelled \/ OpenFails
       \/ Receive \/ TooManyBytes \/ StreamCancelled \/ StreamError \/ StreamEnds
       \/ Quarantine \/ Commit \/ Finalize
    /\ UNCHANGED <<world, cancel, runs, bans>>

Next ==
    \/ CacheHit \/ Start \/ Step
    \/ Crash \/ RequestPause \/ RequestStop
    \/ \E s \in Source : BannedElsewhere(s) \/ CooldownEnds(s)

Spec == Init /\ [][Next]_vars

(* Every await of a run ends: connections and reads time out, lookups are
   capped, file and database operations return. *)
Fairness == WF_vars(Step)
FairSpec == Spec /\ Fairness

----------------------------------------------------------------------------
(* Properties *)

(* The content store never holds a wrong byte under the artifact's hash,
   whatever the sources send and however the .part was put together: single
   stream, several connections, resumed, restarted at 0 (the commit is gated by
   what the verifier consumed, not by a look at the file). *)
CacheIsSound == blob # <<>> => blob = Content

(* While a source streams, the file holds exactly what the verifier has
   consumed and the next byte goes to its end (stream_once: the write offset,
   the byte counter and the verifier never desync). *)
Aligned ==
    pc = "stream" => part = fed /\ run.pos = Len(fed)

(* As long as every source is honest nobody is quarantined, whatever was
   interrupted, killed, restarted or resumed: a leftover of the engine's own
   .part never turns into an accusation.  For an artifact of known size, and
   sources that stream into that .part (files, http, mirrors).  A striped Iroh
   fetch delivers a whole file from its own scratch file instead, which may be
   wrong after a crash (module StripedFetch, "header" of CrashPoints); the
   engine then blames an honest peer. *)
HonestNeverBlamed ==
    world.known /\ world.corrupt = {} => quarantine = {}

(* A run gives up only when every reliable source is under a ban: poisoners,
   broken sources and unusable partials never cost the download. *)
GoodSourceSuffices ==
    [][pc # "idle" /\ outcome' \in {"failed", "NoEligibleSource"}
            => world.reliable \subseteq banned]_vars

(* A run that is left alone, or interrupted, comes to an end. *)
RunEnds == pc # "idle" ~> pc = "idle"

(* Who is quarantined has sent wrong bytes (download_artifact: resuming under
   a different source would misattribute the corruption of the original writer).
   The code does not keep this: see the README. *)
OnlyPoisonersBlamed == world.known /\ ~world.tree => quarantine \subseteq world.corrupt

============================================================================

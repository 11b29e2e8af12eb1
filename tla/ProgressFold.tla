---------------------------- MODULE ProgressFold ----------------------------
(***************************************************************************)
(* From the engine's progress events to the numbers on a transfer card:    *)
(* what download_artifact, try_source and stream_once report               *)
(* (crates/core/src/engine.rs) and how the desktop folds it into the       *)
(* session's throughput, the bytes per source of the receipt and the legs  *)
(* of the route (crates/desktop/src/main.rs), over retries of a source,    *)
(* failovers, splits that fall back to one stream, servers that ignore a   *)
(* range, quarantines, pauses and resumes, in one session of the app.      *)
(*                                                                         *)
(* One file without a Merkle tree, over HTTP sources, which fill the       *)
(* engine's own .part: the case in which the start that an attempt         *)
(* announces is where its bytes begin.  Events reach the card in order     *)
(* over one channel and the card is reset only after a run's Done, so an   *)
(* event is folded in the step that emits it.                              *)
(***************************************************************************)
EXTENDS Integers, Sequences

CONSTANTS
    Sources,
    Segmented,      \* the sources that serve ranges fast enough to be split
    Size,
    EmitEvery,      \* 4 MiB: bytes between two reports
    MaxTries,       \* max_attempts_per_source
    MaxAttempts     \* bound: connections announced

NoSource == "none"

VARIABLES
    temp,           \* the bytes of the .part that a single stream wrote
    rowSource,      \* source_id of the downloads row
    owner,          \* partial_owner of the run
    att,            \* the attempt under way
    tried,          \* the sources of the plan this run has been through
    st,             \* the run: "running", "idle" or "done"
    card,           \* the ActiveDownload
    counted,        \* App.cumulative_dl
    net,            \* history: bytes received, in all runs
    runNet,         \* history: per source, those received since the card was reset
    attempts

foldVars == <<temp, rowSource, owner, att, tried, st, card, counted, net, runNet, attempts>>

Zero == [s \in Sources |-> 0]

(* Where an attempt is: "split" for the segments of stream_segmented, "open" and
   "stream" for stream_once; its last_emit, zero as it begins. *)
NoAttempt == [src |-> NoSource, stage |-> "none", tries |-> 0, at |-> 0, last |-> 0]

(* reset_attempt_progress, and a new card. *)
FreshCard ==
    [done |-> 0, prev |-> 0, based |-> FALSE, by |-> Zero, source |-> NoSource, legs |-> <<>>,
     reason |-> NoSource]

Leg == [to : Sources, reason : Sources \cup {NoSource}]

FoldAssumption ==
    NoSource \notin Sources /\ Size \in Nat /\ EmitEvery \in Nat
    /\ MaxTries \in Nat \ {0} /\ MaxAttempts \in Nat

FoldTypeOK ==
    /\ temp \in 0 .. Size /\ {rowSource, owner, att.src} \subseteq Sources \cup {NoSource}
    /\ att.stage \in {"none", "split", "open", "stream"} /\ att.tries \in 0 .. MaxTries
    /\ att.at \in 0 .. Size /\ att.last \in 0 .. Size
    /\ tried \subseteq Sources /\ st \in {"running", "idle", "done"}
    /\ card.done \in 0 .. Size /\ card.prev \in 0 .. Size
    /\ card.by \in [Sources -> Nat] /\ card.legs \in Seq(Leg)
    /\ counted \in Nat /\ net \in Nat /\ runNet \in [Sources -> Nat]
    /\ attempts \in 0 .. MaxAttempts

Init ==
    /\ temp = 0 /\ rowSource = NoSource /\ owner = NoSource /\ att = NoAttempt /\ tried = {}
    /\ st = "running" /\ card = FreshCard /\ counted = 0 /\ net = 0 /\ runNet = Zero /\ attempts = 0

-----------------------------------------------------------------------------
(* fold_download_progress: the new base and the bytes that are news.  An event
   is [done, phase, start], where start is -1 unless an attempt begins. *)
Moves(ev) == ev.phase \in {"downloading", "verified"}

(* Mutant: the start of an attempt is not the new base. *)
FoldKeepsBase(c, ev) ==
    IF ev.start >= 0 \/ ~Moves(ev) THEN [prev |-> c.prev, based |-> c.based, delta |-> 0]
    ELSE LET base == IF ~c.based /\ c.prev = 0 THEN ev.done ELSE c.prev IN
        [prev |-> IF ev.done > base THEN ev.done ELSE base, based |-> TRUE,
         delta |-> IF ev.done > base THEN ev.done - base ELSE 0]

(* Mutant: every attempt is taken to begin at zero. *)
FoldFromZero(c, ev) ==
    IF ev.start >= 0 THEN [prev |-> 0, based |-> TRUE, delta |-> 0]
    ELSE IF ~Moves(ev) THEN [prev |-> c.prev, based |-> c.based, delta |-> 0]
    ELSE [prev |-> IF ev.done > c.prev THEN ev.done ELSE c.prev, based |-> TRUE,
          delta |-> IF ev.done > c.prev THEN ev.done - c.prev ELSE 0]

Fold(c, ev) ==
    IF ev.start >= 0 THEN [prev |-> ev.start, based |-> FALSE, delta |-> 0]
    ELSE IF ~Moves(ev) THEN [prev |-> c.prev, based |-> c.based, delta |-> 0]
    ELSE LET base == IF ~c.based /\ c.prev = 0 THEN ev.done ELSE c.prev IN
        [prev |-> IF ev.done > base THEN ev.done ELSE base, based |-> TRUE,
         delta |-> IF ev.done > base THEN ev.done - base ELSE 0]

(* Mutant: a failure is passed over before its reason is kept. *)
NoteRouteEarly(c, ev) ==
    IF ev.phase = "source-failed" \/ c.source = ev.src THEN c
    ELSE [c EXCEPT !.source = ev.src, !.reason = NoSource,
                   !.legs = Append(@, [to |-> ev.src, reason |-> c.reason])]

(* note_route_progress: a failure leaves its reason for the next leg. *)
NoteRoute(c, ev) ==
    IF ev.phase = "source-failed" THEN [c EXCEPT !.reason = ev.src]
    ELSE IF c.source = ev.src THEN c
    ELSE [c EXCEPT !.source = ev.src, !.reason = NoSource,
                   !.legs = Append(@, [to |-> ev.src, reason |-> c.reason])]

(* Msg::Progress, for the events of one step in turn. *)
Handle(acc, ev) ==
    LET f == Fold(acc.card, ev) IN
    [card |-> [NoteRoute(acc.card, ev) EXCEPT !.done = ev.done, !.prev = f.prev, !.based = f.based,
                                              !.by[ev.src] = @ + f.delta],
     counted |-> acc.counted + f.delta]

Now == [card |-> card, counted |-> counted]
Becomes(acc) == card' = acc.card /\ counted' = acc.counted
Emit(ev) == Becomes(Handle(Now, ev))

Event(s, done, phase) == [src |-> s, done |-> done, phase |-> phase, start |-> -1]
Connecting(s, start) == [src |-> s, done |-> start, phase |-> "connecting", start |-> start]

-----------------------------------------------------------------------------
(* stream_once announces where the leftover ends; a complete one is emptied. *)
Begin(s, left, tries) ==
    /\ attempts < MaxAttempts /\ attempts' = attempts + 1
    /\ LET kept == IF left < Size THEN left ELSE 0 IN
        /\ att' = [src |-> s, stage |-> "open", tries |-> tries, at |-> kept, last |-> 0]
        /\ temp' = kept
        /\ Emit(Connecting(s, kept))

(* A .part that another source wrote is emptied before the next source. *)
Leftover(s) == IF owner \in {s, NoSource} THEN temp ELSE 0

(* The next source of the plan: with nothing on disk one that serves ranges may
   be split, unless a speed cap or a single connection is set. *)
Connect(s) ==
    /\ st = "running" /\ att = NoAttempt /\ s \notin tried
    /\ \/ Begin(s, Leftover(s), 1)
       \/ /\ s \in Segmented /\ Leftover(s) = 0 /\ attempts < MaxAttempts
          /\ att' = [src |-> s, stage |-> "split", tries |-> 0, at |-> 0, last |-> 0]
          /\ temp' = 0 /\ attempts' = attempts + 1
          /\ Emit(Connecting(s, 0))
    /\ tried' = tried \cup {s}
    /\ UNCHANGED <<rowSource, owner, st, net, runNet>>

(* The source fails before it is announced: no token for it, or the .part cannot
   be read. *)
Refused(s) ==
    /\ st = "running" /\ att = NoAttempt /\ s \notin tried
    /\ temp' = Leftover(s)
    /\ owner' = IF temp' > 0 THEN s ELSE NoSource
    /\ tried' = tried \cup {s}
    /\ Emit(Event(s, temp', "source-failed"))
    /\ UNCHANGED <<rowSource, att, st, net, runNet, attempts>>

(* The segments fail or do not add up: their file is emptied and the same source
   goes on with one stream. *)
SplitFails ==
    /\ att.stage = "split"
    /\ Begin(att.src, 0, 1)
    /\ UNCHANGED <<rowSource, owner, tried, st, net, runNet>>

(* The source answers; one that ignores the range starts over. *)
Opened ==
    /\ att.stage = "open"
    /\ \E start \in {att.at, 0} :
        /\ att' = [att EXCEPT !.stage = "stream", !.at = start]
        /\ temp' = start
        /\ Emit(Connecting(att.src, start))
    /\ UNCHANGED <<rowSource, owner, tried, st, net, runNet, attempts>>

(* A byte arrives: reported when enough of them have, and at the last. *)
Receive ==
    /\ att.stage \in {"split", "stream"} /\ att.at < Size
    /\ LET at == att.at + 1
           report == at - att.last > EmitEvery \/ at = Size IN
        /\ att' = [att EXCEPT !.at = at, !.last = IF report THEN at ELSE @]
        /\ temp' = IF att.stage = "split" THEN temp ELSE at
        /\ rowSource' = IF report THEN att.src ELSE rowSource
        /\ IF report THEN Emit(Event(att.src, at, "downloading")) ELSE UNCHANGED <<card, counted>>
    /\ net' = net + 1
    /\ runNet' = [runNet EXCEPT ![att.src] = @ + 1]
    /\ UNCHANGED <<owner, tried, st, attempts>>

(* A retriable failure: the same source again, without a failure event. *)
Retry ==
    /\ att.stage \in {"open", "stream"} /\ att.tries < MaxTries
    /\ Begin(att.src, temp, att.tries + 1)
    /\ UNCHANGED <<rowSource, owner, tried, st, net, runNet>>

(* The source is given up.  Its .part stays for whoever is next, unless it sent
   bad bytes: those are quarantined. *)
SourceFailed(bad) ==
    /\ att.stage \in {"open", "stream"}
    /\ temp' = IF bad THEN 0 ELSE temp
    /\ owner' = IF temp' > 0 THEN att.src ELSE NoSource
    /\ Emit(Event(att.src, temp', "source-failed"))
    /\ att' = NoAttempt
    /\ UNCHANGED <<rowSource, tried, st, net, runNet, attempts>>

Verified ==
    /\ att.stage \in {"split", "stream"} /\ att.at = Size
    /\ Emit(Event(att.src, Size, "verified"))
    /\ att' = NoAttempt /\ st' = "done"
    /\ UNCHANGED <<temp, rowSource, owner, tried, net, runNet, attempts>>

(* A pause, or the end of the plan: Msg::Done keeps the card, without a source.
   The sparse file of a split is emptied, unless the pause comes while the whole
   of it is read back. *)
RunEnds ==
    /\ st = "running"
    /\ st' = "idle" /\ att' = NoAttempt
    /\ card' = [card EXCEPT !.source = NoSource]
    /\ \/ att.stage # "split" /\ temp' = temp
       \/ att.stage = "split" /\ temp' \in {0} \cup {n \in {Size} : att.at = Size}
    /\ \/ rowSource' = rowSource /\ att.stage # "split"
       \/ rowSource' = att.src /\ att.stage \in {"split", "stream"}
    /\ UNCHANGED <<owner, tried, counted, net, runNet, attempts>>

(* resume_transfer, retry_transfer: what nobody is known to have written goes. *)
Resume ==
    /\ st = "idle" /\ attempts < MaxAttempts
    /\ st' = "running" /\ tried' = {}
    /\ owner' = rowSource
    /\ temp' = IF rowSource = NoSource THEN 0 ELSE temp
    /\ card' = FreshCard /\ runNet' = Zero
    /\ UNCHANGED <<rowSource, att, counted, net, attempts>>

Next ==
    \/ \E s \in Sources : Connect(s) \/ Refused(s)
    \/ SplitFails \/ Opened \/ Receive \/ Retry
    \/ \E bad \in BOOLEAN : SourceFailed(bad)
    \/ Verified \/ RunEnds \/ Resume

FoldSpec == Init /\ [][Next]_foldVars

-----------------------------------------------------------------------------
(* The session counter behind the throughput graph counts bytes that came over
   the network and no others: no resumed prefix, no re-read, nothing twice when
   a source is tried again; and of an attempt it misses at most its first report
   and what was never reported. *)
ThroughputHonest ==
    /\ counted <= net
    /\ net <= counted + attempts * (2 * EmitEvery + 1)

(* The receipt ("fetched from ... - verified") gives no source more bytes than
   it sent since the card was last started, however often it was tried. *)
ReceiptHonest == \A s \in Sources : card.by[s] <= runNet[s]

(* A retry or a fallback to one stream adds no leg to the route, and every leg
   after the first says which other source failed before it. *)
SwitchesExplained ==
    \A i \in 2 .. Len(card.legs) :
        /\ card.legs[i].reason \notin {NoSource, card.legs[i].to}
        /\ card.legs[i].to # card.legs[i - 1].to
=============================================================================

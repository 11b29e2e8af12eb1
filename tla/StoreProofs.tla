---------------------------- MODULE StoreProofs ----------------------------
(***************************************************************************)
(* The invariants of the stores, proved for every value of the constants:  *)
(* the content store with its index (CasIndex), the manifest store of the  *)
(* registry (ManifestStore), and the serving side of the Iroh node         *)
(* (UploadSlots).  Each part has an inductive invariant of its own; what   *)
(* the tracker adds is proved in RegistryProofs.                           *)
(***************************************************************************)
EXTENDS MCStore, RegistryProofs, SequenceTheorems

-----------------------------------------------------------------------------
(* The content store *)

Pcs == {"idle", "hit", "commit", "meta", "meta_open", "index", "git", "tree", "tree_open",
        "import", "copying", "rename", "unlink", "link", "copy", "record", "installed",
        "evict_dest", "evict_view", "evict_read", "evict_blob", "evict_meta", "evict_tree",
        "evict_row", "evicted", "check", "remove", "drop_row", "views", "reconciled"}

ProcType == [Cas!Procs -> [pc : Pcs, key : {"b3", "sha", "git"}, inode : Nat]]

(* The processes that may still take a new inode: at most one each. *)
TakingPcs == {"commit", "import", "unlink", "link"}
Taking == {p \in Cas!Procs : proc[p].pc \in TakingPcs}
Bounded == used \in Nat /\ ops \in Nat /\ ops <= MaxOps /\ used + Cardinality(Taking) <= ops

FilesOK ==
    blob \in 0 .. used /\ tmp \in 0 .. used /\ dest \in 0 .. used /\ whole \subseteq 1 .. used
FlagsOK ==
    /\ meta \in {"none", "torn", "whole"} /\ tree \in {"none", "torn", "whole"}
    /\ view \in BOOLEAN /\ overlap \in BOOLEAN
RowOK ==
    /\ row \in [present : BOOLEAN, sha : BOOLEAN, git : BOOLEAN]
    /\ ~row.present => row = Cas!NoRow
ProcOK ==
    /\ \A p \in Cas!Procs : proc[p].key \in {"b3", "sha", "git"} /\ proc[p].inode \in 0 .. used
    /\ clean \in SUBSET Cas!Procs
    /\ \A p \in Cas!Procs : proc[p].pc \in {"copying", "copy"} => proc[p].inode # 0

StoreShape == FilesOK /\ FlagsOK /\ RowOK /\ ProcOK /\ Bounded /\ proc \in ProcType

InTemp(p) == proc[p].pc \in {"copying", "rename"}

(* The temp of an import is never the blob, and while no two imports met in
   it, it belongs to the one that is at work. *)
TempIsPrivate ==
    /\ tmp # 0 => tmp # blob
    /\ ~overlap =>
        /\ \A p, q \in Imports : InTemp(p) /\ InTemp(q) => p = q
        /\ \A p \in Imports : InTemp(p) => tmp # 0 /\ proc[p].inode = tmp
        /\ \A p \in Imports : proc[p].pc = "rename" => tmp \in whole

(* How far an evict, a reconcile or an install that runs alone has come. *)
EvictAlone(p) ==
    /\ proc[p].pc \in {"evict_read", "evict_blob", "evict_meta", "evict_tree", "evict_row", "evicted"}
          => ~view
    /\ proc[p].pc \in {"evict_meta", "evict_tree", "evict_row", "evicted"} => blob = 0
    /\ proc[p].pc \in {"evict_tree", "evict_row", "evicted"} => meta = "none"
    /\ proc[p].pc = "evicted" => ~row.present

InstallAlone(p) ==
    /\ proc[p].pc = "link" => dest = 0
    /\ proc[p].pc = "copy" => dest # 0 /\ dest = proc[p].inode
    /\ proc[p].pc \in {"record", "installed"} => dest # 0 /\ dest \in whole
    /\ proc[p].pc = "installed" => view

DoneAlone(p) ==
    /\ EvictAlone(p)
    /\ ~overlap => InstallAlone(p)
    /\ proc[p].pc \in {"views", "reconciled"} => (row.present => blob # 0)
    /\ proc[p].pc = "reconciled" => (view => dest # 0)

CleanIsAlone ==
    \A p \in clean : DoneAlone(p) /\ \A q \in Cas!Procs : q # p => proc[q].pc = "idle"

CasInv == StoreShape /\ TempIsPrivate /\ Cas!NeverHalfABlob /\ CleanIsAlone

-----------------------------------------------------------------------------
(* The manifest store *)

OnDisk == {i \in Ids : disk[i] \notin {Manifests!None, Manifests!Torn}}

(* Memory and disk hold the same manifests except where a write was cut short. *)
DiskAgrees ==
    /\ \A i \in Ids : answered[i] # Manifests!None => disk[i] = answered[i]
    /\ up => \A i \in Ids : disk[i] = Manifests!Torn \/ disk[i] = manifests[i]
    /\ Cardinality(OnDisk) <= MaxStored

(* The slugs list stored ids only. *)
SlugsStored ==
    /\ bySlug \in [Slugs -> Seq(Ids)]
    /\ up => \A s \in Slugs : \A k \in 1 .. Len(bySlug[s]) : manifests[bySlug[s][k]] # Manifests!None

ManifestInv ==
    /\ Manifests!ManifestTypeOK
    /\ Manifests!SlugsAgree
    /\ Manifests!StoreIsBounded
    /\ DiskAgrees
    /\ SlugsStored

-----------------------------------------------------------------------------
(* The upload slots *)

WireRec == [st : {"new", "live", "mute", "done", "completed"}, from : 0 .. Size, sent : 0 .. Size,
            late : BOOLEAN]
UpRec == [sent : 0 .. Size, last : 0 .. Size + 1, idle : BOOLEAN]

UploadShape ==
    /\ upload \in [Requests -> UpRec] /\ wire \in [Requests -> WireRec]
    /\ counted \in [Requests -> Nat] /\ reaps \in [Requests -> Nat]
    /\ conn \in [Uploads!Conns -> {"new", "open", "closed", "ended"}]
    /\ closing \in [Uploads!Conns -> SUBSET Requests] /\ reaping \subseteq Requests
    /\ seeded \subseteq Uploads!Hashes
    /\ off \in [pc : {"idle", "delete", "close", "done"}, hash : Uploads!Hashes,
                ids : SUBSET Uploads!Conns]

(* The slots and the counters. *)
Counts ==
    /\ slots \subseteq Requests /\ active \in Nat
    /\ byHash \in [Uploads!Hashes -> Nat] /\ finishing \in [Uploads!Hashes -> Nat]
    /\ IsFiniteSet(Uploads!Finishes)
    /\ Uploads!CountsExact

Open(r) == conn[Conn[r]] = "open"

(* What the slot of a request, if it has one, has seen of it. *)
SlotFollows(r) ==
    /\ wire[r].from + wire[r].sent <= Size
    /\ wire[r].st = "new" => r \notin slots /\ counted[r] = 0
    /\ wire[r].st \in {"done", "completed"} => r \notin slots
    /\ r \in slots /\ upload[r].last <= Size => upload[r].last = wire[r].from + wire[r].sent
    /\ r \in slots => upload[r].sent <= wire[r].sent
    /\ conn[Conn[r]] = "new" => wire[r].st = "new"
    /\ r \in closing[Conn[r]] => conn[Conn[r]] = "ended"

(* The bytes counted for a request: what earlier slots of it could count, and
   what the present one has. *)
CountedFollows(r) ==
    /\ wire[r].st = "live" /\ Open(r) /\ reaps[r] = 0 => r \in slots /\ counted[r] = upload[r].sent
    /\ wire[r].st = "completed" /\ Open(r) /\ reaps[r] = 0 => counted[r] = wire[r].sent
    /\ r \in slots => counted[r] <= wire[r].sent * reaps[r] + upload[r].sent
    /\ r \notin slots /\ wire[r].st = "live" /\ Open(r) => counted[r] <= wire[r].sent * reaps[r]
    /\ counted[r] <= wire[r].sent * reaps[r] + wire[r].sent

Follows == \A r \in Requests : SlotFollows(r) /\ CountedFollows(r)

(* A share-off has on its list every connection it has to sever. *)
OffListed ==
    off.pc # "idle" =>
        /\ \A r \in Requests :
            Hash[r] = off.hash /\ wire[r].st = "live" /\ Open(r)
                => wire[r].late \/ reaps[r] > 0 \/ (Conn[r] \in off.ids /\ off.pc # "done")
        /\ \A c \in off.ids : conn[c] # "new"
        /\ off.pc = "done" => \A c \in off.ids : conn[c] # "open"

UploadInv == Counts /\ UploadShape /\ Follows /\ OffListed

-----------------------------------------------------------------------------

(* A step of one process leaves the others alone. *)
LEMMA GotoFacts ==
    ASSUME NEW P \in ProcType, NEW p \in Cas!Procs, NEW pc \in Pcs
    PROVE  LET Q == [P EXCEPT ![p].pc = pc]
           IN  /\ Q \in ProcType /\ Q[p].pc = pc
               /\ Q[p].key = P[p].key /\ Q[p].inode = P[p].inode
               /\ \A q \in Cas!Procs : q # p => Q[q] = P[q]
  <1> DEFINE R == [P[p] EXCEPT !.pc = pc]
  <1>1. P[p] \in [pc : Pcs, key : {"b3", "sha", "git"}, inode : Nat]
    BY DEF ProcType
  <1>2. R \in [pc : Pcs, key : {"b3", "sha", "git"}, inode : Nat] /\ R.pc = pc
        /\ R.key = P[p].key /\ R.inode = P[p].inode
    BY <1>1
  <1>3. [P EXCEPT ![p].pc = pc] = [P EXCEPT ![p] = R]
    BY DEF ProcType
  <1> HIDE DEF R
  <1> QED
    BY <1>2, <1>3 DEF ProcType

(* The record of a process that starts, returns or opens a file is replaced. *)
LEMMA PutFacts ==
    ASSUME NEW P \in ProcType, NEW p \in Cas!Procs,
           NEW r \in [pc : Pcs, key : {"b3", "sha", "git"}, inode : Nat]
    PROVE  LET Q == [P EXCEPT ![p] = r]
           IN Q \in ProcType /\ Q[p] = r /\ \A q \in Cas!Procs : q # p => Q[q] = P[q]
  BY DEF ProcType

(* What a step of process p does to the processes, from pc to pc'. *)
Moves(p, from, to) ==
    /\ proc[p].pc = from /\ proc' \in ProcType
    /\ proc'[p].pc \in to /\ proc'[p].inode \in {0, proc[p].inode, tmp', dest'}
    /\ \A q \in Cas!Procs : q # p => proc'[q] = proc[q]

LEMMA GotoMoves ==
    ASSUME proc \in ProcType, NEW p \in Cas!Procs, NEW from, Cas!At(p, from), NEW to \in Pcs,
           Cas!Goto(p, to)
    PROVE  Moves(p, from, {to}) /\ proc'[p].inode = proc[p].inode
  <1> DEFINE Q == [proc EXCEPT ![p].pc = to]
  <1>1. /\ Q \in ProcType /\ Q[p].pc = to /\ Q[p].inode = proc[p].inode
        /\ \A q \in Cas!Procs : q # p => Q[q] = proc[q]
    BY GotoFacts
  <1>2. proc' = Q /\ proc[p].pc = from
    BY DEF Cas!At, Cas!Goto
  <1> HIDE DEF Q
  <1> QED
    BY <1>1, <1>2 DEF Moves

LEMMA ReturnMoves ==
    ASSUME proc \in ProcType, NEW p \in Cas!Procs, NEW from, Cas!At(p, from), Cas!Return(p)
    PROVE  Moves(p, from, {"idle"}) /\ proc'[p].inode = 0
  <1>1. Cas!Idle \in [pc : Pcs, key : {"b3", "sha", "git"}, inode : Nat]
    BY DEF Cas!Idle, Pcs
  <1>2. Cas!Idle.pc = "idle" /\ Cas!Idle.inode = 0
    BY DEF Cas!Idle
  <1> DEFINE Q == [proc EXCEPT ![p] = Cas!Idle]
  <1>3. Q \in ProcType /\ Q[p] = Cas!Idle /\ \A q \in Cas!Procs : q # p => Q[q] = proc[q]
    BY <1>1, PutFacts
  <1>4. proc' = Q /\ proc[p].pc = from
    BY DEF Cas!At, Cas!Return
  <1> HIDE DEF Q
  <1> QED
    BY <1>2, <1>3, <1>4 DEF Moves

LEMMA StartMoves ==
    ASSUME proc \in ProcType, NEW p \in Cas!Procs, NEW to \in Pcs,
           NEW key \in {"b3", "sha", "git"}, Cas!Start(p, to, key)
    PROVE  /\ Moves(p, "idle", {to}) /\ proc'[p].inode = 0
           /\ ops < MaxOps /\ ops' = ops + 1
           /\ clean' \subseteq {p}
           /\ clean' # {} => \A q \in Cas!Procs : proc[q].pc = "idle"
           /\ overlap' = overlap
  <1>1. PICK r : r = [pc |-> to, key |-> key, inode |-> 0]
    OBVIOUS
  <1>2. r \in [pc : Pcs, key : {"b3", "sha", "git"}, inode : Nat] /\ r.pc = to /\ r.inode = 0
    BY <1>1
  <1> DEFINE Q == [proc EXCEPT ![p] = r]
  <1>3. proc' = Q /\ proc[p].pc = "idle"
    BY <1>1 DEF Cas!Start, Cas!At
  <1>7. Q \in ProcType /\ Q[p] = r /\ \A q \in Cas!Procs : q # p => Q[q] = proc[q]
    BY <1>2, PutFacts
  <1>4. Moves(p, "idle", {to}) /\ proc'[p].inode = 0
    <2> HIDE DEF Q
    <2> QED
      BY <1>2, <1>3, <1>7 DEF Moves
  <1>5. ops < MaxOps /\ ops' = ops + 1 /\ clean' \subseteq {p} /\ overlap' = overlap
    BY DEF Cas!Start, Cas!At
  <1>6. clean' # {} => \A q \in Cas!Procs : proc[q].pc = "idle"
    BY DEF Cas!Start, Cas!At
  <1> QED
    BY <1>4, <1>5, <1>6

(* Where each step takes its process. *)
LEMMA CasMoves ==
    ASSUME proc \in ProcType, NEW p \in Cas!Procs
    PROVE
      /\ Cas!CacheHit(p) => Moves(p, "hit", {"idle"})
      /\ Cas!Commit(p) => Moves(p, "commit", {"index", "meta", "idle"})
      /\ Cas!WriteMeta(p) => Moves(p, "meta", {"meta_open", "idle"})
      /\ Cas!MetaWritten(p) => Moves(p, "meta_open", {"index", "idle"})
      /\ Cas!Index(p) => Moves(p, "index", {"git", "tree"})
      /\ Cas!SetGitSha1(p) => Moves(p, "git", {"tree"})
      /\ Cas!StoreChunkTree(p) => Moves(p, "tree", {"tree_open", "idle"})
      /\ Cas!TreeWritten(p) => Moves(p, "tree_open", {"idle"})
      /\ Cas!ImportHasBlob(p) => Moves(p, "import", {"meta"})
      /\ Cas!Copied(p) => Moves(p, "copying", {"rename", "idle"})
      /\ Cas!ImportCommit(p) => Moves(p, "rename", {"index", "meta", "idle"})
      /\ Cas!UnlinkDest(p) => Moves(p, "unlink", {"link", "idle"})
      /\ Cas!CopyDest(p) => Moves(p, "copy", {"record", "idle"})
      /\ Cas!RecordInstall(p) => Moves(p, "record", {"installed"})
      /\ Cas!Installed(p) => Moves(p, "installed", {"idle"})
      /\ Cas!EvictDest(p) => Moves(p, "evict_dest", {"evict_view", "idle"})
      /\ Cas!EvictView(p) => Moves(p, "evict_view", {"evict_read"})
      /\ Cas!EvictRead(p) => Moves(p, "evict_read", {"evict_blob", "idle"})
      /\ Cas!EvictBlob(p) => Moves(p, "evict_blob", {"evict_meta", "idle"})
      /\ Cas!EvictMeta(p) => Moves(p, "evict_meta", {"evict_tree", "idle"})
      /\ Cas!EvictTree(p) => Moves(p, "evict_tree", {"evict_row"})
      /\ Cas!EvictRow(p) => Moves(p, "evict_row", {"evicted"})
      /\ Cas!Evicted(p) => Moves(p, "evicted", {"idle"})
      /\ Cas!CheckBlob(p) => Moves(p, "check", {"remove", "views"})
      /\ Cas!RemoveLeftovers(p) => Moves(p, "remove", {"drop_row"})
      /\ Cas!DropStaleRow(p) => Moves(p, "drop_row", {"views"})
      /\ Cas!CheckView(p) => Moves(p, "views", {"reconciled"})
      /\ Cas!Reconciled(p) => Moves(p, "reconciled", {"idle"})
  <1>1. ASSUME Cas!CacheHit(p) PROVE Moves(p, "hit", {"idle"})
    BY <1>1, GotoMoves, ReturnMoves DEF Cas!CacheHit, Pcs, Moves
  <1>2. ASSUME Cas!Commit(p) PROVE Moves(p, "commit", {"index", "meta", "idle"})
    BY <1>2, GotoMoves, ReturnMoves DEF Cas!Commit, Cas!Deduplicate, Pcs, Moves
  <1>3. ASSUME Cas!WriteMeta(p) PROVE Moves(p, "meta", {"meta_open", "idle"})
    BY <1>3, GotoMoves, ReturnMoves DEF Cas!WriteMeta, Pcs, Moves
  <1>4. ASSUME Cas!MetaWritten(p) PROVE Moves(p, "meta_open", {"index", "idle"})
    BY <1>4, GotoMoves, ReturnMoves DEF Cas!MetaWritten, Pcs, Moves
  <1>5. ASSUME Cas!Index(p) PROVE Moves(p, "index", {"git", "tree"})
    BY <1>5, GotoMoves, ReturnMoves DEF Cas!Index, Pcs, Moves
  <1>6. ASSUME Cas!SetGitSha1(p) PROVE Moves(p, "git", {"tree"})
    BY <1>6, GotoMoves, ReturnMoves DEF Cas!SetGitSha1, Pcs, Moves
  <1>7. ASSUME Cas!StoreChunkTree(p) PROVE Moves(p, "tree", {"tree_open", "idle"})
    BY <1>7, GotoMoves, ReturnMoves DEF Cas!StoreChunkTree, Pcs, Moves
  <1>8. ASSUME Cas!TreeWritten(p) PROVE Moves(p, "tree_open", {"idle"})
    BY <1>8, GotoMoves, ReturnMoves DEF Cas!TreeWritten, Pcs, Moves
  <1>9. ASSUME Cas!ImportHasBlob(p) PROVE Moves(p, "import", {"meta"})
    BY <1>9, GotoMoves, ReturnMoves DEF Cas!ImportHasBlob, Pcs, Moves
  <1>10. ASSUME Cas!Copied(p) PROVE Moves(p, "copying", {"rename", "idle"})
    BY <1>10, GotoMoves, ReturnMoves DEF Cas!Copied, Pcs, Moves
  <1>11. ASSUME Cas!ImportCommit(p) PROVE Moves(p, "rename", {"index", "meta", "idle"})
    BY <1>11, GotoMoves, ReturnMoves DEF Cas!ImportCommit, Cas!Deduplicate, Pcs, Moves
  <1>12. ASSUME Cas!UnlinkDest(p) PROVE Moves(p, "unlink", {"link", "idle"})
    BY <1>12, GotoMoves, ReturnMoves DEF Cas!UnlinkDest, Pcs, Moves
  <1>13. ASSUME Cas!CopyDest(p) PROVE Moves(p, "copy", {"record", "idle"})
    BY <1>13, GotoMoves, ReturnMoves DEF Cas!CopyDest, Pcs, Moves
  <1>14. ASSUME Cas!RecordInstall(p) PROVE Moves(p, "record", {"installed"})
    BY <1>14, GotoMoves, ReturnMoves DEF Cas!RecordInstall, Pcs, Moves
  <1>15. ASSUME Cas!Installed(p) PROVE Moves(p, "installed", {"idle"})
    BY <1>15, GotoMoves, ReturnMoves DEF Cas!Installed, Pcs, Moves
  <1>16. ASSUME Cas!EvictDest(p) PROVE Moves(p, "evict_dest", {"evict_view", "idle"})
    BY <1>16, GotoMoves, ReturnMoves DEF Cas!EvictDest, Pcs, Moves
  <1>17. ASSUME Cas!EvictView(p) PROVE Moves(p, "evict_view", {"evict_read"})
    BY <1>17, GotoMoves, ReturnMoves DEF Cas!EvictView, Pcs, Moves
  <1>18. ASSUME Cas!EvictRead(p) PROVE Moves(p, "evict_read", {"evict_blob", "idle"})
    BY <1>18, GotoMoves, ReturnMoves DEF Cas!EvictRead, Pcs, Moves
  <1>19. ASSUME Cas!EvictBlob(p) PROVE Moves(p, "evict_blob", {"evict_meta", "idle"})
    BY <1>19, GotoMoves, ReturnMoves DEF Cas!EvictBlob, Pcs, Moves
  <1>20. ASSUME Cas!EvictMeta(p) PROVE Moves(p, "evict_meta", {"evict_tree", "idle"})
    BY <1>20, GotoMoves, ReturnMoves DEF Cas!EvictMeta, Pcs, Moves
  <1>21. ASSUME Cas!EvictTree(p) PROVE Moves(p, "evict_tree", {"evict_row"})
    BY <1>21, GotoMoves, ReturnMoves DEF Cas!EvictTree, Pcs, Moves
  <1>22. ASSUME Cas!EvictRow(p) PROVE Moves(p, "evict_row", {"evicted"})
    BY <1>22, GotoMoves, ReturnMoves DEF Cas!EvictRow, Cas!Goto, Pcs, Moves
  <1>23. ASSUME Cas!Evicted(p) PROVE Moves(p, "evicted", {"idle"})
    BY <1>23, GotoMoves, ReturnMoves DEF Cas!Evicted, Pcs, Moves
  <1>24. ASSUME Cas!CheckBlob(p) PROVE Moves(p, "check", {"remove", "views"})
    BY <1>24, GotoMoves, ReturnMoves DEF Cas!CheckBlob, Pcs, Moves
  <1>25. ASSUME Cas!RemoveLeftovers(p) PROVE Moves(p, "remove", {"drop_row"})
    BY <1>25, GotoMoves, ReturnMoves DEF Cas!RemoveLeftovers, Pcs, Moves
  <1>26. ASSUME Cas!DropStaleRow(p) PROVE Moves(p, "drop_row", {"views"})
    BY <1>26, GotoMoves, ReturnMoves DEF Cas!DropStaleRow, Pcs, Moves
  <1>27. ASSUME Cas!CheckView(p) PROVE Moves(p, "views", {"reconciled"})
    BY <1>27, GotoMoves, ReturnMoves DEF Cas!CheckView, Cas!Goto, Pcs, Moves
  <1>28. ASSUME Cas!Reconciled(p) PROVE Moves(p, "reconciled", {"idle"})
    BY <1>28, GotoMoves, ReturnMoves DEF Cas!Reconciled, Pcs, Moves
  <1> QED
    BY <1>1, <1>2, <1>3, <1>4, <1>5, <1>6, <1>7, <1>8, <1>9, <1>10, <1>11, <1>12, <1>13, <1>14,
       <1>15, <1>16, <1>17, <1>18, <1>19, <1>20, <1>21, <1>22, <1>23, <1>24, <1>25, <1>26, <1>27,
       <1>28

(* An import or a copy that opens a file keeps the inode it writes. *)
Takes(p, to, i) == proc' = [proc EXCEPT ![p].pc = to, ![p].inode = i]

LEMMA TakeMoves ==
    ASSUME proc \in ProcType, NEW p \in Cas!Procs, NEW from, Cas!At(p, from), NEW to \in Pcs,
           NEW i \in Nat, i = tmp' \/ i = dest', Takes(p, to, i)
    PROVE  Moves(p, from, {to}) /\ proc'[p].inode = i
  <1>1. PICK r : r = [proc[p] EXCEPT !.pc = to, !.inode = i]
    OBVIOUS
  <1>2. proc[p] \in [pc : Pcs, key : {"b3", "sha", "git"}, inode : Nat]
    BY DEF ProcType
  <1>3. r \in [pc : Pcs, key : {"b3", "sha", "git"}, inode : Nat] /\ r.pc = to /\ r.inode = i
    BY <1>1, <1>2
  <1> DEFINE Q == [proc EXCEPT ![p] = r]
  <1>4. proc' = Q
    BY <1>1 DEF ProcType, Takes
  <1>5. Q \in ProcType /\ Q[p] = r /\ \A q \in Cas!Procs : q # p => Q[q] = proc[q]
    BY <1>3, PutFacts
  <1>6. proc[p].pc = from
    BY DEF Cas!At
  <1> HIDE DEF Q
  <1> QED
    BY <1>3, <1>4, <1>5, <1>6 DEF Moves

LEMMA OpenTempMoves ==
    ASSUME proc \in ProcType, used \in Nat, tmp \in Nat, NEW p \in Cas!Procs, Cas!OpenTemp(p)
    PROVE  Moves(p, "import", {"copying"}) /\ proc'[p].inode = tmp'
  <1>1. PICK i : i = (IF tmp = 0 THEN used + 1 ELSE tmp) /\ tmp' = i /\ Takes(p, "copying", i)
    BY DEF Cas!OpenTemp, Takes
  <1>2. i \in Nat /\ "copying" \in Pcs
    BY <1>1 DEF Pcs
  <1>3. Cas!At(p, "import")
    BY DEF Cas!OpenTemp
  <1>4. Moves(p, "import", {"copying"}) /\ proc'[p].inode = i
    BY <1>1, <1>2, <1>3, TakeMoves
  <1> QED
    BY <1>1, <1>4

(* An install makes a link, opens a copy, or finds no blob. *)
LEMMA LinkDestMoves ==
    ASSUME proc \in ProcType, used \in Nat, dest \in Nat, NEW p \in Cas!Procs, Cas!LinkDest(p)
    PROVE  /\ Moves(p, "link", {"record", "copy", "idle"})
           /\ UNCHANGED <<blob, tmp, meta, tree, row, view, clean, ops>>
           /\ \/ UNCHANGED <<dest, whole, used, overlap>> /\ proc'[p].pc = "idle"
              \/ /\ dest' = blob /\ blob # 0 /\ UNCHANGED <<whole, used, overlap>>
                 /\ proc'[p].pc = "record"
              \/ /\ dest' = (IF dest = 0 THEN used + 1 ELSE dest) /\ whole' = whole \ {dest'}
                 /\ used' = (IF dest = 0 THEN used + 1 ELSE used) /\ overlap' = (overlap \/ dest # 0)
                 /\ proc'[p].inode = dest' /\ proc'[p].inode # 0 /\ blob # 0
                 /\ proc'[p].pc = (IF blob \in whole /\ blob # dest' THEN "copy" ELSE "record")
  <1> USE DEF Cas!bounds
  <1>1. UNCHANGED <<blob, tmp, meta, tree, row, view, clean, ops>> /\ Cas!At(p, "link")
    BY DEF Cas!LinkDest
  <1>2. CASE Cas!HardLink(p)
    <2>1. Moves(p, "link", {"record"})
      BY <1>1, <1>2, GotoMoves DEF Cas!HardLink, Pcs
    <2> QED
      BY <1>1, <1>2, <2>1 DEF Cas!HardLink, Moves
  <1>3. CASE Cas!FillDest(p)
    <2>1. PICK i, to :
             /\ i = (IF dest = 0 THEN used + 1 ELSE dest)
             /\ to = (IF blob \in whole /\ blob # i THEN "copy" ELSE "record")
             /\ dest' = i /\ whole' = whole \ {i}
             /\ used' = (IF dest = 0 THEN used + 1 ELSE used)
             /\ Takes(p, to, i) /\ overlap' = (overlap \/ dest # 0) /\ blob # 0
      BY <1>3 DEF Cas!FillDest, Takes
    <2>2. i \in Nat /\ i # 0 /\ to \in Pcs /\ to \in {"record", "copy"}
      BY <2>1 DEF Pcs
    <2>3. Moves(p, "link", {to}) /\ proc'[p].inode = i
      BY <1>1, <2>1, <2>2, TakeMoves
    <2>4. proc'[p].pc = to /\ Moves(p, "link", {"record", "copy", "idle"})
      BY <2>2, <2>3 DEF Moves
    <2> QED
      BY <1>1, <2>1, <2>2, <2>3, <2>4
  <1>4. CASE Cas!Return(p) /\ UNCHANGED <<dest, whole, used, overlap>>
    <2>1. Moves(p, "link", {"idle"})
      BY <1>1, <1>4, ReturnMoves
    <2> QED
      BY <1>1, <1>4, <2>1 DEF Moves
  <1> QED
    BY <1>2, <1>3, <1>4 DEF Cas!LinkDest

(* An operation starts: alone, or not. *)
Starts(p, to) ==
    /\ Moves(p, "idle", to)
    /\ ops < MaxOps /\ ops' = ops + 1
    /\ clean' \subseteq {p}
    /\ clean' # {} => \A q \in Cas!Procs : proc[q].pc = "idle"
    /\ overlap' = overlap

LEMMA CasStarts ==
    ASSUME proc \in ProcType, NEW p \in Cas!Procs
    PROVE  /\ Cas!Download(p) => Starts(p, {"hit", "commit"})
           /\ Cas!Import(p) => Starts(p, {"import"})
           /\ Cas!Install(p) => Starts(p, {"unlink"})
           /\ Cas!Evict(p) => Starts(p, {"evict_dest", "evict_read"})
           /\ Cas!Reconcile(p) => Starts(p, {"check", "views"})
  <1>1. ASSUME Cas!Download(p) PROVE Starts(p, {"hit", "commit"})
    BY <1>1, StartMoves DEF Cas!Download, Pcs, Moves, Starts
  <1>2. ASSUME Cas!Import(p) PROVE Starts(p, {"import"})
    BY <1>2, StartMoves DEF Cas!Import, Pcs, Moves, Starts
  <1>3. ASSUME Cas!Install(p) PROVE Starts(p, {"unlink"})
    BY <1>3, StartMoves DEF Cas!Install, Pcs, Moves, Starts
  <1>4. ASSUME Cas!Evict(p) PROVE Starts(p, {"evict_dest", "evict_read"})
    BY <1>4, StartMoves DEF Cas!Evict, Pcs, Moves, Starts
  <1>5. ASSUME Cas!Reconcile(p) PROVE Starts(p, {"check", "views"})
    BY <1>5, StartMoves DEF Cas!Reconcile, Pcs, Moves, Starts
  <1> QED
    BY <1>1, <1>2, <1>3, <1>4, <1>5

(* An instance has its own copies of the library's operators. *)
LEMMA CasFiniteSets == \A S : Cas!IsFiniteSet(S) <=> IsFiniteSet(S)
  BY DEF Cas!IsFiniteSet, IsFiniteSet

LEMMA CasConstants == IsFiniteSet(Cas!Procs) /\ MaxOps \in Nat
  BY CasAssumed, CasFiniteSets DEF Cas!CasIndexAssumption

(* A step of one process changes the number of those that may still take an
   inode by at most one. *)
LEMMA TakingMoves ==
    ASSUME NEW p \in Cas!Procs, NEW from, NEW to, Moves(p, from, to)
    PROVE  /\ Cardinality(Taking) \in Nat /\ Cardinality(Taking') \in Nat
           /\ from \in TakingPcs /\ proc'[p].pc \notin TakingPcs
                => Cardinality(Taking') = Cardinality(Taking) - 1
           /\ (proc'[p].pc \in TakingPcs <=> from \in TakingPcs)
                => Cardinality(Taking') = Cardinality(Taking)
           /\ Cardinality(Taking') <= Cardinality(Taking) + 1
  <1>1. IsFiniteSet(Cas!Procs)
    BY CasConstants
  <1>2. Taking \in SUBSET Cas!Procs /\ Taking' \in SUBSET Cas!Procs
    BY DEF Taking
  <1>3. IsFiniteSet(Taking) /\ IsFiniteSet(Taking')
    BY <1>1, <1>2, FS_Subset
  <1>4. Cardinality(Taking) \in Nat /\ Cardinality(Taking') \in Nat
    BY <1>3, FS_CardinalityType
  <1>5. /\ from \in TakingPcs <=> p \in Taking
        /\ proc'[p].pc \in TakingPcs <=> p \in Taking'
        /\ \A q \in Cas!Procs : q # p => (q \in Taking <=> q \in Taking')
    BY DEF Moves, Taking, TakingPcs
  <1>6. CASE (p \in Taking) <=> (p \in Taking')
    <2>1. Taking' = Taking
      BY <1>2, <1>5, <1>6
    <2> QED
      BY <1>4, <1>5, <1>6, <2>1
  <1>7. CASE p \in Taking /\ p \notin Taking'
    <2>1. Taking' = Taking \ {p}
      BY <1>2, <1>5, <1>7
    <2>2. Cardinality(Taking') = Cardinality(Taking) - 1
      BY <1>3, <1>7, <2>1, FS_RemoveElement
    <2> QED
      BY <1>4, <1>5, <1>7, <2>2
  <1>8. CASE p \notin Taking /\ p \in Taking'
    <2>1. Taking' = Taking \cup {p}
      BY <1>2, <1>5, <1>8
    <2>2. Cardinality(Taking') = Cardinality(Taking) + 1
      BY <1>3, <1>8, <2>1, FS_AddElement
    <2> QED
      BY <1>4, <1>5, <1>8, <2>2
  <1> QED
    BY <1>6, <1>7, <1>8

(* The budget of inodes: a process takes at most one, and it may only once per
   operation. *)
LEMMA BudgetStep ==
    ASSUME NEW p \in Cas!Procs, NEW from, NEW to, Moves(p, from, to), Bounded,
           \/ used' = used /\ ops' = ops /\ (proc'[p].pc \in TakingPcs => from \in TakingPcs)
           \/ used' = used + 1 /\ ops' = ops /\ from \in TakingPcs /\ proc'[p].pc \notin TakingPcs
           \/ used' = used /\ ops' = ops + 1 /\ ops < MaxOps
    PROVE  Bounded' /\ used <= used' /\ used' <= MaxOps
  BY CasConstants, TakingMoves DEF Bounded

LEMMA TypeParts ==
    FilesOK /\ FlagsOK /\ RowOK /\ ProcOK /\ used \in 0 .. MaxOps => Cas!TypeOK
  BY DEF Cas!TypeOK, FilesOK, FlagsOK, RowOK, ProcOK

(* The records of the processes keep their shape when one of them moves. *)
LEMMA ProcStep ==
    ASSUME ProcOK, FilesOK', used \in Nat, used' \in Nat, used <= used',
           NEW p \in Cas!Procs, NEW from, NEW to, Moves(p, from, to), clean' \subseteq clean \cup {p},
           proc'[p].pc \notin {"copying", "copy"} \/ proc'[p].inode # 0
    PROVE  ProcOK'
  <1>1. tmp' \in 0 .. used' /\ dest' \in 0 .. used'
    BY DEF FilesOK
  <1>2. ASSUME NEW q \in Cas!Procs
        PROVE  /\ proc'[q].key \in {"b3", "sha", "git"} /\ proc'[q].inode \in 0 .. used'
               /\ proc'[q].pc \in {"copying", "copy"} => proc'[q].inode # 0
    BY <1>1 DEF Moves, ProcType, ProcOK
  <1> QED
    BY <1>2 DEF ProcOK

(* The shape of the store is kept by every step. *)
LEMMA CasShapeStep ==
    ASSUME StoreShape, Cas!Next
    PROVE  StoreShape'
  <1> USE DEF Cas!files, Cas!bounds
  <1>1. /\ FilesOK /\ FlagsOK /\ RowOK /\ ProcOK /\ Bounded /\ proc \in ProcType
        /\ used \in Nat /\ tmp \in Nat /\ dest \in Nat
    BY DEF StoreShape, FilesOK, Bounded
  <1>2. ASSUME NEW p \in Downloads, Cas!Download(p) PROVE StoreShape'
    <2>1. p \in Cas!Procs
      BY DEF Cas!Procs
    <2>2. Starts(p, {"hit", "commit"}) /\ UNCHANGED <<blob, tmp, dest, whole, meta, tree, row, view, used>>
      BY <1>1, <1>2, <2>1, CasStarts DEF Cas!Download
    <2>3. Bounded' /\ used <= used'
      BY <1>1, <2>1, <2>2, BudgetStep DEF Starts
    <2>4. FilesOK' /\ FlagsOK' /\ RowOK'
      BY <1>1, <2>2 DEF FilesOK, FlagsOK, RowOK, Starts
    <2>5. ProcOK' /\ proc' \in ProcType
      BY <1>1, <2>1, <2>2, <2>3, <2>4, ProcStep DEF Starts, Bounded, Moves
    <2> QED
      BY <2>3, <2>4, <2>5 DEF StoreShape
  <1>3. ASSUME NEW p \in Imports, Cas!Import(p) PROVE StoreShape'
    <2>1. p \in Cas!Procs
      BY DEF Cas!Procs
    <2>2. Starts(p, {"import"}) /\ UNCHANGED <<blob, tmp, dest, whole, meta, tree, row, view, used>>
      BY <1>1, <1>3, <2>1, CasStarts DEF Cas!Import
    <2>3. Bounded' /\ used <= used'
      BY <1>1, <2>1, <2>2, BudgetStep DEF Starts
    <2>4. FilesOK' /\ FlagsOK' /\ RowOK'
      BY <1>1, <2>2 DEF FilesOK, FlagsOK, RowOK, Starts
    <2>5. ProcOK' /\ proc' \in ProcType
      BY <1>1, <2>1, <2>2, <2>3, <2>4, ProcStep DEF Starts, Bounded, Moves
    <2> QED
      BY <2>3, <2>4, <2>5 DEF StoreShape
  <1>4. ASSUME NEW p \in Installs, Cas!Install(p) PROVE StoreShape'
    <2>1. p \in Cas!Procs
      BY DEF Cas!Procs
    <2>2. Starts(p, {"unlink"}) /\ UNCHANGED <<blob, tmp, dest, whole, meta, tree, row, view, used>>
      BY <1>1, <1>4, <2>1, CasStarts DEF Cas!Install
    <2>3. Bounded' /\ used <= used'
      BY <1>1, <2>1, <2>2, BudgetStep DEF Starts
    <2>4. FilesOK' /\ FlagsOK' /\ RowOK'
      BY <1>1, <2>2 DEF FilesOK, FlagsOK, RowOK, Starts
    <2>5. ProcOK' /\ proc' \in ProcType
      BY <1>1, <2>1, <2>2, <2>3, <2>4, ProcStep DEF Starts, Bounded, Moves
    <2> QED
      BY <2>3, <2>4, <2>5 DEF StoreShape
  <1>5. ASSUME NEW p \in Evicts, Cas!Evict(p) PROVE StoreShape'
    <2>1. p \in Cas!Procs
      BY DEF Cas!Procs
    <2>2. Starts(p, {"evict_dest", "evict_read"}) /\ UNCHANGED <<blob, tmp, dest, whole, meta, tree, row, view, used>>
      BY <1>1, <1>5, <2>1, CasStarts DEF Cas!Evict
    <2>3. Bounded' /\ used <= used'
      BY <1>1, <2>1, <2>2, BudgetStep DEF Starts
    <2>4. FilesOK' /\ FlagsOK' /\ RowOK'
      BY <1>1, <2>2 DEF FilesOK, FlagsOK, RowOK, Starts
    <2>5. ProcOK' /\ proc' \in ProcType
      BY <1>1, <2>1, <2>2, <2>3, <2>4, ProcStep DEF Starts, Bounded, Moves
    <2> QED
      BY <2>3, <2>4, <2>5 DEF StoreShape
  <1>6. ASSUME NEW p \in Reconciles, Cas!Reconcile(p) PROVE StoreShape'
    <2>1. p \in Cas!Procs
      BY DEF Cas!Procs
    <2>2. Starts(p, {"check", "views"}) /\ UNCHANGED <<blob, tmp, dest, whole, meta, tree, row, view, used>>
      BY <1>1, <1>6, <2>1, CasStarts DEF Cas!Reconcile
    <2>3. Bounded' /\ used <= used'
      BY <1>1, <2>1, <2>2, BudgetStep DEF Starts
    <2>4. FilesOK' /\ FlagsOK' /\ RowOK'
      BY <1>1, <2>2 DEF FilesOK, FlagsOK, RowOK, Starts
    <2>5. ProcOK' /\ proc' \in ProcType
      BY <1>1, <2>1, <2>2, <2>3, <2>4, ProcStep DEF Starts, Bounded, Moves
    <2> QED
      BY <2>3, <2>4, <2>5 DEF StoreShape
  <1>7. ASSUME NEW p \in Downloads, Cas!CacheHit(p) PROVE StoreShape'
    <2>1. p \in Cas!Procs
      BY DEF Cas!Procs
    <2>2. Moves(p, "hit", {"idle"}) /\ clean' = clean
      BY <1>1, <1>7, <2>1, CasMoves DEF Cas!CacheHit
    <2>3. Bounded' /\ used <= used'
      BY <1>1, <1>7, <2>1, <2>2, BudgetStep DEF Moves, TakingPcs, Bounded, Cas!CacheHit
    <2>4. FilesOK'
      BY <1>1, <1>7, <2>3 DEF FilesOK, Bounded, Cas!CacheHit
    <2>5. FlagsOK'
      BY <1>1, <1>7 DEF FlagsOK, Cas!CacheHit
    <2>6. RowOK'
      BY <1>1, <1>7 DEF RowOK, Cas!CacheHit, Cas!UpsertCacheBlob
    <2>7. ProcOK' /\ proc' \in ProcType
      BY <1>1, <2>1, <2>2, <2>3, <2>4, ProcStep DEF Bounded, Moves
    <2> QED
      BY <2>3, <2>4, <2>5, <2>6, <2>7 DEF StoreShape
  <1>8. ASSUME NEW p \in Downloads, Cas!Commit(p) PROVE StoreShape'
    <2>1. p \in Cas!Procs
      BY DEF Cas!Procs
    <2>2. Moves(p, "commit", {"index", "meta", "idle"}) /\ clean' = clean
      BY <1>1, <1>8, <2>1, CasMoves DEF Cas!Commit
    <2>3. Bounded' /\ used <= used'
      BY <1>1, <1>8, <2>1, <2>2, BudgetStep DEF Moves, TakingPcs, Bounded, Cas!Commit
    <2>4. FilesOK'
      <3>1. tmp' = tmp /\ dest' = dest
        BY <1>8 DEF Cas!Commit
      <3>2. \/ blob' = blob /\ whole' = whole /\ used' = used
            \/ used' = used + 1 /\ blob' = used + 1 /\ whole' = whole \cup {used + 1}
        BY <1>8 DEF Cas!Commit
      <3>3. CASE blob' = blob /\ whole' = whole /\ used' = used
        BY <1>1, <3>1, <3>3 DEF FilesOK
      <3>4. CASE used' = used + 1 /\ blob' = used + 1 /\ whole' = whole \cup {used + 1}
        BY <1>1, <3>1, <3>4 DEF FilesOK
      <3> QED
        BY <3>2, <3>3, <3>4
    <2>5. FlagsOK'
      BY <1>1, <1>8 DEF FlagsOK, Cas!Commit, Cas!Deduplicate
    <2>6. RowOK'
      BY <1>1, <1>8 DEF RowOK, Cas!Commit
    <2>7. ProcOK' /\ proc' \in ProcType
      BY <1>1, <2>1, <2>2, <2>3, <2>4, ProcStep DEF Bounded, Moves
    <2> QED
      BY <2>3, <2>4, <2>5, <2>6, <2>7 DEF StoreShape
  <1>9. ASSUME NEW p \in Downloads \cup Imports, Cas!WriteMeta(p) PROVE StoreShape'
    <2>1. p \in Cas!Procs
      BY DEF Cas!Procs
    <2>2. Moves(p, "meta", {"meta_open", "idle"}) /\ clean' = clean
      BY <1>1, <1>9, <2>1, CasMoves DEF Cas!WriteMeta
    <2>3. Bounded' /\ used <= used'
      BY <1>1, <1>9, <2>1, <2>2, BudgetStep DEF Moves, TakingPcs, Bounded, Cas!WriteMeta
    <2>4. FilesOK'
      BY <1>1, <1>9, <2>3 DEF FilesOK, Bounded, Cas!WriteMeta
    <2>5. FlagsOK'
      BY <1>1, <1>9 DEF FlagsOK, Cas!WriteMeta
    <2>6. RowOK'
      BY <1>1, <1>9 DEF RowOK, Cas!WriteMeta
    <2>7. ProcOK' /\ proc' \in ProcType
      BY <1>1, <2>1, <2>2, <2>3, <2>4, ProcStep DEF Bounded, Moves
    <2> QED
      BY <2>3, <2>4, <2>5, <2>6, <2>7 DEF StoreShape
  <1>10. ASSUME NEW p \in Downloads \cup Imports, Cas!MetaWritten(p) PROVE StoreShape'
    <2>1. p \in Cas!Procs
      BY DEF Cas!Procs
    <2>2. Moves(p, "meta_open", {"index", "idle"}) /\ clean' = clean
      BY <1>1, <1>10, <2>1, CasMoves DEF Cas!MetaWritten
    <2>3. Bounded' /\ used <= used'
      BY <1>1, <1>10, <2>1, <2>2, BudgetStep DEF Moves, TakingPcs, Bounded, Cas!MetaWritten
    <2>4. FilesOK'
      BY <1>1, <1>10, <2>3 DEF FilesOK, Bounded, Cas!MetaWritten
    <2>5. FlagsOK'
      BY <1>1, <1>10 DEF FlagsOK, Cas!MetaWritten
    <2>6. RowOK'
      BY <1>1, <1>10 DEF RowOK, Cas!MetaWritten
    <2>7. ProcOK' /\ proc' \in ProcType
      BY <1>1, <2>1, <2>2, <2>3, <2>4, ProcStep DEF Bounded, Moves
    <2> QED
      BY <2>3, <2>4, <2>5, <2>6, <2>7 DEF StoreShape
  <1>11. ASSUME NEW p \in Downloads \cup Imports, Cas!Index(p) PROVE StoreShape'
    <2>1. p \in Cas!Procs
      BY DEF Cas!Procs
    <2>2. Moves(p, "index", {"git", "tree"}) /\ clean' = clean
      BY <1>1, <1>11, <2>1, CasMoves DEF Cas!Index
    <2>3. Bounded' /\ used <= used'
      BY <1>1, <1>11, <2>1, <2>2, BudgetStep DEF Moves, TakingPcs, Bounded, Cas!Index
    <2>4. FilesOK'
      BY <1>1, <1>11, <2>3 DEF FilesOK, Bounded, Cas!Index
    <2>5. FlagsOK'
      BY <1>1, <1>11 DEF FlagsOK, Cas!Index
    <2>6. RowOK'
      BY <1>1, <1>11 DEF RowOK, Cas!Index, Cas!UpsertCacheBlob
    <2>7. ProcOK' /\ proc' \in ProcType
      BY <1>1, <2>1, <2>2, <2>3, <2>4, ProcStep DEF Bounded, Moves
    <2> QED
      BY <2>3, <2>4, <2>5, <2>6, <2>7 DEF StoreShape
  <1>12. ASSUME NEW p \in Downloads, Cas!SetGitSha1(p) PROVE StoreShape'
    <2>1. p \in Cas!Procs
      BY DEF Cas!Procs
    <2>2. Moves(p, "git", {"tree"}) /\ clean' = clean
      BY <1>1, <1>12, <2>1, CasMoves DEF Cas!SetGitSha1
    <2>3. Bounded' /\ used <= used'
      BY <1>1, <1>12, <2>1, <2>2, BudgetStep DEF Moves, TakingPcs, Bounded, Cas!SetGitSha1
    <2>4. FilesOK'
      BY <1>1, <1>12, <2>3 DEF FilesOK, Bounded, Cas!SetGitSha1
    <2>5. FlagsOK'
      BY <1>1, <1>12 DEF FlagsOK, Cas!SetGitSha1
    <2>6. RowOK'
      <3>1. row' = [row EXCEPT !.git = row.present]
        BY <1>12 DEF Cas!SetGitSha1
      <3>2. CASE row.present
        BY <1>1, <3>1, <3>2 DEF RowOK
      <3>3. CASE ~row.present
        <4>1. row = Cas!NoRow
          BY <1>1, <3>3 DEF RowOK
        <4>2. row' = Cas!NoRow
          BY <3>1, <4>1 DEF Cas!NoRow
        <4> QED
          BY <4>2 DEF RowOK, Cas!NoRow
      <3> QED
        BY <3>2, <3>3
    <2>7. ProcOK' /\ proc' \in ProcType
      BY <1>1, <2>1, <2>2, <2>3, <2>4, ProcStep DEF Bounded, Moves
    <2> QED
      BY <2>3, <2>4, <2>5, <2>6, <2>7 DEF StoreShape
  <1>13. ASSUME NEW p \in Downloads \cup Imports, Cas!StoreChunkTree(p) PROVE StoreShape'
    <2>1. p \in Cas!Procs
      BY DEF Cas!Procs
    <2>2. Moves(p, "tree", {"tree_open", "idle"}) /\ clean' = clean
      BY <1>1, <1>13, <2>1, CasMoves DEF Cas!StoreChunkTree
    <2>3. Bounded' /\ used <= used'
      BY <1>1, <1>13, <2>1, <2>2, BudgetStep DEF Moves, TakingPcs, Bounded, Cas!StoreChunkTree
    <2>4. FilesOK'
      BY <1>1, <1>13, <2>3 DEF FilesOK, Bounded, Cas!StoreChunkTree
    <2>5. FlagsOK'
      BY <1>1, <1>13 DEF FlagsOK, Cas!StoreChunkTree
    <2>6. RowOK'
      BY <1>1, <1>13 DEF RowOK, Cas!StoreChunkTree
    <2>7. ProcOK' /\ proc' \in ProcType
      BY <1>1, <2>1, <2>2, <2>3, <2>4, ProcStep DEF Bounded, Moves
    <2> QED
      BY <2>3, <2>4, <2>5, <2>6, <2>7 DEF StoreShape
  <1>14. ASSUME NEW p \in Downloads \cup Imports, Cas!TreeWritten(p) PROVE StoreShape'
    <2>1. p \in Cas!Procs
      BY DEF Cas!Procs
    <2>2. Moves(p, "tree_open", {"idle"}) /\ clean' = clean
      BY <1>1, <1>14, <2>1, CasMoves DEF Cas!TreeWritten
    <2>3. Bounded' /\ used <= used'
      BY <1>1, <1>14, <2>1, <2>2, BudgetStep DEF Moves, TakingPcs, Bounded, Cas!TreeWritten
    <2>4. FilesOK'
      BY <1>1, <1>14, <2>3 DEF FilesOK, Bounded, Cas!TreeWritten
    <2>5. FlagsOK'
      BY <1>1, <1>14 DEF FlagsOK, Cas!TreeWritten
    <2>6. RowOK'
      BY <1>1, <1>14 DEF RowOK, Cas!TreeWritten
    <2>7. ProcOK' /\ proc' \in ProcType
      BY <1>1, <2>1, <2>2, <2>3, <2>4, ProcStep DEF Bounded, Moves
    <2> QED
      BY <2>3, <2>4, <2>5, <2>6, <2>7 DEF StoreShape
  <1>15. ASSUME NEW p \in Imports, Cas!ImportHasBlob(p) PROVE StoreShape'
    <2>1. p \in Cas!Procs
      BY DEF Cas!Procs
    <2>2. Moves(p, "import", {"meta"}) /\ clean' = clean
      BY <1>1, <1>15, <2>1, CasMoves DEF Cas!ImportHasBlob
    <2>3. Bounded' /\ used <= used'
      BY <1>1, <1>15, <2>1, <2>2, BudgetStep DEF Moves, TakingPcs, Bounded, Cas!ImportHasBlob
    <2>4. FilesOK'
      BY <1>1, <1>15, <2>3 DEF FilesOK, Bounded, Cas!ImportHasBlob
    <2>5. FlagsOK'
      BY <1>1, <1>15 DEF FlagsOK, Cas!ImportHasBlob
    <2>6. RowOK'
      BY <1>1, <1>15 DEF RowOK, Cas!ImportHasBlob
    <2>7. ProcOK' /\ proc' \in ProcType
      BY <1>1, <2>1, <2>2, <2>3, <2>4, ProcStep DEF Bounded, Moves
    <2> QED
      BY <2>3, <2>4, <2>5, <2>6, <2>7 DEF StoreShape
  <1>16. ASSUME NEW p \in Imports, Cas!OpenTemp(p) PROVE StoreShape'
    <2>1. p \in Cas!Procs
      BY DEF Cas!Procs
    <2>2. Moves(p, "import", {"copying"}) /\ clean' = clean /\ proc'[p].inode = tmp'
      BY <1>1, <1>16, <2>1, OpenTempMoves DEF Cas!OpenTemp
    <2>3. Bounded' /\ used <= used'
      BY <1>1, <1>16, <2>1, <2>2, BudgetStep DEF Moves, TakingPcs, Bounded, Cas!OpenTemp
    <2>4. FilesOK' /\ tmp' # 0
      BY <1>1, <1>16, <2>3 DEF FilesOK, Bounded, Cas!OpenTemp
    <2>5. FlagsOK'
      BY <1>1, <1>16 DEF FlagsOK, Cas!OpenTemp
    <2>6. RowOK'
      BY <1>1, <1>16 DEF RowOK, Cas!OpenTemp
    <2>7. ProcOK' /\ proc' \in ProcType
      BY <1>1, <2>1, <2>2, <2>3, <2>4, ProcStep DEF Bounded, Moves
    <2> QED
      BY <2>3, <2>4, <2>5, <2>6, <2>7 DEF StoreShape
  <1>17. ASSUME NEW p \in Imports, Cas!Copied(p) PROVE StoreShape'
    <2>1. p \in Cas!Procs
      BY DEF Cas!Procs
    <2>2. Moves(p, "copying", {"rename", "idle"}) /\ clean' = clean
      BY <1>1, <1>17, <2>1, CasMoves DEF Cas!Copied
    <2>3. Bounded' /\ used <= used'
      BY <1>1, <1>17, <2>1, <2>2, BudgetStep DEF Moves, TakingPcs, Bounded, Cas!Copied
    <2>4. FilesOK'
      <3>1. proc[p].inode \in 1 .. used
        BY <1>1, <2>1, <2>2 DEF ProcOK, Moves, Bounded
      <3> QED
        BY <1>1, <1>17, <3>1 DEF FilesOK, Cas!Copied
    <2>5. FlagsOK'
      BY <1>1, <1>17 DEF FlagsOK, Cas!Copied
    <2>6. RowOK'
      BY <1>1, <1>17 DEF RowOK, Cas!Copied
    <2>7. ProcOK' /\ proc' \in ProcType
      BY <1>1, <2>1, <2>2, <2>3, <2>4, ProcStep DEF Bounded, Moves
    <2> QED
      BY <2>3, <2>4, <2>5, <2>6, <2>7 DEF StoreShape
  <1>18. ASSUME NEW p \in Imports, Cas!ImportCommit(p) PROVE StoreShape'
    <2>1. p \in Cas!Procs
      BY DEF Cas!Procs
    <2>2. Moves(p, "rename", {"index", "meta", "idle"}) /\ clean' = clean
      BY <1>1, <1>18, <2>1, CasMoves DEF Cas!ImportCommit
    <2>3. Bounded' /\ used <= used'
      BY <1>1, <1>18, <2>1, <2>2, BudgetStep DEF Moves, TakingPcs, Bounded, Cas!ImportCommit
    <2>4. FilesOK'
      BY <1>1, <1>18, <2>3 DEF FilesOK, Bounded, Cas!ImportCommit, Cas!Deduplicate
    <2>5. FlagsOK'
      BY <1>1, <1>18 DEF FlagsOK, Cas!ImportCommit, Cas!Deduplicate
    <2>6. RowOK'
      BY <1>1, <1>18 DEF RowOK, Cas!ImportCommit
    <2>7. ProcOK' /\ proc' \in ProcType
      BY <1>1, <2>1, <2>2, <2>3, <2>4, ProcStep DEF Bounded, Moves
    <2> QED
      BY <2>3, <2>4, <2>5, <2>6, <2>7 DEF StoreShape
  <1>19. ASSUME NEW p \in Installs, Cas!UnlinkDest(p) PROVE StoreShape'
    <2>1. p \in Cas!Procs
      BY DEF Cas!Procs
    <2>2. Moves(p, "unlink", {"link", "idle"}) /\ clean' = clean
      BY <1>1, <1>19, <2>1, CasMoves DEF Cas!UnlinkDest
    <2>3. Bounded' /\ used <= used'
      BY <1>1, <1>19, <2>1, <2>2, BudgetStep DEF Moves, TakingPcs, Bounded, Cas!UnlinkDest
    <2>4. FilesOK'
      BY <1>1, <1>19, <2>3 DEF FilesOK, Bounded, Cas!UnlinkDest
    <2>5. FlagsOK'
      BY <1>1, <1>19 DEF FlagsOK, Cas!UnlinkDest
    <2>6. RowOK'
      BY <1>1, <1>19 DEF RowOK, Cas!UnlinkDest
    <2>7. ProcOK' /\ proc' \in ProcType
      BY <1>1, <2>1, <2>2, <2>3, <2>4, ProcStep DEF Bounded, Moves
    <2> QED
      BY <2>3, <2>4, <2>5, <2>6, <2>7 DEF StoreShape
  <1>20. ASSUME NEW p \in Installs, Cas!LinkDest(p) PROVE StoreShape'
    <2>1. p \in Cas!Procs
      BY DEF Cas!Procs
    <2>2. /\ Moves(p, "link", {"record", "copy", "idle"}) /\ UNCHANGED <<blob, tmp, meta, tree, row, view, clean, ops>>
          /\ \/ UNCHANGED <<dest, whole, used, overlap>> /\ proc'[p].pc = "idle"
             \/ /\ dest' = blob /\ UNCHANGED <<whole, used, overlap>>
                /\ proc'[p].pc = "record"
             \/ /\ dest' = (IF dest = 0 THEN used + 1 ELSE dest) /\ whole' = whole \ {dest'}
                /\ used' = (IF dest = 0 THEN used + 1 ELSE used)
                /\ overlap' = (overlap \/ dest # 0) /\ proc'[p].inode # 0
      BY <1>1, <1>20, <2>1, LinkDestMoves
    <2>3. Bounded' /\ used <= used'
      BY <1>1, <2>1, <2>2, BudgetStep DEF Moves, TakingPcs, Bounded
    <2>4. FilesOK'
      BY <1>1, <2>2 DEF FilesOK
    <2>5. FlagsOK' /\ RowOK'
      BY <1>1, <2>2 DEF FlagsOK, RowOK
    <2>6. ProcOK' /\ proc' \in ProcType
      <3>1. proc'[p].pc \notin {"copying", "copy"} \/ proc'[p].inode # 0
        BY <2>2 DEF Moves
      <3> QED
        BY <1>1, <2>1, <2>2, <2>3, <2>4, <3>1, ProcStep DEF Bounded, Moves
    <2> QED
      BY <2>3, <2>4, <2>5, <2>6 DEF StoreShape
  <1>21. ASSUME NEW p \in Installs, Cas!CopyDest(p) PROVE StoreShape'
    <2>1. p \in Cas!Procs
      BY DEF Cas!Procs
    <2>2. Moves(p, "copy", {"record", "idle"}) /\ clean' = clean
      BY <1>1, <1>21, <2>1, CasMoves DEF Cas!CopyDest
    <2>3. Bounded' /\ used <= used'
      BY <1>1, <1>21, <2>1, <2>2, BudgetStep DEF Moves, TakingPcs, Bounded, Cas!CopyDest
    <2>4. FilesOK'
      <3>1. proc[p].inode \in 1 .. used
        BY <1>1, <2>1, <2>2 DEF ProcOK, Moves, Bounded
      <3> QED
        BY <1>1, <1>21, <3>1 DEF FilesOK, Cas!CopyDest
    <2>5. FlagsOK'
      BY <1>1, <1>21 DEF FlagsOK, Cas!CopyDest
    <2>6. RowOK'
      BY <1>1, <1>21 DEF RowOK, Cas!CopyDest
    <2>7. ProcOK' /\ proc' \in ProcType
      BY <1>1, <2>1, <2>2, <2>3, <2>4, ProcStep DEF Bounded, Moves
    <2> QED
      BY <2>3, <2>4, <2>5, <2>6, <2>7 DEF StoreShape
  <1>22. ASSUME NEW p \in Installs, Cas!RecordInstall(p) PROVE StoreShape'
    <2>1. p \in Cas!Procs
      BY DEF Cas!Procs
    <2>2. Moves(p, "record", {"installed"}) /\ clean' = clean
      BY <1>1, <1>22, <2>1, CasMoves DEF Cas!RecordInstall
    <2>3. Bounded' /\ used <= used'
      BY <1>1, <1>22, <2>1, <2>2, BudgetStep DEF Moves, TakingPcs, Bounded, Cas!RecordInstall
    <2>4. FilesOK'
      BY <1>1, <1>22, <2>3 DEF FilesOK, Bounded, Cas!RecordInstall
    <2>5. FlagsOK'
      BY <1>1, <1>22 DEF FlagsOK, Cas!RecordInstall
    <2>6. RowOK'
      BY <1>1, <1>22 DEF RowOK, Cas!RecordInstall
    <2>7. ProcOK' /\ proc' \in ProcType
      BY <1>1, <2>1, <2>2, <2>3, <2>4, ProcStep DEF Bounded, Moves
    <2> QED
      BY <2>3, <2>4, <2>5, <2>6, <2>7 DEF StoreShape
  <1>23. ASSUME NEW p \in Installs, Cas!Installed(p) PROVE StoreShape'
    <2>1. p \in Cas!Procs
      BY DEF Cas!Procs
    <2>2. Moves(p, "installed", {"idle"}) /\ clean' = clean
      BY <1>1, <1>23, <2>1, CasMoves DEF Cas!Installed
    <2>3. Bounded' /\ used <= used'
      BY <1>1, <1>23, <2>1, <2>2, BudgetStep DEF Moves, TakingPcs, Bounded, Cas!Installed
    <2>4. FilesOK'
      BY <1>1, <1>23, <2>3 DEF FilesOK, Bounded, Cas!Installed
    <2>5. FlagsOK'
      BY <1>1, <1>23 DEF FlagsOK, Cas!Installed
    <2>6. RowOK'
      BY <1>1, <1>23 DEF RowOK, Cas!Installed
    <2>7. ProcOK' /\ proc' \in ProcType
      BY <1>1, <2>1, <2>2, <2>3, <2>4, ProcStep DEF Bounded, Moves
    <2> QED
      BY <2>3, <2>4, <2>5, <2>6, <2>7 DEF StoreShape
  <1>24. ASSUME NEW p \in Evicts, Cas!EvictDest(p) PROVE StoreShape'
    <2>1. p \in Cas!Procs
      BY DEF Cas!Procs
    <2>2. Moves(p, "evict_dest", {"evict_view", "idle"}) /\ clean' = clean
      BY <1>1, <1>24, <2>1, CasMoves DEF Cas!EvictDest
    <2>3. Bounded' /\ used <= used'
      BY <1>1, <1>24, <2>1, <2>2, BudgetStep DEF Moves, TakingPcs, Bounded, Cas!EvictDest
    <2>4. FilesOK'
      BY <1>1, <1>24, <2>3 DEF FilesOK, Bounded, Cas!EvictDest
    <2>5. FlagsOK'
      BY <1>1, <1>24 DEF FlagsOK, Cas!EvictDest
    <2>6. RowOK'
      BY <1>1, <1>24 DEF RowOK, Cas!EvictDest
    <2>7. ProcOK' /\ proc' \in ProcType
      BY <1>1, <2>1, <2>2, <2>3, <2>4, ProcStep DEF Bounded, Moves
    <2> QED
      BY <2>3, <2>4, <2>5, <2>6, <2>7 DEF StoreShape
  <1>25. ASSUME NEW p \in Evicts, Cas!EvictView(p) PROVE StoreShape'
    <2>1. p \in Cas!Procs
      BY DEF Cas!Procs
    <2>2. Moves(p, "evict_view", {"evict_read"}) /\ clean' = clean
      BY <1>1, <1>25, <2>1, CasMoves DEF Cas!EvictView
    <2>3. Bounded' /\ used <= used'
      BY <1>1, <1>25, <2>1, <2>2, BudgetStep DEF Moves, TakingPcs, Bounded, Cas!EvictView
    <2>4. FilesOK'
      BY <1>1, <1>25, <2>3 DEF FilesOK, Bounded, Cas!EvictView
    <2>5. FlagsOK'
      BY <1>1, <1>25 DEF FlagsOK, Cas!EvictView
    <2>6. RowOK'
      BY <1>1, <1>25 DEF RowOK, Cas!EvictView
    <2>7. ProcOK' /\ proc' \in ProcType
      BY <1>1, <2>1, <2>2, <2>3, <2>4, ProcStep DEF Bounded, Moves
    <2> QED
      BY <2>3, <2>4, <2>5, <2>6, <2>7 DEF StoreShape
  <1>26. ASSUME NEW p \in Evicts, Cas!EvictRead(p) PROVE StoreShape'
    <2>1. p \in Cas!Procs
      BY DEF Cas!Procs
    <2>2. Moves(p, "evict_read", {"evict_blob", "idle"}) /\ clean' = clean
      BY <1>1, <1>26, <2>1, CasMoves DEF Cas!EvictRead
    <2>3. Bounded' /\ used <= used'
      BY <1>1, <1>26, <2>1, <2>2, BudgetStep DEF Moves, TakingPcs, Bounded, Cas!EvictRead
    <2>4. FilesOK'
      BY <1>1, <1>26, <2>3 DEF FilesOK, Bounded, Cas!EvictRead
    <2>5. FlagsOK'
      BY <1>1, <1>26 DEF FlagsOK, Cas!EvictRead
    <2>6. RowOK'
      BY <1>1, <1>26 DEF RowOK, Cas!EvictRead
    <2>7. ProcOK' /\ proc' \in ProcType
      BY <1>1, <2>1, <2>2, <2>3, <2>4, ProcStep DEF Bounded, Moves
    <2> QED
      BY <2>3, <2>4, <2>5, <2>6, <2>7 DEF StoreShape
  <1>27. ASSUME NEW p \in Evicts, Cas!EvictBlob(p) PROVE StoreShape'
    <2>1. p \in Cas!Procs
      BY DEF Cas!Procs
    <2>2. Moves(p, "evict_blob", {"evict_meta", "idle"}) /\ clean' = clean
      BY <1>1, <1>27, <2>1, CasMoves DEF Cas!EvictBlob
    <2>3. Bounded' /\ used <= used'
      BY <1>1, <1>27, <2>1, <2>2, BudgetStep DEF Moves, TakingPcs, Bounded, Cas!EvictBlob
    <2>4. FilesOK'
      BY <1>1, <1>27, <2>3 DEF FilesOK, Bounded, Cas!EvictBlob
    <2>5. FlagsOK'
      BY <1>1, <1>27 DEF FlagsOK, Cas!EvictBlob
    <2>6. RowOK'
      BY <1>1, <1>27 DEF RowOK, Cas!EvictBlob
    <2>7. ProcOK' /\ proc' \in ProcType
      BY <1>1, <2>1, <2>2, <2>3, <2>4, ProcStep DEF Bounded, Moves
    <2> QED
      BY <2>3, <2>4, <2>5, <2>6, <2>7 DEF StoreShape
  <1>28. ASSUME NEW p \in Evicts, Cas!EvictMeta(p) PROVE StoreShape'
    <2>1. p \in Cas!Procs
      BY DEF Cas!Procs
    <2>2. Moves(p, "evict_meta", {"evict_tree", "idle"}) /\ clean' = clean
      BY <1>1, <1>28, <2>1, CasMoves DEF Cas!EvictMeta
    <2>3. Bounded' /\ used <= used'
      BY <1>1, <1>28, <2>1, <2>2, BudgetStep DEF Moves, TakingPcs, Bounded, Cas!EvictMeta
    <2>4. FilesOK'
      BY <1>1, <1>28, <2>3 DEF FilesOK, Bounded, Cas!EvictMeta
    <2>5. FlagsOK'
      BY <1>1, <1>28 DEF FlagsOK, Cas!EvictMeta
    <2>6. RowOK'
      BY <1>1, <1>28 DEF RowOK, Cas!EvictMeta
    <2>7. ProcOK' /\ proc' \in ProcType
      BY <1>1, <2>1, <2>2, <2>3, <2>4, ProcStep DEF Bounded, Moves
    <2> QED
      BY <2>3, <2>4, <2>5, <2>6, <2>7 DEF StoreShape
  <1>29. ASSUME NEW p \in Evicts, Cas!EvictTree(p) PROVE StoreShape'
    <2>1. p \in Cas!Procs
      BY DEF Cas!Procs
    <2>2. Moves(p, "evict_tree", {"evict_row"}) /\ clean' = clean
      BY <1>1, <1>29, <2>1, CasMoves DEF Cas!EvictTree
    <2>3. Bounded' /\ used <= used'
      BY <1>1, <1>29, <2>1, <2>2, BudgetStep DEF Moves, TakingPcs, Bounded, Cas!EvictTree
    <2>4. FilesOK'
      BY <1>1, <1>29, <2>3 DEF FilesOK, Bounded, Cas!EvictTree
    <2>5. FlagsOK'
      BY <1>1, <1>29 DEF FlagsOK, Cas!EvictTree
    <2>6. RowOK'
      BY <1>1, <1>29 DEF RowOK, Cas!EvictTree
    <2>7. ProcOK' /\ proc' \in ProcType
      BY <1>1, <2>1, <2>2, <2>3, <2>4, ProcStep DEF Bounded, Moves
    <2> QED
      BY <2>3, <2>4, <2>5, <2>6, <2>7 DEF StoreShape
  <1>30. ASSUME NEW p \in Evicts, Cas!EvictRow(p) PROVE StoreShape'
    <2>1. p \in Cas!Procs
      BY DEF Cas!Procs
    <2>2. Moves(p, "evict_row", {"evicted"}) /\ clean' = clean
      BY <1>1, <1>30, <2>1, CasMoves DEF Cas!EvictRow
    <2>3. Bounded' /\ used <= used'
      BY <1>1, <1>30, <2>1, <2>2, BudgetStep DEF Moves, TakingPcs, Bounded, Cas!EvictRow
    <2>4. FilesOK'
      BY <1>1, <1>30, <2>3 DEF FilesOK, Bounded, Cas!EvictRow
    <2>5. FlagsOK'
      BY <1>1, <1>30 DEF FlagsOK, Cas!EvictRow
    <2>6. RowOK'
      BY <1>1, <1>30 DEF RowOK, Cas!EvictRow, Cas!NoRow
    <2>7. ProcOK' /\ proc' \in ProcType
      BY <1>1, <2>1, <2>2, <2>3, <2>4, ProcStep DEF Bounded, Moves
    <2> QED
      BY <2>3, <2>4, <2>5, <2>6, <2>7 DEF StoreShape
  <1>31. ASSUME NEW p \in Evicts, Cas!Evicted(p) PROVE StoreShape'
    <2>1. p \in Cas!Procs
      BY DEF Cas!Procs
    <2>2. Moves(p, "evicted", {"idle"}) /\ clean' = clean
      BY <1>1, <1>31, <2>1, CasMoves DEF Cas!Evicted
    <2>3. Bounded' /\ used <= used'
      BY <1>1, <1>31, <2>1, <2>2, BudgetStep DEF Moves, TakingPcs, Bounded, Cas!Evicted
    <2>4. FilesOK'
      BY <1>1, <1>31, <2>3 DEF FilesOK, Bounded, Cas!Evicted
    <2>5. FlagsOK'
      BY <1>1, <1>31 DEF FlagsOK, Cas!Evicted
    <2>6. RowOK'
      BY <1>1, <1>31 DEF RowOK, Cas!Evicted
    <2>7. ProcOK' /\ proc' \in ProcType
      BY <1>1, <2>1, <2>2, <2>3, <2>4, ProcStep DEF Bounded, Moves
    <2> QED
      BY <2>3, <2>4, <2>5, <2>6, <2>7 DEF StoreShape
  <1>32. ASSUME NEW p \in Reconciles, Cas!CheckBlob(p) PROVE StoreShape'
    <2>1. p \in Cas!Procs
      BY DEF Cas!Procs
    <2>2. Moves(p, "check", {"remove", "views"}) /\ clean' = clean
      BY <1>1, <1>32, <2>1, CasMoves DEF Cas!CheckBlob
    <2>3. Bounded' /\ used <= used'
      BY <1>1, <1>32, <2>1, <2>2, BudgetStep DEF Moves, TakingPcs, Bounded, Cas!CheckBlob
    <2>4. FilesOK'
      BY <1>1, <1>32, <2>3 DEF FilesOK, Bounded, Cas!CheckBlob
    <2>5. FlagsOK'
      BY <1>1, <1>32 DEF FlagsOK, Cas!CheckBlob
    <2>6. RowOK'
      BY <1>1, <1>32 DEF RowOK, Cas!CheckBlob
    <2>7. ProcOK' /\ proc' \in ProcType
      BY <1>1, <2>1, <2>2, <2>3, <2>4, ProcStep DEF Bounded, Moves
    <2> QED
      BY <2>3, <2>4, <2>5, <2>6, <2>7 DEF StoreShape
  <1>33. ASSUME NEW p \in Reconciles, Cas!RemoveLeftovers(p) PROVE StoreShape'
    <2>1. p \in Cas!Procs
      BY DEF Cas!Procs
    <2>2. Moves(p, "remove", {"drop_row"}) /\ clean' = clean
      BY <1>1, <1>33, <2>1, CasMoves DEF Cas!RemoveLeftovers
    <2>3. Bounded' /\ used <= used'
      BY <1>1, <1>33, <2>1, <2>2, BudgetStep DEF Moves, TakingPcs, Bounded, Cas!RemoveLeftovers
    <2>4. FilesOK'
      BY <1>1, <1>33, <2>3 DEF FilesOK, Bounded, Cas!RemoveLeftovers
    <2>5. FlagsOK'
      BY <1>1, <1>33 DEF FlagsOK, Cas!RemoveLeftovers
    <2>6. RowOK'
      BY <1>1, <1>33 DEF RowOK, Cas!RemoveLeftovers
    <2>7. ProcOK' /\ proc' \in ProcType
      BY <1>1, <2>1, <2>2, <2>3, <2>4, ProcStep DEF Bounded, Moves
    <2> QED
      BY <2>3, <2>4, <2>5, <2>6, <2>7 DEF StoreShape
  <1>34. ASSUME NEW p \in Reconciles, Cas!DropStaleRow(p) PROVE StoreShape'
    <2>1. p \in Cas!Procs
      BY DEF Cas!Procs
    <2>2. Moves(p, "drop_row", {"views"}) /\ clean' = clean
      BY <1>1, <1>34, <2>1, CasMoves DEF Cas!DropStaleRow
    <2>3. Bounded' /\ used <= used'
      BY <1>1, <1>34, <2>1, <2>2, BudgetStep DEF Moves, TakingPcs, Bounded, Cas!DropStaleRow
    <2>4. FilesOK'
      BY <1>1, <1>34, <2>3 DEF FilesOK, Bounded, Cas!DropStaleRow
    <2>5. FlagsOK'
      BY <1>1, <1>34 DEF FlagsOK, Cas!DropStaleRow
    <2>6. RowOK'
      BY <1>1, <1>34 DEF RowOK, Cas!DropStaleRow, Cas!NoRow
    <2>7. ProcOK' /\ proc' \in ProcType
      BY <1>1, <2>1, <2>2, <2>3, <2>4, ProcStep DEF Bounded, Moves
    <2> QED
      BY <2>3, <2>4, <2>5, <2>6, <2>7 DEF StoreShape
  <1>35. ASSUME NEW p \in Reconciles, Cas!CheckView(p) PROVE StoreShape'
    <2>1. p \in Cas!Procs
      BY DEF Cas!Procs
    <2>2. Moves(p, "views", {"reconciled"}) /\ clean' = clean
      BY <1>1, <1>35, <2>1, CasMoves DEF Cas!CheckView
    <2>3. Bounded' /\ used <= used'
      BY <1>1, <1>35, <2>1, <2>2, BudgetStep DEF Moves, TakingPcs, Bounded, Cas!CheckView
    <2>4. FilesOK'
      BY <1>1, <1>35, <2>3 DEF FilesOK, Bounded, Cas!CheckView
    <2>5. FlagsOK'
      BY <1>1, <1>35 DEF FlagsOK, Cas!CheckView
    <2>6. RowOK'
      BY <1>1, <1>35 DEF RowOK, Cas!CheckView
    <2>7. ProcOK' /\ proc' \in ProcType
      BY <1>1, <2>1, <2>2, <2>3, <2>4, ProcStep DEF Bounded, Moves
    <2> QED
      BY <2>3, <2>4, <2>5, <2>6, <2>7 DEF StoreShape
  <1>36. ASSUME NEW p \in Reconciles, Cas!Reconciled(p) PROVE StoreShape'
    <2>1. p \in Cas!Procs
      BY DEF Cas!Procs
    <2>2. Moves(p, "reconciled", {"idle"}) /\ clean' = clean
      BY <1>1, <1>36, <2>1, CasMoves DEF Cas!Reconciled
    <2>3. Bounded' /\ used <= used'
      BY <1>1, <1>36, <2>1, <2>2, BudgetStep DEF Moves, TakingPcs, Bounded, Cas!Reconciled
    <2>4. FilesOK'
      BY <1>1, <1>36, <2>3 DEF FilesOK, Bounded, Cas!Reconciled
    <2>5. FlagsOK'
      BY <1>1, <1>36 DEF FlagsOK, Cas!Reconciled
    <2>6. RowOK'
      BY <1>1, <1>36 DEF RowOK, Cas!Reconciled
    <2>7. ProcOK' /\ proc' \in ProcType
      BY <1>1, <2>1, <2>2, <2>3, <2>4, ProcStep DEF Bounded, Moves
    <2> QED
      BY <2>3, <2>4, <2>5, <2>6, <2>7 DEF StoreShape
  <1>37. ASSUME Cas!DeleteByHand PROVE StoreShape'
    <2>1. FilesOK'
      BY <1>1, <1>37 DEF Cas!DeleteByHand, FilesOK, Bounded
    <2> QED
      BY <1>1, <1>37, <2>1 DEF Cas!DeleteByHand, FlagsOK, RowOK, ProcOK, Bounded, Taking, StoreShape
  <1>38. ASSUME Cas!Crash PROVE StoreShape'
    <2>1. Cas!Idle \in [pc : Pcs, key : {"b3", "sha", "git"}, inode : Nat] /\ Cas!Idle.pc = "idle"
          /\ Cas!Idle.inode = 0 /\ Cas!Idle.key = "b3"
      BY DEF Cas!Idle, Pcs
    <2>2. proc' = [p \in Cas!Procs |-> Cas!Idle]
      BY <1>38 DEF Cas!Crash
    <2>3. Taking' = {}
      BY <2>1, <2>2 DEF Taking, TakingPcs
    <2>4. Cardinality(Taking') = 0
      BY <2>3, FS_EmptySet
    <2>5. Taking \in SUBSET Cas!Procs
      BY DEF Taking
    <2>6. Cardinality(Taking) \in Nat
      BY <2>5, CasConstants, FS_Subset, FS_CardinalityType
    <2>7. Bounded'
      BY <1>1, <1>38, <2>4, <2>6 DEF Cas!Crash, Bounded
    <2>8. ProcOK' /\ proc' \in ProcType
      BY <1>1, <1>38, <2>1, <2>2 DEF Cas!Crash, ProcOK, ProcType, Bounded
    <2> QED
      BY <1>1, <1>38, <2>7, <2>8 DEF Cas!Crash, FilesOK, FlagsOK, RowOK, StoreShape
  <1> QED
    BY <1>2, <1>3, <1>4, <1>5, <1>6, <1>7, <1>8, <1>9, <1>10, <1>11, <1>12, <1>13, <1>14, <1>15,
       <1>16, <1>17, <1>18, <1>19, <1>20, <1>21, <1>22, <1>23, <1>24, <1>25, <1>26, <1>27, <1>28,
       <1>29, <1>30, <1>31, <1>32, <1>33, <1>34, <1>35, <1>36, <1>37, <1>38 DEF Cas!Next

TempPcs == {"copying", "rename"}

(* A step outside the temp: files appear whole, are shared, go away, or are
   filled where no two installs meet. *)
LEMMA OutsideTemp ==
    ASSUME StoreShape, TempIsPrivate, Cas!NeverHalfABlob,
           NEW p \in Cas!Procs, NEW from, NEW to, Moves(p, from, to),
           from \notin TempPcs, proc'[p].pc \notin TempPcs,
           tmp' = tmp, overlap => overlap',
           overlap' \/ \A i \in whole : i \in whole' \/ i = used + 1,
           blob' \in {0, blob} \/ (blob' = used + 1 /\ blob' \in whole')
    PROVE  TempIsPrivate' /\ Cas!NeverHalfABlob'
  <1>1. blob \in 0 .. used /\ tmp \in 0 .. used /\ used \in Nat
    BY DEF StoreShape, FilesOK, Bounded
  <1>2. tmp' # 0 => tmp' # blob'
    BY <1>1 DEF TempIsPrivate
  <1>3. \A q \in Cas!Procs : InTemp(q)' => q # p /\ InTemp(q) /\ proc'[q] = proc[q]
    BY DEF InTemp, Moves, TempPcs
  <1>4. Imports \subseteq Cas!Procs
    BY DEF Cas!Procs
  <1>5. ~overlap' =>
           /\ \A q, r \in Imports : InTemp(q)' /\ InTemp(r)' => q = r
           /\ \A q \in Imports : InTemp(q)' => tmp' # 0 /\ proc'[q].inode = tmp'
    BY <1>3, <1>4 DEF TempIsPrivate
  <1>6. ~overlap' => \A q \in Imports : proc'[q].pc = "rename" => tmp' \in whole'
    BY <1>1, <1>3, <1>4 DEF TempIsPrivate, InTemp
  <1>7. Cas!NeverHalfABlob'
    BY <1>1 DEF Cas!NeverHalfABlob
  <1> QED
    BY <1>2, <1>5, <1>6, <1>7 DEF TempIsPrivate

(* Every step keeps the temp apart and the published blob whole. *)
LEMMA CasTempStep ==
    ASSUME StoreShape, TempIsPrivate, Cas!NeverHalfABlob, Cas!Next
    PROVE  TempIsPrivate' /\ Cas!NeverHalfABlob'
  <1> USE DEF Cas!files, Cas!bounds
  <1>1. proc \in ProcType
    BY DEF StoreShape
  <1>2. ASSUME NEW p \in Downloads, Cas!Download(p) PROVE TempIsPrivate' /\ Cas!NeverHalfABlob'
    <2>1. p \in Cas!Procs
      BY DEF Cas!Procs
    <2>2. Starts(p, {"hit", "commit"}) /\ UNCHANGED <<blob, tmp, whole>>
      BY <1>1, <1>2, <2>1, CasStarts DEF Cas!Download
    <2> QED
      BY <2>1, <2>2, OutsideTemp DEF Starts, Moves, TempPcs
  <1>3. ASSUME NEW p \in Imports, Cas!Import(p) PROVE TempIsPrivate' /\ Cas!NeverHalfABlob'
    <2>1. p \in Cas!Procs
      BY DEF Cas!Procs
    <2>2. Starts(p, {"import"}) /\ UNCHANGED <<blob, tmp, whole>>
      BY <1>1, <1>3, <2>1, CasStarts DEF Cas!Import
    <2> QED
      BY <2>1, <2>2, OutsideTemp DEF Starts, Moves, TempPcs
  <1>4. ASSUME NEW p \in Installs, Cas!Install(p) PROVE TempIsPrivate' /\ Cas!NeverHalfABlob'
    <2>1. p \in Cas!Procs
      BY DEF Cas!Procs
    <2>2. Starts(p, {"unlink"}) /\ UNCHANGED <<blob, tmp, whole>>
      BY <1>1, <1>4, <2>1, CasStarts DEF Cas!Install
    <2> QED
      BY <2>1, <2>2, OutsideTemp DEF Starts, Moves, TempPcs
  <1>5. ASSUME NEW p \in Evicts, Cas!Evict(p) PROVE TempIsPrivate' /\ Cas!NeverHalfABlob'
    <2>1. p \in Cas!Procs
      BY DEF Cas!Procs
    <2>2. Starts(p, {"evict_dest", "evict_read"}) /\ UNCHANGED <<blob, tmp, whole>>
      BY <1>1, <1>5, <2>1, CasStarts DEF Cas!Evict
    <2> QED
      BY <2>1, <2>2, OutsideTemp DEF Starts, Moves, TempPcs
  <1>6. ASSUME NEW p \in Reconciles, Cas!Reconcile(p) PROVE TempIsPrivate' /\ Cas!NeverHalfABlob'
    <2>1. p \in Cas!Procs
      BY DEF Cas!Procs
    <2>2. Starts(p, {"check", "views"}) /\ UNCHANGED <<blob, tmp, whole>>
      BY <1>1, <1>6, <2>1, CasStarts DEF Cas!Reconcile
    <2> QED
      BY <2>1, <2>2, OutsideTemp DEF Starts, Moves, TempPcs
  <1>7. ASSUME NEW p \in Downloads, Cas!CacheHit(p) PROVE TempIsPrivate' /\ Cas!NeverHalfABlob'
    <2>1. p \in Cas!Procs
      BY DEF Cas!Procs
    <2>2. Moves(p, "hit", {"idle"})
      BY <1>1, <1>7, <2>1, CasMoves
    <2> QED
      BY <1>7, <2>1, <2>2, OutsideTemp DEF Moves, TempPcs, Cas!CacheHit
  <1>8. ASSUME NEW p \in Downloads, Cas!Commit(p) PROVE TempIsPrivate' /\ Cas!NeverHalfABlob'
    <2>1. p \in Cas!Procs
      BY DEF Cas!Procs
    <2>2. Moves(p, "commit", {"index", "meta", "idle"})
      BY <1>1, <1>8, <2>1, CasMoves
    <2> QED
      BY <1>8, <2>1, <2>2, OutsideTemp DEF Moves, TempPcs, Cas!Commit
  <1>9. ASSUME NEW p \in Downloads \cup Imports, Cas!WriteMeta(p) PROVE TempIsPrivate' /\ Cas!NeverHalfABlob'
    <2>1. p \in Cas!Procs
      BY DEF Cas!Procs
    <2>2. Moves(p, "meta", {"meta_open", "idle"})
      BY <1>1, <1>9, <2>1, CasMoves
    <2> QED
      BY <1>9, <2>1, <2>2, OutsideTemp DEF Moves, TempPcs, Cas!WriteMeta
  <1>10. ASSUME NEW p \in Downloads \cup Imports, Cas!MetaWritten(p) PROVE TempIsPrivate' /\ Cas!NeverHalfABlob'
    <2>1. p \in Cas!Procs
      BY DEF Cas!Procs
    <2>2. Moves(p, "meta_open", {"index", "idle"})
      BY <1>1, <1>10, <2>1, CasMoves
    <2> QED
      BY <1>10, <2>1, <2>2, OutsideTemp DEF Moves, TempPcs, Cas!MetaWritten
  <1>11. ASSUME NEW p \in Downloads \cup Imports, Cas!Index(p) PROVE TempIsPrivate' /\ Cas!NeverHalfABlob'
    <2>1. p \in Cas!Procs
      BY DEF Cas!Procs
    <2>2. Moves(p, "index", {"git", "tree"})
      BY <1>1, <1>11, <2>1, CasMoves
    <2> QED
      BY <1>11, <2>1, <2>2, OutsideTemp DEF Moves, TempPcs, Cas!Index
  <1>12. ASSUME NEW p \in Downloads, Cas!SetGitSha1(p) PROVE TempIsPrivate' /\ Cas!NeverHalfABlob'
    <2>1. p \in Cas!Procs
      BY DEF Cas!Procs
    <2>2. Moves(p, "git", {"tree"})
      BY <1>1, <1>12, <2>1, CasMoves
    <2> QED
      BY <1>12, <2>1, <2>2, OutsideTemp DEF Moves, TempPcs, Cas!SetGitSha1
  <1>13. ASSUME NEW p \in Downloads \cup Imports, Cas!StoreChunkTree(p) PROVE TempIsPrivate' /\ Cas!NeverHalfABlob'
    <2>1. p \in Cas!Procs
      BY DEF Cas!Procs
    <2>2. Moves(p, "tree", {"tree_open", "idle"})
      BY <1>1, <1>13, <2>1, CasMoves
    <2> QED
      BY <1>13, <2>1, <2>2, OutsideTemp DEF Moves, TempPcs, Cas!StoreChunkTree
  <1>14. ASSUME NEW p \in Downloads \cup Imports, Cas!TreeWritten(p) PROVE TempIsPrivate' /\ Cas!NeverHalfABlob'
    <2>1. p \in Cas!Procs
      BY DEF Cas!Procs
    <2>2. Moves(p, "tree_open", {"idle"})
      BY <1>1, <1>14, <2>1, CasMoves
    <2> QED
      BY <1>14, <2>1, <2>2, OutsideTemp DEF Moves, TempPcs, Cas!TreeWritten
  <1>15. ASSUME NEW p \in Imports, Cas!ImportHasBlob(p) PROVE TempIsPrivate' /\ Cas!NeverHalfABlob'
    <2>1. p \in Cas!Procs
      BY DEF Cas!Procs
    <2>2. Moves(p, "import", {"meta"})
      BY <1>1, <1>15, <2>1, CasMoves
    <2> QED
      BY <1>15, <2>1, <2>2, OutsideTemp DEF Moves, TempPcs, Cas!ImportHasBlob
  <1>16. ASSUME NEW p \in Imports, Cas!OpenTemp(p) PROVE TempIsPrivate' /\ Cas!NeverHalfABlob'
    <2>1. p \in Cas!Procs /\ Imports \subseteq Cas!Procs
      BY DEF Cas!Procs
    <2>2. blob \in 0 .. used /\ tmp \in 0 .. used /\ used \in Nat
      BY DEF StoreShape, FilesOK, Bounded
    <2>3. Moves(p, "import", {"copying"}) /\ proc'[p].inode = tmp'
      BY <1>1, <1>16, <2>1, <2>2, OpenTempMoves
    <2>4. /\ blob = 0 /\ blob' = 0 /\ whole' = whole \ {tmp'} /\ tmp' # 0
          /\ tmp' = tmp \/ (tmp = 0 /\ tmp' = used + 1)
      BY <1>16, <2>2 DEF Cas!OpenTemp
    <2>5. overlap' = (overlap \/ \E q \in Imports : InTemp(q))
      BY <1>16 DEF Cas!OpenTemp, Cas!At, InTemp
    <2>6. tmp' # 0 => tmp' # blob'
      BY <2>4
    <2>7. Cas!NeverHalfABlob'
      BY <2>4 DEF Cas!NeverHalfABlob
    <2>8. ~overlap' => \A q \in Imports : InTemp(q)' => q = p
      BY <2>1, <2>3, <2>5 DEF Moves, InTemp
    <2>9. proc'[p].pc = "copying"
      BY <2>3 DEF Moves
    <2> QED
      BY <2>3, <2>4, <2>6, <2>7, <2>8, <2>9 DEF TempIsPrivate, InTemp
  <1>17. ASSUME NEW p \in Imports, Cas!Copied(p) PROVE TempIsPrivate' /\ Cas!NeverHalfABlob'
    <2>1. p \in Cas!Procs /\ Imports \subseteq Cas!Procs
      BY DEF Cas!Procs
    <2>2. UNCHANGED <<blob, tmp, overlap>> /\ whole \subseteq whole'
      BY <1>17 DEF Cas!Copied
    <2>3. Cas!NeverHalfABlob'
      BY <2>2 DEF Cas!NeverHalfABlob
    <2>4. CASE Cas!Goto(p, "rename") /\ whole' = whole \cup {proc[p].inode}
      <3>1. Moves(p, "copying", {"rename"}) /\ proc'[p].inode = proc[p].inode
        BY <1>1, <1>17, <2>1, <2>4, GotoMoves DEF Cas!Copied, Pcs
      <3>2. \A q \in Imports : (InTemp(q)' <=> InTemp(q)) /\ proc'[q].inode = proc[q].inode
        BY <2>1, <3>1 DEF Moves, InTemp
      <3>3. ~overlap => tmp \in whole'
        BY <2>4, <3>1 DEF TempIsPrivate, InTemp, Moves
      <3> QED
        BY <2>2, <2>3, <3>2, <3>3 DEF TempIsPrivate
    <2>5. CASE Cas!Return(p)
      <3>1. Moves(p, "copying", {"idle"})
        BY <1>1, <1>17, <2>1, <2>5, ReturnMoves DEF Cas!Copied
      <3>2. \A q \in Imports : (InTemp(q)' => InTemp(q) /\ proc'[q] = proc[q])
        BY <2>1, <3>1 DEF Moves, InTemp
      <3>3. \A q \in Imports : proc'[q].pc = "rename" => proc[q].pc = "rename"
        BY <3>2 DEF InTemp
      <3> QED
        BY <2>2, <2>3, <3>2, <3>3 DEF TempIsPrivate
    <2> QED
      BY <1>17, <2>4, <2>5 DEF Cas!Copied
  <1>18. ASSUME NEW p \in Imports, Cas!ImportCommit(p) PROVE TempIsPrivate' /\ Cas!NeverHalfABlob'
    <2>1. p \in Cas!Procs /\ Imports \subseteq Cas!Procs
      BY DEF Cas!Procs
    <2>2. Moves(p, "rename", {"index", "meta", "idle"})
      BY <1>1, <1>18, <2>1, CasMoves
    <2>3. /\ UNCHANGED <<whole, overlap>>
          /\ \/ tmp' = 0 /\ blob' = blob
             \/ blob = 0 /\ tmp # 0 /\ blob' = tmp /\ tmp' = 0
             \/ blob = 0 /\ UNCHANGED <<blob, tmp>>
      BY <1>18 DEF Cas!ImportCommit
    <2>4. InTemp(p) /\ proc[p].pc = "rename" /\ ~InTemp(p)'
      BY <2>2 DEF Moves, InTemp
    <2>5. ~overlap => \A q \in Imports : ~InTemp(q)'
      BY <2>1, <2>2, <2>4 DEF Moves, InTemp, TempIsPrivate
    <2>6. Cas!NeverHalfABlob'
      BY <2>3, <2>4 DEF Cas!NeverHalfABlob, TempIsPrivate
    <2> QED
      BY <2>3, <2>5, <2>6 DEF TempIsPrivate, InTemp
  <1>19. ASSUME NEW p \in Installs, Cas!UnlinkDest(p) PROVE TempIsPrivate' /\ Cas!NeverHalfABlob'
    <2>1. p \in Cas!Procs
      BY DEF Cas!Procs
    <2>2. Moves(p, "unlink", {"link", "idle"})
      BY <1>1, <1>19, <2>1, CasMoves
    <2> QED
      BY <1>19, <2>1, <2>2, OutsideTemp DEF Moves, TempPcs, Cas!UnlinkDest
  <1>20. ASSUME NEW p \in Installs, Cas!LinkDest(p) PROVE TempIsPrivate' /\ Cas!NeverHalfABlob'
    <2>1. p \in Cas!Procs /\ used \in Nat /\ dest \in Nat
      BY DEF Cas!Procs, StoreShape, FilesOK, Bounded
    <2>2. /\ Moves(p, "link", {"record", "copy", "idle"}) /\ UNCHANGED <<blob, tmp>>
          /\ \/ UNCHANGED <<whole, overlap>>
             \/ /\ whole' = whole \ {dest'} /\ overlap' = (overlap \/ dest # 0)
                /\ dest' = (IF dest = 0 THEN used + 1 ELSE dest)
      BY <1>1, <1>20, <2>1, LinkDestMoves
    <2>3. CASE UNCHANGED <<whole, overlap>>
      BY <2>1, <2>2, <2>3, OutsideTemp DEF Moves, TempPcs
    <2>4. CASE /\ whole' = whole \ {dest'} /\ overlap' = (overlap \/ dest # 0)
               /\ dest' = (IF dest = 0 THEN used + 1 ELSE dest)
      <3>1. overlap' \/ \A i \in whole : i \in whole' \/ i = used + 1
        BY <2>4
      <3> QED
        BY <2>1, <2>2, <2>4, <3>1, OutsideTemp DEF Moves, TempPcs
    <2> QED
      BY <2>2, <2>3, <2>4
  <1>21. ASSUME NEW p \in Installs, Cas!CopyDest(p) PROVE TempIsPrivate' /\ Cas!NeverHalfABlob'
    <2>1. p \in Cas!Procs
      BY DEF Cas!Procs
    <2>2. Moves(p, "copy", {"record", "idle"})
      BY <1>1, <1>21, <2>1, CasMoves
    <2> QED
      BY <1>21, <2>1, <2>2, OutsideTemp DEF Moves, TempPcs, Cas!CopyDest
  <1>22. ASSUME NEW p \in Installs, Cas!RecordInstall(p) PROVE TempIsPrivate' /\ Cas!NeverHalfABlob'
    <2>1. p \in Cas!Procs
      BY DEF Cas!Procs
    <2>2. Moves(p, "record", {"installed"})
      BY <1>1, <1>22, <2>1, CasMoves
    <2> QED
      BY <1>22, <2>1, <2>2, OutsideTemp DEF Moves, TempPcs, Cas!RecordInstall
  <1>23. ASSUME NEW p \in Installs, Cas!Installed(p) PROVE TempIsPrivate' /\ Cas!NeverHalfABlob'
    <2>1. p \in Cas!Procs
      BY DEF Cas!Procs
    <2>2. Moves(p, "installed", {"idle"})
      BY <1>1, <1>23, <2>1, CasMoves
    <2> QED
      BY <1>23, <2>1, <2>2, OutsideTemp DEF Moves, TempPcs, Cas!Installed
  <1>24. ASSUME NEW p \in Evicts, Cas!EvictDest(p) PROVE TempIsPrivate' /\ Cas!NeverHalfABlob'
    <2>1. p \in Cas!Procs
      BY DEF Cas!Procs
    <2>2. Moves(p, "evict_dest", {"evict_view", "idle"})
      BY <1>1, <1>24, <2>1, CasMoves
    <2> QED
      BY <1>24, <2>1, <2>2, OutsideTemp DEF Moves, TempPcs, Cas!EvictDest
  <1>25. ASSUME NEW p \in Evicts, Cas!EvictView(p) PROVE TempIsPrivate' /\ Cas!NeverHalfABlob'
    <2>1. p \in Cas!Procs
      BY DEF Cas!Procs
    <2>2. Moves(p, "evict_view", {"evict_read"})
      BY <1>1, <1>25, <2>1, CasMoves
    <2> QED
      BY <1>25, <2>1, <2>2, OutsideTemp DEF Moves, TempPcs, Cas!EvictView
  <1>26. ASSUME NEW p \in Evicts, Cas!EvictRead(p) PROVE TempIsPrivate' /\ Cas!NeverHalfABlob'
    <2>1. p \in Cas!Procs
      BY DEF Cas!Procs
    <2>2. Moves(p, "evict_read", {"evict_blob", "idle"})
      BY <1>1, <1>26, <2>1, CasMoves
    <2> QED
      BY <1>26, <2>1, <2>2, OutsideTemp DEF Moves, TempPcs, Cas!EvictRead
  <1>27. ASSUME NEW p \in Evicts, Cas!EvictBlob(p) PROVE TempIsPrivate' /\ Cas!NeverHalfABlob'
    <2>1. p \in Cas!Procs
      BY DEF Cas!Procs
    <2>2. Moves(p, "evict_blob", {"evict_meta", "idle"})
      BY <1>1, <1>27, <2>1, CasMoves
    <2> QED
      BY <1>27, <2>1, <2>2, OutsideTemp DEF Moves, TempPcs, Cas!EvictBlob
  <1>28. ASSUME NEW p \in Evicts, Cas!EvictMeta(p) PROVE TempIsPrivate' /\ Cas!NeverHalfABlob'
    <2>1. p \in Cas!Procs
      BY DEF Cas!Procs
    <2>2. Moves(p, "evict_meta", {"evict_tree", "idle"})
      BY <1>1, <1>28, <2>1, CasMoves
    <2> QED
      BY <1>28, <2>1, <2>2, OutsideTemp DEF Moves, TempPcs, Cas!EvictMeta
  <1>29. ASSUME NEW p \in Evicts, Cas!EvictTree(p) PROVE TempIsPrivate' /\ Cas!NeverHalfABlob'
    <2>1. p \in Cas!Procs
      BY DEF Cas!Procs
    <2>2. Moves(p, "evict_tree", {"evict_row"})
      BY <1>1, <1>29, <2>1, CasMoves
    <2> QED
      BY <1>29, <2>1, <2>2, OutsideTemp DEF Moves, TempPcs, Cas!EvictTree
  <1>30. ASSUME NEW p \in Evicts, Cas!EvictRow(p) PROVE TempIsPrivate' /\ Cas!NeverHalfABlob'
    <2>1. p \in Cas!Procs
      BY DEF Cas!Procs
    <2>2. Moves(p, "evict_row", {"evicted"})
      BY <1>1, <1>30, <2>1, CasMoves
    <2> QED
      BY <1>30, <2>1, <2>2, OutsideTemp DEF Moves, TempPcs, Cas!EvictRow
  <1>31. ASSUME NEW p \in Evicts, Cas!Evicted(p) PROVE TempIsPrivate' /\ Cas!NeverHalfABlob'
    <2>1. p \in Cas!Procs
      BY DEF Cas!Procs
    <2>2. Moves(p, "evicted", {"idle"})
      BY <1>1, <1>31, <2>1, CasMoves
    <2> QED
      BY <1>31, <2>1, <2>2, OutsideTemp DEF Moves, TempPcs, Cas!Evicted
  <1>32. ASSUME NEW p \in Reconciles, Cas!CheckBlob(p) PROVE TempIsPrivate' /\ Cas!NeverHalfABlob'
    <2>1. p \in Cas!Procs
      BY DEF Cas!Procs
    <2>2. Moves(p, "check", {"remove", "views"})
      BY <1>1, <1>32, <2>1, CasMoves
    <2> QED
      BY <1>32, <2>1, <2>2, OutsideTemp DEF Moves, TempPcs, Cas!CheckBlob
  <1>33. ASSUME NEW p \in Reconciles, Cas!RemoveLeftovers(p) PROVE TempIsPrivate' /\ Cas!NeverHalfABlob'
    <2>1. p \in Cas!Procs
      BY DEF Cas!Procs
    <2>2. Moves(p, "remove", {"drop_row"})
      BY <1>1, <1>33, <2>1, CasMoves
    <2> QED
      BY <1>33, <2>1, <2>2, OutsideTemp DEF Moves, TempPcs, Cas!RemoveLeftovers
  <1>34. ASSUME NEW p \in Reconciles, Cas!DropStaleRow(p) PROVE TempIsPrivate' /\ Cas!NeverHalfABlob'
    <2>1. p \in Cas!Procs
      BY DEF Cas!Procs
    <2>2. Moves(p, "drop_row", {"views"})
      BY <1>1, <1>34, <2>1, CasMoves
    <2> QED
      BY <1>34, <2>1, <2>2, OutsideTemp DEF Moves, TempPcs, Cas!DropStaleRow
  <1>35. ASSUME NEW p \in Reconciles, Cas!CheckView(p) PROVE TempIsPrivate' /\ Cas!NeverHalfABlob'
    <2>1. p \in Cas!Procs
      BY DEF Cas!Procs
    <2>2. Moves(p, "views", {"reconciled"})
      BY <1>1, <1>35, <2>1, CasMoves
    <2> QED
      BY <1>35, <2>1, <2>2, OutsideTemp DEF Moves, TempPcs, Cas!CheckView
  <1>36. ASSUME NEW p \in Reconciles, Cas!Reconciled(p) PROVE TempIsPrivate' /\ Cas!NeverHalfABlob'
    <2>1. p \in Cas!Procs
      BY DEF Cas!Procs
    <2>2. Moves(p, "reconciled", {"idle"})
      BY <1>1, <1>36, <2>1, CasMoves
    <2> QED
      BY <1>36, <2>1, <2>2, OutsideTemp DEF Moves, TempPcs, Cas!Reconciled
  <1>37. ASSUME Cas!DeleteByHand PROVE TempIsPrivate' /\ Cas!NeverHalfABlob'
    BY <1>37 DEF Cas!DeleteByHand, Cas!NeverHalfABlob, TempIsPrivate, InTemp
  <1>38. ASSUME Cas!Crash PROVE TempIsPrivate' /\ Cas!NeverHalfABlob'
    <2>1. UNCHANGED <<blob, tmp, whole, overlap>>
      BY <1>38 DEF Cas!Crash
    <2>2. \A q \in Imports : proc'[q].pc = "idle"
      BY <1>38 DEF Cas!Crash, Cas!Procs, Cas!Idle
    <2> QED
      BY <2>1, <2>2 DEF Cas!NeverHalfABlob, TempIsPrivate, InTemp
  <1> QED
    BY <1>2, <1>3, <1>4, <1>5, <1>6, <1>7, <1>8, <1>9, <1>10, <1>11, <1>12, <1>13, <1>14, <1>15,
       <1>16, <1>17, <1>18, <1>19, <1>20, <1>21, <1>22, <1>23, <1>24, <1>25, <1>26, <1>27, <1>28,
       <1>29, <1>30, <1>31, <1>32, <1>33, <1>34, <1>35, <1>36, <1>37, <1>38 DEF Cas!Next

(* A step of a process that is under way: nobody else can be running alone. *)
LEMMA AloneMoves ==
    ASSUME CleanIsAlone, NEW p \in Cas!Procs, clean \in SUBSET Cas!Procs,
           NEW from, NEW to, Moves(p, from, to), from # "idle",
           clean' = clean, DoneAlone(p) => DoneAlone(p)'
    PROVE  CleanIsAlone'
  <1> SUFFICES ASSUME NEW q \in clean
               PROVE  DoneAlone(q)' /\ \A r \in Cas!Procs : r # q => proc'[r].pc = "idle"
    BY DEF CleanIsAlone
  <1>1. DoneAlone(q) /\ \A r \in Cas!Procs : r # q => proc[r].pc = "idle"
    BY DEF CleanIsAlone
  <1>2. q = p
    BY <1>1 DEF Moves
  <1> QED
    BY <1>1, <1>2 DEF Moves

LEMMA AloneStarts ==
    ASSUME NEW p \in Cas!Procs, NEW to, Starts(p, to), DoneAlone(p)'
    PROVE  CleanIsAlone'
  BY DEF CleanIsAlone, Starts, Moves

(* An evict, a reconcile or an install that runs alone finds its work as it
   left it. *)
LEMMA CasCleanStep ==
    ASSUME StoreShape, Cas!NeverHalfABlob, CleanIsAlone, Cas!Next
    PROVE  CleanIsAlone'
  <1> USE DEF Cas!files, Cas!bounds
  <1>1. /\ proc \in ProcType /\ clean \in SUBSET Cas!Procs
        /\ used \in Nat /\ tmp \in Nat /\ dest \in Nat /\ blob \in 0 .. used
        /\ overlap \in BOOLEAN
    BY DEF StoreShape, ProcOK, FilesOK, FlagsOK, Bounded
  <1>2. ASSUME NEW p \in Downloads, Cas!Download(p) PROVE CleanIsAlone'
    <2>1. p \in Cas!Procs
      BY DEF Cas!Procs
    <2>2. Starts(p, {"hit", "commit"}) /\ UNCHANGED <<blob, dest, meta, tree, row, view>>
      BY <1>1, <1>2, <2>1, CasStarts DEF Cas!Download
    <2>3. DoneAlone(p)'
      BY <2>2 DEF DoneAlone, EvictAlone, InstallAlone, Starts, Moves
    <2> QED
      BY <2>1, <2>2, <2>3, AloneStarts
  <1>3. ASSUME NEW p \in Imports, Cas!Import(p) PROVE CleanIsAlone'
    <2>1. p \in Cas!Procs
      BY DEF Cas!Procs
    <2>2. Starts(p, {"import"}) /\ UNCHANGED <<blob, dest, meta, tree, row, view>>
      BY <1>1, <1>3, <2>1, CasStarts DEF Cas!Import
    <2>3. DoneAlone(p)'
      BY <2>2 DEF DoneAlone, EvictAlone, InstallAlone, Starts, Moves
    <2> QED
      BY <2>1, <2>2, <2>3, AloneStarts
  <1>4. ASSUME NEW p \in Installs, Cas!Install(p) PROVE CleanIsAlone'
    <2>1. p \in Cas!Procs
      BY DEF Cas!Procs
    <2>2. Starts(p, {"unlink"}) /\ UNCHANGED <<blob, dest, meta, tree, row, view>>
      BY <1>1, <1>4, <2>1, CasStarts DEF Cas!Install
    <2>3. DoneAlone(p)'
      BY <2>2 DEF DoneAlone, EvictAlone, InstallAlone, Starts, Moves
    <2> QED
      BY <2>1, <2>2, <2>3, AloneStarts
  <1>5. ASSUME NEW p \in Evicts, Cas!Evict(p) PROVE CleanIsAlone'
    <2>1. p \in Cas!Procs
      BY DEF Cas!Procs
    <2>2. Starts(p, {"evict_dest", "evict_read"}) /\ UNCHANGED <<blob, dest, meta, tree, row, view>>
      BY <1>1, <1>5, <2>1, CasStarts DEF Cas!Evict
    <2>3. proc'[p].pc = "evict_read" => ~view
      BY <1>1, <1>5, <2>1, StartMoves DEF Cas!Evict, Pcs, Moves
    <2>4. DoneAlone(p)'
      BY <2>2, <2>3 DEF DoneAlone, EvictAlone, InstallAlone, Starts, Moves
    <2> QED
      BY <2>1, <2>2, <2>4, AloneStarts
  <1>6. ASSUME NEW p \in Reconciles, Cas!Reconcile(p) PROVE CleanIsAlone'
    <2>1. p \in Cas!Procs
      BY DEF Cas!Procs
    <2>2. Starts(p, {"check", "views"}) /\ UNCHANGED <<blob, dest, meta, tree, row, view>>
      BY <1>1, <1>6, <2>1, CasStarts DEF Cas!Reconcile
    <2>3. proc'[p].pc = "views" => ~row.present
      BY <1>1, <1>6, <2>1, StartMoves DEF Cas!Reconcile, Pcs, Moves
    <2>4. DoneAlone(p)'
      BY <2>2, <2>3 DEF DoneAlone, EvictAlone, InstallAlone, Starts, Moves
    <2> QED
      BY <2>1, <2>2, <2>4, AloneStarts
  <1>7. ASSUME NEW p \in Downloads, Cas!CacheHit(p) PROVE CleanIsAlone'
    <2>1. p \in Cas!Procs
      BY DEF Cas!Procs
    <2>2. Moves(p, "hit", {"idle"})
      BY <1>1, <1>7, <2>1, CasMoves
    <2>3. DoneAlone(p) => DoneAlone(p)'
      BY <1>7, <2>2 DEF DoneAlone, EvictAlone, InstallAlone, Moves, Cas!CacheHit
    <2>4. clean' = clean
      BY <1>7 DEF Cas!CacheHit
    <2> QED
      BY <1>1, <2>1, <2>2, <2>3, <2>4, AloneMoves
  <1>8. ASSUME NEW p \in Downloads, Cas!Commit(p) PROVE CleanIsAlone'
    <2>1. p \in Cas!Procs
      BY DEF Cas!Procs
    <2>2. Moves(p, "commit", {"index", "meta", "idle"})
      BY <1>1, <1>8, <2>1, CasMoves
    <2>3. DoneAlone(p) => DoneAlone(p)'
      BY <1>8, <2>2 DEF DoneAlone, EvictAlone, InstallAlone, Moves, Cas!Commit
    <2>4. clean' = clean
      BY <1>8 DEF Cas!Commit
    <2> QED
      BY <1>1, <2>1, <2>2, <2>3, <2>4, AloneMoves
  <1>9. ASSUME NEW p \in Downloads \cup Imports, Cas!WriteMeta(p) PROVE CleanIsAlone'
    <2>1. p \in Cas!Procs
      BY DEF Cas!Procs
    <2>2. Moves(p, "meta", {"meta_open", "idle"})
      BY <1>1, <1>9, <2>1, CasMoves
    <2>3. DoneAlone(p) => DoneAlone(p)'
      BY <1>9, <2>2 DEF DoneAlone, EvictAlone, InstallAlone, Moves, Cas!WriteMeta
    <2>4. clean' = clean
      BY <1>9 DEF Cas!WriteMeta
    <2> QED
      BY <1>1, <2>1, <2>2, <2>3, <2>4, AloneMoves
  <1>10. ASSUME NEW p \in Downloads \cup Imports, Cas!MetaWritten(p) PROVE CleanIsAlone'
    <2>1. p \in Cas!Procs
      BY DEF Cas!Procs
    <2>2. Moves(p, "meta_open", {"index", "idle"})
      BY <1>1, <1>10, <2>1, CasMoves
    <2>3. DoneAlone(p) => DoneAlone(p)'
      BY <1>10, <2>2 DEF DoneAlone, EvictAlone, InstallAlone, Moves, Cas!MetaWritten
    <2>4. clean' = clean
      BY <1>10 DEF Cas!MetaWritten
    <2> QED
      BY <1>1, <2>1, <2>2, <2>3, <2>4, AloneMoves
  <1>11. ASSUME NEW p \in Downloads \cup Imports, Cas!Index(p) PROVE CleanIsAlone'
    <2>1. p \in Cas!Procs
      BY DEF Cas!Procs
    <2>2. Moves(p, "index", {"git", "tree"})
      BY <1>1, <1>11, <2>1, CasMoves
    <2>3. DoneAlone(p) => DoneAlone(p)'
      BY <1>11, <2>2 DEF DoneAlone, EvictAlone, InstallAlone, Moves, Cas!Index
    <2>4. clean' = clean
      BY <1>11 DEF Cas!Index
    <2> QED
      BY <1>1, <2>1, <2>2, <2>3, <2>4, AloneMoves
  <1>12. ASSUME NEW p \in Downloads, Cas!SetGitSha1(p) PROVE CleanIsAlone'
    <2>1. p \in Cas!Procs
      BY DEF Cas!Procs
    <2>2. Moves(p, "git", {"tree"})
      BY <1>1, <1>12, <2>1, CasMoves
    <2>3. DoneAlone(p) => DoneAlone(p)'
      BY <1>12, <2>2 DEF DoneAlone, EvictAlone, InstallAlone, Moves, Cas!SetGitSha1
    <2>4. clean' = clean
      BY <1>12 DEF Cas!SetGitSha1
    <2> QED
      BY <1>1, <2>1, <2>2, <2>3, <2>4, AloneMoves
  <1>13. ASSUME NEW p \in Downloads \cup Imports, Cas!StoreChunkTree(p) PROVE CleanIsAlone'
    <2>1. p \in Cas!Procs
      BY DEF Cas!Procs
    <2>2. Moves(p, "tree", {"tree_open", "idle"})
      BY <1>1, <1>13, <2>1, CasMoves
    <2>3. DoneAlone(p) => DoneAlone(p)'
      BY <1>13, <2>2 DEF DoneAlone, EvictAlone, InstallAlone, Moves, Cas!StoreChunkTree
    <2>4. clean' = clean
      BY <1>13 DEF Cas!StoreChunkTree
    <2> QED
      BY <1>1, <2>1, <2>2, <2>3, <2>4, AloneMoves
  <1>14. ASSUME NEW p \in Downloads \cup Imports, Cas!TreeWritten(p) PROVE CleanIsAlone'
    <2>1. p \in Cas!Procs
      BY DEF Cas!Procs
    <2>2. Moves(p, "tree_open", {"idle"})
      BY <1>1, <1>14, <2>1, CasMoves
    <2>3. DoneAlone(p) => DoneAlone(p)'
      BY <1>14, <2>2 DEF DoneAlone, EvictAlone, InstallAlone, Moves, Cas!TreeWritten
    <2>4. clean' = clean
      BY <1>14 DEF Cas!TreeWritten
    <2> QED
      BY <1>1, <2>1, <2>2, <2>3, <2>4, AloneMoves
  <1>15. ASSUME NEW p \in Imports, Cas!ImportHasBlob(p) PROVE CleanIsAlone'
    <2>1. p \in Cas!Procs
      BY DEF Cas!Procs
    <2>2. Moves(p, "import", {"meta"})
      BY <1>1, <1>15, <2>1, CasMoves
    <2>3. DoneAlone(p) => DoneAlone(p)'
      BY <1>15, <2>2 DEF DoneAlone, EvictAlone, InstallAlone, Moves, Cas!ImportHasBlob
    <2>4. clean' = clean
      BY <1>15 DEF Cas!ImportHasBlob
    <2> QED
      BY <1>1, <2>1, <2>2, <2>3, <2>4, AloneMoves
  <1>16. ASSUME NEW p \in Imports, Cas!OpenTemp(p) PROVE CleanIsAlone'
    <2>1. p \in Cas!Procs
      BY DEF Cas!Procs
    <2>2. Moves(p, "import", {"copying"})
      BY <1>1, <1>16, <2>1, OpenTempMoves
    <2>3. DoneAlone(p) => DoneAlone(p)'
      BY <1>16, <2>2 DEF DoneAlone, EvictAlone, InstallAlone, Moves, Cas!OpenTemp
    <2>4. clean' = clean
      BY <1>16 DEF Cas!OpenTemp
    <2> QED
      BY <1>1, <2>1, <2>2, <2>3, <2>4, AloneMoves
  <1>17. ASSUME NEW p \in Imports, Cas!Copied(p) PROVE CleanIsAlone'
    <2>1. p \in Cas!Procs
      BY DEF Cas!Procs
    <2>2. Moves(p, "copying", {"rename", "idle"})
      BY <1>1, <1>17, <2>1, CasMoves
    <2>3. DoneAlone(p) => DoneAlone(p)'
      BY <1>17, <2>2 DEF DoneAlone, EvictAlone, InstallAlone, Moves, Cas!Copied
    <2>4. clean' = clean
      BY <1>17 DEF Cas!Copied
    <2> QED
      BY <1>1, <2>1, <2>2, <2>3, <2>4, AloneMoves
  <1>18. ASSUME NEW p \in Imports, Cas!ImportCommit(p) PROVE CleanIsAlone'
    <2>1. p \in Cas!Procs
      BY DEF Cas!Procs
    <2>2. Moves(p, "rename", {"index", "meta", "idle"})
      BY <1>1, <1>18, <2>1, CasMoves
    <2>3. DoneAlone(p) => DoneAlone(p)'
      BY <1>18, <2>2 DEF DoneAlone, EvictAlone, InstallAlone, Moves, Cas!ImportCommit
    <2>4. clean' = clean
      BY <1>18 DEF Cas!ImportCommit
    <2> QED
      BY <1>1, <2>1, <2>2, <2>3, <2>4, AloneMoves
  <1>19. ASSUME NEW p \in Installs, Cas!UnlinkDest(p) PROVE CleanIsAlone'
    <2>1. p \in Cas!Procs
      BY DEF Cas!Procs
    <2>2. Moves(p, "unlink", {"link", "idle"})
      BY <1>1, <1>19, <2>1, CasMoves
    <2>3. proc'[p].pc = "link" => dest' = 0
      BY <1>1, <1>19, <2>1, ReturnMoves DEF Cas!UnlinkDest, Moves
    <2>4. DoneAlone(p) => DoneAlone(p)'
      BY <1>19, <2>2, <2>3 DEF DoneAlone, EvictAlone, InstallAlone, Moves, Cas!UnlinkDest
    <2>5. clean' = clean
      BY <1>19 DEF Cas!UnlinkDest
    <2> QED
      BY <1>1, <2>1, <2>2, <2>4, <2>5, AloneMoves
  <1>20. ASSUME NEW p \in Installs, Cas!LinkDest(p) PROVE CleanIsAlone'
    <2>1. p \in Cas!Procs
      BY DEF Cas!Procs
    <2>2. /\ Moves(p, "link", {"record", "copy", "idle"}) /\ UNCHANGED <<blob, meta, row, view, clean>>
          /\ \/ UNCHANGED overlap /\ proc'[p].pc = "idle"
             \/ /\ dest' = blob /\ blob # 0 /\ UNCHANGED <<whole, overlap>>
                /\ proc'[p].pc = "record"
             \/ /\ dest' = (IF dest = 0 THEN used + 1 ELSE dest)
                /\ overlap' = (overlap \/ dest # 0)
                /\ proc'[p].inode = dest' /\ proc'[p].inode # 0
                /\ proc'[p].pc = (IF blob \in whole /\ blob # dest' THEN "copy" ELSE "record")
                /\ blob # 0
      BY <1>1, <1>20, <2>1, LinkDestMoves
    <2>3. ASSUME ~overlap', DoneAlone(p) PROVE InstallAlone(p)'
      <3>1. proc[p].pc = "link" /\ ~overlap /\ dest = 0
        <4>1. overlap' = overlap \/ overlap' = (overlap \/ dest # 0)
          BY <2>2
        <4>2. ~overlap
          BY <1>1, <2>3, <4>1
        <4> QED
          BY <2>2, <2>3, <4>2 DEF Moves, DoneAlone, InstallAlone
      <3>2. blob # 0 => blob \in whole /\ blob # used + 1
        BY <1>1, <3>1 DEF Cas!NeverHalfABlob
      <3>3. \/ proc'[p].pc = "idle"
            \/ proc'[p].pc = "record" /\ dest' # 0 /\ dest' \in whole'
            \/ proc'[p].pc = "copy" /\ dest' # 0 /\ dest' = proc'[p].inode
        <4>1. CASE proc'[p].pc = "idle"
          BY <4>1
        <4>2. CASE dest' = blob /\ blob # 0 /\ UNCHANGED whole /\ proc'[p].pc = "record"
          BY <3>1, <3>2, <4>2
        <4>3. CASE /\ dest' = (IF dest = 0 THEN used + 1 ELSE dest) /\ blob # 0
                   /\ proc'[p].inode = dest' /\ proc'[p].inode # 0
                   /\ proc'[p].pc = (IF blob \in whole /\ blob # dest' THEN "copy" ELSE "record")
          <5>1. blob \in whole /\ blob # dest'
            BY <3>1, <3>2, <4>3
          <5> QED
            BY <4>3, <5>1
        <4> QED
          BY <2>2, <4>1, <4>2, <4>3
      <3> QED
        BY <3>3 DEF InstallAlone
    <2>4. DoneAlone(p) => DoneAlone(p)'
      BY <2>2, <2>3 DEF DoneAlone, EvictAlone, Moves
    <2> QED
      BY <1>1, <2>1, <2>2, <2>4, AloneMoves
  <1>21. ASSUME NEW p \in Installs, Cas!CopyDest(p) PROVE CleanIsAlone'
    <2>1. p \in Cas!Procs
      BY DEF Cas!Procs
    <2>2. Moves(p, "copy", {"record", "idle"})
      BY <1>1, <1>21, <2>1, CasMoves
    <2>3. proc'[p].pc = "record" => whole' = whole \cup {proc[p].inode}
      BY <1>1, <1>21, <2>1, ReturnMoves DEF Cas!CopyDest, Moves
    <2>4. DoneAlone(p) => DoneAlone(p)'
      BY <1>21, <2>2, <2>3 DEF DoneAlone, EvictAlone, InstallAlone, Moves, Cas!CopyDest
    <2>5. clean' = clean
      BY <1>21 DEF Cas!CopyDest
    <2> QED
      BY <1>1, <2>1, <2>2, <2>4, <2>5, AloneMoves
  <1>22. ASSUME NEW p \in Installs, Cas!RecordInstall(p) PROVE CleanIsAlone'
    <2>1. p \in Cas!Procs
      BY DEF Cas!Procs
    <2>2. Moves(p, "record", {"installed"})
      BY <1>1, <1>22, <2>1, CasMoves
    <2>3. DoneAlone(p) => DoneAlone(p)'
      BY <1>22, <2>2 DEF DoneAlone, EvictAlone, InstallAlone, Moves, Cas!RecordInstall
    <2>4. clean' = clean
      BY <1>22 DEF Cas!RecordInstall
    <2> QED
      BY <1>1, <2>1, <2>2, <2>3, <2>4, AloneMoves
  <1>23. ASSUME NEW p \in Installs, Cas!Installed(p) PROVE CleanIsAlone'
    <2>1. p \in Cas!Procs
      BY DEF Cas!Procs
    <2>2. Moves(p, "installed", {"idle"})
      BY <1>1, <1>23, <2>1, CasMoves
    <2>3. DoneAlone(p) => DoneAlone(p)'
      BY <1>23, <2>2 DEF DoneAlone, EvictAlone, InstallAlone, Moves, Cas!Installed
    <2>4. clean' = clean
      BY <1>23 DEF Cas!Installed
    <2> QED
      BY <1>1, <2>1, <2>2, <2>3, <2>4, AloneMoves
  <1>24. ASSUME NEW p \in Evicts, Cas!EvictDest(p) PROVE CleanIsAlone'
    <2>1. p \in Cas!Procs
      BY DEF Cas!Procs
    <2>2. Moves(p, "evict_dest", {"evict_view", "idle"})
      BY <1>1, <1>24, <2>1, CasMoves
    <2>3. DoneAlone(p) => DoneAlone(p)'
      BY <1>24, <2>2 DEF DoneAlone, EvictAlone, InstallAlone, Moves, Cas!EvictDest
    <2>4. clean' = clean
      BY <1>24 DEF Cas!EvictDest
    <2> QED
      BY <1>1, <2>1, <2>2, <2>3, <2>4, AloneMoves
  <1>25. ASSUME NEW p \in Evicts, Cas!EvictView(p) PROVE CleanIsAlone'
    <2>1. p \in Cas!Procs
      BY DEF Cas!Procs
    <2>2. Moves(p, "evict_view", {"evict_read"})
      BY <1>1, <1>25, <2>1, CasMoves
    <2>3. DoneAlone(p) => DoneAlone(p)'
      BY <1>25, <2>2 DEF DoneAlone, EvictAlone, InstallAlone, Moves, Cas!EvictView
    <2>4. clean' = clean
      BY <1>25 DEF Cas!EvictView
    <2> QED
      BY <1>1, <2>1, <2>2, <2>3, <2>4, AloneMoves
  <1>26. ASSUME NEW p \in Evicts, Cas!EvictRead(p) PROVE CleanIsAlone'
    <2>1. p \in Cas!Procs
      BY DEF Cas!Procs
    <2>2. Moves(p, "evict_read", {"evict_blob", "idle"})
      BY <1>1, <1>26, <2>1, CasMoves
    <2>3. DoneAlone(p) => DoneAlone(p)'
      BY <1>26, <2>2 DEF DoneAlone, EvictAlone, InstallAlone, Moves, Cas!EvictRead
    <2>4. clean' = clean
      BY <1>26 DEF Cas!EvictRead
    <2> QED
      BY <1>1, <2>1, <2>2, <2>3, <2>4, AloneMoves
  <1>27. ASSUME NEW p \in Evicts, Cas!EvictBlob(p) PROVE CleanIsAlone'
    <2>1. p \in Cas!Procs
      BY DEF Cas!Procs
    <2>2. Moves(p, "evict_blob", {"evict_meta", "idle"})
      BY <1>1, <1>27, <2>1, CasMoves
    <2>3. proc'[p].pc = "evict_meta" => blob' = 0
      BY <1>1, <1>27, <2>1, ReturnMoves DEF Cas!EvictBlob, Moves
    <2>4. DoneAlone(p) => DoneAlone(p)'
      BY <1>27, <2>2, <2>3 DEF DoneAlone, EvictAlone, InstallAlone, Moves, Cas!EvictBlob
    <2>5. clean' = clean
      BY <1>27 DEF Cas!EvictBlob
    <2> QED
      BY <1>1, <2>1, <2>2, <2>4, <2>5, AloneMoves
  <1>28. ASSUME NEW p \in Evicts, Cas!EvictMeta(p) PROVE CleanIsAlone'
    <2>1. p \in Cas!Procs
      BY DEF Cas!Procs
    <2>2. Moves(p, "evict_meta", {"evict_tree", "idle"})
      BY <1>1, <1>28, <2>1, CasMoves
    <2>3. proc'[p].pc = "evict_tree" => meta' = "none"
      BY <1>1, <1>28, <2>1, ReturnMoves DEF Cas!EvictMeta, Moves
    <2>4. DoneAlone(p) => DoneAlone(p)'
      BY <1>28, <2>2, <2>3 DEF DoneAlone, EvictAlone, InstallAlone, Moves, Cas!EvictMeta
    <2>5. clean' = clean
      BY <1>28 DEF Cas!EvictMeta
    <2> QED
      BY <1>1, <2>1, <2>2, <2>4, <2>5, AloneMoves
  <1>29. ASSUME NEW p \in Evicts, Cas!EvictTree(p) PROVE CleanIsAlone'
    <2>1. p \in Cas!Procs
      BY DEF Cas!Procs
    <2>2. Moves(p, "evict_tree", {"evict_row"})
      BY <1>1, <1>29, <2>1, CasMoves
    <2>3. DoneAlone(p) => DoneAlone(p)'
      BY <1>29, <2>2 DEF DoneAlone, EvictAlone, InstallAlone, Moves, Cas!EvictTree
    <2>4. clean' = clean
      BY <1>29 DEF Cas!EvictTree
    <2> QED
      BY <1>1, <2>1, <2>2, <2>3, <2>4, AloneMoves
  <1>30. ASSUME NEW p \in Evicts, Cas!EvictRow(p) PROVE CleanIsAlone'
    <2>1. p \in Cas!Procs
      BY DEF Cas!Procs
    <2>2. Moves(p, "evict_row", {"evicted"})
      BY <1>1, <1>30, <2>1, CasMoves
    <2>3. DoneAlone(p) => DoneAlone(p)'
      BY <1>30, <2>2 DEF DoneAlone, EvictAlone, InstallAlone, Moves, Cas!EvictRow, Cas!NoRow
    <2>4. clean' = clean
      BY <1>30 DEF Cas!EvictRow
    <2> QED
      BY <1>1, <2>1, <2>2, <2>3, <2>4, AloneMoves
  <1>31. ASSUME NEW p \in Evicts, Cas!Evicted(p) PROVE CleanIsAlone'
    <2>1. p \in Cas!Procs
      BY DEF Cas!Procs
    <2>2. Moves(p, "evicted", {"idle"})
      BY <1>1, <1>31, <2>1, CasMoves
    <2>3. DoneAlone(p) => DoneAlone(p)'
      BY <1>31, <2>2 DEF DoneAlone, EvictAlone, InstallAlone, Moves, Cas!Evicted
    <2>4. clean' = clean
      BY <1>31 DEF Cas!Evicted
    <2> QED
      BY <1>1, <2>1, <2>2, <2>3, <2>4, AloneMoves
  <1>32. ASSUME NEW p \in Reconciles, Cas!CheckBlob(p) PROVE CleanIsAlone'
    <2>1. p \in Cas!Procs
      BY DEF Cas!Procs
    <2>2. Moves(p, "check", {"remove", "views"})
      BY <1>1, <1>32, <2>1, CasMoves
    <2>3. proc'[p].pc = "views" => blob # 0
      BY <1>1, <1>32, <2>1, GotoMoves DEF Cas!CheckBlob, Pcs, Moves
    <2>4. DoneAlone(p) => DoneAlone(p)'
      BY <1>32, <2>2, <2>3 DEF DoneAlone, EvictAlone, InstallAlone, Moves, Cas!CheckBlob
    <2>5. clean' = clean
      BY <1>32 DEF Cas!CheckBlob
    <2> QED
      BY <1>1, <2>1, <2>2, <2>4, <2>5, AloneMoves
  <1>33. ASSUME NEW p \in Reconciles, Cas!RemoveLeftovers(p) PROVE CleanIsAlone'
    <2>1. p \in Cas!Procs
      BY DEF Cas!Procs
    <2>2. Moves(p, "remove", {"drop_row"})
      BY <1>1, <1>33, <2>1, CasMoves
    <2>3. DoneAlone(p) => DoneAlone(p)'
      BY <1>33, <2>2 DEF DoneAlone, EvictAlone, InstallAlone, Moves, Cas!RemoveLeftovers
    <2>4. clean' = clean
      BY <1>33 DEF Cas!RemoveLeftovers
    <2> QED
      BY <1>1, <2>1, <2>2, <2>3, <2>4, AloneMoves
  <1>34. ASSUME NEW p \in Reconciles, Cas!DropStaleRow(p) PROVE CleanIsAlone'
    <2>1. p \in Cas!Procs
      BY DEF Cas!Procs
    <2>2. Moves(p, "drop_row", {"views"})
      BY <1>1, <1>34, <2>1, CasMoves
    <2>3. DoneAlone(p) => DoneAlone(p)'
      BY <1>34, <2>2 DEF DoneAlone, EvictAlone, InstallAlone, Moves, Cas!DropStaleRow, Cas!NoRow
    <2>4. clean' = clean
      BY <1>34 DEF Cas!DropStaleRow
    <2> QED
      BY <1>1, <2>1, <2>2, <2>3, <2>4, AloneMoves
  <1>35. ASSUME NEW p \in Reconciles, Cas!CheckView(p) PROVE CleanIsAlone'
    <2>1. p \in Cas!Procs
      BY DEF Cas!Procs
    <2>2. Moves(p, "views", {"reconciled"})
      BY <1>1, <1>35, <2>1, CasMoves
    <2>3. DoneAlone(p) => DoneAlone(p)'
      BY <1>35, <2>2 DEF DoneAlone, EvictAlone, InstallAlone, Moves, Cas!CheckView
    <2>4. clean' = clean
      BY <1>35 DEF Cas!CheckView
    <2> QED
      BY <1>1, <2>1, <2>2, <2>3, <2>4, AloneMoves
  <1>36. ASSUME NEW p \in Reconciles, Cas!Reconciled(p) PROVE CleanIsAlone'
    <2>1. p \in Cas!Procs
      BY DEF Cas!Procs
    <2>2. Moves(p, "reconciled", {"idle"})
      BY <1>1, <1>36, <2>1, CasMoves
    <2>3. DoneAlone(p) => DoneAlone(p)'
      BY <1>36, <2>2 DEF DoneAlone, EvictAlone, InstallAlone, Moves, Cas!Reconciled
    <2>4. clean' = clean
      BY <1>36 DEF Cas!Reconciled
    <2> QED
      BY <1>1, <2>1, <2>2, <2>3, <2>4, AloneMoves
  <1>37. ASSUME Cas!DeleteByHand \/ Cas!Crash PROVE CleanIsAlone'
    BY <1>37 DEF Cas!DeleteByHand, Cas!Crash, CleanIsAlone
  <1> QED
    BY <1>2, <1>3, <1>4, <1>5, <1>6, <1>7, <1>8, <1>9, <1>10, <1>11, <1>12, <1>13, <1>14, <1>15,
       <1>16, <1>17, <1>18, <1>19, <1>20, <1>21, <1>22, <1>23, <1>24, <1>25, <1>26, <1>27, <1>28,
       <1>29, <1>30, <1>31, <1>32, <1>33, <1>34, <1>35, <1>36, <1>37 DEF Cas!Next

LEMMA CasInit == ASSUME Cas!Init PROVE CasInv
  <1>1. Cas!Idle \in [pc : Pcs, key : {"b3", "sha", "git"}, inode : Nat] /\ Cas!Idle.pc = "idle"
        /\ Cas!Idle.inode = 0 /\ Cas!Idle.key = "b3"
    BY DEF Cas!Idle, Pcs
  <1>2. /\ blob = 0 /\ tmp = 0 /\ dest = 0 /\ whole = {} /\ used = 0 /\ ops = 0 /\ clean = {}
        /\ proc = [p \in Cas!Procs |-> Cas!Idle]
    BY DEF Cas!Init
  <1>3. Taking = {}
    BY <1>1, <1>2 DEF Taking, TakingPcs
  <1>4. Cardinality(Taking) = 0
    BY <1>3, FS_EmptySet
  <1>5. Bounded
    BY <1>2, <1>4, CasConstants DEF Bounded
  <1>6. FilesOK
    BY <1>2 DEF FilesOK
  <1>7. FlagsOK
    BY DEF Cas!Init, FlagsOK
  <1>8. RowOK
    BY DEF Cas!Init, RowOK, Cas!NoRow
  <1>9. proc \in ProcType /\ ProcOK
    BY <1>1, <1>2 DEF ProcType, ProcOK
  <1>10. TempIsPrivate
    BY <1>1, <1>2 DEF TempIsPrivate, InTemp, Cas!Procs
  <1>11. Cas!NeverHalfABlob /\ CleanIsAlone
    BY <1>2 DEF Cas!NeverHalfABlob, CleanIsAlone
  <1> QED
    BY <1>5, <1>6, <1>7, <1>8, <1>9, <1>10, <1>11 DEF CasInv, StoreShape

LEMMA CasStep == ASSUME CasInv, Cas!Next PROVE CasInv'
  BY CasShapeStep, CasTempStep, CasCleanStep DEF CasInv

(* The invariant is enough. *)
LEMMA CasSound ==
    ASSUME CasInv
    PROVE  /\ Cas!TypeOK /\ Cas!NeverHalfABlob /\ Cas!InstallDelivers
           /\ Cas!EvictLeavesNothing /\ Cas!ReconcileHeals
  <1>1. used \in 0 .. MaxOps
    <2>1. Taking \in SUBSET Cas!Procs
      BY DEF Taking
    <2>2. Cardinality(Taking) \in Nat
      BY <2>1, CasConstants, FS_Subset, FS_CardinalityType
    <2> QED
      BY <2>2, CasConstants DEF CasInv, StoreShape, Bounded
  <1>2. Cas!TypeOK
    BY <1>1, TypeParts DEF CasInv, StoreShape
  <1>3. \A p \in clean : DoneAlone(p)
    BY DEF CasInv, CleanIsAlone
  <1>4. Cas!EvictLeavesNothing
    BY <1>3 DEF DoneAlone, EvictAlone, Cas!EvictLeavesNothing, Cas!At
  <1>5. Cas!ReconcileHeals
    BY <1>3 DEF DoneAlone, Cas!ReconcileHeals, Cas!At
  <1>6. Cas!InstallDelivers
    BY <1>3 DEF DoneAlone, InstallAlone, Cas!InstallDelivers, Cas!At
  <1> QED
    BY <1>2, <1>4, <1>5, <1>6 DEF CasInv

(* A step that changes the row either adds a digest or takes the row away. *)
LEMMA CasDigestsStep == ASSUME StoreShape, Cas!Next PROVE Cas!DigestsKept
  <1> SUFFICES ASSUME row.present, row'.present
               PROVE  (row.sha => row'.sha) /\ (row.git => row'.git)
    BY DEF Cas!DigestsKept
  <1>1. row \in [present : BOOLEAN, sha : BOOLEAN, git : BOOLEAN]
    BY DEF StoreShape, RowOK
  <1>2. \/ row' = row
        \/ \E sha \in BOOLEAN : row' = Cas!UpsertCacheBlob(sha)
        \/ row' = [row EXCEPT !.git = row.present]
        \/ row' = Cas!NoRow
    BY DEF Cas!Next, Cas!Download, Cas!Import, Cas!Install, Cas!Evict, Cas!Reconcile,
           Cas!CacheHit, Cas!Commit, Cas!WriteMeta, Cas!MetaWritten, Cas!Index, Cas!SetGitSha1,
           Cas!StoreChunkTree, Cas!TreeWritten, Cas!ImportHasBlob, Cas!OpenTemp, Cas!Copied,
           Cas!ImportCommit, Cas!UnlinkDest, Cas!LinkDest, Cas!CopyDest, Cas!RecordInstall,
           Cas!Installed, Cas!EvictDest, Cas!EvictView, Cas!EvictRead, Cas!EvictBlob,
           Cas!EvictMeta, Cas!EvictTree, Cas!EvictRow, Cas!Evicted, Cas!CheckBlob,
           Cas!RemoveLeftovers, Cas!DropStaleRow, Cas!CheckView, Cas!Reconciled,
           Cas!DeleteByHand, Cas!Crash
  <1>3. CASE \E sha \in BOOLEAN : row' = Cas!UpsertCacheBlob(sha)
    BY <1>1, <1>3 DEF Cas!UpsertCacheBlob
  <1>4. CASE row' = [row EXCEPT !.git = row.present]
    BY <1>1, <1>4
  <1>5. CASE row' = Cas!NoRow
    BY <1>5 DEF Cas!NoRow
  <1> QED
    BY <1>2, <1>3, <1>4, <1>5

-----------------------------------------------------------------------------
(* The manifest store *)

LEMMA ManifestFiniteSets ==
    /\ \A S : Manifests!IsFiniteSet(S) <=> IsFiniteSet(S)
    /\ \A S : Manifests!Cardinality(S) = Cardinality(S)
  BY DEF Manifests!IsFiniteSet, IsFiniteSet, Manifests!Cardinality, Cardinality

LEMMA ManifestConstants ==
    IsFiniteSet(Ids) /\ MaxStored \in Nat /\ MaxEditions \in Nat /\ MaxFaults \in Nat
  BY ManifestsAssumed, ManifestFiniteSets DEF Manifests!ManifestAssumption

(* No manifest is the mark of a missing or of a torn file. *)
LEMMA ManifestMarks ==
    /\ Manifests!None \notin Manifests!Manifest /\ Manifests!Torn \notin Manifests!Manifest
    /\ Manifests!None # Manifests!Torn
    /\ \A m \in Manifests!Manifest : m.slug \in Slugs
  BY DEF Manifests!None, Manifests!Torn, Manifests!Manifest

(* An id that is listed is listed once, and nothing else changes. *)
LEMMA ListedOnce ==
    ASSUME NEW q \in Seq(Ids), NEW i \in Ids, Manifests!IsInjective(q)
    PROVE  LET r == IF i \in Manifests!ToSet(q) THEN q ELSE Append(q, i)
           IN  /\ r \in Seq(Ids) /\ Manifests!IsInjective(r)
               /\ Manifests!ToSet(r) = Manifests!ToSet(q) \cup {i}
  <1> USE DEF Manifests!ToSet, Manifests!IsInjective
  <1>1. CASE i \in Manifests!ToSet(q)
    BY <1>1
  <1>2. CASE i \notin Manifests!ToSet(q)
    <2> DEFINE r == Append(q, i)
    <2>1. r \in Seq(Ids) /\ Len(r) = Len(q) + 1 /\ r[Len(q) + 1] = i
          /\ \A k \in 1 .. Len(q) : r[k] = q[k]
      OBVIOUS
    <2>2. DOMAIN r = 1 .. Len(q) + 1 /\ DOMAIN q = 1 .. Len(q) /\ Len(q) \in Nat
      BY <2>1
    <2> HIDE DEF r
    <2>3. Manifests!IsInjective(r)
      BY <1>2, <2>1, <2>2
    <2>4. \A x : x \in Manifests!ToSet(r) <=> x \in Manifests!ToSet(q) \/ x = i
      BY <2>1, <2>2
    <2>5. Manifests!ToSet(r) = Manifests!ToSet(q) \cup {i}
      BY <2>4
    <2> QED
      BY <1>2, <2>1, <2>3, <2>5 DEF r
  <1> QED
    BY <1>1, <1>2

(* An order of a finite set lists every element of it, once. *)
LEMMA OrderFacts ==
    ASSUME NEW S, IsFiniteSet(S), NEW f \in Manifests!SetToSeqs(S)
    PROVE  f \in Seq(S) /\ Manifests!IsInjective(f) /\ Manifests!ToSet(f) = S
  <1>1. PICK n : n = Cardinality(S) /\ n \in Nat
    BY FS_CardinalityType
  <1>2. f \in [1 .. n -> S] /\ \A i, j \in 1 .. n : i # j => f[i] # f[j]
    BY <1>1, ManifestFiniteSets DEF Manifests!SetToSeqs
  <1>3. f \in Seq(S)
    BY <1>1, <1>2
  <1>4. Manifests!IsInjective(f)
    BY <1>2 DEF Manifests!IsInjective
  <1>5. f \in Injection(1 .. n, S)
    BY <1>2 DEF Injection, IsInjective
  <1>6. Cardinality(1 .. n) = n
    BY <1>1, FS_Interval
  <1>7. f \in Surjection(1 .. n, S)
    BY <1>1, <1>5, <1>6, FS_Injection
  <1>8. \A x \in S : \E k \in 1 .. n : f[k] = x
    BY <1>7 DEF Surjection
  <1>9. Manifests!ToSet(f) = S
    BY <1>2, <1>8 DEF Manifests!ToSet
  <1> QED
    BY <1>3, <1>4, <1>9

(* The set of stored ids is finite; a new one fits where HasRoom says so. *)
LEMMA RoomForOne ==
    ASSUME NEW i \in Ids, Manifests!HasRoom(i), Manifests!StoreIsBounded,
           NEW T, T \subseteq Manifests!Stored(manifests) \cup {i}
    PROVE  Cardinality(T) <= MaxStored
  <1> DEFINE S == Manifests!Stored(manifests)
  <1>1. S \in SUBSET Ids
    BY DEF Manifests!Stored
  <1>2. IsFiniteSet(S) /\ Cardinality(S) \in Nat /\ Cardinality(S) <= MaxStored
    BY <1>1, ManifestConstants, ManifestFiniteSets, FS_Subset, FS_CardinalityType
       DEF Manifests!StoreIsBounded
  <1>3. i \in S \/ Cardinality(S) < MaxStored
    BY ManifestFiniteSets DEF Manifests!HasRoom, Manifests!Stored
  <1> HIDE DEF S
  <1>4. IsFiniteSet(S \cup {i}) /\ Cardinality(S \cup {i}) <= MaxStored
    <2>1. /\ IsFiniteSet(S \cup {i})
          /\ Cardinality(S \cup {i}) = IF i \in S THEN Cardinality(S) ELSE Cardinality(S) + 1
      BY <1>2, FS_AddElement
    <2> QED
      BY <1>2, <1>3, <2>1, ManifestConstants
  <1>5. T \in SUBSET (S \cup {i})
    BY DEF S
  <1>6. Cardinality(T) <= Cardinality(S \cup {i}) /\ IsFiniteSet(T)
    BY <1>4, <1>5, FS_Subset
  <1> QED
    BY <1>4, <1>6, ManifestConstants, FS_CardinalityType

(* What is whole on disk is what is in memory. *)
LEMMA OnDiskStored ==
    ASSUME ManifestInv, up
    PROVE  OnDisk \subseteq Manifests!Stored(manifests)
  BY DEF ManifestInv, DiskAgrees, OnDisk, Manifests!Stored

LEMMA ManifestInit == ASSUME Manifests!Init PROVE ManifestInv
  <1>1. /\ up = TRUE /\ cutShort = 0 /\ bySlug = [s \in Slugs |-> <<>>]
        /\ manifests = [i \in Ids |-> Manifests!None] /\ disk = manifests /\ answered = manifests
    BY DEF Manifests!Init
  <1>2. Manifests!Stored(manifests) = {} /\ OnDisk = {}
    BY <1>1 DEF Manifests!Stored, OnDisk
  <1>3. Cardinality(Manifests!Stored(manifests)) = 0 /\ Cardinality(OnDisk) = 0
    BY <1>2, FS_EmptySet
  <1>4. Manifests!ManifestTypeOK
    BY <1>1, ManifestConstants DEF Manifests!ManifestTypeOK
  <1>5. Manifests!StoreIsBounded /\ DiskAgrees
    BY <1>1, <1>3, ManifestConstants, ManifestFiniteSets DEF Manifests!StoreIsBounded, DiskAgrees
  <1>6. \A s \in Slugs : bySlug[s] = <<>>
    BY <1>1
  <1>7. SlugsStored
    BY <1>1, <1>6 DEF SlugsStored
  <1>8. Manifests!SlugsAgree
    BY <1>2, <1>6 DEF Manifests!SlugsAgree, Manifests!IsInjective
  <1> QED
    BY <1>4, <1>5, <1>7, <1>8 DEF ManifestInv

(* A publication: the file, the slug's list and the map change together. *)
LEMMA PublishStep ==
    ASSUME ManifestInv, NEW i \in Ids, NEW m \in Manifests!Manifest, Manifests!Publish(i, m)
    PROVE  ManifestInv'
  <1>1. /\ up /\ up' = up /\ cutShort' = cutShort /\ Manifests!HasRoom(i)
        /\ disk' = [disk EXCEPT ![i] = m] /\ manifests' = [manifests EXCEPT ![i] = m]
        /\ answered' = [answered EXCEPT ![i] = m] /\ bySlug' = Manifests!Listed(i, m)
    BY DEF Manifests!Publish, Manifests!Written
  <1>2. /\ up \in BOOLEAN /\ cutShort \in 0 .. MaxFaults
        /\ manifests \in [Ids -> Manifests!Manifest \cup {Manifests!None}]
        /\ disk \in [Ids -> Manifests!Manifest \cup {Manifests!None, Manifests!Torn}]
        /\ answered \in [Ids -> Manifests!Manifest \cup {Manifests!None}]
    BY DEF ManifestInv, Manifests!ManifestTypeOK
  <1>3. PICK t : t = m.slug /\ t \in Slugs
    BY ManifestMarks
  <1>4. bySlug \in [Slugs -> Seq(Ids)] /\ \A s \in Slugs : Manifests!IsInjective(bySlug[s])
    BY <1>1 DEF ManifestInv, SlugsStored, Manifests!SlugsAgree
  <1>5. PICK r : r = IF i \in Manifests!ToSet(bySlug[t]) THEN bySlug[t] ELSE Append(bySlug[t], i)
    OBVIOUS
  <1>6. /\ r \in Seq(Ids) /\ Manifests!IsInjective(r)
        /\ Manifests!ToSet(r) = Manifests!ToSet(bySlug[t]) \cup {i}
    <2>1. PICK q \in Seq(Ids) : q = bySlug[t] /\ Manifests!IsInjective(q)
      BY <1>3, <1>4
    <2> QED
      BY <1>5, <2>1, ListedOnce
  <1>7. bySlug' = [bySlug EXCEPT ![t] = r]
    BY <1>1, <1>3, <1>4, <1>5 DEF Manifests!Listed
  <1>8. /\ bySlug' \in [Slugs -> Seq(Ids)] /\ bySlug'[t] = r
        /\ \A s \in Slugs : s # t => bySlug'[s] = bySlug[s]
    BY <1>3, <1>4, <1>6, <1>7
  <1>9. /\ manifests'[i] = m /\ m # Manifests!None /\ m # Manifests!Torn
        /\ \A j \in Ids : j # i => manifests'[j] = manifests[j]
    BY <1>1, <1>2, ManifestMarks
  <1>10. Manifests!ManifestTypeOK'
    BY <1>1, <1>2, <1>8 DEF Manifests!ManifestTypeOK
  <1>11. Manifests!Stored(manifests') \subseteq Manifests!Stored(manifests) \cup {i}
    BY <1>9 DEF Manifests!Stored
  <1>12. Manifests!StoreIsBounded'
    BY <1>1, <1>11, RoomForOne, ManifestFiniteSets DEF ManifestInv, Manifests!StoreIsBounded
  <1>13. OnDisk' \subseteq Manifests!Stored(manifests) \cup {i}
    BY <1>1, <1>2, OnDiskStored DEF OnDisk
  <1>14. Cardinality(OnDisk') <= MaxStored
    BY <1>1, <1>13, RoomForOne DEF ManifestInv
  <1>15. DiskAgrees'
    BY <1>1, <1>2, <1>14 DEF ManifestInv, DiskAgrees
  <1>16. \A s \in Slugs : \A x \in Manifests!ToSet(bySlug'[s]) : manifests'[x] # Manifests!None
    <2>1. \A s \in Slugs : \A x \in Manifests!ToSet(bySlug[s]) :
             x \in Ids /\ manifests[x] # Manifests!None
      BY <1>1, <1>4 DEF ManifestInv, SlugsStored, Manifests!ToSet
    <2> QED
      BY <1>3, <1>6, <1>8, <1>9, <2>1
  <1>17. SlugsStored'
    BY <1>8, <1>16 DEF SlugsStored, Manifests!ToSet
  <1>18. \A j \in Manifests!Stored(manifests') : j \in Manifests!ToSet(bySlug'[manifests'[j].slug])
    <2> SUFFICES ASSUME NEW j \in Ids, manifests'[j] # Manifests!None
                 PROVE  j \in Manifests!ToSet(bySlug'[manifests'[j].slug])
      BY DEF Manifests!Stored
    <2>1. CASE j = i
      BY <1>3, <1>6, <1>8, <1>9, <2>1
    <2>2. CASE j # i
      <3>1. manifests'[j] = manifests[j] /\ manifests[j] \in Manifests!Manifest
        BY <1>2, <1>9, <2>2
      <3>2. PICK s : s = manifests[j].slug /\ s \in Slugs
        BY <3>1, ManifestMarks
      <3>3. j \in Manifests!ToSet(bySlug[s])
        BY <1>1, <3>1, <3>2, ManifestMarks DEF ManifestInv, Manifests!SlugsAgree, Manifests!Stored
      <3> QED
        BY <1>6, <1>8, <3>1, <3>2, <3>3
    <2> QED
      BY <2>1, <2>2
  <1>19. \A s \in Slugs : Manifests!IsInjective(bySlug'[s])
    BY <1>4, <1>6, <1>8
  <1>20. \A s \in Slugs : bySlug'[s] # <<>> => manifests'[bySlug'[s][Len(bySlug'[s])]] # Manifests!None
    BY <1>1, <1>17 DEF SlugsStored
  <1>21. Manifests!SlugsAgree'
    BY <1>18, <1>19, <1>20 DEF Manifests!SlugsAgree, Manifests!ModelLatest, Manifests!Last
  <1> QED
    BY <1>10, <1>12, <1>15, <1>17, <1>21 DEF ManifestInv

(* A write that is cut short takes the file and nothing else. *)
LEMMA PublishFailsStep ==
    ASSUME ManifestInv, NEW i \in Ids, Manifests!PublishFails(i)
    PROVE  ManifestInv'
  <1>1. /\ up /\ UNCHANGED <<up, manifests, bySlug>>
        /\ cutShort < MaxFaults /\ cutShort' = cutShort + 1
        /\ disk' = [disk EXCEPT ![i] = Manifests!Torn]
        /\ answered' = [answered EXCEPT ![i] = Manifests!None]
    BY DEF Manifests!PublishFails, Manifests!Fault
  <1>2. /\ up \in BOOLEAN /\ cutShort \in 0 .. MaxFaults
        /\ disk \in [Ids -> Manifests!Manifest \cup {Manifests!None, Manifests!Torn}]
        /\ answered \in [Ids -> Manifests!Manifest \cup {Manifests!None}]
    BY DEF ManifestInv, Manifests!ManifestTypeOK
  <1>3. Manifests!ManifestTypeOK'
    <2>1. cutShort' \in 0 .. MaxFaults
      BY <1>1, <1>2, ManifestConstants
    <2> QED
      BY <1>1, <1>2, <2>1 DEF ManifestInv, Manifests!ManifestTypeOK
  <1>4. OnDisk' \subseteq OnDisk
    BY <1>1, <1>2 DEF OnDisk
  <1>5. Cardinality(OnDisk') <= MaxStored
    <2>1. OnDisk \in SUBSET Ids /\ OnDisk' \in SUBSET OnDisk
      BY <1>4 DEF OnDisk
    <2>2. IsFiniteSet(OnDisk)
      BY <2>1, ManifestConstants, FS_Subset
    <2>3. Cardinality(OnDisk') <= Cardinality(OnDisk) /\ IsFiniteSet(OnDisk')
      BY <2>1, <2>2, FS_Subset
    <2>4. Cardinality(OnDisk) <= MaxStored
      BY DEF ManifestInv, DiskAgrees
    <2> QED
      BY <2>2, <2>3, <2>4, ManifestConstants, FS_CardinalityType
  <1>6. DiskAgrees'
    BY <1>1, <1>2, <1>5 DEF ManifestInv, DiskAgrees
  <1>7. SlugsStored' /\ Manifests!SlugsAgree' /\ Manifests!StoreIsBounded'
    BY <1>1 DEF ManifestInv, SlugsStored, Manifests!SlugsAgree, Manifests!StoreIsBounded,
                Manifests!ModelLatest
  <1> QED
    BY <1>3, <1>6, <1>7 DEF ManifestInv

(* A crash loses the maps; the file being written is whole, torn or not begun. *)
LEMMA ManifestCrashStep ==
    ASSUME ManifestInv, Manifests!Crash
    PROVE  ManifestInv'
  <1>1. /\ up /\ up' = FALSE /\ cutShort < MaxFaults /\ cutShort' = cutShort + 1
        /\ manifests' = [i \in Ids |-> Manifests!None]
        /\ bySlug' = [s \in Slugs |-> <<>>]
    BY DEF Manifests!Crash, Manifests!Fault
  <1>2. /\ cutShort \in 0 .. MaxFaults
        /\ disk \in [Ids -> Manifests!Manifest \cup {Manifests!None, Manifests!Torn}]
        /\ answered \in [Ids -> Manifests!Manifest \cup {Manifests!None}]
    BY DEF ManifestInv, Manifests!ManifestTypeOK
  <1>3. \/ disk' = disk /\ answered' = answered
        \/ \E i \in Ids, m \in Manifests!Manifest \cup {Manifests!Torn} :
             /\ Manifests!HasRoom(i)
             /\ disk' = [disk EXCEPT ![i] = m]
             /\ answered' = [answered EXCEPT ![i] = Manifests!None]
    BY DEF Manifests!Crash
  <1>4. /\ disk' \in [Ids -> Manifests!Manifest \cup {Manifests!None, Manifests!Torn}]
        /\ answered' \in [Ids -> Manifests!Manifest \cup {Manifests!None}]
        /\ \A i \in Ids : answered'[i] # Manifests!None => disk'[i] = answered'[i]
        /\ Cardinality(OnDisk') <= MaxStored
    <2>1. CASE disk' = disk /\ answered' = answered
      <3>1. OnDisk' = OnDisk
        BY <2>1 DEF OnDisk
      <3> QED
        BY <1>2, <2>1, <3>1 DEF ManifestInv, DiskAgrees
    <2>2. CASE \E i \in Ids, m \in Manifests!Manifest \cup {Manifests!Torn} :
                 /\ Manifests!HasRoom(i)
                 /\ disk' = [disk EXCEPT ![i] = m]
                 /\ answered' = [answered EXCEPT ![i] = Manifests!None]
      <3>1. PICK i \in Ids, m \in Manifests!Manifest \cup {Manifests!Torn} :
                 /\ Manifests!HasRoom(i)
                 /\ disk' = [disk EXCEPT ![i] = m]
                 /\ answered' = [answered EXCEPT ![i] = Manifests!None]
        BY <2>2
      <3>2. OnDisk' \subseteq Manifests!Stored(manifests) \cup {i}
        BY <1>1, <1>2, <3>1, OnDiskStored DEF OnDisk
      <3>3. Cardinality(OnDisk') <= MaxStored
        BY <3>1, <3>2, RoomForOne DEF ManifestInv
      <3>4. \A j \in Ids : answered'[j] # Manifests!None => disk'[j] = answered'[j]
        BY <1>2, <3>1 DEF ManifestInv, DiskAgrees
      <3> QED
        BY <1>2, <3>1, <3>3, <3>4
    <2> QED
      BY <1>3, <2>1, <2>2
  <1>5. Manifests!ManifestTypeOK'
    <2>1. cutShort' \in 0 .. MaxFaults
      BY <1>1, <1>2, ManifestConstants
    <2>2. manifests' \in [Ids -> Manifests!Manifest \cup {Manifests!None}]
      BY <1>1
    <2>3. \A s \in Slugs : bySlug'[s] \in Seq(Ids)
      BY <1>1
    <2>4. up' \in BOOLEAN
      BY <1>1
    <2> QED
      BY <1>4, <2>1, <2>2, <2>3, <2>4 DEF Manifests!ManifestTypeOK
  <1>6. Manifests!Stored(manifests') = {}
    BY <1>1 DEF Manifests!Stored
  <1>7. Manifests!StoreIsBounded'
    BY <1>6, ManifestConstants, ManifestFiniteSets, FS_EmptySet DEF Manifests!StoreIsBounded
  <1>8. DiskAgrees' /\ SlugsStored' /\ Manifests!SlugsAgree'
    BY <1>1, <1>4 DEF DiskAgrees, SlugsStored, Manifests!SlugsAgree
  <1> QED
    BY <1>5, <1>7, <1>8 DEF ManifestInv

(* A restart reads back what is whole on disk, in any order. *)
LEMMA LoadStep ==
    ASSUME ManifestInv, Manifests!Load
    PROVE  ManifestInv'
  <1>1. /\ ~up /\ up' = TRUE /\ UNCHANGED <<disk, answered, cutShort>>
        /\ manifests' = [i \in Ids |-> IF disk[i] = Manifests!Torn THEN Manifests!None ELSE disk[i]]
        /\ bySlug' \in [Slugs -> Manifests!SetToAllKPermutations(Ids)]
        /\ \A s \in Slugs : bySlug'[s] \in Manifests!SetToSeqs(Manifests!OfSlug(manifests', s))
    BY DEF Manifests!Load
  <1>2. /\ cutShort \in 0 .. MaxFaults
        /\ disk \in [Ids -> Manifests!Manifest \cup {Manifests!None, Manifests!Torn}]
        /\ answered \in [Ids -> Manifests!Manifest \cup {Manifests!None}]
    BY DEF ManifestInv, Manifests!ManifestTypeOK
  <1>3. manifests' \in [Ids -> Manifests!Manifest \cup {Manifests!None}]
    BY <1>1, <1>2
  <1>4. Manifests!Stored(manifests') = OnDisk
    BY <1>1, ManifestMarks DEF Manifests!Stored, OnDisk
  <1>5. \A s \in Slugs : /\ bySlug'[s] \in Seq(Ids) /\ Manifests!IsInjective(bySlug'[s])
                         /\ Manifests!ToSet(bySlug'[s]) = Manifests!OfSlug(manifests', s)
    <2> SUFFICES ASSUME NEW s \in Slugs
                 PROVE  /\ bySlug'[s] \in Seq(Ids) /\ Manifests!IsInjective(bySlug'[s])
                        /\ Manifests!ToSet(bySlug'[s]) = Manifests!OfSlug(manifests', s)
      OBVIOUS
    <2>1. PICK S : S = Manifests!OfSlug(manifests', s)
      OBVIOUS
    <2>2. S \in SUBSET Ids
      BY <2>1 DEF Manifests!OfSlug, Manifests!Stored
    <2>3. IsFiniteSet(S)
      BY <2>2, ManifestConstants, FS_Subset
    <2>4. PICK f \in Manifests!SetToSeqs(S) : f = bySlug'[s]
      BY <1>1, <2>1
    <2>5. f \in Seq(S) /\ Manifests!IsInjective(f) /\ Manifests!ToSet(f) = S
      BY <2>3, OrderFacts
    <2>6. f \in Seq(Ids)
      BY <2>2, <2>5
    <2> QED
      BY <2>1, <2>4, <2>5, <2>6
  <1>6. bySlug' \in [Slugs -> Seq(Ids)]
    BY <1>1, <1>5
  <1>7. Manifests!ManifestTypeOK'
    BY <1>1, <1>2, <1>3, <1>5 DEF Manifests!ManifestTypeOK
  <1>8. Manifests!StoreIsBounded' /\ DiskAgrees'
    <2>1. OnDisk' = OnDisk /\ Cardinality(OnDisk) <= MaxStored
      BY <1>1 DEF OnDisk, ManifestInv, DiskAgrees
    <2>2. Manifests!StoreIsBounded'
      BY <1>4, <2>1, ManifestFiniteSets DEF Manifests!StoreIsBounded
    <2> QED
      BY <1>1, <2>1, <2>2 DEF DiskAgrees, ManifestInv
  <1>9. SlugsStored'
    BY <1>5, <1>6 DEF SlugsStored, Manifests!ToSet, Manifests!OfSlug, Manifests!Stored
  <1>10. \A j \in Manifests!Stored(manifests') : j \in Manifests!ToSet(bySlug'[manifests'[j].slug])
    <2> SUFFICES ASSUME NEW j \in Manifests!Stored(manifests')
                 PROVE  j \in Manifests!ToSet(bySlug'[manifests'[j].slug])
      OBVIOUS
    <2>1. j \in Ids /\ manifests'[j] \in Manifests!Manifest
      BY <1>3 DEF Manifests!Stored
    <2>2. PICK s : s = manifests'[j].slug /\ s \in Slugs
      BY <2>1, ManifestMarks
    <2>3. j \in Manifests!OfSlug(manifests', s)
      BY <2>2 DEF Manifests!OfSlug
    <2> QED
      BY <1>5, <2>2, <2>3
  <1>11. \A s \in Slugs : bySlug'[s] # <<>> => manifests'[bySlug'[s][Len(bySlug'[s])]] # Manifests!None
    BY <1>1, <1>9 DEF SlugsStored
  <1>12. Manifests!SlugsAgree'
    BY <1>5, <1>10, <1>11 DEF Manifests!SlugsAgree, Manifests!ModelLatest, Manifests!Last
  <1> QED
    BY <1>7, <1>8, <1>9, <1>12 DEF ManifestInv

LEMMA ManifestStep == ASSUME ManifestInv, Manifests!Next PROVE ManifestInv'
  BY PublishStep, PublishFailsStep, ManifestCrashStep, LoadStep DEF Manifests!Next

(* What was answered Created is in memory, because it is whole on disk. *)
LEMMA ManifestSound ==
    ASSUME ManifestInv
    PROVE  /\ Manifests!ManifestTypeOK /\ Manifests!SlugsAgree
           /\ Manifests!PublishedIsKept /\ Manifests!StoreIsBounded
  <1>1. answered \in [Ids -> Manifests!Manifest \cup {Manifests!None}]
    BY DEF ManifestInv, Manifests!ManifestTypeOK
  <1>2. Manifests!PublishedIsKept
    BY <1>1, ManifestMarks DEF ManifestInv, DiskAgrees, Manifests!PublishedIsKept
  <1> QED
    BY <1>2 DEF ManifestInv

-----------------------------------------------------------------------------
(* The upload slots: the counts *)

LEMMA UploadFiniteSets ==
    /\ \A S : Uploads!IsFiniteSet(S) <=> IsFiniteSet(S)
    /\ \A S : Uploads!Cardinality(S) = Cardinality(S)
  BY DEF Uploads!IsFiniteSet, IsFiniteSet, Uploads!Cardinality, Cardinality

LEMMA UploadConstants ==
    /\ IsFiniteSet(Requests) /\ Requests # {} /\ Size \in Nat
    /\ \A r \in Requests : Prefix[r] \in 0 .. Size /\ Hash[r] \in Uploads!Hashes
                           /\ Conn[r] \in Uploads!Conns
  BY UploadsAssumed, UploadFiniteSets DEF Uploads!UploadsAssumption, Uploads!Hashes, Uploads!Conns

OfHash(S, h) == {r \in S : Hash[r] = h}

(* Counts, in the operators the library's theorems speak of. *)
LEMMA CountsParts ==
    Counts <=> /\ slots \in SUBSET Requests /\ active \in Nat
               /\ byHash \in [Uploads!Hashes -> Nat] /\ finishing \in [Uploads!Hashes -> Nat]
               /\ IsFiniteSet(Uploads!Finishes)
               /\ active = Cardinality(slots) + Cardinality(Uploads!Finishes)
               /\ \A h \in Uploads!Hashes :
                    byHash[h] = Cardinality(OfHash(slots, h)) + finishing[h]
  BY UploadFiniteSets DEF Counts, Uploads!CountsExact, OfHash

LEMMA CountsPartsNext ==
    ASSUME slots' \in SUBSET Requests, active' \in Nat,
           byHash' \in [Uploads!Hashes -> Nat], finishing' \in [Uploads!Hashes -> Nat],
           IsFiniteSet(Uploads!Finishes'),
           active' = Cardinality(slots') + Cardinality(Uploads!Finishes'),
           \A h \in Uploads!Hashes : byHash'[h] = Cardinality(OfHash(slots', h)) + finishing'[h]
    PROVE  Counts'
  BY UploadFiniteSets DEF Counts, Uploads!CountsExact, OfHash

(* A slot more or less changes the number of slots of its blob by one. *)
LEMMA OfHashFacts ==
    ASSUME NEW S \in SUBSET Requests, NEW r \in Requests, NEW h
    PROVE  /\ IsFiniteSet(OfHash(S, h)) /\ Cardinality(OfHash(S, h)) \in Nat
           /\ IsFiniteSet(S) /\ Cardinality(S) \in Nat
           /\ r \notin S => /\ Cardinality(S \cup {r}) = Cardinality(S) + 1
                            /\ Cardinality(OfHash(S \cup {r}, h)) =
                                 Cardinality(OfHash(S, h)) + (IF Hash[r] = h THEN 1 ELSE 0)
           /\ r \in S => /\ Cardinality(S \ {r}) = Cardinality(S) - 1
                         /\ Cardinality(OfHash(S \ {r}, h)) =
                              Cardinality(OfHash(S, h)) - (IF Hash[r] = h THEN 1 ELSE 0)
  <1>1. OfHash(S, h) \in SUBSET Requests
    BY DEF OfHash
  <1>2. IsFiniteSet(OfHash(S, h)) /\ IsFiniteSet(S)
    BY <1>1, UploadConstants, FS_Subset
  <1>3. Cardinality(OfHash(S, h)) \in Nat /\ Cardinality(S) \in Nat
    BY <1>2, FS_CardinalityType
  <1>4. ASSUME r \notin S
        PROVE  /\ Cardinality(S \cup {r}) = Cardinality(S) + 1
               /\ Cardinality(OfHash(S \cup {r}, h)) =
                    Cardinality(OfHash(S, h)) + (IF Hash[r] = h THEN 1 ELSE 0)
    <2>1. Cardinality(S \cup {r}) = Cardinality(S) + 1
      BY <1>2, <1>4, FS_AddElement
    <2>2. CASE Hash[r] = h
      <3>1. OfHash(S \cup {r}, h) = OfHash(S, h) \cup {r} /\ r \notin OfHash(S, h)
        BY <1>4, <2>2 DEF OfHash
      <3>2. Cardinality(OfHash(S, h) \cup {r}) = Cardinality(OfHash(S, h)) + 1
        BY <1>2, <3>1, FS_AddElement
      <3> QED
        BY <2>1, <2>2, <3>1, <3>2
    <2>3. CASE Hash[r] # h
      <3>1. OfHash(S \cup {r}, h) = OfHash(S, h)
        BY <2>3 DEF OfHash
      <3> QED
        BY <1>3, <2>1, <2>3, <3>1
    <2> QED
      BY <2>2, <2>3
  <1>5. ASSUME r \in S
        PROVE  /\ Cardinality(S \ {r}) = Cardinality(S) - 1
               /\ Cardinality(OfHash(S \ {r}, h)) =
                    Cardinality(OfHash(S, h)) - (IF Hash[r] = h THEN 1 ELSE 0)
    <2>1. Cardinality(S \ {r}) = Cardinality(S) - 1
      BY <1>2, <1>5, FS_RemoveElement
    <2>2. CASE Hash[r] = h
      <3>1. OfHash(S \ {r}, h) = OfHash(S, h) \ {r} /\ r \in OfHash(S, h)
        BY <1>5, <2>2 DEF OfHash
      <3>2. Cardinality(OfHash(S, h) \ {r}) = Cardinality(OfHash(S, h)) - 1
        BY <1>2, <3>1, FS_RemoveElement
      <3> QED
        BY <2>1, <2>2, <3>1, <3>2
    <2>3. CASE Hash[r] # h
      <3>1. OfHash(S \ {r}, h) = OfHash(S, h)
        BY <2>3 DEF OfHash
      <3> QED
        BY <1>3, <2>1, <2>3, <3>1
    <2> QED
      BY <2>2, <2>3
  <1> QED
    BY <1>2, <1>3, <1>4, <1>5

(* A finish_upload call more: one pair more. *)
LEMMA FinishesGrow ==
    ASSUME NEW h \in Uploads!Hashes, finishing \in [Uploads!Hashes -> Nat],
           IsFiniteSet(Uploads!Finishes), finishing' = [finishing EXCEPT ![h] = @ + 1]
    PROVE  /\ IsFiniteSet(Uploads!Finishes')
           /\ Cardinality(Uploads!Finishes') = Cardinality(Uploads!Finishes) + 1
  <1>1. PICK n \in Nat : n = finishing[h] /\ finishing'[h] = n + 1
    OBVIOUS
  <1>2. PICK x : x = <<h, n + 1>>
    OBVIOUS
  <1>3. x \notin Uploads!Finishes
    BY <1>1, <1>2 DEF Uploads!Finishes
  <1>4. 1 .. n + 1 = (1 .. n) \cup {n + 1}
    BY <1>1
  <1>5. \A g \in Uploads!Hashes : g # h => finishing'[g] = finishing[g]
    OBVIOUS
  <1>6. Uploads!Finishes' = Uploads!Finishes \cup {x}
    BY <1>1, <1>2, <1>4, <1>5 DEF Uploads!Finishes
  <1> QED
    BY <1>3, <1>6, FS_AddElement

LEMMA FinishesShrink ==
    ASSUME NEW h \in Uploads!Hashes, finishing \in [Uploads!Hashes -> Nat], finishing[h] > 0,
           IsFiniteSet(Uploads!Finishes), finishing' = [finishing EXCEPT ![h] = @ - 1]
    PROVE  /\ IsFiniteSet(Uploads!Finishes')
           /\ Cardinality(Uploads!Finishes') = Cardinality(Uploads!Finishes) - 1
           /\ Uploads!Finishes # {}
  <1>1. PICK n \in Nat : n + 1 = finishing[h] /\ finishing'[h] = n
    OBVIOUS
  <1>2. PICK x : x = <<h, n + 1>>
    OBVIOUS
  <1>3. x \in Uploads!Finishes
    BY <1>1, <1>2 DEF Uploads!Finishes
  <1>4. 1 .. n = (1 .. n + 1) \ {n + 1}
    BY <1>1
  <1>5. \A g \in Uploads!Hashes : g # h => finishing'[g] = finishing[g]
    OBVIOUS
  <1>6. Uploads!Finishes' = Uploads!Finishes \ {x}
    BY <1>1, <1>2, <1>4, <1>5 DEF Uploads!Finishes
  <1> QED
    BY <1>3, <1>6, FS_RemoveElement

(* A new slot: both counters go up with the map. *)
LEMMA CountsStart ==
    ASSUME Counts, NEW r \in Requests, r \notin slots, slots' = slots \cup {r},
           Uploads!StartUpload(r), finishing' = finishing
    PROVE  Counts'
  <1>1. PICK g \in Uploads!Hashes : g = Hash[r]
    BY UploadConstants
  <1>2. active' = active + 1 /\ byHash' = [byHash EXCEPT ![g] = @ + 1]
    BY <1>1 DEF Uploads!StartUpload
  <1>3. /\ slots \in SUBSET Requests /\ active \in Nat
        /\ byHash \in [Uploads!Hashes -> Nat] /\ finishing \in [Uploads!Hashes -> Nat]
        /\ IsFiniteSet(Uploads!Finishes)
        /\ active = Cardinality(slots) + Cardinality(Uploads!Finishes)
        /\ \A h \in Uploads!Hashes : byHash[h] = Cardinality(OfHash(slots, h)) + finishing[h]
    BY CountsParts
  <1>4. Cardinality(slots') = Cardinality(slots) + 1 /\ Cardinality(slots) \in Nat
    BY <1>3, OfHashFacts
  <1>5. Uploads!Finishes' = Uploads!Finishes /\ Cardinality(Uploads!Finishes) \in Nat
    BY <1>3, FS_CardinalityType DEF Uploads!Finishes
  <1>6. active' = Cardinality(slots') + Cardinality(Uploads!Finishes')
    BY <1>2, <1>3, <1>4, <1>5
  <1>7. ASSUME NEW h \in Uploads!Hashes
        PROVE  byHash'[h] = Cardinality(OfHash(slots', h)) + finishing'[h]
    <2>1. /\ Cardinality(OfHash(slots', h)) = Cardinality(OfHash(slots, h)) + (IF g = h THEN 1 ELSE 0)
          /\ Cardinality(OfHash(slots, h)) \in Nat
      <3>1. /\ Cardinality(OfHash(slots \cup {r}, h)) =
                 Cardinality(OfHash(slots, h)) + (IF Hash[r] = h THEN 1 ELSE 0)
            /\ Cardinality(OfHash(slots, h)) \in Nat
        BY <1>3, OfHashFacts
      <3> QED
        BY <1>1, <3>1
    <2>2. byHash'[h] = byHash[h] + (IF g = h THEN 1 ELSE 0)
      BY <1>1, <1>2, <1>3
    <2> QED
      BY <1>3, <2>1, <2>2
  <1>8. slots' \in SUBSET Requests /\ active' \in Nat /\ byHash' \in [Uploads!Hashes -> Nat]
    BY <1>2, <1>3
  <1> QED
    BY <1>3, <1>5, <1>6, <1>7, <1>8, CountsPartsNext

(* note_finished: the slot goes, and its finish_upload is under way. *)
LEMMA CountsFinished ==
    ASSUME Counts, NEW r \in Requests, NEW final, Uploads!NoteFinished(r, final)
    PROVE  Counts'
  <1>1. PICK g \in Uploads!Hashes : g = Hash[r]
    BY UploadConstants
  <1>2. /\ slots' = slots \ {r} /\ active' = active /\ byHash' = byHash
        /\ finishing' = IF r \in slots THEN [finishing EXCEPT ![g] = @ + 1] ELSE finishing
    BY <1>1 DEF Uploads!NoteFinished
  <1>3. /\ slots \in SUBSET Requests /\ active \in Nat
        /\ byHash \in [Uploads!Hashes -> Nat] /\ finishing \in [Uploads!Hashes -> Nat]
        /\ IsFiniteSet(Uploads!Finishes)
        /\ active = Cardinality(slots) + Cardinality(Uploads!Finishes)
        /\ \A h \in Uploads!Hashes : byHash[h] = Cardinality(OfHash(slots, h)) + finishing[h]
    BY CountsParts
  <1>4. CASE r \notin slots
    <2>1. slots' = slots /\ finishing' = finishing
      BY <1>2, <1>4
    <2>2. Uploads!Finishes' = Uploads!Finishes
      BY <2>1 DEF Uploads!Finishes
    <2> QED
      BY <1>2, <1>3, <2>1, <2>2, CountsPartsNext
  <1>5. CASE r \in slots
    <2>1. finishing' = [finishing EXCEPT ![g] = @ + 1]
      BY <1>2, <1>5
    <2>2. /\ IsFiniteSet(Uploads!Finishes')
          /\ Cardinality(Uploads!Finishes') = Cardinality(Uploads!Finishes) + 1
      BY <1>3, <2>1, FinishesGrow
    <2>3. Cardinality(slots') = Cardinality(slots) - 1 /\ Cardinality(slots) \in Nat
      BY <1>2, <1>3, <1>5, OfHashFacts
    <2>4. Cardinality(Uploads!Finishes) \in Nat
      BY <1>3, FS_CardinalityType
    <2>5. active' = Cardinality(slots') + Cardinality(Uploads!Finishes')
      BY <1>2, <1>3, <2>2, <2>3, <2>4
    <2>6. ASSUME NEW h \in Uploads!Hashes
          PROVE  byHash'[h] = Cardinality(OfHash(slots', h)) + finishing'[h]
      <3>1. /\ Cardinality(OfHash(slots', h)) =
                 Cardinality(OfHash(slots, h)) - (IF g = h THEN 1 ELSE 0)
            /\ Cardinality(OfHash(slots, h)) \in Nat
        <4>1. /\ Cardinality(OfHash(slots \ {r}, h)) =
                   Cardinality(OfHash(slots, h)) - (IF Hash[r] = h THEN 1 ELSE 0)
              /\ Cardinality(OfHash(slots, h)) \in Nat
          BY <1>3, <1>5, OfHashFacts
        <4> QED
          BY <1>1, <1>2, <4>1
      <3>2. finishing'[h] = finishing[h] + (IF g = h THEN 1 ELSE 0)
        BY <1>1, <1>3, <2>1
      <3> QED
        BY <1>2, <1>3, <3>1, <3>2
    <2>7. slots' \in SUBSET Requests /\ finishing' \in [Uploads!Hashes -> Nat]
      BY <1>2, <1>3, <2>1
    <2> QED
      BY <1>2, <1>3, <2>2, <2>5, <2>6, <2>7, CountsPartsNext
  <1> QED
    BY <1>4, <1>5

(* finish_upload: the counters are never at zero when they go down. *)
LEMMA CountsFinishUpload ==
    ASSUME Counts, NEW g \in Uploads!Hashes, Uploads!FinishUpload(g)
    PROVE  Counts'
  <1>1. /\ slots' = slots /\ finishing[g] > 0 /\ finishing' = [finishing EXCEPT ![g] = @ - 1]
        /\ active' = IF active = 0 THEN 0 ELSE active - 1
        /\ byHash' = [byHash EXCEPT ![g] = IF @ = 0 THEN 0 ELSE @ - 1]
    BY DEF Uploads!FinishUpload
  <1>2. /\ slots \in SUBSET Requests /\ active \in Nat
        /\ byHash \in [Uploads!Hashes -> Nat] /\ finishing \in [Uploads!Hashes -> Nat]
        /\ IsFiniteSet(Uploads!Finishes)
        /\ active = Cardinality(slots) + Cardinality(Uploads!Finishes)
        /\ \A h \in Uploads!Hashes : byHash[h] = Cardinality(OfHash(slots, h)) + finishing[h]
    BY CountsParts
  <1>3. /\ IsFiniteSet(Uploads!Finishes')
        /\ Cardinality(Uploads!Finishes') = Cardinality(Uploads!Finishes) - 1
        /\ Cardinality(Uploads!Finishes) \in Nat /\ Cardinality(Uploads!Finishes) # 0
    BY <1>1, <1>2, FinishesShrink, FS_CardinalityType, FS_EmptySet
  <1>4. Cardinality(slots) \in Nat
    BY <1>2, UploadConstants, FS_Subset, FS_CardinalityType
  <1>5. active' = Cardinality(slots') + Cardinality(Uploads!Finishes') /\ active' \in Nat
    BY <1>1, <1>2, <1>3, <1>4
  <1>6. ASSUME NEW h \in Uploads!Hashes
        PROVE  byHash'[h] = Cardinality(OfHash(slots', h)) + finishing'[h]
    <2>1. Cardinality(OfHash(slots, h)) \in Nat
      <3>1. OfHash(slots, h) \in SUBSET Requests
        BY <1>2 DEF OfHash
      <3> QED
        BY <3>1, UploadConstants, FS_Subset, FS_CardinalityType
    <2>2. CASE h = g
      BY <1>1, <1>2, <2>1, <2>2
    <2>3. CASE h # g
      BY <1>1, <1>2, <2>3
    <2> QED
      BY <2>2, <2>3
  <1>7. byHash' \in [Uploads!Hashes -> Nat] /\ finishing' \in [Uploads!Hashes -> Nat]
    BY <1>1, <1>2
  <1> QED
    BY <1>1, <1>2, <1>3, <1>5, <1>6, <1>7, CountsPartsNext

LEMMA CountsSame ==
    ASSUME Counts, UNCHANGED <<slots, active, byHash, finishing>>
    PROVE  Counts'
  <1>1. Uploads!Finishes' = Uploads!Finishes
    BY DEF Uploads!Finishes
  <1> QED
    BY <1>1, CountsParts, CountsPartsNext

(* No step leaks a count or eats another's. *)
LEMMA CountsStep == ASSUME Counts, Uploads!Next PROVE Counts'
  <1> USE DEF Uploads!sink
  <1>1. ASSUME NEW r \in Requests, Uploads!GetRequestReceived(r) PROVE Counts'
    <2>1. Uploads!NoteStarted(r)
      BY <1>1 DEF Uploads!GetRequestReceived
    <2>2. CASE r \in slots
      <3>1. slots' = slots
        BY <2>1, <2>2 DEF Uploads!NoteStarted
      <3> QED
        BY <2>1, <2>2, <3>1, CountsSame DEF Uploads!NoteStarted
    <2>3. CASE r \notin slots
      BY <2>1, <2>3, CountsStart DEF Uploads!NoteStarted
    <2> QED
      BY <2>2, <2>3
  <1>2. ASSUME NEW r \in Requests, Uploads!TransferProgress(r) PROVE Counts'
    <2>1. Uploads!NoteProgress(r, wire[r].from + wire'[r].sent)
      BY <1>2 DEF Uploads!TransferProgress
    <2>2. CASE r \in slots
      <3>1. slots' = slots
        BY <2>1, <2>2 DEF Uploads!NoteProgress
      <3> QED
        BY <2>1, <2>2, <3>1, CountsSame DEF Uploads!NoteProgress
    <2>3. CASE r \notin slots
      BY <2>1, <2>3, CountsStart DEF Uploads!NoteProgress
    <2> QED
      BY <2>2, <2>3
  <1>3. ASSUME NEW r \in Requests,
               \/ Uploads!TransferCompleted(r) \/ Uploads!TransferAborted(r)
               \/ Uploads!ReapOne(r) \/ Uploads!CloseOne(r)
        PROVE  Counts'
    <2>1. \E final : Uploads!NoteFinished(r, final)
      BY <1>3 DEF Uploads!TransferCompleted, Uploads!TransferAborted, Uploads!ReapOne, Uploads!CloseOne
    <2> QED
      BY <2>1, CountsFinished
  <1>4. ASSUME NEW h \in Uploads!Hashes, Uploads!FinishUpload(h) PROVE Counts'
    BY <1>4, CountsFinishUpload
  <1>5. ASSUME NEW r \in Requests, Uploads!Vanish(r) \/ Uploads!Stall(r) PROVE Counts'
    BY <1>5, CountsSame DEF Uploads!Vanish, Uploads!Stall
  <1>6. ASSUME NEW c \in Uploads!Conns, Uploads!Accept(c) \/ Uploads!ConnectionClosed(c) PROVE Counts'
    BY <1>6, CountsSame DEF Uploads!Accept, Uploads!ConnectionClosed
  <1>7. ASSUME NEW h \in Uploads!Hashes, Uploads!ShareOff(h) PROVE Counts'
    BY <1>7, CountsSame DEF Uploads!ShareOff
  <1>8. ASSUME Uploads!ReapStalled \/ Uploads!Unseed \/ Uploads!Disconnect PROVE Counts'
    BY <1>8, CountsSame DEF Uploads!ReapStalled, Uploads!Unseed, Uploads!Disconnect
  <1> QED
    BY <1>1, <1>2, <1>3, <1>4, <1>5, <1>6, <1>7, <1>8
       DEF Uploads!Next, Uploads!Housekeeping, Uploads!Event

-----------------------------------------------------------------------------
(* The upload slots: what is counted, and whom a share-off severs *)

(* A request that a step does not touch, on a connection that may go on. *)
Kept(q) ==
    /\ q \in slots' <=> q \in slots
    /\ upload'[q] = upload[q] /\ wire'[q] = wire[q] /\ counted'[q] = counted[q] /\ reaps'[q] = reaps[q]

ConnStep(c) ==
    \/ conn'[c] = conn[c] /\ closing'[c] \subseteq closing[c]
    \/ conn[c] = "new" /\ conn'[c] = "open" /\ closing'[c] = closing[c]
    \/ conn[c] = "open" /\ conn'[c] = "closed" /\ closing'[c] = closing[c]
    \/ conn[c] \in {"open", "closed"} /\ conn'[c] = "ended"

LEMMA KeptFollows ==
    ASSUME NEW q \in Requests, SlotFollows(q), CountedFollows(q), Kept(q), ConnStep(Conn[q])
    PROVE  SlotFollows(q)' /\ CountedFollows(q)'
  <1>1. Open(q)' => Open(q) \/ wire[q].st = "new"
    BY DEF ConnStep, Open, SlotFollows
  <1>2. SlotFollows(q)'
    BY DEF SlotFollows, Kept, ConnStep
  <1>3. CountedFollows(q)'
    BY <1>1 DEF CountedFollows, Kept
  <1> QED
    BY <1>2, <1>3

(* A share-off's list stays right when connections only close, and a new
   request during it is late. *)
LEMMA OffKept ==
    ASSUME UploadShape, Follows, OffListed, off' = off,
           \A c \in Uploads!Conns : ConnStep(c),
           \A q \in Requests : reaps'[q] = reaps[q] \/ reaps'[q] > 0,
           \A q \in Requests : wire'[q].st = "live" =>
              \/ wire[q].st = "live" /\ wire'[q].late = wire[q].late
              \/ wire'[q].late \/ off.pc = "idle" \/ Hash[q] # off.hash
    PROVE  OffListed'
  <1> SUFFICES ASSUME off.pc # "idle"
               PROVE  /\ \A r \in Requests :
                          Hash[r] = off.hash /\ wire'[r].st = "live" /\ Open(r)'
                            => wire'[r].late \/ reaps'[r] > 0
                               \/ (Conn[r] \in off.ids /\ off.pc # "done")
                      /\ \A c \in off.ids : conn'[c] # "new"
                      /\ off.pc = "done" => \A c \in off.ids : conn'[c] # "open"
    BY DEF OffListed
  <1>1. off.ids \subseteq Uploads!Conns
    BY DEF UploadShape
  <1>2. \A c \in off.ids : conn'[c] # "new"
    BY <1>1 DEF OffListed, ConnStep
  <1>3. off.pc = "done" => \A c \in off.ids : conn'[c] # "open"
    BY <1>1 DEF OffListed, ConnStep
  <1>4. ASSUME NEW r \in Requests, Hash[r] = off.hash, wire'[r].st = "live", Open(r)',
               ~wire'[r].late, ~(reaps'[r] > 0)
        PROVE  Conn[r] \in off.ids /\ off.pc # "done"
    <2>1. wire[r].st = "live" /\ ~wire[r].late
      BY <1>4
    <2>2. reaps[r] = reaps'[r]
      BY <1>4
    <2>3. Open(r)
      BY <1>4, <2>1, UploadConstants DEF Open, ConnStep, Follows, SlotFollows
    <2> QED
      BY <1>4, <2>1, <2>2, <2>3 DEF OffListed
  <1> QED
    BY <1>2, <1>3, <1>4

(* Replacing the record of one request. *)
LEMMA WirePut ==
    ASSUME NEW W \in [Requests -> WireRec], NEW r \in Requests, NEW w \in WireRec
    PROVE  /\ [W EXCEPT ![r] = w] \in [Requests -> WireRec] /\ [W EXCEPT ![r] = w][r] = w
           /\ \A q \in Requests : q # r => [W EXCEPT ![r] = w][q] = W[q]
  OBVIOUS

LEMMA WireState ==
    ASSUME wire \in [Requests -> WireRec], NEW r \in Requests,
           NEW st \in {"new", "live", "mute", "done", "completed"},
           wire' = [wire EXCEPT ![r].st = st]
    PROVE  /\ wire' \in [Requests -> WireRec] /\ wire'[r].st = st
           /\ wire'[r].from = wire[r].from /\ wire'[r].sent = wire[r].sent
           /\ wire'[r].late = wire[r].late
           /\ \A q \in Requests : q # r => wire'[q] = wire[q]
  <1> DEFINE w == [wire[r] EXCEPT !.st = st]
  <1>1. wire[r] \in WireRec
    OBVIOUS
  <1>2. w \in WireRec /\ w.st = st /\ w.from = wire[r].from /\ w.sent = wire[r].sent
        /\ w.late = wire[r].late
    BY <1>1 DEF WireRec
  <1>3. wire' = [wire EXCEPT ![r] = w]
    OBVIOUS
  <1> HIDE DEF w
  <1> QED
    BY <1>2, <1>3, WirePut

(* note_finished, for the request it is about and for the others. *)
LEMMA FinishedFacts ==
    ASSUME UploadShape, NEW r \in Requests, NEW final \in Nat, Uploads!NoteFinished(r, final)
    PROVE  /\ slots' = slots \ {r} /\ upload' \in [Requests -> UpRec]
           /\ counted' \in [Requests -> Nat]
           /\ \A q \in Requests : q # r => upload'[q] = upload[q] /\ counted'[q] = counted[q]
           /\ counted'[r] = counted[r] + (IF r \in slots /\ final > upload[r].sent
                                          THEN final - upload[r].sent ELSE 0)
  <1>1. upload \in [Requests -> UpRec] /\ counted \in [Requests -> Nat]
    BY DEF UploadShape
  <1>2. Uploads!NoUpload \in UpRec
    BY UploadConstants DEF Uploads!NoUpload, UpRec
  <1>3. slots' = slots \ {r} /\ upload' = [upload EXCEPT ![r] = Uploads!NoUpload]
    BY DEF Uploads!NoteFinished
  <1>4. PICK u \in Nat : u = upload[r].sent
    BY <1>1, UploadConstants DEF UpRec
  <1>5. counted' = IF r \in slots /\ final > u
                   THEN [counted EXCEPT ![r] = @ + (final - u)] ELSE counted
    BY <1>4 DEF Uploads!NoteFinished
  <1>6. upload' \in [Requests -> UpRec] /\ \A q \in Requests : q # r => upload'[q] = upload[q]
    BY <1>1, <1>2, <1>3
  <1>7. CASE r \in slots /\ final > u
    BY <1>1, <1>3, <1>4, <1>5, <1>6, <1>7
  <1>8. CASE ~(r \in slots /\ final > u)
    BY <1>1, <1>3, <1>4, <1>5, <1>6, <1>8
  <1> QED
    BY <1>7, <1>8

LEMMA Products ==
    ASSUME NEW s \in Nat, NEW k \in Nat
    PROVE  /\ s * k \in Nat /\ (s + 1) * k = s * k + k /\ s * (k + 1) = s * k + s
           /\ s * (1 + k) = s * k + s
  OBVIOUS

(* A step about one request: the others are as they were. *)
LEMMA FollowsStep ==
    ASSUME Follows, NEW r \in Requests, SlotFollows(r)', CountedFollows(r)',
           \A q \in Requests : q # r => Kept(q),
           \A c \in Uploads!Conns : ConnStep(c)
    PROVE  Follows'
  <1> SUFFICES ASSUME NEW q \in Requests PROVE SlotFollows(q)' /\ CountedFollows(q)'
    BY DEF Follows
  <1>1. CASE q = r
    BY <1>1
  <1>2. CASE q # r
    BY <1>2, KeptFollows, UploadConstants DEF Follows
  <1> QED
    BY <1>1, <1>2

LEMMA CompletedStep ==
    ASSUME UploadInv, NEW r \in Requests, Uploads!TransferCompleted(r)
    PROVE  UploadShape' /\ Follows' /\ OffListed'
  <1>1. UploadShape /\ Follows /\ OffListed /\ SlotFollows(r) /\ CountedFollows(r)
    BY DEF UploadInv, Follows
  <1>2. wire \in [Requests -> WireRec] /\ reaps \in [Requests -> Nat] /\ counted \in [Requests -> Nat]
        /\ upload \in [Requests -> UpRec]
    BY <1>1 DEF UploadShape
  <1>3. wire' = [wire EXCEPT ![r].st = "completed"] /\ wire[r].st = "live"
        /\ Uploads!NoteFinished(r, wire[r].sent)
    BY DEF Uploads!TransferCompleted
  <1>4. UNCHANGED <<reaping, closing, conn, seeded, off, reaps, stalls>>
    BY DEF Uploads!TransferCompleted
  <1>5. /\ wire' \in [Requests -> WireRec] /\ wire'[r].st = "completed"
        /\ wire'[r].from = wire[r].from /\ wire'[r].sent = wire[r].sent
        /\ wire'[r].late = wire[r].late
        /\ \A q \in Requests : q # r => wire'[q] = wire[q]
    BY <1>2, <1>3, WireState
  <1>6. PICK s \in Nat : s = wire[r].sent
    BY <1>2, UploadConstants DEF WireRec
  <1>7. PICK u \in Nat : u = upload[r].sent
    BY <1>2, UploadConstants DEF UpRec
  <1>8. PICK k \in Nat : k = reaps[r]
    BY <1>2
  <1>9. /\ slots' = slots \ {r} /\ upload' \in [Requests -> UpRec]
        /\ counted' \in [Requests -> Nat]
        /\ \A q \in Requests : q # r => upload'[q] = upload[q] /\ counted'[q] = counted[q]
        /\ counted'[r] = counted[r] + (IF r \in slots /\ s > u THEN s - u ELSE 0)
    BY <1>1, <1>3, <1>6, <1>7, FinishedFacts
  <1>10. UploadShape'
    BY <1>1, <1>4, <1>5, <1>9 DEF UploadShape
  <1>11. \A c \in Uploads!Conns : ConnStep(c)
    BY <1>4 DEF ConnStep
  <1>12. \A q \in Requests : q # r => Kept(q)
    BY <1>4, <1>5, <1>9 DEF Kept
  <1>13. SlotFollows(r)'
    BY <1>1, <1>3, <1>4, <1>5, <1>9 DEF SlotFollows
  <1>14. CountedFollows(r)'
    <2>1. PICK p \in Nat : p = s * k
      BY Products
    <2>2. PICK c \in Nat : c = counted[r]
      BY <1>2
    <2>3. /\ Open(r) /\ k = 0 => r \in slots /\ c = u
          /\ r \in slots => c <= p + u /\ u <= s
          /\ c <= p + s
      BY <1>1, <1>3, <1>6, <1>7, <1>8, <2>1, <2>2 DEF CountedFollows, SlotFollows
    <2>4. counted'[r] = c + (IF r \in slots /\ s > u THEN s - u ELSE 0)
      BY <1>9, <2>2
    <2>5. counted'[r] <= p + s /\ (Open(r) /\ k = 0 => counted'[r] = s)
      BY <2>3, <2>4
    <2> QED
      BY <1>4, <1>5, <1>6, <1>8, <1>9, <2>1, <2>5 DEF CountedFollows, Open
  <1>15. Follows'
    BY <1>1, <1>11, <1>12, <1>13, <1>14, FollowsStep
  <1>16. OffListed'
    BY <1>1, <1>4, <1>5, <1>11, OffKept
  <1> QED
    BY <1>10, <1>15, <1>16

LEMMA AbortedStep ==
    ASSUME UploadInv, NEW r \in Requests, Uploads!TransferAborted(r)
    PROVE  UploadShape' /\ Follows' /\ OffListed'
  <1>1. UploadShape /\ Follows /\ OffListed /\ SlotFollows(r) /\ CountedFollows(r)
    BY DEF UploadInv, Follows
  <1>2. wire \in [Requests -> WireRec] /\ reaps \in [Requests -> Nat] /\ counted \in [Requests -> Nat]
        /\ upload \in [Requests -> UpRec]
    BY <1>1 DEF UploadShape
  <1>3. wire' = [wire EXCEPT ![r].st = "done"] /\ wire[r].st = "live"
        /\ UNCHANGED <<reaping, closing, conn, seeded, off, reaps, stalls>>
    BY DEF Uploads!TransferAborted
  <1>4. PICK final \in {0, wire[r].sent} : Uploads!NoteFinished(r, final)
    BY DEF Uploads!TransferAborted
  <1>5. /\ wire' \in [Requests -> WireRec] /\ wire'[r].st = "done"
        /\ wire'[r].from = wire[r].from /\ wire'[r].sent = wire[r].sent
        /\ wire'[r].late = wire[r].late
        /\ \A q \in Requests : q # r => wire'[q] = wire[q]
    BY <1>2, <1>3, WireState
  <1>6. PICK s \in Nat : s = wire[r].sent
    BY <1>2, UploadConstants DEF WireRec
  <1>7. PICK u \in Nat : u = upload[r].sent
    BY <1>2, UploadConstants DEF UpRec
  <1>8. PICK k \in Nat : k = reaps[r]
    BY <1>2
  <1>9. final \in Nat /\ final <= s
    BY <1>4, <1>6
  <1>10. /\ slots' = slots \ {r} /\ upload' \in [Requests -> UpRec]
         /\ counted' \in [Requests -> Nat]
         /\ \A q \in Requests : q # r => upload'[q] = upload[q] /\ counted'[q] = counted[q]
         /\ counted'[r] = counted[r] + (IF r \in slots /\ final > u THEN final - u ELSE 0)
    BY <1>1, <1>4, <1>7, <1>9, FinishedFacts
  <1>11. UploadShape'
    BY <1>1, <1>3, <1>5, <1>10 DEF UploadShape
  <1>12. \A c \in Uploads!Conns : ConnStep(c)
    BY <1>3 DEF ConnStep
  <1>13. \A q \in Requests : q # r => Kept(q)
    BY <1>3, <1>5, <1>10 DEF Kept
  <1>14. SlotFollows(r)'
    BY <1>1, <1>3, <1>5, <1>10 DEF SlotFollows
  <1>15. CountedFollows(r)'
    <2>1. PICK p \in Nat : p = s * k
      BY Products
    <2>2. PICK c \in Nat : c = counted[r]
      BY <1>2
    <2>3. (r \in slots => c <= p + u /\ u <= s) /\ c <= p + s
      BY <1>1, <1>6, <1>7, <1>8, <2>1, <2>2 DEF CountedFollows, SlotFollows
    <2>4. counted'[r] = c + (IF r \in slots /\ final > u THEN final - u ELSE 0)
      BY <1>10, <2>2
    <2>5. counted'[r] <= p + s
      BY <1>9, <2>3, <2>4
    <2> QED
      BY <1>3, <1>5, <1>6, <1>8, <1>10, <2>1, <2>5 DEF CountedFollows, Open
  <1>16. Follows'
    BY <1>1, <1>12, <1>13, <1>14, <1>15, FollowsStep
  <1>17. OffListed'
    BY <1>1, <1>3, <1>5, <1>12, OffKept
  <1> QED
    BY <1>11, <1>16, <1>17

(* The reaper takes a slot: what its request had sent may be counted again. *)
LEMMA ReapOneStep ==
    ASSUME UploadInv, NEW r \in Requests, Uploads!ReapOne(r)
    PROVE  UploadShape' /\ Follows' /\ OffListed'
  <1>1. UploadShape /\ Follows /\ OffListed /\ SlotFollows(r) /\ CountedFollows(r)
    BY DEF UploadInv, Follows
  <1>2. wire \in [Requests -> WireRec] /\ reaps \in [Requests -> Nat] /\ counted \in [Requests -> Nat]
        /\ upload \in [Requests -> UpRec]
    BY <1>1 DEF UploadShape
  <1>3. UNCHANGED <<closing, conn, wire, seeded, off, stalls>> /\ reaping' = reaping \ {r}
        /\ Uploads!NoteFinished(r, 0)
    BY DEF Uploads!ReapOne
  <1>4. reaps' = IF r \in slots THEN [reaps EXCEPT ![r] = @ + 1] ELSE reaps
    BY DEF Uploads!ReapOne
  <1>5. PICK s \in Nat : s = wire[r].sent
    BY <1>2, UploadConstants DEF WireRec
  <1>6. PICK u \in Nat : u = upload[r].sent
    BY <1>2, UploadConstants DEF UpRec
  <1>7. PICK k \in Nat : k = reaps[r]
    BY <1>2
  <1>8. /\ reaps' \in [Requests -> Nat] /\ reaps'[r] = (IF r \in slots THEN k + 1 ELSE k)
        /\ \A q \in Requests : q # r => reaps'[q] = reaps[q]
    BY <1>2, <1>4, <1>7
  <1>9. /\ slots' = slots \ {r} /\ upload' \in [Requests -> UpRec]
        /\ counted' \in [Requests -> Nat]
        /\ \A q \in Requests : q # r => upload'[q] = upload[q] /\ counted'[q] = counted[q]
        /\ counted'[r] = counted[r] + (IF r \in slots /\ 0 > u THEN 0 - u ELSE 0)
    BY <1>1, <1>3, <1>6, FinishedFacts
  <1>10. counted'[r] = counted[r]
    BY <1>2, <1>9
  <1>11. UploadShape'
    BY <1>1, <1>3, <1>8, <1>9 DEF UploadShape
  <1>12. \A c \in Uploads!Conns : ConnStep(c)
    BY <1>3 DEF ConnStep
  <1>13. \A q \in Requests : q # r => Kept(q)
    BY <1>3, <1>8, <1>9 DEF Kept
  <1>14. SlotFollows(r)'
    BY <1>1, <1>3, <1>9, <1>10 DEF SlotFollows
  <1>15. CountedFollows(r)'
    <2>1. CASE r \notin slots
      <3>1. upload'[r] = upload[r] \/ r \notin slots'
        BY <1>9
      <3>2. slots' = slots /\ reaps'[r] = reaps[r]
        BY <1>7, <1>8, <1>9, <2>1
      <3> QED
        BY <1>1, <1>3, <1>10, <2>1, <3>2 DEF CountedFollows, Open
    <2>2. CASE r \in slots
      <3>1. PICK p \in Nat : p = s * k
        BY Products
      <3>2. PICK c \in Nat : c = counted[r]
        BY <1>2
      <3>3. c <= p + u /\ u <= s
        BY <1>1, <1>5, <1>6, <1>7, <2>2, <3>1, <3>2 DEF CountedFollows, SlotFollows
      <3>4. c <= p + s
        BY <3>3
      <3>5. s * (k + 1) = p + s
        BY <3>1, Products
      <3>6. counted'[r] = c /\ wire'[r] = wire[r] /\ reaps'[r] = k + 1 /\ r \notin slots'
        BY <1>3, <1>8, <1>9, <1>10, <2>2, <3>2
      <3>7. reaps'[r] # 0 /\ wire'[r].sent * reaps'[r] = p + s /\ wire'[r].sent = s
        BY <1>5, <3>5, <3>6
      <3>8. wire[r].st # "completed"
        BY <1>1, <2>2 DEF SlotFollows
      <3> QED
        BY <3>4, <3>6, <3>7 DEF CountedFollows
    <2> QED
      BY <2>1, <2>2
  <1>16. Follows'
    BY <1>1, <1>12, <1>13, <1>14, <1>15, FollowsStep
  <1>17. \A q \in Requests : reaps'[q] = reaps[q] \/ reaps'[q] > 0
    BY <1>7, <1>8
  <1>18. OffListed'
    BY <1>1, <1>3, <1>12, <1>17, OffKept
  <1> QED
    BY <1>11, <1>16, <1>18

(* The end of a connection takes a slot of it. *)
LEMMA CloseOneStep ==
    ASSUME UploadInv, NEW r \in Requests, Uploads!CloseOne(r)
    PROVE  UploadShape' /\ Follows' /\ OffListed'
  <1>1. UploadShape /\ Follows /\ OffListed /\ SlotFollows(r) /\ CountedFollows(r)
    BY DEF UploadInv, Follows
  <1>2. counted \in [Requests -> Nat] /\ upload \in [Requests -> UpRec]
        /\ closing \in [Uploads!Conns -> SUBSET Requests] /\ Conn[r] \in Uploads!Conns
    BY <1>1, UploadConstants DEF UploadShape
  <1>3. UNCHANGED <<reaping, conn, wire, seeded, off, reaps, stalls>> /\ Uploads!NoteFinished(r, 0)
        /\ closing' = [closing EXCEPT ![Conn[r]] = @ \ {r}] /\ r \in closing[Conn[r]]
    BY DEF Uploads!CloseOne
  <1>4. ~Open(r)
    BY <1>1, <1>3 DEF SlotFollows, Open
  <1>5. closing' \in [Uploads!Conns -> SUBSET Requests]
        /\ \A c \in Uploads!Conns : closing'[c] \subseteq closing[c]
    BY <1>2, <1>3
  <1>6. PICK u \in Nat : u = upload[r].sent
    BY <1>2, UploadConstants DEF UpRec
  <1>7. /\ slots' = slots \ {r} /\ upload' \in [Requests -> UpRec]
        /\ counted' \in [Requests -> Nat]
        /\ \A q \in Requests : q # r => upload'[q] = upload[q] /\ counted'[q] = counted[q]
        /\ counted'[r] = counted[r] + (IF r \in slots /\ 0 > u THEN 0 - u ELSE 0)
    BY <1>1, <1>3, <1>6, FinishedFacts
  <1>8. counted'[r] = counted[r]
    BY <1>2, <1>7
  <1>9. UploadShape'
    BY <1>1, <1>3, <1>5, <1>7 DEF UploadShape
  <1>10. \A c \in Uploads!Conns : ConnStep(c)
    BY <1>3, <1>5 DEF ConnStep
  <1>11. \A q \in Requests : q # r => Kept(q)
    BY <1>3, <1>7 DEF Kept
  <1>12. SlotFollows(r)'
    BY <1>1, <1>2, <1>3, <1>5, <1>7, <1>8 DEF SlotFollows
  <1>13. CountedFollows(r)'
    BY <1>1, <1>3, <1>4, <1>7, <1>8 DEF CountedFollows, Open
  <1>14. Follows'
    BY <1>1, <1>10, <1>11, <1>12, <1>13, FollowsStep
  <1>15. OffListed'
    BY <1>1, <1>3, <1>10, OffKept
  <1> QED
    BY <1>9, <1>14, <1>15

(* A request comes: it has no slot yet, and is late for a share-off under way. *)
LEMMA ReceivedStep ==
    ASSUME UploadInv, NEW r \in Requests, Uploads!GetRequestReceived(r)
    PROVE  UploadShape' /\ Follows' /\ OffListed'
  <1>1. UploadShape /\ Follows /\ OffListed /\ SlotFollows(r) /\ CountedFollows(r)
    BY DEF UploadInv, Follows
  <1>2. wire \in [Requests -> WireRec] /\ reaps \in [Requests -> Nat] /\ counted \in [Requests -> Nat]
        /\ upload \in [Requests -> UpRec]
    BY <1>1 DEF UploadShape
  <1>3. PICK late \in BOOLEAN : late = (off.pc # "idle" /\ off.hash = Hash[r])
    OBVIOUS
  <1>4. /\ wire[r].st = "new" /\ wire' = [wire EXCEPT ![r].st = "live", ![r].late = late]
        /\ Uploads!NoteStarted(r) /\ conn[Conn[r]] = "open"
        /\ UNCHANGED <<reaping, closing, conn, seeded, off, reaps, stalls>>
    BY <1>3 DEF Uploads!GetRequestReceived
  <1>5. r \notin slots /\ counted[r] = 0
    BY <1>1, <1>4 DEF SlotFollows
  <1>6. slots' = slots \cup {r} /\ upload' = [upload EXCEPT ![r] = Uploads!NoUpload]
        /\ counted' = counted
    BY <1>4, <1>5 DEF Uploads!NoteStarted
  <1>7. Uploads!NoUpload \in UpRec /\ Uploads!NoUpload.sent = 0 /\ Uploads!NoUpload.last = Size + 1
    BY UploadConstants DEF Uploads!NoUpload, UpRec
  <1>8. /\ upload' \in [Requests -> UpRec] /\ upload'[r] = Uploads!NoUpload
        /\ \A q \in Requests : q # r => upload'[q] = upload[q]
    BY <1>2, <1>6, <1>7
  <1>9. /\ wire' \in [Requests -> WireRec] /\ wire'[r].st = "live" /\ wire'[r].late = late
        /\ wire'[r].from = wire[r].from /\ wire'[r].sent = wire[r].sent
        /\ \A q \in Requests : q # r => wire'[q] = wire[q]
    <2> DEFINE w == [wire[r] EXCEPT !.st = "live", !.late = late]
    <2>1. wire[r] \in WireRec
      BY <1>2
    <2>2. w \in WireRec /\ w.st = "live" /\ w.from = wire[r].from /\ w.sent = wire[r].sent
          /\ w.late = late
      BY <2>1 DEF WireRec
    <2>3. wire' = [wire EXCEPT ![r] = w]
      BY <1>2, <1>4
    <2> HIDE DEF w
    <2> QED
      BY <1>2, <2>2, <2>3, WirePut
  <1>10. UploadShape'
    BY <1>1, <1>4, <1>6, <1>8, <1>9 DEF UploadShape
  <1>11. \A c \in Uploads!Conns : ConnStep(c)
    BY <1>4 DEF ConnStep
  <1>12. \A q \in Requests : q # r => Kept(q)
    BY <1>4, <1>6, <1>8, <1>9 DEF Kept
  <1>13. PICK s \in Nat : s = wire[r].sent
    BY <1>2, UploadConstants DEF WireRec
  <1>14. SlotFollows(r)'
    <2>1. ~(upload'[r].last <= Size) /\ upload'[r].sent <= wire'[r].sent
      BY <1>7, <1>8, <1>9, <1>13, UploadConstants
    <2> QED
      BY <1>1, <1>4, <1>6, <1>9, <2>1 DEF SlotFollows
  <1>15. CountedFollows(r)'
    <2>1. PICK k \in Nat : k = reaps[r]
      BY <1>2
    <2>2. PICK p \in Nat : p = s * k
      BY Products
    <2>3. wire'[r].sent * reaps'[r] = p /\ wire'[r].sent = s /\ upload'[r].sent = 0
          /\ counted'[r] = 0 /\ r \in slots'
      BY <1>4, <1>5, <1>6, <1>7, <1>8, <1>9, <1>13, <2>1, <2>2
    <2> QED
      BY <1>9, <2>2, <2>3 DEF CountedFollows
  <1>16. Follows'
    BY <1>1, <1>11, <1>12, <1>14, <1>15, FollowsStep
  <1>17. OffListed'
    BY <1>1, <1>3, <1>4, <1>9, <1>11, OffKept
  <1> QED
    BY <1>10, <1>16, <1>17

LEMMA UpLiteral ==
    ASSUME NEW b \in 0 .. Size, NEW o \in 0 .. Size + 1
    PROVE  LET new == [sent |-> b, last |-> o, idle |-> FALSE]
           IN new \in UpRec /\ new.sent = b /\ new.last = o
  BY DEF UpRec

(* What note_progress makes of the next offset of a request. *)
LEMMA AdvanceFacts ==
    ASSUME NEW one \in UpRec, NEW from \in Nat, NEW s \in Nat, from + s < Size,
           one.last <= Size => one.last = from + s, one.sent <= s,
           NEW o \in Nat, o = from + (s + 1)
    PROVE  LET new == Uploads!Advance(one, o)
           IN  /\ new \in UpRec /\ new.last = o
               /\ new.sent \in {one.sent, one.sent + 1}
               /\ one.last <= Size => new.sent = one.sent + 1
  <1> DEFINE new == Uploads!Advance(one, o)
  <1>1. PICK a \in 0 .. Size : a = one.sent
    BY DEF UpRec
  <1>2. PICK l \in 0 .. Size + 1 : l = one.last
    BY DEF UpRec
  <1>3. new = [sent |-> IF l <= Size /\ o > l THEN a + (o - l) ELSE a,
               last |-> IF l <= Size /\ o < l THEN l ELSE o,
               idle |-> FALSE]
    BY <1>1, <1>2 DEF Uploads!Advance
  <1> HIDE DEF new
  <1>4. o \in 0 .. Size + 1
    BY UploadConstants
  <1>5. CASE l <= Size
    <2>1. l = from + s /\ a <= s
      BY <1>1, <1>2, <1>5
    <2>2. o > l /\ ~(o < l) /\ a + (o - l) = a + 1
      BY <2>1
    <2>3. PICK b : b = a + 1 /\ b \in 0 .. Size
      BY <2>1, UploadConstants
    <2>4. new = [sent |-> b, last |-> o, idle |-> FALSE]
      BY <1>3, <1>5, <2>2, <2>3
    <2>5. new \in UpRec /\ new.sent = b /\ new.last = o
      BY <1>4, <2>3, <2>4, UpLiteral
    <2> QED
      BY <1>1, <2>3, <2>5 DEF new
  <1>6. CASE ~(l <= Size)
    <2>1. new = [sent |-> a, last |-> o, idle |-> FALSE]
      BY <1>3, <1>6
    <2>2. new \in UpRec /\ new.sent = a /\ new.last = o
      BY <1>1, <1>4, <2>1, UpLiteral
    <2> QED
      BY <1>1, <1>2, <1>6, <2>2 DEF new
  <1> QED
    BY <1>5, <1>6 DEF new

(* One more unit of a request is sent, with a slot or with one made for it. *)
LEMMA ProgressStep ==
    ASSUME UploadInv, NEW r \in Requests, Uploads!TransferProgress(r)
    PROVE  UploadShape' /\ Follows' /\ OffListed'
  <1>1. UploadShape /\ Follows /\ OffListed /\ SlotFollows(r) /\ CountedFollows(r)
    BY DEF UploadInv, Follows
  <1>2. wire \in [Requests -> WireRec] /\ reaps \in [Requests -> Nat] /\ counted \in [Requests -> Nat]
        /\ upload \in [Requests -> UpRec]
    BY <1>1 DEF UploadShape
  <1>3. PICK s \in 0 .. Size : s = wire[r].sent
    BY <1>2 DEF WireRec
  <1>4. PICK from \in 0 .. Size : from = wire[r].from
    BY <1>2 DEF WireRec
  <1>5. /\ wire[r].st = "live" /\ Open(r) /\ from + s < Size
        /\ wire' = [wire EXCEPT ![r].sent = @ + 1]
        /\ Uploads!NoteProgress(r, wire[r].from + wire'[r].sent)
        /\ UNCHANGED <<reaping, closing, conn, seeded, off, reaps, stalls>>
    BY <1>3, <1>4 DEF Uploads!TransferProgress, Open
  <1>6. PICK t : t = s + 1 /\ t \in 0 .. Size
    BY <1>3, <1>4, <1>5, UploadConstants
  <1>7. /\ wire' \in [Requests -> WireRec] /\ wire'[r].st = "live" /\ wire'[r].sent = t
        /\ wire'[r].from = from /\ wire'[r].late = wire[r].late
        /\ \A q \in Requests : q # r => wire'[q] = wire[q]
    <2> DEFINE w == [wire[r] EXCEPT !.sent = t]
    <2>1. wire[r] \in WireRec
      BY <1>2
    <2>2. w \in WireRec /\ w.st = wire[r].st /\ w.from = wire[r].from /\ w.sent = t
          /\ w.late = wire[r].late
      BY <1>6, <2>1 DEF WireRec
    <2>3. wire' = [wire EXCEPT ![r] = w]
      <3>1. wire' = [wire EXCEPT ![r].sent = wire[r].sent + 1]
        BY <1>5
      <3>2. wire[r].sent + 1 = t
        BY <1>3, <1>6
      <3>3. wire' = [wire EXCEPT ![r].sent = t]
        BY <3>1, <3>2
      <3> QED
        BY <1>2, <3>3
    <2>4. wire[r].st = "live"
      BY <1>5
    <2> HIDE DEF w
    <2>5. /\ wire' \in [Requests -> WireRec] /\ wire'[r] = w
          /\ \A q \in Requests : q # r => wire'[q] = wire[q]
      BY <1>2, <2>2, <2>3, WirePut
    <2> QED
      BY <1>4, <2>2, <2>4, <2>5
  <1>8. PICK o \in Nat : o = from + (s + 1)
    BY <1>3, <1>4, UploadConstants
  <1>9. Uploads!NoteProgress(r, o)
    <2>1. wire[r].from + wire'[r].sent = o
      BY <1>4, <1>6, <1>7, <1>8
    <2> QED
      BY <1>5, <2>1
  <1>10. PICK old : old = IF r \in slots THEN upload[r] ELSE Uploads!NoUpload
    OBVIOUS
  <1>11. PICK new : new = Uploads!Advance(old, o)
    OBVIOUS
  <1>12. /\ slots' = slots \cup {r} /\ upload' = [upload EXCEPT ![r] = new]
         /\ counted' = [counted EXCEPT ![r] = @ + (new.sent - old.sent)]
    BY <1>9, <1>10, <1>11 DEF Uploads!NoteProgress
  <1>13. Uploads!NoUpload \in UpRec /\ Uploads!NoUpload.sent = 0 /\ Uploads!NoUpload.last = Size + 1
    BY UploadConstants DEF Uploads!NoUpload, UpRec
  <1>14. old \in UpRec /\ (old.last <= Size => old.last = from + s) /\ old.sent <= s
    <2>1. CASE r \in slots
      BY <1>1, <1>2, <1>3, <1>4, <1>10, <2>1 DEF SlotFollows
    <2>2. CASE r \notin slots
      BY <1>3, <1>10, <1>13, <2>2, UploadConstants
    <2> QED
      BY <2>1, <2>2
  <1>15. /\ new \in UpRec /\ new.last = o
         /\ new.sent \in {old.sent, old.sent + 1}
    <2>1. s \in Nat /\ from \in Nat
      BY <1>3, <1>4, UploadConstants
    <2> QED
      BY <1>5, <1>8, <1>11, <1>14, <2>1, AdvanceFacts
  <1>16. PICK a \in Nat : a = old.sent
    BY <1>14, UploadConstants DEF UpRec
  <1>17. PICK b \in Nat : b = new.sent
    BY <1>15, UploadConstants DEF UpRec
  <1>18. PICK c \in Nat : c = counted[r]
    BY <1>2
  <1>19. b \in {a, a + 1} /\ a <= s
    BY <1>14, <1>15, <1>16, <1>17
  <1>20. /\ upload' \in [Requests -> UpRec] /\ upload'[r] = new
         /\ \A q \in Requests : q # r => upload'[q] = upload[q]
    BY <1>2, <1>12, <1>15
  <1>21. /\ counted' \in [Requests -> Nat] /\ counted'[r] = c + (b - a)
         /\ \A q \in Requests : q # r => counted'[q] = counted[q]
    <2>1. counted' = [counted EXCEPT ![r] = c + (b - a)]
      BY <1>2, <1>12, <1>16, <1>17, <1>18
    <2>2. c + (b - a) \in Nat
      BY <1>19
    <2> QED
      BY <1>2, <2>1, <2>2
  <1>22. UploadShape'
    BY <1>1, <1>5, <1>7, <1>20, <1>21 DEF UploadShape
  <1>23. \A d \in Uploads!Conns : ConnStep(d)
    BY <1>5 DEF ConnStep
  <1>24. \A q \in Requests : q # r => Kept(q)
    BY <1>5, <1>7, <1>12, <1>20, <1>21 DEF Kept
  <1>25. SlotFollows(r)'
    <2>1. upload'[r].last = wire'[r].from + wire'[r].sent
      BY <1>6, <1>7, <1>8, <1>15, <1>20
    <2>2. upload'[r].sent <= wire'[r].sent
      BY <1>3, <1>6, <1>7, <1>17, <1>19, <1>20
    <2>3. wire'[r].from + wire'[r].sent <= Size
      BY <1>3, <1>4, <1>5, <1>6, <1>7, UploadConstants
    <2>4. conn'[Conn[r]] # "new" /\ (r \in closing'[Conn[r]] => conn'[Conn[r]] = "ended")
      BY <1>1, <1>5 DEF SlotFollows, Open
    <2> QED
      BY <1>7, <2>1, <2>2, <2>3, <2>4 DEF SlotFollows
  <1>26. CountedFollows(r)'
    <2>1. PICK k \in Nat : k = reaps[r]
      BY <1>2
    <2>2. PICK p \in Nat : p = s * k
      BY <1>3, UploadConstants, Products
    <2>3. c <= p + a
      <3>1. CASE r \in slots
        BY <1>1, <1>3, <1>10, <1>16, <1>18, <2>1, <2>2, <3>1 DEF CountedFollows
      <3>2. CASE r \notin slots
        <4>1. c <= p
          BY <1>1, <1>3, <1>5, <1>18, <2>1, <2>2, <3>2 DEF CountedFollows
        <4> QED
          BY <4>1
      <3> QED
        BY <3>1, <3>2
    <2>4. k = 0 => c = a
      BY <1>1, <1>5, <1>10, <1>16, <1>18, <2>1 DEF CountedFollows
    <2>5. t * k = p + k
      BY <1>3, <1>6, <2>2, UploadConstants, Products
    <2>6. PICK d \in Nat : d = counted'[r]
      BY <1>21
    <2>7. d <= (p + k) + b /\ (k = 0 => d = b) /\ d <= (p + k) + t
      <3>1. d = c + (b - a)
        BY <1>21, <2>6
      <3> QED
        BY <1>6, <1>19, <2>3, <2>4, <3>1
    <2>8. wire'[r].sent * reaps'[r] = p + k /\ wire'[r].sent = t /\ upload'[r].sent = b
          /\ r \in slots' /\ reaps'[r] = k /\ wire'[r].st = "live"
      BY <1>5, <1>7, <1>12, <1>17, <1>20, <2>1, <2>5
    <2> QED
      BY <2>6, <2>7, <2>8 DEF CountedFollows
  <1>27. Follows'
    BY <1>1, <1>23, <1>24, <1>25, <1>26, FollowsStep
  <1>28. OffListed'
    BY <1>1, <1>5, <1>7, <1>23, OffKept
  <1> QED
    BY <1>22, <1>27, <1>28

(* A step that touches no request. *)
LEMMA AllKept ==
    ASSUME Follows, UNCHANGED <<slots, upload, wire, counted, reaps>>,
           \A c \in Uploads!Conns : ConnStep(c)
    PROVE  Follows'
  BY KeptFollows, UploadConstants DEF Follows, Kept

(* finish_upload and the reaper's listing touch no request. *)
LEMMA ListingStep ==
    ASSUME UploadInv, Uploads!ReapStalled \/ \E h \in Uploads!Hashes : Uploads!FinishUpload(h)
    PROVE  UploadShape' /\ Follows' /\ OffListed'
  <1>1. UploadShape /\ Follows /\ OffListed /\ slots \subseteq Requests
    BY DEF UploadInv, Counts
  <1>2. UNCHANGED <<slots, upload, counted, closing, conn, wire, seeded, off, reaps>>
    BY DEF Uploads!ReapStalled, Uploads!FinishUpload, Uploads!sink
  <1>3. reaping' \subseteq Requests
    BY <1>1 DEF Uploads!ReapStalled, Uploads!FinishUpload, UploadShape
  <1>4. \A c \in Uploads!Conns : ConnStep(c)
    BY <1>2 DEF ConnStep
  <1>5. UploadShape'
    BY <1>1, <1>2, <1>3 DEF UploadShape
  <1>6. Follows'
    BY <1>1, <1>2, <1>4, AllKept
  <1>7. OffListed'
    BY <1>1, <1>2, <1>4, OffKept
  <1> QED
    BY <1>5, <1>6, <1>7

LEMMA VanishStep ==
    ASSUME UploadInv, NEW r \in Requests, Uploads!Vanish(r)
    PROVE  UploadShape' /\ Follows' /\ OffListed'
  <1>1. UploadShape /\ Follows /\ OffListed /\ SlotFollows(r) /\ CountedFollows(r)
    BY DEF UploadInv, Follows
  <1>2. wire \in [Requests -> WireRec]
    BY <1>1 DEF UploadShape
  <1>3. wire' = [wire EXCEPT ![r].st = "mute"]
    BY DEF Uploads!Vanish
  <1>4. wire[r].st = "live"
        /\ UNCHANGED <<slots, upload, counted, reaping, closing, conn, seeded, off, reaps>>
    BY DEF Uploads!Vanish, Uploads!sink
  <1>5. /\ wire' \in [Requests -> WireRec] /\ wire'[r].st = "mute"
        /\ wire'[r].from = wire[r].from /\ wire'[r].sent = wire[r].sent
        /\ wire'[r].late = wire[r].late
        /\ \A q \in Requests : q # r => wire'[q] = wire[q]
    BY <1>2, <1>3, WireState
  <1>6. UploadShape'
    BY <1>1, <1>4, <1>5 DEF UploadShape
  <1>7. \A c \in Uploads!Conns : ConnStep(c)
    BY <1>4 DEF ConnStep
  <1>8. \A q \in Requests : q # r => Kept(q)
    BY <1>4, <1>5 DEF Kept
  <1>9. SlotFollows(r)'
    BY <1>1, <1>4, <1>5 DEF SlotFollows
  <1>10. CountedFollows(r)'
    BY <1>1, <1>4, <1>5 DEF CountedFollows
  <1>11. Follows'
    BY <1>1, <1>7, <1>8, <1>9, <1>10, FollowsStep
  <1>12. OffListed'
    BY <1>1, <1>4, <1>5, <1>7, OffKept
  <1> QED
    BY <1>6, <1>11, <1>12

LEMMA StallStep ==
    ASSUME UploadInv, NEW r \in Requests, Uploads!Stall(r)
    PROVE  UploadShape' /\ Follows' /\ OffListed'
  <1>1. UploadShape /\ Follows /\ OffListed /\ SlotFollows(r) /\ CountedFollows(r)
    BY DEF UploadInv, Follows
  <1>2. upload \in [Requests -> UpRec]
    BY <1>1 DEF UploadShape
  <1>3. upload' = [upload EXCEPT ![r].idle = TRUE]
    BY DEF Uploads!Stall
  <1>4. UNCHANGED <<slots, counted, reaping, closing, conn, wire, seeded, off, reaps>>
    BY DEF Uploads!Stall
  <1>5. /\ upload' \in [Requests -> UpRec]
        /\ upload'[r].sent = upload[r].sent /\ upload'[r].last = upload[r].last
        /\ \A q \in Requests : q # r => upload'[q] = upload[q]
    <2> DEFINE u == [upload[r] EXCEPT !.idle = TRUE]
    <2>1. upload[r] \in UpRec
      BY <1>2
    <2>2. u \in UpRec /\ u.sent = upload[r].sent /\ u.last = upload[r].last
      BY <2>1 DEF UpRec
    <2>3. upload' = [upload EXCEPT ![r] = u]
      BY <1>2, <1>3
    <2> HIDE DEF u
    <2> QED
      BY <1>2, <2>2, <2>3
  <1>6. UploadShape'
    BY <1>1, <1>4, <1>5 DEF UploadShape
  <1>7. \A c \in Uploads!Conns : ConnStep(c)
    BY <1>4 DEF ConnStep
  <1>8. \A q \in Requests : q # r => Kept(q)
    BY <1>4, <1>5 DEF Kept
  <1>9. SlotFollows(r)'
    BY <1>1, <1>4, <1>5 DEF SlotFollows
  <1>10. CountedFollows(r)'
    BY <1>1, <1>4, <1>5 DEF CountedFollows, Open
  <1>11. Follows'
    BY <1>1, <1>7, <1>8, <1>9, <1>10, FollowsStep
  <1>12. OffListed'
    BY <1>1, <1>4, <1>7, OffKept
  <1> QED
    BY <1>6, <1>11, <1>12

(* A connection comes or ends. *)
LEMMA ConnectionStep ==
    ASSUME UploadInv, NEW c \in Uploads!Conns, Uploads!Accept(c) \/ Uploads!ConnectionClosed(c)
    PROVE  UploadShape' /\ Follows' /\ OffListed'
  <1>1. UploadShape /\ Follows /\ OffListed /\ slots \subseteq Requests
    BY DEF UploadInv, Counts
  <1>2. conn \in [Uploads!Conns -> {"new", "open", "closed", "ended"}]
        /\ closing \in [Uploads!Conns -> SUBSET Requests]
    BY <1>1 DEF UploadShape
  <1>3. UNCHANGED <<slots, upload, counted, reaping, wire, seeded, off, reaps>>
    BY DEF Uploads!Accept, Uploads!ConnectionClosed, Uploads!sink
  <1>4. /\ conn' \in [Uploads!Conns -> {"new", "open", "closed", "ended"}]
        /\ closing' \in [Uploads!Conns -> SUBSET Requests]
        /\ \A d \in Uploads!Conns : ConnStep(d)
    <2>1. CASE Uploads!Accept(c)
      BY <1>2, <2>1 DEF Uploads!Accept, ConnStep
    <2>2. CASE Uploads!ConnectionClosed(c)
      BY <1>1, <1>2, <2>2 DEF Uploads!ConnectionClosed, ConnStep
    <2> QED
      BY <2>1, <2>2
  <1>5. UploadShape'
    BY <1>1, <1>3, <1>4 DEF UploadShape
  <1>6. Follows'
    BY <1>1, <1>3, <1>4, AllKept
  <1>7. OffListed'
    BY <1>1, <1>3, <1>4, OffKept
  <1> QED
    BY <1>5, <1>6, <1>7

(* A share-off lists the connections with a slot for the blob, and a request
   that is being served has one unless the reaper took it. *)
LEMMA ShareOffStep ==
    ASSUME UploadInv, NEW h \in Uploads!Hashes, Uploads!ShareOff(h)
    PROVE  UploadShape' /\ Follows' /\ OffListed'
  <1>1. UploadShape /\ Follows /\ slots \subseteq Requests
    BY DEF UploadInv, Counts
  <1>2. UNCHANGED <<slots, upload, counted, reaping, closing, conn, wire, seeded, reaps>>
    BY DEF Uploads!ShareOff, Uploads!sink
  <1>3. PICK ids : ids = {Conn[r] : r \in {q \in slots : Hash[q] = h}}
    OBVIOUS
  <1>4. ids \in SUBSET Uploads!Conns
    BY <1>1, <1>3, UploadConstants
  <1>5. off' = [pc |-> "delete", hash |-> h, ids |-> ids]
    BY <1>3 DEF Uploads!ShareOff, Uploads!ConnectionIdsForHash
  <1>6. /\ off' \in [pc : {"idle", "delete", "close", "done"}, hash : Uploads!Hashes,
                     ids : SUBSET Uploads!Conns]
        /\ off'.pc = "delete" /\ off'.hash = h /\ off'.ids = ids
    BY <1>4, <1>5
  <1>7. UploadShape'
    BY <1>1, <1>2, <1>6 DEF UploadShape
  <1>8. \A c \in Uploads!Conns : ConnStep(c)
    BY <1>2 DEF ConnStep
  <1>9. Follows'
    BY <1>1, <1>2, <1>8, AllKept
  <1>10. OffListed'
    <2>1. ASSUME NEW r \in Requests, Hash[r] = h, wire[r].st = "live", Open(r), ~(reaps[r] > 0)
          PROVE  Conn[r] \in ids
      <3>1. reaps[r] = 0
        BY <1>1, <2>1 DEF UploadShape
      <3>2. r \in slots
        BY <1>1, <2>1, <3>1 DEF Follows, CountedFollows
      <3> QED
        BY <1>3, <2>1, <3>2
    <2>2. ASSUME NEW c \in ids PROVE conn[c] # "new"
      <3>1. PICK r \in slots : c = Conn[r]
        BY <1>3, <2>2
      <3> QED
        BY <1>1, <3>1 DEF Follows, SlotFollows
    <2> QED
      BY <1>2, <1>6, <2>1, <2>2 DEF OffListed, Open
  <1> QED
    BY <1>7, <1>9, <1>10

LEMMA OffPhase ==
    ASSUME UploadShape, NEW pc \in {"idle", "delete", "close", "done"}, off' = [off EXCEPT !.pc = pc]
    PROVE  /\ off' \in [pc : {"idle", "delete", "close", "done"}, hash : Uploads!Hashes,
                        ids : SUBSET Uploads!Conns]
           /\ off'.pc = pc /\ off'.hash = off.hash /\ off'.ids = off.ids
  BY DEF UploadShape

LEMMA UnseedStep ==
    ASSUME UploadInv, Uploads!Unseed
    PROVE  UploadShape' /\ Follows' /\ OffListed'
  <1>1. UploadShape /\ Follows /\ OffListed
    BY DEF UploadInv
  <1>2. UNCHANGED <<slots, upload, counted, reaping, closing, conn, wire, reaps>>
    BY DEF Uploads!Unseed, Uploads!sink
  <1>3. off.pc = "delete" /\ off' = [off EXCEPT !.pc = "close"] /\ seeded' \subseteq seeded
    BY DEF Uploads!Unseed
  <1>4. /\ off' \in [pc : {"idle", "delete", "close", "done"}, hash : Uploads!Hashes,
                     ids : SUBSET Uploads!Conns]
        /\ off'.pc = "close" /\ off'.hash = off.hash /\ off'.ids = off.ids
    BY <1>1, <1>3, OffPhase
  <1>5. UploadShape'
    BY <1>1, <1>2, <1>3, <1>4 DEF UploadShape
  <1>6. \A c \in Uploads!Conns : ConnStep(c)
    BY <1>2 DEF ConnStep
  <1>7. Follows'
    BY <1>1, <1>2, <1>6, AllKept
  <1>8. OffListed'
    <2>1. off.pc # "idle" /\ off.pc # "done"
      BY <1>3
    <2> QED
      BY <1>1, <1>2, <1>4, <2>1 DEF OffListed, Open
  <1> QED
    BY <1>5, <1>7, <1>8

(* ConnRegistry::close: the listed connections that are open are closed. *)
LEMMA DisconnectStep ==
    ASSUME UploadInv, Uploads!Disconnect
    PROVE  UploadShape' /\ Follows' /\ OffListed'
  <1>1. UploadShape /\ Follows /\ OffListed
    BY DEF UploadInv
  <1>2. UNCHANGED <<slots, upload, counted, reaping, closing, wire, seeded, reaps>>
    BY DEF Uploads!Disconnect, Uploads!sink
  <1>3. off.pc = "close" /\ off' = [off EXCEPT !.pc = "done"]
    BY DEF Uploads!Disconnect
  <1>4. conn' = [c \in Uploads!Conns |->
                    IF c \in off.ids /\ conn[c] = "open" THEN "closed" ELSE conn[c]]
    BY DEF Uploads!Disconnect
  <1>5. /\ off' \in [pc : {"idle", "delete", "close", "done"}, hash : Uploads!Hashes,
                     ids : SUBSET Uploads!Conns]
        /\ off'.pc = "done" /\ off'.hash = off.hash /\ off'.ids = off.ids
    BY <1>1, <1>3, OffPhase
  <1>6. conn \in [Uploads!Conns -> {"new", "open", "closed", "ended"}]
        /\ off.ids \subseteq Uploads!Conns
    BY <1>1 DEF UploadShape
  <1>7. conn' \in [Uploads!Conns -> {"new", "open", "closed", "ended"}]
    BY <1>4, <1>6
  <1>8. UploadShape'
    BY <1>1, <1>2, <1>5, <1>7 DEF UploadShape
  <1>9. \A c \in Uploads!Conns : ConnStep(c)
    BY <1>2, <1>4, <1>6 DEF ConnStep
  <1>10. Follows'
    BY <1>1, <1>2, <1>9, AllKept
  <1>11. OffListed'
    <2>1. \A c \in off.ids : conn'[c] # "open" /\ conn'[c] # "new"
      BY <1>1, <1>3, <1>4, <1>6 DEF OffListed
    <2>2. ASSUME NEW r \in Requests, Hash[r] = off.hash, wire[r].st = "live", conn'[Conn[r]] = "open"
          PROVE  wire[r].late \/ reaps[r] > 0
      <3>1. Conn[r] \notin off.ids /\ Conn[r] \in Uploads!Conns
        BY <2>1, <2>2, UploadConstants
      <3>2. Open(r)
        BY <1>4, <2>2, <3>1 DEF Open
      <3> QED
        BY <1>1, <1>3, <2>2, <3>1, <3>2 DEF OffListed
    <2> QED
      BY <1>2, <1>5, <2>1, <2>2 DEF OffListed, Open
  <1> QED
    BY <1>8, <1>10, <1>11

LEMMA UploadStep == ASSUME UploadInv, Uploads!Next PROVE UploadInv'
  <1>1. Counts'
    BY CountsStep DEF UploadInv
  <1>2. UploadShape' /\ Follows' /\ OffListed'
    BY ReceivedStep, ProgressStep, CompletedStep, AbortedStep, VanishStep, StallStep, ReapOneStep,
       CloseOneStep, ListingStep, ConnectionStep, ShareOffStep, UnseedStep, DisconnectStep
       DEF Uploads!Next, Uploads!Housekeeping, Uploads!Event
  <1> QED
    BY <1>1, <1>2 DEF UploadInv

LEMMA UploadInit == ASSUME Uploads!Init PROVE UploadInv
  <1>1. Uploads!Finishes = {}
    BY DEF Uploads!Init, Uploads!Finishes
  <1>2. Counts
    <2>1. slots = {} /\ active = 0 /\ byHash = [h \in Uploads!Hashes |-> 0]
          /\ finishing = [h \in Uploads!Hashes |-> 0]
      BY DEF Uploads!Init
    <2>2. \A h : OfHash(slots, h) = {}
      BY <2>1 DEF OfHash
    <2>3. Cardinality({}) = 0 /\ IsFiniteSet({})
      BY FS_EmptySet
    <2> QED
      BY <1>1, <2>1, <2>2, <2>3, CountsParts
  <1>3. UploadShape
    <2>1. Uploads!NoUpload \in UpRec
      BY UploadConstants DEF Uploads!NoUpload, UpRec
    <2>2. upload = [r \in Requests |-> Uploads!NoUpload]
      BY DEF Uploads!Init
    <2>3. upload \in [Requests -> UpRec]
      BY <2>1, <2>2
    <2>4. wire = [r \in Requests |-> [st |-> "new", from |-> Prefix[r], sent |-> 0, late |-> FALSE]]
      BY DEF Uploads!Init
    <2>5. \A r \in Requests :
            [st |-> "new", from |-> Prefix[r], sent |-> 0, late |-> FALSE] \in WireRec
      BY UploadConstants DEF WireRec
    <2>6. wire \in [Requests -> WireRec]
      BY <2>4, <2>5
    <2>7. PICK h \in Uploads!Hashes : h = CHOOSE g \in Uploads!Hashes : TRUE
      BY UploadConstants
    <2>8. off = [pc |-> "idle", hash |-> h, ids |-> {}]
      BY <2>7 DEF Uploads!Init
    <2>9. off \in [pc : {"idle", "delete", "close", "done"}, hash : Uploads!Hashes,
                   ids : SUBSET Uploads!Conns]
      BY <2>8
    <2> QED
      BY <2>3, <2>6, <2>9 DEF Uploads!Init, UploadShape
  <1>4. Follows
    <2> SUFFICES ASSUME NEW r \in Requests PROVE SlotFollows(r) /\ CountedFollows(r)
      BY DEF Follows
    <2>1. PICK f \in 0 .. Size : f = Prefix[r]
      BY UploadConstants
    <2>2. slots = {} /\ counted[r] = 0 /\ conn[Conn[r]] = "new" /\ closing[Conn[r]] = {}
          /\ reaps[r] = 0
      BY UploadConstants DEF Uploads!Init
    <2>3. wire[r].st = "new" /\ wire[r].from = f /\ wire[r].sent = 0
      BY <2>1 DEF Uploads!Init
    <2>4. f + 0 <= Size /\ 0 * 0 + 0 = 0
      BY <2>1, UploadConstants
    <2> QED
      BY <2>2, <2>3, <2>4 DEF SlotFollows, CountedFollows
  <1>5. OffListed
    BY DEF Uploads!Init, OffListed
  <1> QED
    BY <1>2, <1>3, <1>4, <1>5 DEF UploadInv

LEMMA UploadSound == ASSUME UploadInv PROVE UploadsInv
  <1>1. Counts /\ UploadShape /\ Follows /\ OffListed
    BY DEF UploadInv
  <1>2. Uploads!UploadsTypeOK
    BY <1>1 DEF Counts, UploadShape, UpRec, WireRec, Uploads!UploadsTypeOK
  <1>3. Uploads!UploadedExact
    <2> SUFFICES ASSUME NEW r \in Requests
                 PROVE  /\ counted[r] <= wire[r].sent * (1 + reaps[r])
                        /\ wire[r].st = "completed" /\ reaps[r] = 0 /\ conn[Conn[r]] = "open"
                              => counted[r] = wire[r].sent
      BY DEF Uploads!UploadedExact
    <2>1. PICK s \in Nat : s = wire[r].sent
      BY <1>1, UploadConstants DEF UploadShape, WireRec
    <2>2. PICK k \in Nat : k = reaps[r]
      BY <1>1 DEF UploadShape
    <2>3. counted[r] <= s * k + s
      BY <1>1, <2>1, <2>2 DEF Follows, CountedFollows
    <2>4. s * (1 + k) = s * k + s
      BY Products
    <2> QED
      BY <1>1, <2>1, <2>2, <2>3, <2>4 DEF Follows, CountedFollows, Open
  <1>4. Uploads!ShareOffSevers
    BY <1>1 DEF OffListed, Open, Uploads!ShareOffSevers
  <1> QED
    BY <1>1, <1>2, <1>3, <1>4 DEF Counts, UploadsInv

-----------------------------------------------------------------------------
(* The parts together: each behaviour is one of one part *)

LEMMA PartSteps ==
    ASSUME [Next]_vars
    PROVE  /\ Cas!Next \/ UNCHANGED casVars
           /\ Manifests!Next \/ UNCHANGED manifestsVars
           /\ Uploads!Next \/ UNCHANGED uploadsVars
           /\ [RegistryNext]_registryVars
  BY DEF Next, vars, InCas, InRegistry, InManifests, InUploads

LEMMA CasFrame == ASSUME CasInv, UNCHANGED casVars PROVE CasInv'
  <1> USE DEF casVars
  <1>1. StoreShape'
    BY DEF CasInv, StoreShape, Bounded, FilesOK, FlagsOK, RowOK, ProcOK, Taking
  <1>2. TempIsPrivate'
    BY DEF CasInv, TempIsPrivate, InTemp
  <1>3. Cas!NeverHalfABlob'
    BY DEF CasInv, Cas!NeverHalfABlob
  <1>4. CleanIsAlone'
    BY DEF CasInv, CleanIsAlone, DoneAlone, EvictAlone, InstallAlone
  <1> QED
    BY <1>1, <1>2, <1>3, <1>4 DEF CasInv

LEMMA ManifestFrame == ASSUME ManifestInv, UNCHANGED manifestsVars PROVE ManifestInv'
  <1> USE DEF manifestsVars, ManifestInv
  <1>1. Manifests!ManifestTypeOK'
    BY DEF Manifests!ManifestTypeOK
  <1>2. Manifests!SlugsAgree'
    BY DEF Manifests!SlugsAgree, Manifests!ModelLatest, Manifests!Stored
  <1>4. Manifests!StoreIsBounded'
    BY DEF Manifests!StoreIsBounded, Manifests!Stored
  <1>3. DiskAgrees' /\ SlugsStored'
    BY DEF DiskAgrees, OnDisk, SlugsStored
  <1> QED
    BY <1>1, <1>2, <1>3, <1>4

LEMMA UploadFrame == ASSUME UploadInv, UNCHANGED uploadsVars PROVE UploadInv'
  <1> USE DEF uploadsVars
  <1>1. Counts'
    BY CountsSame DEF UploadInv
  <1>2. UploadShape'
    BY DEF UploadInv, UploadShape
  <1>3. Follows'
    BY DEF UploadInv, Follows, SlotFollows, CountedFollows, Open
  <1>4. OffListed'
    BY DEF UploadInv, OffListed, Open
  <1> QED
    BY <1>1, <1>2, <1>3, <1>4 DEF UploadInv

LEMMA CasAlways == Spec => []CasInv
  <1>1. Init => CasInv
    BY CasInit DEF Init
  <1>2. CasInv /\ [Next]_vars => CasInv'
    BY PartSteps, CasStep, CasFrame
  <1> QED
    BY <1>1, <1>2, PTL DEF Spec

LEMMA ManifestsAlways == Spec => []ManifestInv
  <1>1. Init => ManifestInv
    BY ManifestInit DEF Init
  <1>2. ManifestInv /\ [Next]_vars => ManifestInv'
    BY PartSteps, ManifestStep, ManifestFrame
  <1> QED
    BY <1>1, <1>2, PTL DEF Spec

(* For any processes, manifests and bounds: what is at a content path is never
   half a file unless two imports were in the temporary file they share, or two
   installs at one destination; an install that ran alone and succeeded left
   the whole file, recorded; an evict that ran alone and succeeded left neither
   blob, metadata, row nor install; and a reconcile that ran alone left rows and
   files in agreement; through copies, writes and removals that fail, crashes
   and deletions by hand.  The slug index agrees with the manifests, a manifest
   answered Created survives torn writes and restarts, and the store stays
   within its bound. *)
THEOREM StoreCorrect == Spec => []StoreInv
  <1>1. CasInv /\ ManifestInv => StoreInv
    BY CasSound, ManifestSound DEF StoreInv
  <1> QED
    BY <1>1, CasAlways, ManifestsAlways, PTL

(* For any requests, connections and blobs: the counts of peers pulling are
   the slots plus the finish_upload calls under way, the uploaded bytes count
   no prefix, and a hard share-off severs every peer that was pulling. *)
THEOREM UploadsCorrect == Spec => []UploadsInv
  <1>1. Init => UploadInv
    BY UploadInit DEF Init
  <1>2. UploadInv /\ [Next]_vars => UploadInv'
    BY PartSteps, UploadStep, UploadFrame
  <1>3. UploadInv => UploadsInv
    BY UploadSound
  <1> QED
    BY <1>1, <1>2, <1>3, PTL DEF Spec

(* No step of the content store forgets a digest of a row that stays, and no
   step of the tracker an alias whose blob still has a live provider. *)
THEOREM NothingIsForgotten == Spec => NothingForgotten
  <1>1. Init => LookupInv
    BY EmptyTracker DEF Init
  <1>2. LookupInv /\ [Next]_vars => LookupInv'
    BY PartSteps, LookupInductive
  <1>3. ASSUME CasInv, LookupInv, LookupInv', Next PROVE Cas!DigestsKept /\ AliasKept
    <2>1. Cas!DigestsKept
      <3>1. CASE Cas!Next
        BY <1>3, <3>1, CasDigestsStep DEF CasInv
      <3>2. CASE UNCHANGED casVars
        BY <3>2 DEF casVars, Cas!DigestsKept
      <3> QED
        BY <1>3, <3>1, <3>2, PartSteps
    <2>2. AliasKept
      <3>1. CASE RegistryNext
        BY <1>3, <3>1, AliasStep
      <3>2. CASE UNCHANGED registryVars
        BY <3>2 DEF registryVars, AliasKept
      <3> QED
        BY <1>3, <3>1, <3>2, PartSteps
    <2> QED
      BY <2>1, <2>2
  <1>4. CasInv /\ LookupInv /\ LookupInv' /\ [Next]_vars => [Cas!DigestsKept /\ AliasKept]_vars
    BY <1>3
  <1> QED
    BY <1>1, <1>2, <1>4, CasAlways, PTL DEF Spec, NothingForgotten

============================================================================

------------------------------ MODULE CasIndex ------------------------------
(***************************************************************************)
(* The content store (crates/core/src/cas.rs), its index in cache_blobs    *)
(* and install_views (db.rs) and the engine operations over both, for one  *)
(* content: commit of a download, import of a local file, cache hit,       *)
(* install, evict and reconcile.  Files and rows change in separate steps, *)
(* operations interleave at every one of them, the process may die between *)
(* any two, and somebody may delete files by hand.                         *)
(*                                                                         *)
(* A file is an inode that is whole or not: a rename or a hard link keeps  *)
(* it, a copy makes another, or fills the one that is there.  Sidecars are *)
(* written in place, and torn in between.                                  *)
(***************************************************************************)
EXTENDS Naturals, FiniteSets

CONSTANTS
    Downloads,  \* concurrent transfers of artifacts with this content
    Imports,    \* concurrent imports of local files with this content
    Evicts, Installs, Reconciles,   \* concurrent calls of the other operations
    MaxOps,     \* bound: operations started
    MaxDeletes, \* bound: files deleted by hand
    MaxCrashes  \* bound: crashes

Procs == Downloads \cup Imports \cup Evicts \cup Installs \cup Reconciles

CasIndexAssumption ==
    /\ IsFiniteSet(Procs)
    /\ MaxOps \in Nat /\ MaxDeletes \in Nat /\ MaxCrashes \in Nat

VARIABLES
    blob,       \* the inode at blob_path, or 0
    tmp,        \* the inode at the import temp path, or 0
    dest,       \* the inode at the install destination, or 0
    whole,      \* the inodes with the whole content
    meta, tree, \* the sidecars: "none", "torn" or "whole"
    row,        \* the cache_blobs row: present, with a sha256, with a git oid
    view,       \* the install_views row
    proc,       \* per process: where it is, its artifact's digest, its inode
    used,       \* inodes handed out
    clean,      \* history: nothing else ran since the operation named began
    overlap,    \* history: an import opened the temp while another was using it,
                \* or an install copied onto a destination that another had made
    ops, deletes, crashes

files == <<blob, tmp, dest, whole, meta, tree>>
bounds == <<ops, deletes, crashes>>
vars == <<files, row, view, proc, used, clean, overlap, bounds>>

NoRow == [present |-> FALSE, sha |-> FALSE, git |-> FALSE]
Idle == [pc |-> "idle", key |-> "b3", inode |-> 0]

TypeOK ==
    /\ blob \in 0 .. used /\ tmp \in 0 .. used /\ dest \in 0 .. used /\ whole \subseteq 1 .. used
    /\ meta \in {"none", "torn", "whole"} /\ tree \in {"none", "torn", "whole"} /\ view \in BOOLEAN
    /\ row \in [present : BOOLEAN, sha : BOOLEAN, git : BOOLEAN]
    /\ ~row.present => row = NoRow
    /\ \A p \in Procs : proc[p].key \in {"b3", "sha", "git"} /\ proc[p].inode \in 0 .. used
    /\ used \in 0 .. MaxOps /\ clean \in SUBSET Procs /\ overlap \in BOOLEAN

Init ==
    /\ blob = 0 /\ tmp = 0 /\ dest = 0 /\ whole = {}
    /\ meta = "none" /\ tree = "none"
    /\ row = NoRow /\ view = FALSE
    /\ proc = [p \in Procs |-> Idle] /\ used = 0 /\ clean = {} /\ overlap = FALSE
    /\ ops = 0 /\ deletes = 0 /\ crashes = 0

-----------------------------------------------------------------------------
Goto(p, pc) == proc' = [proc EXCEPT ![p].pc = pc]
Return(p) == proc' = [proc EXCEPT ![p] = Idle]
At(p, pc) == proc[p].pc = pc

(* An operation that begins while another runs, or meets one that begins, did
   not run alone. *)
Start(p, pc, key) ==
    /\ At(p, "idle") /\ ops < MaxOps
    /\ proc' = [proc EXCEPT ![p] = [pc |-> pc, key |-> key, inode |-> 0]]
    /\ clean' = IF \A q \in Procs : At(q, "idle") THEN {p} ELSE {}
    /\ ops' = ops + 1
    /\ UNCHANGED <<overlap, deletes, crashes>>

(* Mutant: a re-upsert overwrites the sha256 with what it has. *)
UpsertClobbers(sha) == [present |-> TRUE, sha |-> sha, git |-> row.git]

(* upsert_cache_blob: an empty sha256 never replaces a known one. *)
UpsertCacheBlob(sha) == [present |-> TRUE, sha |-> sha \/ row.sha, git |-> row.git]

(* How an artifact is found in the cache: by its blake3 the file decides, by
   its other digests the index. *)
Resolves(key) ==
    CASE key = "b3" -> blob # 0
      [] key = "sha" -> row.sha
      [] key = "git" -> row.git

-----------------------------------------------------------------------------
(* A download: cache hit, or the commit of a verified temp file *)

Download(p) ==
    /\ \E key \in {"b3", "sha", "git"} :
          Start(p, IF Resolves(key) THEN "hit" ELSE "commit", key)
    /\ UNCHANGED <<files, row, view, used>>

CacheHit(p) ==
    /\ At(p, "hit")
    /\ row' = UpsertCacheBlob(proc[p].key = "sha")
    /\ Return(p)
    /\ UNCHANGED <<files, view, used, clean, overlap, bounds>>

(* An existing blob wins, with the sidecar it has: none is written anew, one
   that cannot be parsed is an error. *)
Deduplicate(p) ==
    /\ blob # 0
    /\ \/ meta = "whole" /\ Goto(p, "index")
       \/ meta = "none" /\ Goto(p, "meta")
       \/ meta = "torn" /\ Return(p)

(* commit_blob: otherwise the temp is renamed, which may fail. *)
Commit(p) ==
    /\ At(p, "commit")
    /\ \/ Deduplicate(p) /\ UNCHANGED <<blob, whole, used>>
       \/ blob = 0 /\ Return(p) /\ UNCHANGED <<blob, whole, used>>
       \/ /\ blob = 0
          /\ used' = used + 1 /\ blob' = used + 1 /\ whole' = whole \cup {used + 1}
          /\ Goto(p, "meta")
    /\ UNCHANGED <<tmp, dest, meta, tree, row, view, clean, overlap, bounds>>

(* write_meta opens the sidecar, which empties it, and then fills it, unless
   somebody has removed it; a write that fails ends the operation. *)
WriteMeta(p) ==
    /\ At(p, "meta")
    /\ \/ meta' = "torn" /\ Goto(p, "meta_open")
       \/ UNCHANGED meta /\ Return(p)
    /\ UNCHANGED <<blob, tmp, dest, whole, tree, row, view, used, clean, overlap, bounds>>

MetaWritten(p) ==
    /\ At(p, "meta_open")
    /\ \/ meta' = (IF meta = "none" THEN "none" ELSE "whole") /\ Goto(p, "index")
       \/ UNCHANGED meta /\ Return(p)
    /\ UNCHANGED <<blob, tmp, dest, whole, tree, row, view, used, clean, overlap, bounds>>

(* finalize_blob and index_blob: the row, the git oid, the chunk tree. *)
Index(p) ==
    /\ At(p, "index")
    /\ row' = UpsertCacheBlob(TRUE)
    /\ Goto(p, IF p \in Downloads /\ proc[p].key = "git" THEN "git" ELSE "tree")
    /\ UNCHANGED <<files, view, used, clean, overlap, bounds>>

(* Mutant: the oid is stored whether or not the row is still there. *)
SetGitSha1Blind(p) ==
    /\ At(p, "git")
    /\ row' = [row EXCEPT !.git = TRUE]
    /\ Goto(p, "tree")
    /\ UNCHANGED <<files, view, used, clean, overlap, bounds>>

SetGitSha1(p) ==
    /\ At(p, "git")
    /\ row' = [row EXCEPT !.git = row.present]
    /\ Goto(p, "tree")
    /\ UNCHANGED <<files, view, used, clean, overlap, bounds>>

(* A tree is stored where there is none, unless the transfer is cancelled; one
   that cannot be parsed is an error. *)
StoreChunkTree(p) ==
    /\ At(p, "tree")
    /\ \/ tree = "none" /\ blob # 0 /\ tree' = "torn" /\ Goto(p, "tree_open")
       \/ UNCHANGED tree /\ Return(p)
    /\ UNCHANGED <<blob, tmp, dest, whole, meta, row, view, used, clean, overlap, bounds>>

TreeWritten(p) ==
    /\ At(p, "tree_open")
    /\ tree' \in {tree, IF tree = "none" THEN "none" ELSE "whole"}
    /\ Return(p)
    /\ UNCHANGED <<blob, tmp, dest, whole, meta, row, view, used, clean, overlap, bounds>>

-----------------------------------------------------------------------------
(* Import of a local file: copied to a temp named after the content *)

Import(p) ==
    /\ Start(p, "import", "b3")
    /\ UNCHANGED <<files, row, view, used>>

ImportHasBlob(p) ==
    /\ At(p, "import") /\ blob # 0
    /\ Goto(p, "meta")
    /\ UNCHANGED <<files, row, view, used, clean, overlap, bounds>>

(* Mutant: the file is copied straight to its content path. *)
OpenBlob(p) ==
    /\ At(p, "import") /\ blob = 0
    /\ blob' = used + 1 /\ used' = used + 1
    /\ proc' = [proc EXCEPT ![p].pc = "copying", ![p].inode = used + 1]
    /\ UNCHANGED <<tmp, dest, whole, meta, tree, row, view, clean, overlap, bounds>>

(* A temp that is already there is opened and truncated. *)
OpenTemp(p) ==
    /\ At(p, "import") /\ blob = 0
    /\ LET i == IF tmp = 0 THEN used + 1 ELSE tmp
       IN /\ tmp' = i /\ whole' = whole \ {i}
          /\ used' = IF tmp = 0 THEN used + 1 ELSE used
          /\ proc' = [proc EXCEPT ![p].pc = "copying", ![p].inode = i]
    /\ overlap' = (overlap \/ \E q \in Imports : At(q, "copying") \/ At(q, "rename"))
    /\ UNCHANGED <<blob, dest, meta, tree, row, view, clean, bounds>>

(* A copy that fails leaves the temp as it is. *)
Copied(p) ==
    /\ At(p, "copying")
    /\ \/ whole' = whole \cup {proc[p].inode} /\ Goto(p, "rename")
       \/ UNCHANGED whole /\ Return(p)
    /\ UNCHANGED <<blob, tmp, dest, meta, tree, row, view, used, clean, overlap, bounds>>

(* commit_blob of the temp; another import may have taken it away. *)
ImportCommit(p) ==
    /\ At(p, "rename")
    /\ \/ Deduplicate(p) /\ tmp' = 0 /\ UNCHANGED blob
       \/ blob = 0 /\ tmp # 0 /\ blob' = tmp /\ tmp' = 0 /\ Goto(p, "meta")
       \/ blob = 0 /\ Return(p) /\ UNCHANGED <<blob, tmp>>
    /\ UNCHANGED <<dest, whole, meta, tree, row, view, used, clean, overlap, bounds>>

-----------------------------------------------------------------------------
(* materialize_install *)

Install(p) ==
    /\ \E key \in {"b3", "sha", "git"} : Resolves(key) /\ Start(p, "unlink", key)
    /\ UNCHANGED <<files, row, view, used>>

(* An earlier destination goes first; a blob that is gone, or a destination
   that cannot be removed, is an error. *)
UnlinkDest(p) ==
    /\ At(p, "unlink")
    /\ \/ blob # 0 /\ dest' = 0 /\ Goto(p, "link")
       \/ (blob = 0 \/ dest # 0) /\ UNCHANGED dest /\ Return(p)
    /\ UNCHANGED <<blob, tmp, whole, meta, tree, row, view, used, clean, overlap, bounds>>

(* A hard link shares the inode of the blob. *)
HardLink(p) ==
    /\ blob # 0 /\ dest = 0 /\ dest' = blob
    /\ Goto(p, "record")
    /\ UNCHANGED <<whole, used, overlap>>

(* A reflink or a copy fills a file of its own, in place: at worst one that
   another install of this destination has made in the meantime. *)
FillDest(p) ==
    /\ blob # 0
    /\ LET i == IF dest = 0 THEN used + 1 ELSE dest
           pc == IF blob \in whole /\ blob # i THEN "copy" ELSE "record"
       IN /\ dest' = i /\ whole' = whole \ {i}
          /\ used' = IF dest = 0 THEN used + 1 ELSE used
          /\ proc' = [proc EXCEPT ![p].pc = pc, ![p].inode = i]
    /\ overlap' = (overlap \/ dest # 0)

LinkDest(p) ==
    /\ At(p, "link")
    /\ \/ HardLink(p) \/ FillDest(p)
       \/ blob = 0 /\ Return(p) /\ UNCHANGED <<dest, whole, used, overlap>>
    /\ UNCHANGED <<blob, tmp, meta, tree, row, view, clean, bounds>>

(* Mutant: a copy that fails is recorded like one that does not. *)
CopyDestAnyhow(p) ==
    /\ At(p, "copy")
    /\ whole' \in {whole, whole \cup {proc[p].inode}} /\ Goto(p, "record")
    /\ UNCHANGED <<blob, tmp, dest, meta, tree, row, view, used, clean, overlap, bounds>>

(* A copy that fails, for want of space, leaves what it has written. *)
CopyDest(p) ==
    /\ At(p, "copy")
    /\ \/ whole' = whole \cup {proc[p].inode} /\ Goto(p, "record")
       \/ UNCHANGED whole /\ Return(p)
    /\ UNCHANGED <<blob, tmp, dest, meta, tree, row, view, used, clean, overlap, bounds>>

RecordInstall(p) ==
    /\ At(p, "record")
    /\ view' = TRUE
    /\ Goto(p, "installed")
    /\ UNCHANGED <<files, row, used, clean, overlap, bounds>>

Installed(p) ==
    /\ At(p, "installed")
    /\ Return(p)
    /\ UNCHANGED <<files, row, view, used, clean, overlap, bounds>>

-----------------------------------------------------------------------------
(* evict_cache of this blob, of everything, or of what no install uses.  The
   installs are listed at the start; a file that cannot be deleted ends it. *)

Evict(p) ==
    /\ \E policy \in {"blob", "all", "unreferenced"} :
          /\ policy # "blob" => row.present
          /\ policy = "unreferenced" => ~view
          /\ Start(p, IF view THEN "evict_dest" ELSE "evict_read", "b3")
    /\ UNCHANGED <<files, row, view, used>>

EvictDest(p) ==
    /\ At(p, "evict_dest")
    /\ \/ dest' = 0 /\ Goto(p, "evict_view")
       \/ dest # 0 /\ UNCHANGED dest /\ Return(p)
    /\ UNCHANGED <<blob, tmp, whole, meta, tree, row, view, used, clean, overlap, bounds>>

EvictView(p) ==
    /\ At(p, "evict_view")
    /\ view' = FALSE
    /\ Goto(p, "evict_read")
    /\ UNCHANGED <<files, row, used, clean, overlap, bounds>>

(* The size to report is read from the sidecar. *)
EvictRead(p) ==
    /\ At(p, "evict_read")
    /\ IF meta = "torn" THEN Return(p) ELSE Goto(p, "evict_blob")
    /\ UNCHANGED <<files, row, view, used, clean, overlap, bounds>>

EvictBlob(p) ==
    /\ At(p, "evict_blob")
    /\ \/ blob' = 0 /\ Goto(p, "evict_meta")
       \/ blob # 0 /\ UNCHANGED blob /\ Return(p)
    /\ UNCHANGED <<tmp, dest, whole, meta, tree, row, view, used, clean, overlap, bounds>>

(* Mutant: a sidecar that cannot be removed is passed over. *)
EvictMetaAnyhow(p) ==
    /\ At(p, "evict_meta")
    /\ meta' \in {meta, "none"} /\ Goto(p, "evict_tree")
    /\ UNCHANGED <<blob, tmp, dest, whole, tree, row, view, used, clean, overlap, bounds>>

EvictMeta(p) ==
    /\ At(p, "evict_meta")
    /\ \/ meta' = "none" /\ Goto(p, "evict_tree")
       \/ meta # "none" /\ UNCHANGED meta /\ Return(p)
    /\ UNCHANGED <<blob, tmp, dest, whole, tree, row, view, used, clean, overlap, bounds>>

(* A chunk tree that cannot be removed stays, and nobody is told. *)
EvictTree(p) ==
    /\ At(p, "evict_tree")
    /\ tree' \in {tree, "none"}
    /\ Goto(p, "evict_row")
    /\ UNCHANGED <<blob, tmp, dest, whole, meta, row, view, used, clean, overlap, bounds>>

EvictRow(p) ==
    /\ At(p, "evict_row")
    /\ row' = NoRow
    /\ proc' = [proc EXCEPT ![p].pc = "evicted"]
    /\ UNCHANGED <<files, view, used, clean, overlap, bounds>>

Evicted(p) ==
    /\ At(p, "evicted")
    /\ Return(p)
    /\ UNCHANGED <<files, row, view, used, clean, overlap, bounds>>

-----------------------------------------------------------------------------
(* reconcile: rows without a file go, with what remove_blob finds; then views
   without a destination *)

Reconcile(p) ==
    /\ Start(p, IF row.present THEN "check" ELSE "views", "b3")
    /\ UNCHANGED <<files, row, view, used>>

CheckBlob(p) ==
    /\ At(p, "check")
    /\ Goto(p, IF blob = 0 THEN "remove" ELSE "views")
    /\ UNCHANGED <<files, row, view, used, clean, overlap, bounds>>

(* The first file that remove_blob cannot remove ends it, and is passed over. *)
RemoveLeftovers(p) ==
    /\ At(p, "remove")
    /\ \/ UNCHANGED <<blob, meta, tree>>
       \/ blob' = 0 /\ UNCHANGED <<meta, tree>>
       \/ blob' = 0 /\ meta' = "none" /\ tree' \in {tree, "none"}
    /\ Goto(p, "drop_row")
    /\ UNCHANGED <<tmp, dest, whole, row, view, used, clean, overlap, bounds>>

(* Mutant: the row stays for a download that may come. *)
KeepStaleRow(p) ==
    /\ At(p, "drop_row")
    /\ Goto(p, "views")
    /\ UNCHANGED <<files, row, view, used, clean, overlap, bounds>>

DropStaleRow(p) ==
    /\ At(p, "drop_row")
    /\ row' = NoRow
    /\ Goto(p, "views")
    /\ UNCHANGED <<files, view, used, clean, overlap, bounds>>

CheckView(p) ==
    /\ At(p, "views")
    /\ view' = (view /\ dest # 0)
    /\ proc' = [proc EXCEPT ![p].pc = "reconciled"]
    /\ UNCHANGED <<files, row, used, clean, overlap, bounds>>

Reconciled(p) ==
    /\ At(p, "reconciled")
    /\ Return(p)
    /\ UNCHANGED <<files, row, view, used, clean, overlap, bounds>>

-----------------------------------------------------------------------------
(* Somebody deletes the blob or the installed file. *)
DeleteByHand ==
    /\ deletes < MaxDeletes /\ deletes' = deletes + 1
    /\ \/ blob' = 0 /\ UNCHANGED dest
       \/ dest' = 0 /\ UNCHANGED blob
    /\ clean' = {}
    /\ UNCHANGED <<tmp, whole, meta, tree, row, view, proc, used, overlap, ops, crashes>>

Crash ==
    /\ crashes < MaxCrashes /\ crashes' = crashes + 1
    /\ proc' = [p \in Procs |-> Idle] /\ clean' = {}
    /\ UNCHANGED <<files, row, view, used, overlap, ops, deletes>>

Next ==
    \/ \E p \in Downloads : Download(p) \/ CacheHit(p) \/ Commit(p) \/ SetGitSha1(p)
    \/ \E p \in Downloads \cup Imports : \/ WriteMeta(p) \/ MetaWritten(p) \/ Index(p)
                                       \/ StoreChunkTree(p) \/ TreeWritten(p)
    \/ \E p \in Imports : \/ Import(p) \/ ImportHasBlob(p) \/ OpenTemp(p) \/ Copied(p)
                          \/ ImportCommit(p)
    \/ \E p \in Installs : \/ Install(p) \/ UnlinkDest(p) \/ LinkDest(p) \/ CopyDest(p)
                           \/ RecordInstall(p) \/ Installed(p)
    \/ \E p \in Evicts : \/ Evict(p) \/ EvictDest(p) \/ EvictView(p) \/ EvictRead(p) \/ EvictBlob(p)
                         \/ EvictMeta(p) \/ EvictTree(p) \/ EvictRow(p) \/ Evicted(p)
    \/ \E p \in Reconciles : \/ Reconcile(p) \/ CheckBlob(p) \/ RemoveLeftovers(p)
                             \/ DropStaleRow(p) \/ CheckView(p) \/ Reconciled(p)
    \/ DeleteByHand \/ Crash

Spec == Init /\ [][Next]_vars

-----------------------------------------------------------------------------
(* What is at a content path has that content, through crashes, copies that
   fail and leftovers of an earlier import: commit publishes only by rename, so
   a blob is never half a file, as long as no two imports were in the temp they
   share at the same time, and no two installs at the destination they share.
   Nothing of the kind holds of an installed file, which is filled in place. *)
NeverHalfABlob == ~overlap /\ blob # 0 => blob \in whole

(* An install that ran alone and reports success delivers: the destination is
   there, whole, and recorded.  One that fails or is cut short may leave half
   a file where an earlier install was recorded. *)
InstallDelivers ==
    \A p \in Installs : At(p, "installed") /\ p \in clean /\ ~overlap =>
        view /\ dest # 0 /\ dest \in whole

(* An evict that ran alone and reports success leaves nothing of the blob by
   which it could still be found: no file, no metadata, no row and no install.
   Its chunk tree, whose removal may fail without a word, is not counted. *)
EvictLeavesNothing ==
    \A p \in Evicts : At(p, "evicted") /\ p \in clean =>
        blob = 0 /\ meta = "none" /\ ~row.present /\ ~view

(* A reconcile that ran alone heals the index whatever happened before: files
   deleted by hand, crashes between a file and its row, evicts racing commits. *)
ReconcileHeals ==
    \A p \in Reconciles : At(p, "reconciled") /\ p \in clean =>
        (row.present => blob # 0) /\ (view => dest # 0)

(* A row never forgets the digests its content is found by, except with the
   row itself: a later touch by blake3 or by git oid knows no sha256. *)
DigestsKept ==
    row.present /\ row'.present => (row.sha => row'.sha) /\ (row.git => row'.git)
=============================================================================

------------------------------ MODULE MCStore -------------------------------
(***************************************************************************)
(* The stores as one instance for TLC: the content store with its index    *)
(* (CasIndex), the tracker (Registry) and the manifest store               *)
(* (ManifestStore) of the registry, and the serving side of the Iroh node  *)
(* (UploadSlots).  They share no state, so each behaviour is one of one    *)
(* part, chosen at the start, and the others stay as they are.             *)
(***************************************************************************)
EXTENDS Registry, TLC

CONSTANTS
    Downloads, Imports, Evicts, Installs, Reconciles, MaxOps, MaxDeletes, MaxCrashes,
    Ids, Slugs, MaxStored, MaxEditions, MaxFaults,
    Requests, Conn, Hash, Prefix, Size, MaxStalls,
    q1, q2, c1, h1

(* Two requests of one connection for one blob; the second peer resumes. *)
ConnOf == q1 :> c1 @@ q2 :> c1
HashOf == q1 :> h1 @@ q2 :> h1
PrefixOf == q1 :> 0 @@ q2 :> 1

VARIABLES
    part,
    \* CasIndex
    blob, tmp, dest, whole, meta, tree, row, view, proc, used, clean, overlap, ops, deletes,
    crashes,
    \* ManifestStore
    up, manifests, bySlug, disk, answered, cutShort,
    \* UploadSlots
    slots, upload, active, byHash, finishing, counted, reaping, closing, conn, wire, seeded, off,
    reaps, stalls

casVars == <<blob, tmp, dest, whole, meta, tree, row, view, proc, used, clean, overlap, ops,
             deletes, crashes>>
manifestsVars == <<up, manifests, bySlug, disk, answered, cutShort>>
uploadsVars == <<slots, upload, active, byHash, finishing, counted, reaping, closing, conn, wire,
                 seeded, off, reaps, stalls>>

Cas == INSTANCE CasIndex
Manifests == INSTANCE ManifestStore
Uploads == INSTANCE UploadSlots

ASSUME CasAssumed == Cas!CasIndexAssumption
ASSUME ManifestsAssumed == Manifests!ManifestAssumption
ASSUME UploadsAssumed == Uploads!UploadsAssumption

StoreSymmetry == Permutations(Imports) \cup Permutations(Peers)

Init ==
    /\ part \in {"cas", "registry", "manifests", "uploads"}
    /\ Cas!Init
    /\ RegistryInit
    /\ Manifests!Init
    /\ Uploads!Init

InCas(A) == part = "cas" /\ A /\ UNCHANGED <<part, registryVars, manifestsVars, uploadsVars>>
InRegistry(A) == part = "registry" /\ A /\ UNCHANGED <<part, casVars, manifestsVars, uploadsVars>>
InManifests(A) ==
    part = "manifests" /\ A /\ UNCHANGED <<part, casVars, registryVars, uploadsVars>>
InUploads(A) == part = "uploads" /\ A /\ UNCHANGED <<part, casVars, registryVars, manifestsVars>>

Next ==
    \/ InCas(Cas!Next)
    \/ InRegistry(RegistryNext)
    \/ InManifests(Manifests!Next)
    \/ InUploads(Uploads!Next)

vars == <<part, casVars, registryVars, manifestsVars, uploadsVars>>

Spec == Init /\ [][Next]_vars

-----------------------------------------------------------------------------
(* Nothing reads half a blob, as long as no two imports or installs are in one
   file at once; an install that ran alone and succeeded delivers the whole
   file; an evict that ran alone and succeeded leaves neither blob, metadata,
   row nor install, and a reconcile that ran alone leaves rows and files in
   agreement; the slug index agrees with the manifests, what was answered
   Created survives restarts, and the manifest store does not outgrow its
   bound. *)
StoreInv ==
    /\ Cas!TypeOK
    /\ Cas!NeverHalfABlob
    /\ Cas!InstallDelivers
    /\ Cas!EvictLeavesNothing
    /\ Cas!ReconcileHeals
    /\ Manifests!ManifestTypeOK
    /\ Manifests!SlugsAgree
    /\ Manifests!PublishedIsKept
    /\ Manifests!StoreIsBounded

(* The counts of peers pulling neither leak nor go below what is pulling, the
   uploaded bytes count no prefix a peer already had, and a hard share-off
   severs every peer that was pulling the blob. *)
UploadsInv ==
    /\ Uploads!UploadsTypeOK
    /\ Uploads!CountsExact
    /\ Uploads!UploadedExact
    /\ Uploads!ShareOffSevers

(* A digest the index learnt is not forgotten while the row stays, nor an
   alias of the tracker while its blob has a live provider. *)
NothingForgotten == [][Cas!DigestsKept /\ AliasKept]_vars
=============================================================================

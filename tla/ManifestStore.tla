---------------------------- MODULE ManifestStore ----------------------------
(***************************************************************************)
(* The manifest store of the registry (crates/registry/src/main.rs): the   *)
(* map of manifests, the ids of every model slug, and one JSON file per    *)
(* manifest, written before the maps change.  A request holds the store's  *)
(* mutex from its first look to its last change, so requests do not        *)
(* interleave; but the file is written in place, and a full disk or a      *)
(* crash leaves it cut short.                                              *)
(*                                                                         *)
(* A manifest is the slug of its model's name and an edition that tells    *)
(* one publication of an id from the next.                                 *)
(***************************************************************************)
EXTENDS Naturals, Sequences, FiniteSets, SequencesExt

CONSTANTS
    Ids, Slugs,
    MaxStored,      \* MAX_STORED_MANIFESTS
    MaxEditions,    \* bound: publications of one id
    MaxFaults       \* bound: writes cut short and crashes

ManifestAssumption ==
    /\ IsFiniteSet(Ids)
    /\ MaxStored \in Nat /\ MaxEditions \in Nat /\ MaxFaults \in Nat

VARIABLES
    up,
    manifests,  \* Store.manifests
    bySlug,     \* Store.by_slug
    disk,       \* the files
    answered,   \* history: the edition last answered Created, unless cut short since
    cutShort    \* bound

storeVars == <<up, manifests, bySlug, disk, answered, cutShort>>

None == [slug |-> "none", edition |-> 0]
Torn == [slug |-> "torn", edition |-> 0]
Manifest == [slug : Slugs, edition : 1 .. MaxEditions]

ManifestTypeOK ==
    /\ up \in BOOLEAN
    /\ manifests \in [Ids -> Manifest \cup {None}]
    /\ \A s \in Slugs : bySlug[s] \in Seq(Ids)
    /\ disk \in [Ids -> Manifest \cup {None, Torn}]
    /\ answered \in [Ids -> Manifest \cup {None}]
    /\ cutShort \in 0 .. MaxFaults

Init ==
    /\ up = TRUE
    /\ manifests = [i \in Ids |-> None]
    /\ bySlug = [s \in Slugs |-> <<>>]
    /\ disk = manifests /\ answered = manifests
    /\ cutShort = 0

Stored(m) == {i \in Ids : m[i] # None}
Fault == cutShort < MaxFaults /\ cutShort' = cutShort + 1

-----------------------------------------------------------------------------
(* Mutant: one too many. *)
HasRoomForOneMore(i) == manifests[i] # None \/ Cardinality(Stored(manifests)) <= MaxStored

(* Store::insert: only a new id can find the store full. *)
HasRoom(i) == manifests[i] # None \/ Cardinality(Stored(manifests)) < MaxStored

(* Mutant: an id that is published again is listed again. *)
ListedAgain(i, m) == [bySlug EXCEPT ![m.slug] = Append(@, i)]

Listed(i, m) ==
    [bySlug EXCEPT ![m.slug] = IF i \in ToSet(@) THEN @ ELSE Append(@, i)]

(* Mutant: a known id is not written again. *)
WrittenOnce(i, m) == disk' = IF manifests[i] # None THEN disk ELSE [disk EXCEPT ![i] = m]

Written(i, m) == disk' = [disk EXCEPT ![i] = m]

(* publish, of a manifest that is valid and signed; any other is turned away
   before the store is looked at. *)
Publish(i, m) ==
    /\ up /\ HasRoom(i)
    /\ m.edition = manifests[i].edition + 1
    /\ Written(i, m)
    /\ bySlug' = Listed(i, m)
    /\ manifests' = [manifests EXCEPT ![i] = m]
    /\ answered' = [answered EXCEPT ![i] = m]
    /\ UNCHANGED <<up, cutShort>>

(* The write fails half way: an error is answered, the maps stay as they are. *)
PublishFails(i) ==
    /\ up /\ HasRoom(i) /\ Fault
    /\ disk' = [disk EXCEPT ![i] = Torn]
    /\ answered' = [answered EXCEPT ![i] = None]
    /\ UNCHANGED <<up, manifests, bySlug>>

(* The process dies: between requests, in the write, or right after it. *)
Crash ==
    /\ up /\ Fault
    /\ up' = FALSE
    /\ \/ UNCHANGED <<disk, answered>>
       \/ \E i \in Ids : /\ HasRoom(i)
                         /\ disk' = [disk EXCEPT ![i] = Torn]
                         /\ answered' = [answered EXCEPT ![i] = None]
       \/ \E i \in Ids, m \in Manifest :
            /\ HasRoom(i) /\ m.edition = manifests[i].edition + 1
            /\ disk' = [disk EXCEPT ![i] = m]
            /\ answered' = [answered EXCEPT ![i] = None]
    /\ manifests' = [i \in Ids |-> None]
    /\ bySlug' = [s \in Slugs |-> <<>>]

OfSlug(m, s) == {i \in Stored(m) : m[i].slug = s}

(* Store::load: a file that does not parse is passed over; the ids of a slug
   are listed in the order in which the directory is read. *)
Load ==
    /\ ~up /\ up' = TRUE
    /\ manifests' = [i \in Ids |-> IF disk[i] = Torn THEN None ELSE disk[i]]
    /\ bySlug' \in [Slugs -> SetToAllKPermutations(Ids)]
    /\ \A s \in Slugs : bySlug'[s] \in SetToSeqs(OfSlug(manifests', s))
    /\ UNCHANGED <<disk, answered, cutShort>>

(* model_latest, get_manifest: what the registry answers with. *)
ModelLatest(s) == IF bySlug[s] = <<>> THEN None ELSE manifests[Last(bySlug[s])]

-----------------------------------------------------------------------------
Next ==
    \/ \E i \in Ids, m \in Manifest : Publish(i, m)
    \/ \E i \in Ids : PublishFails(i)
    \/ Crash \/ Load

StoreSpec == Init /\ [][Next]_storeVars

-----------------------------------------------------------------------------
(* The slugs and the manifests agree, through every re-publication, rename
   and restart: an id is listed under the slug of its manifest, no slug lists
   an id twice, and the latest of a slug that lists anything is a manifest
   the registry has. *)
SlugsAgree ==
    up => /\ \A i \in Stored(manifests) : i \in ToSet(bySlug[manifests[i].slug])
          /\ \A s \in Slugs : IsInjective(bySlug[s])
          /\ \A s \in Slugs : bySlug[s] # <<>> => ModelLatest(s) # None

(* What was answered Created is served after every restart, the last edition
   of it, unless a later write of the same id was cut short. *)
PublishedIsKept ==
    \A i \in Ids : up /\ answered[i] # None => manifests[i] = answered[i]

(* The store never holds more than it may, a restart included. *)
StoreIsBounded == Cardinality(Stored(manifests)) <= MaxStored
=============================================================================

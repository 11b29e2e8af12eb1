------------------------------ MODULE MCPages -------------------------------
(***************************************************************************)
(* The pages of the desktop app and the share commands of Studio as one    *)
(* instance for TLC: the search results (Browse), the settings             *)
(* (AppSettings), the rows of models and of the Library (LibraryRows), the *)
(* fold of progress reports (ProgressFold), the import and share-link      *)
(* composer (Composer), the cards of Studio for a bundle and for a model   *)
(* that is started twice (StudioCards) and the seeder of Studio            *)
(* (StudioShare).  Each behaviour is one of one part, chosen at the start, *)
(* and the others stay as they are.                                        *)
(***************************************************************************)
EXTENDS Naturals, TLC

CONSTANTS
    Rows, MaxPages, Trackers, Home, MaxEdits, MaxFaults,
    Titles, Files, Artifacts, Weights, Linked, kit, quant, linkedOne, shard1, shard2, config, MaxOps,
    Sources, Segmented, Size, EmitEvery, MaxTries, MaxAttempts,
    Picked, id1, id2, r1, r2, MaxEvents, Blobs, Gated, Procs, MaxNodes, MaxCmds

(* A bundle of two shards and a sidecar, a quant of the same shards, and a
   model known from a share link only. *)
ArtifactsOf ==
    kit :> <<shard1, shard2, config>> @@ quant :> <<shard2, shard1>> @@ linkedOne :> <<shard1>>
WeightsOf == kit :> {shard1, shard2} @@ quant :> {shard2, shard1} @@ linkedOne :> {shard1}

(* The links of Studio: a model of one file and a bundle. *)
Bundles == {<<id1>>, <<id1, id2>>}

VARIABLES
    part,
    \* Browse
    results, searching, loadingMore, next, failed, home, pages,
    \* AppSettings
    up, opened, mem, disk, torn, eng, applied, seeder, pullingOn, dialog, decided, unwritten, edits,
    faults,
    \* LibraryRows
    file, index, manifests, seen, listed, card, run, msgs, popup, asked, untold, ops,
    \* ProgressFold
    temp, rowSource, owner, att, tried, st, folded, counted, net, runNet, attempts,
    \* Composer
    composer, importing, link, tasks, scan, manifest, blobs, published, clip, confirms,
    \* StudioCards
    cards, stale, cbs, used, cmds, reg, events, mount, acts,
    \* StudioCards
    cards2, stale2, cbs2, used2, cmds2, reg2, events2, mount2, acts2,
    \* StudioShare
    cached, on, gatedOn, held, lock, nodes, started, seeded, late, procs, done

browseVars == <<results, searching, loadingMore, next, failed, home, pages>>
settingsVars == <<up, opened, mem, disk, torn, eng, applied, seeder, pullingOn, dialog, decided,
                  unwritten, edits, faults>>
libraryVars == <<file, index, manifests, seen, listed, card, run, msgs, popup, asked, untold,
                 ops>>
foldVars == <<temp, rowSource, owner, att, tried, st, folded, counted, net, runNet, attempts>>
composerVars == <<composer, importing, link, tasks, scan, manifest, blobs, published, clip,
                  confirms>>
bundleVars == <<cards, stale, cbs, used, cmds, reg, events, mount, acts>>
twiceVars == <<cards2, stale2, cbs2, used2, cmds2, reg2, events2, mount2, acts2>>
shareVars == <<cached, on, gatedOn, held, lock, nodes, started, seeded, late, procs, done>>

Search == INSTANCE Browse
Settings == INSTANCE AppSettings WITH pulling <- pullingOn
Library == INSTANCE LibraryRows
Folded == INSTANCE ProgressFold WITH card <- folded
Compose == INSTANCE Composer WITH Files <- Picked, edits <- confirms
Bundle == INSTANCE StudioCards WITH Ids <- {id1, id2}, Refs <- {r1}, Links <- Bundles, Hub <- {id1},
    MaxOps <- 2, ops <- acts
Twice == INSTANCE StudioCards WITH Ids <- {id1}, Refs <- {r1, r2}, Links <- {}, Hub <- {id1},
    MaxOps <- 1, cards <- cards2, stale <- stale2, cbs <- cbs2, used <- used2, cmds <- cmds2,
    reg <- reg2, events <- events2, mount <- mount2, ops <- acts2
Studio == INSTANCE StudioShare WITH share <- held

ASSUME PagesAssumed ==
    Settings!SettingsAssumption /\ Library!LibraryAssumption /\ Folded!FoldAssumption
    /\ Studio!ShareAssumption

Init ==
    /\ part \in {"browse", "settings", "library", "fold", "composer", "bundle", "twice", "share"}
    /\ Search!Init
    /\ Settings!Init
    /\ Library!Init
    /\ part # "library" => file = {}
    /\ Folded!Init
    /\ Compose!Init
    /\ Bundle!Init
    /\ Twice!Init
    /\ Studio!Init
    /\ part # "share" => cached = {} /\ ~gatedOn

InBrowse(A) ==
    part = "browse" /\ A /\ UNCHANGED <<part, settingsVars, libraryVars, foldVars, composerVars, bundleVars, twiceVars, shareVars>>
InSettings(A) ==
    part = "settings" /\ A /\ UNCHANGED <<part, browseVars, libraryVars, foldVars, composerVars, bundleVars, twiceVars, shareVars>>
InLibrary(A) ==
    part = "library" /\ A /\ UNCHANGED <<part, browseVars, settingsVars, foldVars, composerVars, bundleVars, twiceVars, shareVars>>
InFold(A) ==
    part = "fold" /\ A /\ UNCHANGED <<part, browseVars, settingsVars, libraryVars, composerVars, bundleVars, twiceVars, shareVars>>
InComposer(A) ==
    part = "composer" /\ A /\ UNCHANGED <<part, browseVars, settingsVars, libraryVars, foldVars, bundleVars, twiceVars, shareVars>>
InBundle(A) ==
    part = "bundle" /\ A /\ UNCHANGED <<part, browseVars, settingsVars, libraryVars, foldVars, composerVars, twiceVars, shareVars>>
InTwice(A) ==
    part = "twice" /\ A /\ UNCHANGED <<part, browseVars, settingsVars, libraryVars, foldVars, composerVars, bundleVars, shareVars>>
InShare(A) ==
    part = "share" /\ A /\ UNCHANGED <<part, browseVars, settingsVars, libraryVars, foldVars, composerVars, bundleVars, twiceVars>>

Next ==
    \/ InBrowse(Search!Next)
    \/ InSettings(Settings!Next)
    \/ InLibrary(Library!Next)
    \/ InFold(Folded!Next)
    \/ InComposer(Compose!Next)
    \/ InBundle(Bundle!Next)
    \/ InTwice(Twice!Next)
    \/ InShare(Studio!Next)

vars == <<part, browseVars, settingsVars, libraryVars, foldVars, composerVars, bundleVars, twiceVars, shareVars>>

Spec == Init /\ [][Next]_vars

-----------------------------------------------------------------------------
(* The search page lists no repository twice and waits only for a page under
   way; a model row offers what is missing on disk, and agrees with the store
   once nothing is under way. *)
RowsInv ==
    /\ Search!BrowseTypeOK
    /\ Search!WaitsForPages
    /\ Search!NoRowTwice
    /\ Library!LibraryTypeOK
    /\ Library!MissingIsOffered
    /\ Library!RowsAreCurrent

(* The seeder runs exactly when the switch says so, a live option is in force,
   a changed tracker, mirror or proxy is too or the banner asks for a restart,
   and a stop of sharing survives one, unless its write failed or the file was
   torn since. *)
SettingsInv ==
    /\ Settings!AppTypeOK
    /\ Settings!ServedIffWanted
    /\ Settings!SettingsTakeEffect
    /\ Settings!StopIsKept

(* The bytes shown as downloaded came over the network, the receipt gives no
   source more bytes than it sent in this run, and a change of the source is
   explained on the card; over retries, fallbacks to one stream and failovers. *)
ReceiptInv ==
    /\ Folded!FoldTypeOK
    /\ Folded!ThroughputHonest
    /\ Folded!ReceiptHonest
    /\ Folded!SwitchesExplained

(* A share link names the content it was made for, and the count of imports is
   that of the imports under way. *)
LinkInv ==
    /\ Compose!ComposerTypeOK
    /\ Compose!LinkNamesItsContent
    /\ Compose!ImportingIsExact

(* A card of Studio shown as moving is, for a bundle and for a model started
   twice; Studio never runs two seeders, and what its seeder serves is
   shared. *)
StudioInv ==
    /\ Bundle!CardsTypeOK
    /\ Bundle!MovingIsMoving
    /\ Twice!CardsTypeOK
    /\ Twice!MovingIsMoving
    /\ Studio!ShareTypeOK
    /\ Studio!OneSeeder
    /\ Studio!ServedIsShared
=============================================================================

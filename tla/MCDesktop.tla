----------------------------- MODULE MCDesktop ------------------------------
(***************************************************************************)
(* The views that wait for tasks as one instance for TLC: the model page   *)
(* (ModelPage), Explore (Explore), the speed limits and their schedule     *)
(* (SpeedLimits), the transfer cards of Studio (StudioCards) and the       *)
(* updater (Updater).  Each behaviour is one of one part, chosen at the    *)
(* start, and the others stay as they are.                                 *)
(***************************************************************************)
EXTENDS Naturals, TLC

CONSTANTS
    Repos, Ggufs, MaxTasks, MaxChanges,
    content, all, one, MaxLooks,
    Caps, MaxEdits,
    id1, id2, r1, MaxOps, MaxEvents,
    MaxVersion, SignKeys, Baked, RegTrust, Flavors, MaxFaults

(* A query that matches the one content of the catalog, and one that does not. *)
Contents == {content}
Queries == {all, one}
MatchesOf == all :> Contents @@ one :> {}

(* A model of one file and a bundle. *)
Bundles == {<<id1>>, <<id1, id2>>}

VARIABLES
    part,
    \* ModelPage
    detail, loading, convFor, convLoading, conv, readme, counts, sampled, tasks, seeders, changes,
    \* Explore
    tab, query, rows, shown, fetch, fetched, lib, shared, withdraws, listed, others, pending,
    coming, looks,
    \* SpeedLimits
    front, inRuntime, settings, schedule, rate, ticker, window, edits,
    \* StudioCards
    cards, stale, cbs, used, cmds, reg, events, mount, ops,
    \* Updater
    file, served, flavor, running, available, dismissed, check, task, staged, bundle, backup,
    torn, late, faults

pageVars == <<detail, loading, convFor, convLoading, conv, readme, counts, sampled, tasks,
              seeders, changes>>
exploreVars == <<tab, query, rows, shown, fetch, fetched, lib, shared, withdraws, listed, others,
                 pending, coming, looks>>
speedVars == <<front, inRuntime, settings, schedule, rate, ticker, window, edits>>
bundleVars == <<cards, stale, cbs, used, cmds, reg, events, mount, ops>>
updateVars == <<file, served, flavor, running, available, dismissed, check, task, staged, bundle,
                backup, torn, late, faults>>

Page == INSTANCE ModelPage WITH seeded <- seeders
Catalog == INSTANCE Explore WITH Matches <- MatchesOf, MaxOps <- MaxLooks, cards <- coming,
    ops <- looks
Speed == INSTANCE SpeedLimits
Bundle == INSTANCE StudioCards WITH Ids <- {id1, id2}, Refs <- {r1}, Links <- Bundles, Hub <- {id1}
Update == INSTANCE Updater WITH Keys <- SignKeys

ASSUME DesktopAssumed == Catalog!ExploreAssumption /\ Update!UpdaterAssumption

Init ==
    /\ part \in {"page", "explore", "speed", "bundle", "update"}
    /\ Page!Init
    /\ Catalog!Init
    /\ part # "explore" => lib = {}
    /\ Speed!Init
    /\ part # "speed" => front = "desktop" /\ settings = CHOOSE x \in Speed!Schedules : TRUE
    /\ Bundle!Init
    /\ Update!Init
    /\ part # "update" => flavor = "mac" /\ running = 1

InPage(A) ==
    part = "page" /\ A /\ UNCHANGED <<part, exploreVars, speedVars, bundleVars, updateVars>>
InExplore(A) ==
    part = "explore" /\ A /\ UNCHANGED <<part, pageVars, speedVars, bundleVars, updateVars>>
InSpeed(A) ==
    part = "speed" /\ A /\ UNCHANGED <<part, pageVars, exploreVars, bundleVars, updateVars>>
InBundle(A) ==
    part = "bundle" /\ A /\ UNCHANGED <<part, pageVars, exploreVars, speedVars, updateVars>>
InUpdate(A) ==
    part = "update" /\ A /\ UNCHANGED <<part, pageVars, exploreVars, speedVars, bundleVars>>

Next ==
    \/ InPage(Page!Next)
    \/ InExplore(Catalog!Next)
    \/ InSpeed(Speed!Next)
    \/ InBundle(Bundle!Next)
    \/ InUpdate(Update!Next)

vars == <<part, pageVars, exploreVars, speedVars, bundleVars, updateVars>>

(* Each part's own fairness, in the behaviours that are its own. *)
Fairness ==
    /\ \A r \in Repos : WF_vars(InPage(Page!DetailArrives(r) \/ Page!DetailFails(r)))
    /\ \A r \in Repos : WF_vars(InPage(\E ok \in BOOLEAN : Page!ConversionsArrive(r, ok)))
    /\ \A r \in Repos : WF_vars(InPage(\E st \in Page!CardStates : Page!ReadmeArrives(r, st)))
    /\ \A r \in Repos : WF_vars(InPage(Page!TrackerAnswers(r)))
    /\ \A r \in Repos : \A seen \in Page!Counts : WF_vars(InPage(Page!PeersArrive(r, seen)))
    /\ WF_vars(InPage(Page!Resample))
    /\ WF_vars(InPage(Page!Elapse))
    /\ WF_vars(InExplore(Catalog!TrackerAnswers))
    /\ WF_vars(InExplore(Catalog!CatalogArrives))
    /\ WF_vars(InExplore(Catalog!Frame))
    /\ WF_vars(InExplore(Catalog!Elapse))
    /\ \A x \in Contents : WF_vars(InExplore(\E got \in BOOLEAN : Catalog!WithdrawEnds(x, got)))
    /\ \A x \in Contents : WF_vars(InExplore(Catalog!Expire(x)))
    /\ WF_vars(InSpeed(Speed!Tick))
    /\ \A r \in {r1, "resume"}, k \in Bundle!Keys :
        WF_vars(InBundle(\E x \in cmds : x.ref = r /\ x.id = k /\ Bundle!Command(x)))
    /\ WF_vars(InBundle(Bundle!Handle))
    /\ WF_vars(InBundle(Bundle!Mount))
    /\ WF_vars(InUpdate(Update!ApplyTask))
    /\ WF_vars(InUpdate(Update!CheckTask))

Spec == Init /\ [][Next]_vars /\ Fairness

-----------------------------------------------------------------------------
(* A spinner of the model page has a request under way, and the page shows the
   card and conversions of its own model. *)
ViewsInv ==
    /\ Page!ModelPageTypeOK
    /\ Page!WaitsForAnswers
    /\ Page!ShowsItsOwn
    /\ Catalog!ExploreTypeOK
    /\ Speed!SpeedTypeOK
    /\ Bundle!CardsTypeOK

(* What is installed was signed and whole, and at every moment of an update
   the app or its backup can be started. *)
UpdaterInv ==
    /\ Update!UpdaterTypeOK
    /\ Update!InstalledIsGenuine
    /\ Update!AppRecoverable

(* The views catch up: the peer counts follow the tracker, a row for content
   nobody shares goes, the rows answer the query that is typed, a running
   ticker puts the caps of the hour in force, Studio's provisional cards are
   replaced and its cards settle with their runs, and applying an update
   ends. *)
ViewsSettle ==
    /\ Page!CountsFollow
    /\ Catalog!PhantomRowsGo
    /\ Catalog!QueryShown
    /\ Speed!TickerFollows
    /\ Bundle!ProvisionalResolves
    /\ Bundle!CardSettles
    /\ Update!ApplyEnds

(* No step takes the app back to an older version, and the step that switches
   the schedule off restores the normal caps. *)
NothingUndone == [][Update!NeverOlder /\ Speed!DisablingRestores]_vars
=============================================================================

------------------------------- MODULE Browse -------------------------------
(***************************************************************************)
(* The Discover listing of the desktop app (crates/desktop/src/main.rs):   *)
(* searches and continuations run as tasks and come back as Msg::Page in   *)
(* the order in which they finish, and a page does not say which search it *)
(* belongs to.                                                             *)
(***************************************************************************)
EXTENDS Naturals, Sequences, SequencesExt, FiniteSets, Bags

CONSTANTS
    Rows,       \* the repositories a page can list
    MaxPages    \* bound: pages in flight

VARIABLES
    results,    \* App.results
    searching, loadingMore,
    next,       \* App.browse_next is set
    failed,     \* App.last_search_error is set
    home,       \* App.home_attempted
    pages       \* requests in flight: a bag of {"search", "more"}

browseVars == <<results, searching, loadingMore, next, failed, home, pages>>

Pages == UNION {[1 .. n -> Rows] : n \in 0 .. Cardinality(Rows)}
Listings == {s \in Pages : IsInjective(s)}
InFlight(k) == BagIn(k, pages)

BrowseTypeOK ==
    /\ results \in Seq(Rows)
    /\ {searching, loadingMore, next, failed, home} \subseteq BOOLEAN
    /\ IsABag(pages) /\ BagToSet(pages) \subseteq {"search", "more"}

Init ==
    /\ results = <<>> /\ searching = FALSE /\ loadingMore = FALSE /\ next = FALSE
    /\ failed = FALSE /\ home = FALSE
    /\ pages = EmptyBag

-----------------------------------------------------------------------------
(* start_search: also with the Enter key while another search is under way. *)
StartSearch ==
    /\ BagCardinality(pages) < MaxPages
    /\ searching' = TRUE /\ loadingMore' = FALSE /\ next' = FALSE /\ failed' = FALSE
    /\ pages' = pages (+) SetToBag({"search"})
    /\ UNCHANGED results

Search == StartSearch /\ UNCHANGED home

(* The first frame on an empty Discover tab loads the trending feed, once. *)
HomeFeed ==
    /\ ~home /\ results = <<>> /\ ~searching
    /\ home' = TRUE
    /\ StartSearch

(* The button is drawn under the rows. *)
LoadMoreShown == next /\ ~searching /\ results # <<>>

(* start_load_more *)
LoadMore ==
    /\ LoadMoreShown /\ ~loadingMore
    /\ BagCardinality(pages) < MaxPages
    /\ loadingMore' = TRUE
    /\ pages' = pages (+) SetToBag({"more"})
    /\ UNCHANGED <<results, searching, next, failed, home>>

(* Mutant: a continuation is appended as it is. *)
OverlapKept(rows, page, fresh) == fresh = page

(* Cursor pages can overlap: of a continuation the rows already listed are
   left out, and the others keep their order. *)
OverlapDropped(rows, page, fresh) ==
    /\ Range(fresh) = Range(page) \ Range(rows)
    /\ \A m, n \in DOMAIN fresh :
        m < n => \E x, y \in DOMAIN page : x < y /\ page[x] = fresh[m] /\ page[y] = fresh[n]

(* Msg::Page *)
PageArrives(k, page, more) ==
    /\ InFlight(k)
    /\ pages' = pages (-) SetToBag({k})
    /\ searching' = FALSE /\ loadingMore' = FALSE /\ failed' = FALSE /\ next' = more
    /\ IF k = "more"
       THEN \E fresh \in Listings : OverlapDropped(results, page, fresh) /\ results' = results \o fresh
       ELSE results' = page
    /\ UNCHANGED home

(* Mutant: an error returns before the flags are cleared. *)
PageFailsEarly(k) ==
    /\ InFlight(k)
    /\ pages' = pages (-) SetToBag({k})
    /\ failed' = (failed \/ k = "search")
    /\ UNCHANGED <<results, searching, loadingMore, next, home>>

PageFails(k) ==
    /\ InFlight(k)
    /\ pages' = pages (-) SetToBag({k})
    /\ searching' = FALSE /\ loadingMore' = FALSE
    /\ failed' = (failed \/ k = "search")
    /\ UNCHANGED <<results, next, home>>

Arrive == \E k \in {"search", "more"} :
    PageFails(k) \/ \E page \in Listings, more \in BOOLEAN : PageArrives(k, page, more)

Next == Search \/ HomeFeed \/ LoadMore \/ Arrive

(* A request ends, with a page or with an error. *)
Spec == Init /\ [][Next]_browseVars /\ WF_browseVars(Arrive)

-----------------------------------------------------------------------------
(* The app never waits for nothing: while it shows a search or a continuation
   as under way one is, however requests overtook each other. *)
WaitsForPages ==
    /\ searching => InFlight("search")
    /\ loadingMore => InFlight("more")

(* No repository is listed twice, whichever continuation of whichever search
   lands on the list. *)
NoRowTwice == IsInjective(results)
=============================================================================

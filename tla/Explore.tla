------------------------------ MODULE Explore -------------------------------
(***************************************************************************)
(* The Explore tab of the desktop app (crates/desktop/src/main.rs): the    *)
(* catalog of the tracker, fetched by a task, against shares that are      *)
(* turned off, files that are deleted and providers that come and go while *)
(* the answer is on its way; and the download of a row or of a share link  *)
(* behind its confirmation.                                                *)
(***************************************************************************)
EXTENDS Naturals, FiniteSets

CONSTANTS
    Contents,
    Queries,    \* texts of the filter
    Matches,    \* the contents a query matches, by query
    MaxOps      \* bound: what the user and other devices do

None == "none"

ExploreAssumption ==
    /\ Matches \in [Queries -> SUBSET Contents] /\ None \notin Queries
    /\ \E q \in Queries : Matches[q] = Contents

VARIABLES
    tab,        \* the Explore tab is open
    query,      \* App.network_query
    rows,       \* App.network
    shown,      \* history: the query App.network answers
    fetch,      \* the fetch under way, or NoFetch: App.network_loading is fetch # NoFetch
    fetched,    \* App.last_network_fetch: "none", "fresh" or "stale"
    lib,        \* blobs on disk
    shared,     \* those this device shares
    withdraws,  \* withdraw tasks under way
    listed,     \* contents the tracker lists for this device
    others,     \* contents the tracker lists for other devices
    pending,    \* App.pending_download
    cards,      \* transfers with a card
    ops

exploreVars == <<tab, query, rows, shown, fetch, fetched, lib, shared, withdraws, listed, others,
                 pending, cards, ops>>

Rows == [c : Contents, mine : BOOLEAN, peers : 0 .. 1, inLib : BOOLEAN]
NoFetch == [q |-> None, st |-> "idle", rows |-> {}]

ExploreTypeOK ==
    /\ tab \in BOOLEAN /\ query \in Queries /\ shown \in Queries \cup {None}
    /\ rows \subseteq Rows /\ \A a, b \in rows : a.c = b.c => a = b
    /\ fetch.st \in {"idle", "asked", "answered", "failed"} /\ fetch.rows \subseteq Rows
    /\ fetch.q = None <=> fetch.st = "idle"
    /\ fetched \in {"none", "fresh", "stale"}
    /\ shared \subseteq lib /\ lib \subseteq Contents
    /\ listed \subseteq Contents /\ others \subseteq Contents /\ withdraws \subseteq Contents
    /\ pending \in Contents \cup {None} /\ cards \subseteq Contents

Init ==
    /\ tab = FALSE /\ query = CHOOSE q \in Queries : Matches[q] = Contents
    /\ rows = {} /\ shown = None /\ fetch = NoFetch /\ fetched = "none"
    /\ lib \in SUBSET Contents /\ shared = lib /\ listed = shared
    /\ withdraws = {} /\ others = {}
    /\ pending = None /\ cards = {} /\ ops = 0

Op == ops < MaxOps /\ ops' = ops + 1

-----------------------------------------------------------------------------
(* Fetching *)

OpenTab ==
    /\ ~tab /\ tab' = TRUE
    /\ UNCHANGED <<query, rows, shown, fetch, fetched, lib, shared, withdraws, listed, others,
                   pending, cards, ops>>

CloseTab ==
    /\ tab /\ Op /\ tab' = FALSE
    /\ UNCHANGED <<query, rows, shown, fetch, fetched, lib, shared, withdraws, listed, others,
                   pending, cards>>

(* Typing changes the text; what was fetched stays. *)
EditQuery(q) ==
    /\ tab /\ q # query /\ Op
    /\ query' = q
    /\ UNCHANGED <<tab, rows, shown, fetch, fetched, lib, shared, withdraws, listed, others,
                   pending, cards>>

(* start_network_fetch: nothing while a fetch is under way. *)
StartFetch ==
    IF fetch = NoFetch
    THEN /\ fetch' = [q |-> query, st |-> "asked", rows |-> {}]
         /\ fetched' = "fresh"
    ELSE UNCHANGED <<fetch, fetched>>

(* Refresh, Search, Enter or Try again. *)
RefreshNetwork ==
    /\ tab /\ Op
    /\ StartFetch
    /\ UNCHANGED <<tab, query, rows, shown, lib, shared, withdraws, listed, others, pending, cards>>

(* Mutant: the timer looks at the time of the last fetch only while rows are
   missing. *)
FrameWhenEmpty ==
    /\ tab /\ fetched # "fresh" /\ fetch = NoFetch /\ rows = {}
    /\ StartFetch
    /\ UNCHANGED <<tab, query, rows, shown, lib, shared, withdraws, listed, others, pending, cards,
                   ops>>

(* A frame of the open tab fetches again 20 s after the last fetch began, or
   at once when something reset that time. *)
Frame ==
    /\ tab /\ fetched # "fresh" /\ fetch = NoFetch
    /\ StartFetch
    /\ UNCHANGED <<tab, query, rows, shown, lib, shared, withdraws, listed, others, pending, cards,
                   ops>>

Elapse ==
    /\ fetched = "fresh" /\ fetched' = "stale"
    /\ UNCHANGED <<tab, query, rows, shown, fetch, lib, shared, withdraws, listed, others, pending,
                   cards, ops>>

(* network_catalog: what the tracker lists, without this device's own stale
   announces of content that nobody else has and that it no longer holds. *)
Catalog(q) ==
    { [c |-> c, mine |-> c \in listed, peers |-> IF c \in others THEN 1 ELSE 0, inLib |-> c \in lib]
        : c \in {x \in Matches[q] \cap (listed \cup others) : x \in others \/ x \in lib} }

TrackerAnswers ==
    /\ fetch.st = "asked"
    /\ fetch' = [fetch EXCEPT !.st = "answered", !.rows = Catalog(fetch.q)]
    /\ UNCHANGED <<tab, query, rows, shown, fetched, lib, shared, withdraws, listed, others,
                   pending, cards, ops>>

TrackerFails ==
    /\ fetch.st = "asked" /\ Op
    /\ fetch' = [fetch EXCEPT !.st = "failed"]
    /\ UNCHANGED <<tab, query, rows, shown, fetched, lib, shared, withdraws, listed, others,
                   pending, cards>>

(* Mutant: an error leaves the tab waiting. *)
CatalogKeepsWaiting ==
    /\ fetch.st = "answered"
    /\ fetch' = NoFetch /\ rows' = fetch.rows /\ shown' = fetch.q
    /\ UNCHANGED <<tab, query, fetched, lib, shared, withdraws, listed, others, pending, cards,
                   ops>>

(* Msg::Catalog: an error keeps the rows there were. *)
CatalogArrives ==
    /\ fetch.st \in {"answered", "failed"}
    /\ fetch' = NoFetch
    /\ IF fetch.st = "answered" THEN rows' = fetch.rows /\ shown' = fetch.q
                                ELSE UNCHANGED <<rows, shown>>
    /\ UNCHANGED <<tab, query, fetched, lib, shared, withdraws, listed, others, pending, cards,
                   ops>>

-----------------------------------------------------------------------------
(* What the rows are about *)

(* forget_network_share, for each of cs *)
Forget(cs) ==
    /\ rows' = {r \in {IF r.c \in cs THEN [r EXCEPT !.mine = FALSE] ELSE r : r \in rows} :
                  r.c \in cs => r.peers > 0}
    /\ fetched' = "none"

(* apply_share_off: the row goes at once, and the tracker is told. *)
ShareOff(c) ==
    /\ c \in shared /\ Op
    /\ shared' = shared \ {c}
    /\ Forget({c})
    /\ withdraws' = withdraws \cup {c}
    /\ UNCHANGED <<tab, query, shown, fetch, lib, listed, others, pending, cards>>

(* Mutant: a deleted file stays shared. *)
DeleteOnly(c) ==
    /\ c \in lib /\ Op
    /\ lib' = lib \ {c}
    /\ UNCHANGED <<tab, query, rows, shown, fetch, fetched, shared, withdraws, listed, others,
                   pending, cards>>

(* ConfirmDelete, Evict *)
Delete(c) ==
    /\ c \in lib /\ Op
    /\ lib' = lib \ {c} /\ shared' = shared \ {c}
    /\ Forget({c})
    /\ withdraws' = withdraws \cup {c}
    /\ UNCHANGED <<tab, query, shown, fetch, listed, others, pending, cards>>

(* clear_network_after_stop: worldwide sharing stops for every content. *)
StopWorldwide ==
    /\ shared # {} /\ Op
    /\ shared' = {}
    /\ rows' = {r \in {[r EXCEPT !.mine = FALSE] : r \in rows} : r.peers > 0}
    /\ fetched' = "none"
    /\ withdraws' = withdraws \cup shared
    /\ UNCHANGED <<tab, query, shown, fetch, lib, listed, others, pending, cards>>

(* The withdraw ends, whether the tracker got it or not: Msg::PeerStateChanged,
   refresh_after_peer_state_change. *)
WithdrawEnds(c, got) ==
    /\ c \in withdraws
    /\ withdraws' = withdraws \ {c}
    /\ listed' = IF got THEN listed \ {c} ELSE listed
    /\ IF tab /\ fetch = NoFetch THEN StartFetch ELSE fetched' = "none" /\ UNCHANGED fetch
    /\ UNCHANGED <<tab, query, rows, shown, lib, shared, others, pending, cards, ops>>

(* A record that is no longer announced runs out. *)
Expire(c) ==
    /\ c \in listed \ shared
    /\ listed' = listed \ {c}
    /\ UNCHANGED <<tab, query, rows, shown, fetch, fetched, lib, shared, withdraws, others,
                   pending, cards, ops>>

OthersChange(c) ==
    /\ Op
    /\ others' = IF c \in others THEN others \ {c} ELSE others \cup {c}
    /\ UNCHANGED <<tab, query, rows, shown, fetch, fetched, lib, shared, withdraws, listed,
                   pending, cards>>

-----------------------------------------------------------------------------
(* Downloading a row or a link *)

(* download_share_target: one card per content. *)
DownloadShareTarget(c) == cards' = cards \cup {c}

(* A row offers its download, except one's own and what its fetch saw in the
   library. *)
RowOffers(c) == tab /\ \E r \in rows : r.c = c /\ ~r.mine /\ ~r.inLib

(* Download on a row, or a pasted link; request_download sends the user to the library
   for content that is there, and asks first unless the setting says not to. *)
RequestDownload(c, skip, link) ==
    /\ link \/ RowOffers(c)
    /\ Op
    /\ IF c \in lib THEN tab' = FALSE /\ UNCHANGED <<pending, cards>>
       ELSE IF skip THEN tab' = FALSE /\ DownloadShareTarget(c) /\ UNCHANGED pending
       ELSE pending' = c /\ UNCHANGED <<tab, cards>>
    /\ UNCHANGED <<query, rows, shown, fetch, fetched, lib, shared, withdraws, listed, others>>

ConfirmDownload ==
    /\ pending # None
    /\ DownloadShareTarget(pending) /\ pending' = None /\ tab' = FALSE
    /\ UNCHANGED <<query, rows, shown, fetch, fetched, lib, shared, withdraws, listed, others, ops>>

CancelDownload ==
    /\ pending # None /\ pending' = None
    /\ UNCHANGED <<tab, query, rows, shown, fetch, fetched, lib, shared, withdraws, listed, others,
                   cards, ops>>

(* The transfer ends; content that was got is shared and announced. *)
DownloadEnds(c, got) ==
    /\ c \in cards
    /\ cards' = cards \ {c}
    /\ lib' = IF got THEN lib \cup {c} ELSE lib
    /\ shared' = IF got THEN shared \cup {c} ELSE shared
    /\ listed' = IF got THEN listed \cup {c} ELSE listed
    /\ UNCHANGED <<tab, query, rows, shown, fetch, fetched, withdraws, others, pending, ops>>

-----------------------------------------------------------------------------
Next ==
    \/ OpenTab \/ CloseTab \/ RefreshNetwork \/ Frame \/ Elapse
    \/ TrackerAnswers \/ TrackerFails \/ CatalogArrives
    \/ StopWorldwide \/ ConfirmDownload \/ CancelDownload
    \/ \E q \in Queries : EditQuery(q)
    \/ \E c \in Contents :
        \/ ShareOff(c) \/ Delete(c) \/ Expire(c) \/ OthersChange(c)
        \/ \E b \in BOOLEAN : WithdrawEnds(c, b) \/ DownloadEnds(c, b)
        \/ \E skip, link \in BOOLEAN : RequestDownload(c, skip, link)

(* Requests and tasks end, frames are drawn, time passes and records that
   nobody renews run out. *)
Fairness ==
    /\ WF_exploreVars(TrackerAnswers) /\ WF_exploreVars(CatalogArrives)
    /\ WF_exploreVars(Frame) /\ WF_exploreVars(Elapse)
    /\ \A c \in Contents :
        /\ WF_exploreVars(\E got \in BOOLEAN : WithdrawEnds(c, got))
        /\ WF_exploreVars(Expire(c))

Spec == Init /\ [][Next]_exploreVars /\ Fairness

-----------------------------------------------------------------------------
(* Content this device stopped sharing, and nobody else has, does not stay in
   the open tab as its own: also when a catalog asked for before the stop
   arrives after it, and when the withdraw is lost. *)
PhantomRowsGo ==
    \A c \in Contents :
        (tab /\ c \notin shared /\ c \notin others /\ \E r \in rows : r.c = c)
        ~> (~tab \/ c \in shared \/ c \in others \/ ~\E r \in rows : r.c = c)

(* The rows come to answer the text in the filter, also when a search was
   asked for while a fetch was under way (and then dropped). *)
QueryShown ==
    \A q \in Queries : (tab /\ query = q) ~> (~tab \/ query # q \/ shown = q)

=============================================================================

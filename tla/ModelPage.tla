----------------------------- MODULE ModelPage -----------------------------
(***************************************************************************)
(* The open model of the Discover tab (crates/desktop/src/main.rs and      *)
(* readme_ui.rs): its detail, the conversions of a repository without      *)
(* GGUF files, its model card and the peer counts of its files.  Each is   *)
(* fetched by a task; the answers come in any order, also after the user   *)
(* went back or opened another model.                                      *)
(***************************************************************************)
EXTENDS Naturals, Bags

CONSTANTS
    Repos,       \* repositories; each has one file
    Ggufs,       \* those with GGUF quants
    MaxTasks,    \* bound: requests in flight
    MaxChanges   \* bound: changes of who seeds the files

None == "none"

VARIABLES
    detail,      \* App.detail: a repository or None
    loading,     \* App.loading_detail
    convFor,     \* App.conversions_for
    convLoading, \* App.conversions_loading
    conv,        \* the repository whose conversions App.conversions holds, or None
    readme,      \* App.readme: a state, its key and whose card it holds
    counts,      \* App.worldwide_peers, worldwide_bt per repository
    sampled,     \* App.last_peer_check: "never", "fresh" or "stale"
    tasks,       \* requests in flight: a bag
    seeded,      \* the repositories whose file somebody seeds
    changes

pageVars == <<detail, loading, convFor, convLoading, conv, readme, counts, sampled, tasks, seeded,
              changes>>

Idle == [st |-> "idle", key |-> None, doc |-> None]
Counts == {"unknown", "none", "some"}
CardStates == {"ready", "missing", "failed"}
Truth(r) == IF r \in seeded THEN "some" ELSE "none"
Tasks == [k : {"detail", "conv", "readme"}, id : Repos]
         \cup [k : {"ask"}, id : Repos] \cup [k : {"peers"}, id : Repos, seen : Counts]
InFlight(t) == BagIn(t, tasks)
Spawn(ts) == tasks' = tasks (+) SetToBag(ts)
Finish(t, ts) == tasks' = (tasks (-) SetToBag({t})) (+) SetToBag(ts)
Room == BagCardinality(tasks) < MaxTasks

ModelPageTypeOK ==
    /\ detail \in Repos \cup {None} /\ convFor \in Repos \cup {None}
    /\ conv \in Repos \cup {None} /\ loading \in BOOLEAN /\ convLoading \in BOOLEAN
    /\ readme \in [st : {"idle", "loading", "ready", "missing", "failed"},
                   key : Repos \cup {None}, doc : Repos \cup {None}]
    /\ counts \in [Repos -> Counts] /\ sampled \in {"never", "fresh", "stale"}
    /\ IsABag(tasks) /\ BagToSet(tasks) \subseteq Tasks
    /\ seeded \subseteq Repos

Init ==
    /\ detail = None /\ loading = FALSE
    /\ convFor = None /\ convLoading = FALSE /\ conv = None
    /\ readme = Idle
    /\ counts = [r \in Repos |-> "unknown"] /\ sampled = "never"
    /\ tasks = EmptyBag
    /\ seeded = {} /\ changes = 0

-----------------------------------------------------------------------------
(* start_open_model: from a row of the listing or of the conversions. *)
OpenModel(r) ==
    /\ Room
    /\ loading' = TRUE /\ detail' = None
    /\ readme' = Idle
    /\ counts' = [x \in Repos |-> "unknown"]
    /\ Spawn({[k |-> "detail", id |-> r]})
    /\ UNCHANGED <<convFor, convLoading, conv, sampled, seeded, changes>>

(* Action::Back *)
Back ==
    /\ detail # None \/ loading
    /\ detail' = None /\ loading' = FALSE /\ readme' = Idle
    /\ UNCHANGED <<convFor, convLoading, conv, counts, sampled, tasks, seeded, changes>>

(* The Escape key: the model card stays as it is. *)
Escape ==
    /\ detail # None \/ loading
    /\ detail' = None /\ loading' = FALSE
    /\ UNCHANGED <<convFor, convLoading, conv, readme, counts, sampled, tasks, seeded, changes>>

(* A search, or Cmd-F: the detail goes, a detail under way does not. *)
Leave ==
    /\ detail # None
    /\ detail' = None
    /\ UNCHANGED <<loading, convFor, convLoading, conv, readme, counts, sampled, tasks, seeded,
                   changes>>

(* start_conversions: not again for the repository it is already for. *)
Conversions(r) ==
    /\ convFor' = r
    /\ conv' = (IF convFor = r THEN conv ELSE None)
    /\ convLoading' = (IF convFor = r THEN convLoading ELSE TRUE)

(* Mutant: the spinner of the conversions left behind stays. *)
NoConversionsYet == convFor' = None /\ conv' = None /\ UNCHANGED convLoading

NoConversions == convFor' = None /\ conv' = None /\ convLoading' = FALSE

(* Msg::Detail: the peer check of the model starts, and the conversions when
   it has no GGUF files. *)
DetailArrives(r) ==
    LET t == [k |-> "detail", id |-> r] IN
    /\ InFlight(t)
    /\ loading' = FALSE /\ detail' = r /\ sampled' = "fresh"
    /\ IF r \in Ggufs THEN NoConversions ELSE Conversions(r)
    /\ Finish(t, {[k |-> "ask", id |-> r]}
                 \cup {c \in {[k |-> "conv", id |-> r]} : r \notin Ggufs /\ convFor # r})
    /\ UNCHANGED <<readme, counts, seeded, changes>>

DetailFails(r) ==
    /\ InFlight([k |-> "detail", id |-> r])
    /\ loading' = FALSE
    /\ Finish([k |-> "detail", id |-> r], {})
    /\ UNCHANGED <<detail, convFor, convLoading, conv, readme, counts, sampled, seeded, changes>>

(* Msg::Conversions: dropped when the page has moved on. *)
ConversionsArrive(r, ok) ==
    LET t == [k |-> "conv", id |-> r] IN
    /\ InFlight(t)
    /\ Finish(t, {})
    /\ IF convFor = r
       THEN convLoading' = FALSE /\ conv' = (IF ok THEN r ELSE None)
       ELSE UNCHANGED <<convLoading, conv>>
    /\ UNCHANGED <<detail, loading, convFor, readme, counts, sampled, seeded, changes>>

(* The first time the card of a model is unfolded, or Try again: start_readme,
   not again for a card that is settled or under way. *)
FetchReadme ==
    /\ detail # None /\ Room
    /\ ~(readme.key = detail /\ readme.st \in {"loading", "ready", "missing"})
    /\ readme' = [st |-> "loading", key |-> detail, doc |-> None]
    /\ Spawn({[k |-> "readme", id |-> detail]})
    /\ UNCHANGED <<detail, loading, convFor, convLoading, conv, counts, sampled, seeded, changes>>

(* Mutant: a card lands on whatever the page is waiting for. *)
ReadmeLands(r, st) ==
    LET t == [k |-> "readme", id |-> r] IN
    /\ InFlight(t)
    /\ Finish(t, {})
    /\ readme' = IF readme.st = "loading"
                 THEN [readme EXCEPT !.st = st, !.doc = IF st = "ready" THEN r ELSE None]
                 ELSE readme
    /\ UNCHANGED <<detail, loading, convFor, convLoading, conv, counts, sampled, seeded, changes>>

(* Msg::Readme: only for the key the page is waiting for. *)
ReadmeArrives(r, st) ==
    LET t == [k |-> "readme", id |-> r] IN
    /\ InFlight(t)
    /\ Finish(t, {})
    /\ readme' = IF readme.st = "loading" /\ readme.key = r
                 THEN [st |-> st, key |-> r, doc |-> IF st = "ready" THEN r ELSE None]
                 ELSE readme
    /\ UNCHANGED <<detail, loading, convFor, convLoading, conv, counts, sampled, seeded, changes>>

-----------------------------------------------------------------------------
(* Peer counts *)

(* The tracker answers: what it knew at that moment.  A lookup that fails, which
   answers that there is nobody, is left out. *)
TrackerAnswers(r) ==
    /\ InFlight([k |-> "ask", id |-> r])
    /\ Finish([k |-> "ask", id |-> r], {[k |-> "peers", id |-> r, seen |-> Truth(r)]})
    /\ UNCHANGED <<detail, loading, convFor, convLoading, conv, readme, counts, sampled, seeded,
                   changes>>

(* Mutant: the first sample of a file is kept. *)
PeersKept(r, seen) ==
    LET t == [k |-> "peers", id |-> r, seen |-> seen] IN
    /\ InFlight(t)
    /\ Finish(t, {})
    /\ counts' = [counts EXCEPT ![r] = IF @ = "unknown" THEN seen ELSE @]
    /\ UNCHANGED <<detail, loading, convFor, convLoading, conv, readme, sampled, seeded, changes>>

(* Msg::WorldwidePeers is merged into the counts. *)
PeersArrive(r, seen) ==
    LET t == [k |-> "peers", id |-> r, seen |-> seen] IN
    /\ InFlight(t)
    /\ Finish(t, {})
    /\ counts' = [counts EXCEPT ![r] = seen]
    /\ UNCHANGED <<detail, loading, convFor, convLoading, conv, readme, sampled, seeded, changes>>

(* A frame with a detail open re-samples it after 15 seconds. *)
Resample ==
    /\ detail # None /\ sampled # "fresh"
    /\ sampled' = "fresh"
    /\ Spawn({[k |-> "ask", id |-> detail]})
    /\ UNCHANGED <<detail, loading, convFor, convLoading, conv, readme, counts, seeded, changes>>

(* refresh_visible_peer_counts, after a withdraw or by Refresh. *)
RefreshCounts ==
    /\ detail # None /\ Room
    /\ counts' = [x \in Repos |-> "unknown"] /\ sampled' = "fresh"
    /\ Spawn({[k |-> "ask", id |-> detail]})
    /\ UNCHANGED <<detail, loading, convFor, convLoading, conv, readme, seeded, changes>>

(* The 15 seconds pass; the requests of a sample take less. *)
Elapse ==
    /\ sampled = "fresh"
    /\ \A r \in Repos, s \in Counts :
        ~InFlight([k |-> "ask", id |-> r]) /\ ~InFlight([k |-> "peers", id |-> r, seen |-> s])
    /\ sampled' = "stale"
    /\ UNCHANGED <<detail, loading, convFor, convLoading, conv, readme, counts, tasks, seeded,
                   changes>>

SeedersChange(r) ==
    /\ changes < MaxChanges /\ changes' = changes + 1
    /\ seeded' = IF r \in seeded THEN seeded \ {r} ELSE seeded \cup {r}
    /\ UNCHANGED <<detail, loading, convFor, convLoading, conv, readme, counts, sampled, tasks>>

-----------------------------------------------------------------------------
Answer(r) ==
    \/ DetailArrives(r) \/ DetailFails(r)
    \/ \E ok \in BOOLEAN : ConversionsArrive(r, ok)
    \/ \E st \in CardStates : ReadmeArrives(r, st)
    \/ TrackerAnswers(r) \/ \E seen \in Counts : PeersArrive(r, seen)

Next ==
    \/ \E r \in Repos : OpenModel(r) \/ Answer(r) \/ SeedersChange(r)
    \/ Back \/ Escape \/ Leave \/ FetchReadme
    \/ Resample \/ RefreshCounts \/ Elapse

(* Every request ends, frames are drawn and time passes. *)
Fairness ==
    /\ \A r \in Repos :
        /\ WF_pageVars(DetailArrives(r) \/ DetailFails(r))
        /\ WF_pageVars(\E ok \in BOOLEAN : ConversionsArrive(r, ok))
        /\ WF_pageVars(\E st \in CardStates : ReadmeArrives(r, st))
        /\ WF_pageVars(TrackerAnswers(r))
        /\ \A seen \in Counts : WF_pageVars(PeersArrive(r, seen))
    /\ WF_pageVars(Resample) /\ WF_pageVars(Elapse)

Spec == Init /\ [][Next]_pageVars /\ Fairness

-----------------------------------------------------------------------------
(* Whatever the page shows as under way has a request in flight that will end
   it: no order of opening, leaving and answers leaves a spinner for good. *)
WaitsForAnswers ==
    /\ loading => \E r \in Repos : InFlight([k |-> "detail", id |-> r])
    /\ convLoading => InFlight([k |-> "conv", id |-> convFor])
    /\ readme.st = "loading" => InFlight([k |-> "readme", id |-> readme.key])

(* The card and the conversions on the page are the open model's own, also
   when another model's answers come late ("so a stale response can't attach
   to another model"). *)
ShowsItsOwn ==
    detail # None =>
        /\ readme.st = "ready" /\ readme.key = detail => readme.doc = detail
        /\ convFor = detail /\ conv # None => conv = detail

(* A seeder that went away, or came, does not linger in the counts of the page
   that stays open, as long as the tracker can be reached. *)
CountsFollow ==
    \A r \in Repos : (detail = r /\ counts[r] # Truth(r)) ~> (detail # r \/ counts[r] = Truth(r))
=============================================================================

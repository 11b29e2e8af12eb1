----------------------------- MODULE MCNetwork ------------------------------
(***************************************************************************)
(* The network side of the engine as one instance for TLC: a striped fetch *)
(* of a blob from several providers (StripedFetch), and what this device   *)
(* shares, announces and withdraws at the tracker (Sharing).  They share   *)
(* no state, so each behaviour is one of one part, chosen at the start,    *)
(* and the other stays as it is.                                           *)
(***************************************************************************)
EXTENDS StripedFetch, Sharing, TLC

CONSTANTS
    b1, s1

(* The sha256 of the one blob. *)
ShaOf == b1 :> s1

VARIABLE part

Init ==
    /\ part \in {"striped", "sharing"}
    /\ StripedInit
    /\ SharingInit
    /\ part # "sharing" => class[b1] = "open" /\ confirmed = {} /\ ~shareGated

InStriped(A) == part = "striped" /\ A /\ UNCHANGED <<part, sharingVars>>
InSharing(A) == part = "sharing" /\ A /\ UNCHANGED <<part, stripedVars>>

Next ==
    \/ InStriped(StripedNext)
    \/ InSharing(SharingNext)

vars == <<part, stripedVars, sharingVars>>

(* Each part's own fairness, in the behaviours that are its own. *)
Fairness ==
    /\ \A f \in Fetches : WF_vars(InStriped(LaneStep(f) \/ DriverStep(f)))
    /\ WF_vars(InSharing(LoopStep))
    /\ WF_vars(InSharing(TaskStep))
    /\ WF_vars(InSharing(Elapses))
    /\ WF_vars(InSharing(\E req \in net : Deliver(req)))

Spec == Init /\ [][Next]_vars /\ Fairness

-----------------------------------------------------------------------------
(* Every striped fetch comes to an end; what is no longer shared leaves the
   catalog for good, and what stays shared is listed again and again. *)
NetworkSettles ==
    /\ FetchEnds
    /\ StoppedIsDelisted
    /\ SharedIsListed
=============================================================================

--------------------------- MODULE RemediationGate ---------------------------
(***************************************************************************)
(* What the self-healing service promises of the actions it takes: it acts *)
(* only on a request it has been asked to carry out live, and only after a *)
(* permission for that very request.  How the permission is obtained, and  *)
(* what is answered when it is not, is left open.                          *)
(***************************************************************************)
CONSTANTS
    Threads,        \* clients served at the same time
    Requests,       \* requests a client can make
    Permitted,      \* requests that may be carried out
    NoRequest

VARIABLES
    gate,           \* gate[t]: how far the request of client t has come
    asked,          \* asked[t]: the request of client t
    acted           \* the requests that have been carried out

vars == <<gate, asked, acted>>

GateState == {"free", "undecided", "permitted", "acted"}

TypeOK ==
    /\ gate \in [Threads -> GateState]
    /\ asked \in [Threads -> Requests \cup {NoRequest}]
    /\ acted \subseteq Requests

Init ==
    /\ gate = [t \in Threads |-> "free"]
    /\ asked = [t \in Threads |-> NoRequest]
    /\ acted = {}

Ask(t, r) ==
    /\ gate[t] = "free"
    /\ gate' = [gate EXCEPT ![t] = "undecided"]
    /\ asked' = [asked EXCEPT ![t] = r]
    /\ UNCHANGED acted

Permit(t) ==
    /\ gate[t] = "undecided"
    /\ asked[t] \in Permitted
    /\ gate' = [gate EXCEPT ![t] = "permitted"]
    /\ UNCHANGED <<asked, acted>>

Act(t) ==
    /\ gate[t] = "permitted"
    /\ ~asked[t].dry_run
    /\ gate' = [gate EXCEPT ![t] = "acted"]
    /\ acted' = acted \cup {asked[t]}
    /\ UNCHANGED asked

(* Any number of requests are dropped, answered or lost.                   *)
Release ==
    /\ \E T \in SUBSET Threads :
        /\ gate' = [t \in Threads |-> IF t \in T THEN "free" ELSE gate[t]]
        /\ asked' = [t \in Threads |-> IF t \in T THEN NoRequest ELSE asked[t]]
    /\ UNCHANGED acted

Next ==
    \/ \E t \in Threads :
        \/ \E r \in Requests : Ask(t, r)
        \/ Permit(t)
        \/ Act(t)
    \/ Release

Spec == Init /\ [][Next]_vars

(* Nothing but permitted live requests is ever carried out.                *)
ActedOnlyWhenPermitted ==
    acted \subseteq {r \in Permitted : ~r.dry_run}
=============================================================================

------------------------------ MODULE ClusterRail ------------------------------
(***************************************************************************)
(* What the rail of the Kubernetes explorer promises: it shows the counts  *)
(* of the selected cluster or none, it is blank from the moment another    *)
(* cluster is selected, and what it shows was published for that cluster   *)
(* (k8s-explorer-summary.js, "so the rail doesn't show last cluster's      *)
(* counts while we re-fetch").  How the counts come is left open: at any   *)
(* time, in any order, or not at all.                                      *)
(***************************************************************************)
EXTENDS Integers

CONSTANTS Clusters, None

VARIABLES
    cluster,        \* the one selected, or None
    published,      \* the number of summaries of each cluster
    rail            \* the summary that the rail shows, or None

vars == <<cluster, published, rail>>

Init == cluster = None /\ rail = None /\ published \in [Clusters -> Nat]

\* The page is loaded, or left.
Open == cluster' = None /\ rail' = None /\ published' \in [Clusters -> Nat]

Select(c) ==
    /\ cluster' = c
    /\ rail' = IF c = cluster THEN rail ELSE None
    /\ UNCHANGED published

Publish(c) ==
    /\ published' = [published EXCEPT ![c] = @ + 1]
    /\ UNCHANGED <<cluster, rail>>

Draw ==
    /\ cluster # None
    /\ \E v \in 1 .. published[cluster] : rail' = [cluster |-> cluster, answer |-> v]
    /\ UNCHANGED <<cluster, published>>

Blank == rail' = None /\ UNCHANGED <<cluster, published>>

Next ==
    \/ Open \/ Draw \/ Blank
    \/ \E c \in Clusters \cup {None} : Select(c)
    \/ \E c \in Clusters : Publish(c)

Spec == Init /\ [][Next]_vars
=============================================================================

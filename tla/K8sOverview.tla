------------------------------ MODULE K8sOverview ------------------------------
(***************************************************************************)
(* The Kubernetes section of the desktop page: a menu of clusters, tabs of *)
(* categories and, in the first of them, an overview of the cluster that   *)
(* is selected.  The overview is fetched when it is shown; as long as the  *)
(* cluster has no record a placeholder is shown instead and the fetch is   *)
(* made again after a timer of 5 seconds, which showing an overview stops. *)
(* No answer tells whether its cluster is still the one selected.          *)
(*                                                                         *)
(* kubernetes/kubernetes-init.js and kubernetes/kubernetes-overview.js.    *)
(* The tables of the other categories, which are a library's, are left out;*)
(* how the section is loaded is in SectionLoader.                          *)
(***************************************************************************)
EXTENDS Integers

CONSTANTS
    Clusters,
    None,           \* no cluster
    MaxInputs,      \* bound: what the user does in a behavior
    MaxMisses       \* bound: the answers without a record

ASSUME OverviewAssumption ==
    /\ None \notin Clusters
    /\ MaxInputs \in Nat /\ MaxMisses \in Nat

VARIABLES
    open,               \* the document shows the section
    listings,           \* the lists of clusters asked and not answered
    options,            \* the clusters in the menu
    listeners,          \* of a click on the tabs of the document
    selectedCluster,
    area, areas,        \* the overview's container, 0 when another category is
                        \* shown; how many containers there were
    shown,              \* what the container shows
    requests, asked,    \* for a cluster's record; how many there were
    pendingRetry,       \* the timer that showing an overview stops; 0 for none
    ticking,            \* the timers that run; each has the miss that set it
    crossed,            \* history: something older could still draw in the
                        \* container when the user asked for a cluster
    inputs, misses      \* counters

timers == <<pendingRetry, ticking>>
menu == <<open, listings, options, listeners>>
vars == <<menu, selectedCluster, area, areas, shown, requests, asked, timers,
          crossed, inputs, misses>>

Blank == [kind |-> "blank", cluster |-> None]

\* The section is loaded.
Init ==
    /\ open = TRUE /\ listings = 1 /\ options = {} /\ listeners = 0
    /\ selectedCluster = None
    /\ area = 0 /\ areas = 0 /\ shown = Blank
    /\ requests = {} /\ asked = 0
    /\ pendingRetry = 0 /\ ticking = {}
    /\ crossed = FALSE
    /\ inputs = 0 /\ misses = 0

(***************************************************************************)
(* Showing the overview                                                    *)
(***************************************************************************)
\* Mutation: the timer is forgotten and not stopped.
StoppedNot(running) == running

Stopped(running) == {t \in running : t.id # pendingRetry}

\* The requests of k calls in a row, each for a container of its own.
NewRequests(cluster, k, container) ==
    {[n |-> asked + i, cluster |-> cluster, area |-> container + i - k] : i \in 1 .. k}

\* k calls of show, the last one for the container given.
Show(cluster, k, container, content, running) ==
    /\ pendingRetry' = 0
    /\ ticking' = Stopped(running)
    /\ IF cluster = None
       THEN /\ shown' = [kind |-> "placeholder", cluster |-> None]
            /\ UNCHANGED <<requests, asked>>
       ELSE /\ requests' = requests \cup NewRequests(cluster, k, container)
            /\ asked' = asked + k
            /\ shown' = content

\* What could still draw another cluster: a request, or a timer that is not the
\* pending one.
Stray(cluster) ==
    \/ \E r \in requests : r.cluster # cluster
    \/ \E t \in ticking : t.id # pendingRetry /\ t.cluster # cluster

\* The user's k calls, in new containers.
renderOverview(cluster, k) ==
    /\ area' = areas + k /\ areas' = areas + k
    /\ Show(cluster, k, areas + k, Blank, ticking)
    /\ crossed' = Stray(cluster)

(***************************************************************************)
(* The section                                                             *)
(***************************************************************************)
Input == inputs < MaxInputs /\ inputs' = inputs + 1

\* loadSection has replaced the content: by the section, or by another.
Replaced == /\ options' = {} /\ listeners' = 0 /\ area' = 0 /\ shown' = Blank
            /\ UNCHANGED <<selectedCluster, areas, requests, asked, timers, crossed,
                           misses>>

initializeKubernetes ==
    /\ Input /\ Replaced
    /\ open' = TRUE /\ listings' = listings + 1

Leave ==
    /\ Input /\ Replaced
    /\ open /\ open' = FALSE
    /\ UNCHANGED listings

\* Mutation: the containers are not counted.
fetchClusterListUncounted(list, first) ==
    /\ listings > 0 /\ listings' = listings - 1
    /\ first \in list \cup {None} /\ (first = None <=> list = {})
    /\ selectedCluster' = IF first = None THEN selectedCluster ELSE first
    /\ options' = list /\ listeners' = listeners + 1
    /\ area' = areas + 1 /\ UNCHANGED areas
    /\ Show(selectedCluster', 1, areas + 1, Blank, ticking)
    /\ crossed' = Stray(selectedCluster')
    /\ UNCHANGED <<open, inputs, misses>>

\* The list has come, or an error in its place, to whatever document is there.
\* Without clusters the one selected before stays selected.
fetchClusterList(list, first) ==
    /\ listings > 0 /\ listings' = listings - 1
    /\ first \in list \cup {None} /\ (first = None <=> list = {})
    /\ selectedCluster' = IF first = None THEN selectedCluster ELSE first
    /\ IF open
       THEN /\ options' = list /\ listeners' = listeners + 1
            /\ renderOverview(selectedCluster', 1)
       ELSE UNCHANGED <<options, listeners, area, areas, shown, requests, asked, timers,
                        crossed>>
    /\ UNCHANGED <<open, inputs, misses>>

\* onSelectedClusterChanged.
SelectCluster(cluster) ==
    /\ Input
    /\ cluster \in options /\ cluster # selectedCluster
    /\ selectedCluster' = cluster
    /\ IF area = 0 THEN UNCHANGED <<shown, requests, asked, timers, crossed>>
       ELSE Show(cluster, 1, area, shown, ticking) /\ crossed' = Stray(cluster)
    /\ UNCHANGED <<menu, area, areas, misses>>

\* A click on the first tab, once for each listener.
SelectOverview ==
    /\ Input
    /\ listeners > 0
    /\ renderOverview(selectedCluster, listeners)
    /\ UNCHANGED <<menu, selectedCluster, misses>>

\* A click on another tab, or on a card of the overview.
SelectCategory ==
    /\ Input
    /\ listeners > 0
    /\ area' = 0 /\ shown' = Blank
    /\ UNCHANGED <<menu, selectedCluster, areas, requests, asked, timers, crossed, misses>>

(***************************************************************************)
(* Answers and timers                                                      *)
(***************************************************************************)
\* A container that was replaced is drawn in unseen.
Draw(r, kind) ==
    /\ r \in requests
    /\ requests' = requests \ {r}
    /\ shown' = IF r.area = area THEN [kind |-> kind, cluster |-> r.cluster] ELSE shown
    /\ UNCHANGED <<menu, selectedCluster, area, areas, asked, crossed, inputs>>

renderGrid(r) == Draw(r, "grid") /\ UNCHANGED <<timers, misses>>

\* Mutation: no timer is set.
renderPlaceholderOnly(r) ==
    /\ misses < MaxMisses /\ misses' = misses + 1
    /\ Draw(r, "placeholder")
    /\ UNCHANGED timers

\* No record, or an error.
renderPlaceholder(r) ==
    /\ misses < MaxMisses /\ misses' = misses + 1
    /\ Draw(r, "placeholder")
    /\ ticking' = ticking \cup {[id |-> r.n, cluster |-> r.cluster, miss |-> misses]}
    /\ pendingRetry' = r.n

\* Timers run in the order they were set.  Without its container show returns
\* at once.
Retry ==
    /\ \E t \in ticking :
           /\ \A u \in ticking : t.miss <= u.miss
           /\ IF area = 0
              THEN /\ ticking' = ticking \ {t}
                   /\ UNCHANGED <<pendingRetry, shown, requests, asked>>
              ELSE Show(t.cluster, 1, area, shown, ticking \ {t})
    /\ UNCHANGED <<menu, selectedCluster, area, areas, crossed, inputs, misses>>

Answer(r) == renderGrid(r) \/ renderPlaceholder(r)
Listed == \E list \in SUBSET Clusters, first \in Clusters \cup {None} :
              fetchClusterList(list, first)

Next ==
    \/ initializeKubernetes \/ Leave \/ Listed
    \/ \E cluster \in Clusters : SelectCluster(cluster)
    \/ SelectOverview \/ SelectCategory
    \/ \E r \in requests : Answer(r)
    \/ Retry

\* A request ends, and the browser runs its timers.
Fairness == WF_vars(Listed) /\ WF_vars(\E r \in requests : Answer(r)) /\ WF_vars(Retry)

Spec == Init /\ [][Next]_vars /\ Fairness
-----------------------------------------------------------------------------
(***************************************************************************)
(* Properties                                                              *)
(***************************************************************************)
Request == [n : 1 .. asked, cluster : Clusters, area : 1 .. areas]
Timer == [id : 1 .. asked, cluster : Clusters, miss : 0 .. misses - 1]
Content == [kind : {"blank", "placeholder", "grid"}, cluster : Clusters \cup {None}]

TypeOK ==
    /\ open \in BOOLEAN /\ listings \in Nat
    /\ options \subseteq Clusters /\ listeners \in Nat
    /\ selectedCluster \in Clusters \cup {None}
    /\ areas \in Nat /\ area \in 0 .. areas
    /\ shown \in Content
    /\ asked \in Nat /\ requests \subseteq Request
    /\ pendingRetry \in 0 .. asked /\ ticking \subseteq Timer
    /\ crossed \in BOOLEAN
    /\ inputs \in Nat /\ misses \in Nat

\* kubernetes-init.js:2, "Cluster dropdown is the global filter for every sub-tab
\* and the Overview": once answered, the overview is of the cluster selected,
\* however often its timer fired, the tabs changed and the section was loaded
\* meanwhile.  The exception is a cluster asked while the answer for another was
\* awaited, or when the timer of another ran that a later one had replaced.
OverviewIsOfSelected ==
    area # 0 /\ requests = {} /\ ~crossed =>
        shown.kind # "blank" /\ shown.cluster = selectedCluster

\* kubernetes-overview.js:8, "retries every 5 s": the overview of the cluster
\* selected is shown in the end, when its record comes after any number of
\* misses, unless the user turns to something else.
OverviewComes ==
    <>[][FALSE]_selectedCluster =>
        []<>\/ shown = [kind |-> "grid", cluster |-> selectedCluster]
            \/ area = 0 \/ selectedCluster = None \/ crossed
=============================================================================

------------------------------ MODULE K8sExplorer ------------------------------
(***************************************************************************)
(* The page of the Kubernetes explorer.  Its context bar says which        *)
(* cluster and namespace are selected; its rail lists the resources with   *)
(* the counts of the cluster's summary, which is asked for at each change  *)
(* of the context and every 30 seconds; its main pane shows an overview    *)
(* with cards of the same summary, or the table of a resource, filtered by *)
(* the context and, when it was reached from a card, by the card.          *)
(*                                                                         *)
(* k8s-explorer/js: k8s-explorer-init.js, -summary.js, -resource-view.js   *)
(* and -overview.js.  The library's parts - the rail, the context bar and  *)
(* the tables - and the service are external.  The numbers of a summary    *)
(* are one version of it.                                                  *)
(***************************************************************************)
EXTENDS Integers, FiniteSets

CONSTANTS
    Clusters, Namespaces,
    Items,              \* the resources that have a table
    clusterScoped,      \* CLUSTER_SCOPED_ITEMS: those without a namespace
    Filters,            \* what the cards narrow a table by
    None,               \* no cluster, namespace, filter, summary or table
    overview, hint,     \* the panes that are no table
    MaxRequests,        \* bound: the requests on their way at a time
    MaxChanges,         \* bound: the summaries of a cluster while the page is there
    MaxFailures         \* bound: the requests that fail

VARIABLES
    context,            \* of the context bar: cluster and namespace
    main,               \* currentMain: overview, hint or a resource
    current,            \* the resource view's: item, where and extra; or NoView
    currentCluster, latestSummary,
    rail,               \* the summary whose counts the rail shows, or None
    cards,              \* the summary the overview was drawn with, or None
    timer,              \* the interval is set
    requests,           \* by slot: free, or for a cluster, with its answer
    version,            \* of each cluster's summary; 0 when it has none
    filter,             \* history: what the pane was last reached with
    reloaded,           \* history: the page was loaded again since, over a filter
    failures            \* counter

bar == <<context, filter, reloaded>>
pane == <<main, current, cards>>
summary == <<currentCluster, latestSummary, rail, timer, requests>>
service == <<version, failures>>

Panes == Items \cup {overview, hint}
Slots == 1 .. MaxRequests
Free == [cluster |-> None, answer |-> None]
Waiting == -1
NoAnswer == -2          \* an error

NoContext == [cluster |-> None, namespace |-> None]
NoView == [item |-> None, where |-> NoContext, extra |-> None]
Contexts == [cluster : Clusters \cup {None}, namespace : Namespaces \cup {None}]

(***************************************************************************)
(* The resource view                                                       *)
(***************************************************************************)
composeWhere(item, ctx) ==
    [ctx EXCEPT !.namespace = IF item \in clusterScoped THEN None ELSE @]

View(item, ctx, extra) ==
    [item |-> item, where |-> composeWhere(item, ctx), extra |-> extra]

\* Mutation: the filter of the card is dropped.
refreshContextPlain(ctx) ==
    current' = IF current = NoView THEN NoView ELSE View(current.item, ctx, None)

\* The filter of the card stays.
refreshContext(ctx) ==
    current' = IF current = NoView THEN NoView
               ELSE View(current.item, ctx, current.extra)

\* A hint leaves the view of the resource shown before.
renderMainPane(p, ctx, extra) ==
    /\ main' = p
    /\ current' = CASE p = overview -> NoView
                    [] p = hint     -> current
                    [] OTHER        -> View(p, ctx, extra)
    /\ cards' = IF p = overview THEN latestSummary ELSE None

(***************************************************************************)
(* The summary                                                             *)
(***************************************************************************)
\* Nothing numbers the requests, so any free slot will do: the first one.
fetchAndApply(cluster) ==
    IF cluster = None THEN UNCHANGED requests
    ELSE \E k \in Slots :
             /\ requests[k] = Free /\ \A j \in 1 .. k - 1 : requests[j] # Free
             /\ requests' = [requests EXCEPT ![k] = [cluster |-> cluster, answer |-> Waiting]]

\* The summary of the cluster before stays the latest until the answer.
setCluster(cluster) ==
    /\ currentCluster' = cluster
    /\ rail' = IF cluster # currentCluster THEN None ELSE rail
    /\ timer' = TRUE
    /\ fetchAndApply(cluster)
    /\ UNCHANGED latestSummary

(***************************************************************************)
(* The user                                                                *)
(***************************************************************************)
\* The page is loaded with the pane that the address names, before the context
\* bar is there.  The address has the filter too, k8s.baseWhereClause, where
\* navigateTo wrote it; of the address only the group and the item are read.
Load(p) ==
    /\ context' = NoContext
    /\ filter' \in {filter, None} /\ reloaded' = (filter' # None)
    /\ main' = p
    /\ current' = IF p \in Items THEN View(p, NoContext, None) ELSE NoView
    /\ cards' = None
    /\ currentCluster' = None /\ latestSummary' = None /\ rail' = None
    /\ timer' = FALSE /\ requests' = [k \in Slots |-> Free]
    /\ failures' = 0

\* The context bar's onChange: a choice in it, or what it finds when it starts.
onChange(ctx) ==
    /\ context' = ctx
    /\ setCluster(ctx.cluster)
    /\ refreshContext(ctx)
    /\ UNCHANGED <<filter, reloaded, main, cards, service>>

\* A click in the rail.
onSelect(p) ==
    /\ renderMainPane(p, context, None)
    /\ filter' = None /\ reloaded' = FALSE
    /\ UNCHANGED <<context, summary, service>>

\* A card of the overview; the filter is layered on the new view.
NavigateToCard(item, extra) ==
    /\ main = overview
    /\ renderMainPane(item, context, extra)
    /\ filter' = extra /\ reloaded' = FALSE
    /\ UNCHANGED <<context, summary, service>>

\* A link of a detail popup carries a namespace, which is written through the
\* context bar; whether that calls onChange is the library's.
NavigateToRelated(item, namespace) ==
    /\ main \in Items
    /\ LET ctx == [context EXCEPT !.namespace = namespace]
       IN  /\ context' = ctx
           /\ renderMainPane(item, ctx, None)
    /\ filter' = None /\ reloaded' = FALSE
    /\ UNCHANGED summary \/ setCluster(context.cluster)
    /\ UNCHANGED service

(***************************************************************************)
(* The interval and the answers                                            *)
(***************************************************************************)
\* Mutation: a timer that fires once.
TickOnce ==
    /\ timer
    /\ rail' = IF currentCluster = None THEN None ELSE rail
    /\ fetchAndApply(currentCluster)
    /\ timer' = FALSE
    /\ UNCHANGED <<bar, pane, currentCluster, latestSummary, service>>

Tick ==
    /\ timer
    /\ rail' = IF currentCluster = None THEN None ELSE rail
    /\ fetchAndApply(currentCluster)
    /\ UNCHANGED <<bar, pane, currentCluster, latestSummary, timer, service>>

\* The service has another summary of the cluster.
Publish(cluster) ==
    /\ version[cluster] < MaxChanges
    /\ version' = [version EXCEPT ![cluster] = @ + 1]
    /\ UNCHANGED <<bar, pane, summary, failures>>

Answered(k, answer) ==
    /\ requests[k] # Free /\ requests[k].answer = Waiting
    /\ requests' = [requests EXCEPT ![k].answer = answer]
    /\ UNCHANGED <<bar, pane, currentCluster, latestSummary, rail, timer, version>>

Answer(k) == Answered(k, version[requests[k].cluster]) /\ UNCHANGED failures

Fail(k) ==
    /\ failures < MaxFailures /\ failures' = failures + 1
    /\ Answered(k, NoAnswer)

\* applySummary or applyEmpty, then notify.
Applied(s) ==
    /\ latestSummary' = s /\ rail' = s
    /\ cards' = IF main = overview THEN s ELSE cards

\* Mutation: an answer is applied whatever cluster is selected by then.
ApplyAny(k) ==
    /\ requests[k] # Free /\ requests[k].answer # Waiting
    /\ requests' = [requests EXCEPT ![k] = Free]
    /\ IF requests[k].answer > 0 THEN Applied(requests[k]) ELSE Applied(None)
    /\ UNCHANGED <<bar, main, current, currentCluster, timer, service>>

\* Mutation: an answer without a summary is not applied.
ApplySome(k) ==
    /\ requests[k] # Free /\ requests[k].answer # Waiting
    /\ requests' = [requests EXCEPT ![k] = Free]
    /\ IF requests[k].cluster # currentCluster THEN UNCHANGED <<latestSummary, rail, cards>>
       ELSE IF requests[k].answer > 0 THEN Applied(requests[k])
       ELSE rail' = None /\ UNCHANGED <<latestSummary, cards>>
    /\ UNCHANGED <<bar, main, current, currentCluster, timer, service>>

\* A late answer, for a cluster that is no longer selected, is dropped.
Apply(k) ==
    /\ requests[k] # Free /\ requests[k].answer # Waiting
    /\ requests' = [requests EXCEPT ![k] = Free]
    /\ IF requests[k].cluster # currentCluster THEN UNCHANGED <<latestSummary, rail, cards>>
       ELSE IF requests[k].answer > 0 THEN Applied(requests[k])
       ELSE Applied(None)
    /\ UNCHANGED <<bar, main, current, currentCluster, timer, service>>

Step ==
    \/ \E ctx \in Contexts : onChange(ctx)
    \/ \E p \in Panes : onSelect(p)
    \/ \E item \in Items, extra \in Filters \cup {None} : NavigateToCard(item, extra)
    \/ \E item \in Items \ clusterScoped, namespace \in Namespaces :
           NavigateToRelated(item, namespace)
    \/ \E cluster \in Clusters : Publish(cluster)
    \/ Tick
    \/ \E k \in Slots : Answer(k) \/ Fail(k) \/ Apply(k)
-----------------------------------------------------------------------------
Summaries == [cluster : Clusters, answer : 1 .. MaxChanges]

TypeOK ==
    /\ context \in Contexts /\ filter \in Filters \cup {None}
    /\ reloaded \in BOOLEAN
    /\ main \in Panes
    /\ current \in {View(item, ctx, extra) : item \in Items, ctx \in Contexts,
                                            extra \in Filters \cup {None}} \cup {NoView}
    /\ currentCluster \in Clusters \cup {None}
    /\ {latestSummary, rail, cards} \subseteq Summaries \cup {None}
    /\ timer \in BOOLEAN
    /\ requests \in [Slots -> [cluster : Clusters,
                               answer : {Waiting, NoAnswer} \cup 0 .. MaxChanges]
                             \cup {Free}]
    /\ version \in [Clusters -> 0 .. MaxChanges]
    /\ failures \in 0 .. MaxFailures
=============================================================================

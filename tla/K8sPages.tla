-------------------------------- MODULE K8sPages --------------------------------
(***************************************************************************)
(* The two pages about Kubernetes: the section of the desktop page and the *)
(* explorer, a page of its own.  The portal switcher takes the user from   *)
(* one to the other by loading it, which drops all that the page left had: *)
(* its requests, its timers and its state; a reload of the explorer does   *)
(* the same.  What the user does, and the summaries of the clusters, are   *)
(* counted anew on each page.                                              *)
(*                                                                         *)
(* The library's portal switcher and router are external.                  *)
(***************************************************************************)
EXTENDS K8sOverview

CONSTANTS
    Namespaces, Items, clusterScoped, Filters, overview, hint,
    MaxRequests, MaxChanges, MaxFailures

ASSUME PagesAssumption ==
    /\ clusterScoped \subseteq Items
    /\ None \notin Namespaces \cup Filters /\ overview # hint
    /\ {None, overview, hint} \cap Items = {}
    /\ MaxRequests \in Nat \ {0} /\ MaxChanges \in Nat \ {0} /\ MaxFailures \in Nat

VARIABLES
    page,               \* "section" or "explorer"
    context, main, current, currentCluster, latestSummary, rail, cards, timer,
    explorerRequests, version, filter, reloaded, failures       \* K8sExplorer's

E == INSTANCE K8sExplorer WITH requests <- explorerRequests

explorer == <<context, main, current, currentCluster, latestSummary, rail, cards, timer,
              explorerRequests, version, filter, reloaded, failures>>

OnExplorer == page = "explorer"
OnSection == page = "section"

\* The first page is the section, just loaded; the explorer's state is nowhere.
PagesInit ==
    /\ Init /\ page = "section"
    /\ context = E!NoContext /\ filter = None /\ reloaded = FALSE
    /\ main = overview /\ current = E!NoView /\ cards = None
    /\ currentCluster = None /\ latestSummary = None /\ rail = None
    /\ timer = FALSE /\ explorerRequests = [k \in E!Slots |-> E!Free]
    /\ version = [c \in Clusters |-> 0] /\ failures = 0

\* The section is not there, on a page just loaded.
NoSection ==
    /\ open' = FALSE /\ listings' = 0 /\ options' = {} /\ listeners' = 0
    /\ selectedCluster' = None
    /\ area' = 0 /\ areas' = 0 /\ shown' = Blank
    /\ requests' = {} /\ asked' = 0
    /\ pendingRetry' = 0 /\ ticking' = {}
    /\ crossed' = FALSE
    /\ inputs' = 0 /\ misses' = 0

NoSummaries == version' = [c \in Clusters |-> 0]

\* The switcher's link names no pane.
OpenExplorer ==
    /\ OnSection
    /\ NoSection
    /\ page' = "explorer"
    /\ E!Load(overview) /\ filter' = None /\ NoSummaries

\* The address names the pane: the page is loaded again with it, or with another
\* that was written there.
ReloadExplorer ==
    /\ OnExplorer
    /\ \E p \in E!Panes : E!Load(p) /\ filter' = IF p = main THEN filter ELSE None
    /\ NoSummaries
    /\ UNCHANGED <<page, vars>>

OpenSection ==
    /\ OnExplorer
    /\ NoSection
    /\ page' = "section"
    /\ E!Load(overview) /\ filter' = None /\ NoSummaries

InSection(step) == OnSection /\ step /\ UNCHANGED <<page, explorer>>
InExplorer(step) == OnExplorer /\ step /\ UNCHANGED <<page, vars>>

PagesNext == \/ OpenExplorer \/ ReloadExplorer \/ OpenSection
             \/ InSection(Next) \/ InExplorer(E!Step)

pages == <<vars, page, explorer>>

\* On its page each is scheduled by the browser: timers fire, requests end and
\* what came is handled.
SectionFairness ==
    /\ WF_vars(InSection(Listed))
    /\ WF_vars(InSection(\E r \in requests : Answer(r)))
    /\ WF_vars(InSection(Retry))

ExplorerFairness ==
    /\ WF_explorer(InExplorer(E!Tick))
    /\ \A k \in E!Slots : WF_explorer(InExplorer(E!Answer(k) \/ E!Fail(k) \/ E!Apply(k)))

PagesSpec == PagesInit /\ [][PagesNext]_pages /\ SectionFairness /\ ExplorerFairness
-----------------------------------------------------------------------------
(***************************************************************************)
(* Properties                                                              *)
(***************************************************************************)
TypesOK == TypeOK /\ page \in {"section", "explorer"} /\ E!TypeOK

\* k8s-explorer-summary.js:100, "so the rail doesn't show last cluster's counts":
\* the rail with its requests, interval and late answers does what ClusterRail
\* promises.
Rail == INSTANCE ClusterRail WITH cluster <- currentCluster, published <- version
RailFollows == Rail!Spec

\* Once the cluster and its summary stay, the rail comes to show that summary and
\* keeps it: whatever answers of other clusters, of older summaries or errors are
\* still on their way, the interval asks again.
HasSummary == OnExplorer /\ currentCluster # None /\ version[currentCluster] > 0
UpToDate == HasSummary /\ rail = [cluster |-> currentCluster, answer |-> version[currentCluster]]

RailSettles ==
    <>[]HasSummary /\ <>[][FALSE]_<<currentCluster, version>> => <>[]UpToDate

\* With a cluster selected and no request on its way, the cards of the overview
\* and the counts of the rail are of one summary, that of the cluster: although a
\* change of the cluster blanks the rail only, and the cards are drawn again from
\* what came last whenever the overview is selected.
CardsAgree ==
    OnExplorer /\ main = overview /\ currentCluster # None
      /\ (\A k \in E!Slots : explorerRequests[k] = E!Free) =>
        cards = rail

\* The table of the main pane asks for the resource of the pane, in the context
\* of the bar, with the filter of the card that led there, until the page is loaded
\* again: whatever changed the context since, and though a view outlives its pane.
TableIsOfContext ==
    OnExplorer /\ main \in Items =>
        current = E!View(main, context, IF reloaded THEN None ELSE filter)

\* navigateTo writes the filter of a card to the address `so it survives refresh'
\* (k8s-explorer-init.js:383): a page loaded again shows the table with it, once
\* the bar has the cluster again.
FilterSurvives ==
    OnExplorer /\ main \in Items /\ context.cluster # None => current.extra = filter
=============================================================================

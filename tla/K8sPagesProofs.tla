----------------------------- MODULE K8sPagesProofs -----------------------------
(***************************************************************************)
(* What TLAPS proves of the two Kubernetes pages, for any clusters, any    *)
(* resources and any number of requests on their way: the explorer's rail  *)
(* implements ClusterRail, at rest its cards and its rail agree, and its   *)
(* table is of the context; the section's overview at rest is of the       *)
(* cluster selected; and, last, the types of both.                         *)
(*                                                                         *)
(* CardsAgree speaks of a page at rest.  What holds before that is that    *)
(* the summary of the rail is the latest one as soon as no request for the *)
(* selected cluster is on its way (RailIsLatest): a change of the cluster, *)
(* which blanks the rail and leaves the latest summary, sends one.         *)
(***************************************************************************)
EXTENDS K8sPages, TLAPS

AnyRequest == [cluster : Clusters, answer : Int]

Types ==
    /\ context \in E!Contexts
    /\ currentCluster \in Clusters \cup {None}
    /\ version \in [Clusters -> Nat]
    /\ explorerRequests \in [E!Slots -> AnyRequest \cup {E!Free}]

\* No answer is of a summary that its cluster has not had.
Published ==
    \A k \in E!Slots : explorerRequests[k] # E!Free =>
        explorerRequests[k].answer <= version[explorerRequests[k].cluster]

RailIsLatest ==
    currentCluster # None
      /\ (\A k \in E!Slots : explorerRequests[k].cluster # currentCluster) =>
        latestSummary = rail

CardsAreLatest == main = overview => cards = latestSummary

TableIsView ==
    main \in Items => current = E!View(main, context, IF reloaded THEN None ELSE filter)

Inv == Types /\ Published /\ RailIsLatest /\ CardsAreLatest /\ TableIsView

LEMMA Assumptions == None \notin Clusters /\ {None, overview, hint} \cap Items = {}
<1>. QED
  BY OverviewAssumption, PagesAssumption

\* A request is for a cluster, and a free slot for none.
LEMMA RequestNotFree ==
    ASSUME NEW r \in AnyRequest
    PROVE  r # E!Free /\ r.cluster \in Clusters /\ r.answer \in Int
<1>. QED
  BY Assumptions DEF AnyRequest, E!Free

LEMMA InitInv == PagesInit => Inv
<1>. SUFFICES ASSUME PagesInit PROVE Inv
  OBVIOUS
<1>. USE DEF PagesInit
<1>1. Types
  BY DEF Types, E!Contexts, E!NoContext
<1>2. Published
  BY DEF Published
<1>3. RailIsLatest /\ CardsAreLatest
  BY DEF RailIsLatest, CardsAreLatest
<1>4. TableIsView
  BY Assumptions DEF TableIsView
<1>. QED
  BY <1>1, <1>2, <1>3, <1>4 DEF Inv

LEMMA LoadInv ==
    ASSUME NEW p \in E!Panes, E!Load(p), version' = [c \in Clusters |-> 0]
    PROVE  Inv' /\ Rail!Open
<1>. USE DEF E!Load
<1>1. Types'
  BY DEF Types, E!Contexts, E!NoContext
<1>2. Published'
  BY DEF Published
<1>3. RailIsLatest' /\ CardsAreLatest'
  BY DEF RailIsLatest, CardsAreLatest
<1>4. TableIsView'
  BY DEF TableIsView, E!NoContext
<1>5. Rail!Open
  BY DEF Rail!Open
<1>. QED
  BY <1>1, <1>2, <1>3, <1>4, <1>5 DEF Inv

\* What a fetch leaves: its request is on its way, and the others are as they were.
LEMMA FetchInv ==
    ASSUME Inv, NEW c \in Clusters \cup {None}, E!fetchAndApply(c), version' = version
    PROVE  /\ explorerRequests' \in [E!Slots -> AnyRequest \cup {E!Free}]
           /\ Published'
           /\ c # None => \E k \in E!Slots : explorerRequests'[k].cluster = c
<1>. USE DEF Inv, Types
<1>1. CASE c = None
  BY <1>1 DEF E!fetchAndApply, Published
<1>2. CASE c # None
  <2>. DEFINE new == [cluster |-> c, answer |-> E!Waiting]
  <2>1. PICK k \in E!Slots : explorerRequests' = [explorerRequests EXCEPT ![k] = new]
    BY <1>2 DEF E!fetchAndApply
  <2>2. new \in AnyRequest /\ new.answer = -1 /\ new.cluster = c /\ c \in Clusters
    BY <1>2 DEF AnyRequest, E!Waiting
  <2>3. explorerRequests'[k] = new
        /\ \A j \in E!Slots : j # k => explorerRequests'[j] = explorerRequests[j]
    BY <2>1
  <2>4. explorerRequests' \in [E!Slots -> AnyRequest \cup {E!Free}]
    BY <2>1, <2>2
  <2>5. Published'
    BY <2>2, <2>3 DEF Published
  <2>. QED
    BY <2>2, <2>3, <2>4, <2>5
<1>. QED
  BY <1>1, <1>2

LEMMA SetClusterInv ==
    ASSUME Inv, NEW c \in Clusters \cup {None}, E!setCluster(c), version' = version
    PROVE  /\ explorerRequests' \in [E!Slots -> AnyRequest \cup {E!Free}]
           /\ Published' /\ RailIsLatest'
           /\ currentCluster' \in Clusters \cup {None} /\ latestSummary' = latestSummary
           /\ Rail!Select(c)
<1>1. E!fetchAndApply(c) /\ currentCluster' = c
  BY DEF E!setCluster
<1>2. RailIsLatest'
  BY <1>1, FetchInv DEF RailIsLatest
<1>3. Rail!Select(c)
  BY DEF E!setCluster, Rail!Select
<1>. QED
  BY <1>1, <1>2, <1>3, FetchInv DEF E!setCluster

\* A view drawn in the pane is of the context it was drawn with.
LEMMA PaneInv ==
    ASSUME Inv, NEW p \in E!Panes, NEW ctx, NEW extra, E!renderMainPane(p, ctx, extra),
           latestSummary' = latestSummary, context' = ctx, filter' = extra, reloaded' = FALSE
    PROVE  CardsAreLatest' /\ TableIsView'
<1>1. CardsAreLatest'
  BY DEF E!renderMainPane, CardsAreLatest
<1>2. ASSUME p \in Items PROVE current' = E!View(p, ctx, extra)
  <2>1. p # overview /\ p # hint
    BY <1>2, Assumptions
  <2>. QED
    BY <2>1 DEF E!renderMainPane
<1>3. E!View(p, ctx, extra) = E!View(p, context, IF reloaded THEN None ELSE filter)'
  BY DEF E!View, E!composeWhere
<1>. QED
  BY <1>1, <1>2, <1>3 DEF TableIsView, E!renderMainPane, E!View, E!composeWhere

LEMMA OnChangeInv ==
    ASSUME Inv, NEW ctx \in E!Contexts, E!onChange(ctx)
    PROVE  Inv' /\ Rail!Select(ctx.cluster)
<1>1. ctx.cluster \in Clusters \cup {None} /\ version' = version /\ E!setCluster(ctx.cluster)
      /\ context' = ctx /\ filter' = filter /\ reloaded' = reloaded
      /\ main' = main /\ cards' = cards
      /\ E!refreshContext(ctx)
  BY DEF E!onChange, E!Contexts, E!service
<1>2. Types'
  BY <1>1, SetClusterInv DEF Types, Inv
<1>3. CardsAreLatest'
  BY <1>1, SetClusterInv DEF CardsAreLatest, Inv
<1>4. TableIsView'
  <2>. DEFINE shownFilter == IF reloaded THEN None ELSE filter
  <2>. SUFFICES ASSUME main \in Items PROVE current' = E!View(main, ctx, shownFilter)
    BY <1>1 DEF TableIsView, E!View, E!composeWhere
  <2>1. current = E!View(main, context, shownFilter)
    BY DEF Inv, TableIsView
  <2>2. current.item = main /\ current.extra = shownFilter
    BY <2>1 DEF E!View
  <2>3. current # E!NoView
    BY <2>2, Assumptions DEF E!NoView
  <2>. QED
    BY <1>1, <2>2, <2>3 DEF E!refreshContext
<1>. QED
  BY <1>1, <1>2, <1>3, <1>4, SetClusterInv DEF Inv

\* What a step of the pane alone leaves as it is.
LEMMA SummaryStays ==
    ASSUME Inv, UNCHANGED <<E!summary, version>>
    PROVE  Published' /\ RailIsLatest' /\ UNCHANGED Rail!vars
           /\ explorerRequests' = explorerRequests /\ currentCluster' = currentCluster
           /\ latestSummary' = latestSummary
<1>1. /\ explorerRequests' = explorerRequests /\ currentCluster' = currentCluster
      /\ latestSummary' = latestSummary /\ rail' = rail /\ version' = version
  BY DEF E!summary
<1>2. Published'
  BY <1>1 DEF Published, Inv
<1>3. RailIsLatest'
  BY <1>1 DEF RailIsLatest, Inv
<1>. QED
  BY <1>1, <1>2, <1>3 DEF Rail!vars

LEMMA SelectInv ==
    ASSUME Inv, NEW p \in E!Panes, E!onSelect(p)
    PROVE  Inv' /\ UNCHANGED Rail!vars
<1>1. /\ E!renderMainPane(p, context, None) /\ filter' = None /\ reloaded' = FALSE
      /\ context' = context
      /\ UNCHANGED <<E!summary, version>>
  BY DEF E!onSelect, E!service
<1>2. Types'
  BY <1>1, SummaryStays DEF Types, Inv
<1>. QED
  BY <1>1, <1>2, SummaryStays, PaneInv DEF Inv

LEMMA CardInv ==
    ASSUME Inv, NEW item \in Items, NEW extra, E!NavigateToCard(item, extra)
    PROVE  Inv' /\ UNCHANGED Rail!vars
<1>1. /\ E!renderMainPane(item, context, extra) /\ filter' = extra /\ reloaded' = FALSE
      /\ context' = context
      /\ UNCHANGED <<E!summary, version>> /\ item \in E!Panes
  BY DEF E!NavigateToCard, E!service, E!Panes
<1>2. Types'
  BY <1>1, SummaryStays DEF Types, Inv
<1>. QED
  BY <1>1, <1>2, SummaryStays, PaneInv DEF Inv

LEMMA RelatedInv ==
    ASSUME Inv, NEW item \in Items, NEW namespace \in Namespaces,
           E!NavigateToRelated(item, namespace)
    PROVE  Inv' /\ (UNCHANGED Rail!vars \/ Rail!Select(context.cluster))
<1>. DEFINE ctx == [context EXCEPT !.namespace = namespace]
<1>1. /\ context' = ctx /\ E!renderMainPane(item, ctx, None)
      /\ filter' = None /\ reloaded' = FALSE
      /\ version' = version /\ item \in E!Panes
      /\ (UNCHANGED E!summary \/ E!setCluster(context.cluster))
  BY DEF E!NavigateToRelated, E!service, E!Panes
<1>2. context \in E!Contexts /\ ctx \in E!Contexts /\ context.cluster \in Clusters \cup {None}
  BY DEF Inv, Types, E!Contexts
<1>3. CASE UNCHANGED E!summary
  <2>1. Types'
    BY <1>1, <1>2, <1>3, SummaryStays DEF Types, Inv
  <2>2. CardsAreLatest' /\ TableIsView'
    BY <1>1, <1>3, SummaryStays, PaneInv
  <2>. QED
    BY <1>1, <1>3, <2>1, <2>2, SummaryStays DEF Inv
<1>4. CASE E!setCluster(context.cluster)
  <2>1. Types'
    BY <1>1, <1>2, <1>4, SetClusterInv DEF Types, Inv
  <2>2. CardsAreLatest' /\ TableIsView'
    BY <1>1, <1>2, <1>4, SetClusterInv, PaneInv
  <2>. QED
    BY <1>1, <1>2, <1>4, <2>1, <2>2, SetClusterInv DEF Inv
<1>. QED
  BY <1>1, <1>3, <1>4

LEMMA PaneStays ==
    ASSUME Inv, UNCHANGED <<E!bar, E!pane, latestSummary>>
    PROVE  /\ CardsAreLatest' /\ TableIsView' /\ context' \in E!Contexts
<1>. /\ context' = context /\ filter' = filter /\ reloaded' = reloaded
     /\ main' = main /\ current' = current /\ cards' = cards /\ latestSummary' = latestSummary
  BY DEF E!bar, E!pane
<1>. QED
  BY DEF Inv, Types, CardsAreLatest, TableIsView, E!View, E!composeWhere

LEMMA PublishInv ==
    ASSUME Inv, NEW c \in Clusters, E!Publish(c)
    PROVE  Inv' /\ Rail!Publish(c)
<1>1. /\ version' = [version EXCEPT ![c] = @ + 1] /\ explorerRequests' = explorerRequests
      /\ currentCluster' = currentCluster /\ latestSummary' = latestSummary /\ rail' = rail
      /\ UNCHANGED <<E!bar, E!pane, latestSummary>>
  BY DEF E!Publish, E!summary
<1>2. version' \in [Clusters -> Nat] /\ \A d \in Clusters : version[d] <= version'[d]
  BY <1>1 DEF Inv, Types
<1>3. Published'
  <2>. SUFFICES ASSUME NEW k \in E!Slots, explorerRequests[k] # E!Free
                PROVE  explorerRequests[k].answer <= version'[explorerRequests[k].cluster]
    BY <1>1 DEF Published
  <2>1. explorerRequests[k].cluster \in Clusters /\ explorerRequests[k].answer \in Int
    BY RequestNotFree DEF Inv, Types
  <2>2. /\ explorerRequests[k].answer <= version[explorerRequests[k].cluster]
        /\ version[explorerRequests[k].cluster] \in Nat
        /\ version'[explorerRequests[k].cluster] \in Nat
    BY <1>2, <2>1 DEF Inv, Types, Published
  <2>. QED
    BY <1>2, <2>1, <2>2
<1>4. Types'
  BY <1>1, <1>2, PaneStays DEF Inv, Types
<1>5. RailIsLatest'
  BY <1>1 DEF Inv, RailIsLatest
<1>6. Rail!Publish(c)
  BY <1>1 DEF Rail!Publish
<1>. QED
  BY <1>1, <1>3, <1>4, <1>5, <1>6, PaneStays DEF Inv

LEMMA TickInv ==
    ASSUME Inv, E!Tick
    PROVE  Inv' /\ (UNCHANGED Rail!vars \/ Rail!Blank)
<1>1. /\ rail' = (IF currentCluster = None THEN None ELSE rail)
      /\ E!fetchAndApply(currentCluster) /\ currentCluster' = currentCluster
      /\ version' = version /\ UNCHANGED <<E!bar, E!pane, latestSummary>>
      /\ currentCluster \in Clusters \cup {None}
  BY DEF E!Tick, E!service, Inv, Types
<1>2. Types' /\ Published'
  BY <1>1, FetchInv, PaneStays DEF Inv, Types
<1>3. RailIsLatest'
  BY <1>1, FetchInv DEF RailIsLatest
<1>4. UNCHANGED Rail!vars \/ Rail!Blank
  BY <1>1 DEF Rail!vars, Rail!Blank
<1>. QED
  BY <1>1, <1>2, <1>3, <1>4, PaneStays DEF Inv

LEMMA AnsweredInv ==
    ASSUME Inv, NEW k \in E!Slots, NEW answer \in Int, E!Answered(k, answer),
           answer <= version[explorerRequests[k].cluster]
    PROVE  Inv' /\ UNCHANGED Rail!vars
<1>. DEFINE r == explorerRequests[k]
<1>. DEFINE new == [r EXCEPT !.answer = answer]
<1>1. /\ explorerRequests' = [explorerRequests EXCEPT ![k] = new] /\ r # E!Free
      /\ currentCluster' = currentCluster /\ latestSummary' = latestSummary /\ rail' = rail
      /\ version' = version /\ UNCHANGED <<E!bar, E!pane, latestSummary>>
  BY DEF E!Answered
<1>2. r \in AnyRequest
  BY <1>1 DEF Inv, Types
<1>3. new \in AnyRequest /\ new.cluster = r.cluster /\ new.answer = answer
  BY <1>2 DEF AnyRequest
<1>4. /\ explorerRequests' \in [E!Slots -> AnyRequest \cup {E!Free}]
      /\ explorerRequests'[k] = new
      /\ \A j \in E!Slots : j # k => explorerRequests'[j] = explorerRequests[j]
  <2>. HIDE DEF new
  <2>. QED
    BY <1>1, <1>3 DEF Inv, Types
<1>5. Types'
  BY <1>1, <1>4, PaneStays DEF Inv, Types
<1>6. Published'
  <2>. HIDE DEF new
  <2>. QED
    BY <1>1, <1>3, <1>4 DEF Inv, Published
<1>7. RailIsLatest'
  <2>. HIDE DEF new
  <2>1. \A j \in E!Slots : explorerRequests'[j].cluster = explorerRequests[j].cluster
    BY <1>3, <1>4
  <2>. QED
    BY <1>1, <2>1 DEF Inv, RailIsLatest
<1>. QED
  BY <1>1, <1>5, <1>6, <1>7, PaneStays DEF Inv, Rail!vars

LEMMA AnswerInv ==
    ASSUME Inv, NEW k \in E!Slots, E!Answer(k) \/ E!Fail(k)
    PROVE  Inv' /\ UNCHANGED Rail!vars
<1>1. ASSUME explorerRequests[k] # E!Free
      PROVE  version[explorerRequests[k].cluster] \in Nat
  BY <1>1, RequestNotFree DEF Inv, Types
<1>2. CASE E!Answer(k)
  <2>1. explorerRequests[k] # E!Free
    BY <1>2 DEF E!Answer, E!Answered
  <2>2. E!Answered(k, version[explorerRequests[k].cluster])
    BY <1>2 DEF E!Answer
  <2>3. /\ version[explorerRequests[k].cluster] \in Int
        /\ version[explorerRequests[k].cluster] <= version[explorerRequests[k].cluster]
    BY <1>1, <2>1
  <2>. QED
    BY <2>2, <2>3, AnsweredInv
<1>3. CASE E!Fail(k)
  <2>1. -2 \in Int /\ E!Answered(k, -2) /\ explorerRequests[k] # E!Free
    BY <1>3 DEF E!Fail, E!NoAnswer, E!Answered
  <2>2. -2 <= version[explorerRequests[k].cluster]
    BY <1>1, <2>1
  <2>. QED
    BY <2>1, <2>2, AnsweredInv
<1>. QED
  BY <1>2, <1>3

LEMMA ApplyInv ==
    ASSUME Inv, NEW k \in E!Slots, E!Apply(k)
    PROVE  Inv' /\ (UNCHANGED Rail!vars \/ Rail!Draw \/ Rail!Blank)
<1>. DEFINE r == explorerRequests[k]
<1>1. /\ explorerRequests' = [explorerRequests EXCEPT ![k] = E!Free]
      /\ context' = context /\ filter' = filter /\ reloaded' = reloaded
      /\ main' = main /\ current' = current
      /\ currentCluster' = currentCluster /\ version' = version
      /\ r \in AnyRequest /\ r # E!Free
  BY DEF E!Apply, E!bar, E!service, Inv, Types
<1>2. Types'
  BY <1>1 DEF Inv, Types
<1>3. Published'
  BY <1>1 DEF Inv, Types, Published
<1>4. TableIsView'
  BY <1>1 DEF Inv, TableIsView, E!View, E!composeWhere
<1>5. CASE r.cluster # currentCluster
  <2>1. latestSummary' = latestSummary /\ rail' = rail /\ cards' = cards
    BY <1>5 DEF E!Apply
  <2>2. RailIsLatest'
    <3>. SUFFICES ASSUME \A j \in E!Slots : explorerRequests'[j].cluster # currentCluster,
                         currentCluster # None
                  PROVE  latestSummary = rail
      BY <1>1, <2>1 DEF RailIsLatest
    <3>1. \A j \in E!Slots : explorerRequests[j].cluster # currentCluster
      BY <1>1, <1>5 DEF Inv, Types
    <3>. QED
      BY <3>1 DEF Inv, RailIsLatest
  <2>3. CardsAreLatest'
    BY <1>1, <2>1 DEF Inv, CardsAreLatest
  <2>. QED
    BY <1>1, <1>2, <1>3, <1>4, <2>1, <2>2, <2>3 DEF Inv, Rail!vars
<1>6. CASE r.cluster = currentCluster
  <2>1. ASSUME NEW s, E!Applied(s) PROVE RailIsLatest' /\ CardsAreLatest' /\ rail' = s
    BY <1>1, <2>1 DEF E!Applied, RailIsLatest, CardsAreLatest
  <2>2. CASE r.answer > 0
    <3>1. E!Applied(r)
      BY <1>6, <2>2 DEF E!Apply
    <3>2. /\ currentCluster \in Clusters /\ currentCluster # None
          /\ r.answer \in 1 .. version[currentCluster]
          /\ r = [cluster |-> currentCluster, answer |-> r.answer]
      BY <1>1, <1>6, <2>2, Assumptions DEF AnyRequest, Inv, Types, Published
    <3>3. Rail!Draw
      BY <1>1, <2>1, <3>1, <3>2 DEF Rail!Draw
    <3>. QED
      BY <1>2, <1>3, <1>4, <2>1, <3>1, <3>3 DEF Inv
  <2>3. CASE ~(r.answer > 0)
    <3>1. E!Applied(None)
      BY <1>6, <2>3 DEF E!Apply
    <3>. QED
      BY <1>1, <1>2, <1>3, <1>4, <2>1, <3>1 DEF Inv, Rail!Blank
  <2>. QED
    BY <2>2, <2>3
<1>. QED
  BY <1>5, <1>6

(***************************************************************************)
(* Every step                                                              *)
(***************************************************************************)
LEMMA StepInv ==
    ASSUME Inv, E!Step
    PROVE  Inv' /\ [Rail!Next]_Rail!vars
<1>. USE DEF Rail!Next
<1>1. CASE \E ctx \in E!Contexts : E!onChange(ctx)
  <2>1. \A ctx \in E!Contexts : ctx.cluster \in Clusters \cup {None}
    BY DEF E!Contexts
  <2>. QED
    BY <1>1, <2>1, OnChangeInv
<1>2. CASE \E p \in E!Panes : E!onSelect(p)
  BY <1>2, SelectInv
<1>3. CASE \E item \in Items, extra \in Filters \cup {None} : E!NavigateToCard(item, extra)
  BY <1>3, CardInv
<1>4. CASE \E item \in Items \ clusterScoped, namespace \in Namespaces :
               E!NavigateToRelated(item, namespace)
  <2>1. context.cluster \in Clusters \cup {None}
    BY DEF Inv, Types, E!Contexts
  <2>. QED
    BY <1>4, <2>1, RelatedInv
<1>5. CASE \E c \in Clusters : E!Publish(c)
  BY <1>5, PublishInv
<1>6. CASE E!Tick
  BY <1>6, TickInv
<1>7. CASE \E k \in E!Slots : E!Answer(k) \/ E!Fail(k) \/ E!Apply(k)
  BY <1>7, AnswerInv, ApplyInv
<1>. QED
  BY <1>1, <1>2, <1>3, <1>4, <1>5, <1>6, <1>7 DEF E!Step

LEMMA ExplorerStays ==
    ASSUME Inv, UNCHANGED explorer
    PROVE  Inv' /\ UNCHANGED Rail!vars
<1>. USE DEF explorer
<1>1. Types' /\ Published'
  BY DEF Inv, Types, Published
<1>2. RailIsLatest' /\ CardsAreLatest' /\ TableIsView'
  BY DEF Inv, RailIsLatest, CardsAreLatest, TableIsView, E!View, E!composeWhere
<1>. QED
  BY <1>1, <1>2 DEF Inv, Rail!vars

LEMMA NextInv ==
    ASSUME Inv, [PagesNext]_pages
    PROVE  Inv' /\ [Rail!Next]_Rail!vars
<1>. USE DEF Rail!Next
<1>0. overview \in E!Panes
  BY DEF E!Panes
<1>1. CASE OpenExplorer
  BY <1>0, <1>1, LoadInv DEF OpenExplorer, NoSummaries
<1>2. CASE ReloadExplorer
  BY <1>2, LoadInv DEF ReloadExplorer, NoSummaries
<1>3. CASE OpenSection
  BY <1>0, <1>3, LoadInv DEF OpenSection, NoSummaries
<1>4. CASE InSection(Next)
  BY <1>4, ExplorerStays DEF InSection
<1>5. CASE InExplorer(E!Step)
  BY <1>5, StepInv DEF InExplorer
<1>6. CASE UNCHANGED pages
  BY <1>6, ExplorerStays DEF pages
<1>. QED
  BY <1>1, <1>2, <1>3, <1>4, <1>5, <1>6 DEF PagesNext

\* What the properties need holds in every state of the two pages.
THEOREM ExplorerInvariant == PagesSpec => []Inv
<1>1. Inv /\ [PagesNext]_pages => Inv'
  BY NextInv
<1>. QED
  BY <1>1, InitInv, PTL DEF PagesSpec

\* k8s-explorer-summary.js:100: the rail is blank or of the selected cluster, and
\* shows only what was published for it, whatever requests are on their way.
THEOREM RailImplementsClusterRail == PagesSpec => RailFollows
<1>1. PagesInit => Rail!Init
  BY DEF PagesInit, Rail!Init
<1>2. Inv /\ [PagesNext]_pages => [Rail!Next]_Rail!vars
  BY NextInv
<1>. QED
  BY <1>1, <1>2, ExplorerInvariant, PTL DEF PagesSpec, RailFollows, Rail!Spec

\* The cards of the overview and the counts of the rail are of one summary as soon
\* as no request is on its way (k8s-explorer-summary.js notify).
THEOREM CardsAgreeAlways == PagesSpec => []CardsAgree
<1>1. Inv => CardsAgree
  <2>. SUFFICES ASSUME Inv, main = overview, currentCluster # None,
                       \A k \in E!Slots : explorerRequests[k] = E!Free
                PROVE  cards = rail
    BY DEF CardsAgree
  <2>1. \A k \in E!Slots : explorerRequests[k].cluster # currentCluster
    BY DEF E!Free
  <2>. QED
    BY <2>1 DEF Inv, RailIsLatest, CardsAreLatest
<1>. QED
  BY <1>1, ExplorerInvariant, PTL

\* The table asks for its resource in the context of the bar, with the filter that
\* led to it (k8s-explorer-resource-view.js).
THEOREM TableFollowsContext == PagesSpec => []TableIsOfContext
<1>1. Inv => TableIsOfContext
  BY DEF Inv, TableIsView, TableIsOfContext
<1>. QED
  BY <1>1, ExplorerInvariant, PTL

-----------------------------------------------------------------------------
(***************************************************************************)
(* The section.  OverviewIsOfSelected speaks of an overview at rest; what  *)
(* holds before that is that, unless a request or a timer of another       *)
(* cluster was left when the overview was asked (crossed), all that are    *)
(* there are of the cluster selected, and that a container which does not  *)
(* show that cluster has a request of its own.                             *)
(***************************************************************************)
ShowsSelected(s, cluster) == s.kind # "blank" /\ s.cluster = cluster

SectionInv ==
    /\ listeners \in Nat /\ areas \in Nat /\ area \in 0 .. areas
    /\ ~open => area = 0 /\ listeners = 0
    /\ area # 0 /\ ~crossed =>
          /\ \A r \in requests : r.cluster = selectedCluster
          /\ \A t \in ticking : t.cluster = selectedCluster
          /\ ShowsSelected(shown, selectedCluster) \/ \E r \in requests : r.area = area

\* When nothing of another cluster is left, show leaves nothing of another.
LEMMA ShowOfCluster ==
    ASSUME NEW cluster, NEW k \in Nat, k > 0, NEW container \in Nat, NEW content, NEW running,
           Show(cluster, k, container, content, running),
           \A r \in requests : r.cluster = cluster,
           \A t \in Stopped(running) : t.cluster = cluster
    PROVE  /\ \A r \in requests' : r.cluster = cluster
           /\ \A t \in ticking' : t.cluster = cluster
           /\ ShowsSelected(shown', cluster) \/ \E r \in requests' : r.area = container
<1>1. \A t \in ticking' : t.cluster = cluster
  BY DEF Show
<1>2. CASE cluster = None
  BY <1>1, <1>2 DEF Show, ShowsSelected
<1>3. CASE cluster # None
  <2>1. requests' = requests \cup NewRequests(cluster, k, container)
    BY <1>3 DEF Show
  <2>2. \A r \in NewRequests(cluster, k, container) : r.cluster = cluster
    BY DEF NewRequests
  <2>3. \E r \in NewRequests(cluster, k, container) : r.area = container
    <3>1. [n |-> asked + k, cluster |-> cluster, area |-> container + k - k]
              \in NewRequests(cluster, k, container)
      BY DEF NewRequests
    <3>2. container + k - k = container
      OBVIOUS
    <3>. QED
      BY <3>1, <3>2
  <2>. QED
    BY <1>1, <2>1, <2>2, <2>3
<1>. QED
  BY <1>2, <1>3

LEMMA RenderOfCluster ==
    ASSUME SectionInv, NEW cluster, NEW k \in Nat, k > 0, renderOverview(cluster, k)
    PROVE  /\ areas' \in Nat /\ area' \in 0 .. areas'
           /\ ~crossed' =>
                 /\ \A r \in requests' : r.cluster = cluster
                 /\ \A t \in ticking' : t.cluster = cluster
                 /\ ShowsSelected(shown', cluster) \/ \E r \in requests' : r.area = area'
<1>1. areas + k \in Nat /\ area' = areas + k /\ areas' = areas + k
  BY DEF SectionInv, renderOverview
<1>2. Show(cluster, k, areas + k, Blank, ticking)
  BY DEF renderOverview
<1>3. ASSUME ~crossed'
      PROVE  /\ \A r \in requests : r.cluster = cluster
             /\ \A t \in Stopped(ticking) : t.cluster = cluster
  BY <1>3 DEF renderOverview, Stray, Stopped
<1>4. ASSUME ~crossed'
      PROVE  /\ \A r \in requests' : r.cluster = cluster
             /\ \A t \in ticking' : t.cluster = cluster
             /\ ShowsSelected(shown', cluster) \/ \E r \in requests' : r.area = areas + k
  <2>1. /\ \A r \in requests : r.cluster = cluster
        /\ \A t \in Stopped(ticking) : t.cluster = cluster
    BY <1>3, <1>4
  <2>2. areas + k \in Nat
    BY <1>1
  <2>. QED
    BY <1>2, <2>1, <2>2, ShowOfCluster
<1>. QED
  BY <1>1, <1>4

LEMMA SectionInit == PagesInit => SectionInv
  BY DEF PagesInit, Init, SectionInv

\* What draws keeps to the clusters of its request.
LEMMA DrawInv ==
    ASSUME SectionInv, NEW r \in requests, NEW kind, kind # "blank", Draw(r, kind),
           \A t \in ticking' : t \in ticking \/ t.cluster = r.cluster
    PROVE  SectionInv'
<1>. USE DEF SectionInv, ShowsSelected
<1>1. requests' = requests \ {r} /\ UNCHANGED <<menu, selectedCluster, area, areas, crossed>>
  BY DEF Draw
<1>2. CASE r.area = area
  BY <1>1, <1>2 DEF Draw, menu
<1>3. CASE r.area # area
  BY <1>1, <1>3 DEF Draw, menu
<1>. QED
  BY <1>2, <1>3

LEMMA SectionStep == ASSUME SectionInv, Next PROVE SectionInv'
<1>1. CASE initializeKubernetes \/ Leave
  BY <1>1 DEF initializeKubernetes, Leave, Replaced, SectionInv
<1>2. CASE Listed
  <2>1. PICK list \in SUBSET Clusters, first \in Clusters \cup {None} :
            fetchClusterList(list, first)
    BY <1>2 DEF Listed
  <2>2. CASE open
    <3>1. /\ open' = open /\ listeners' = listeners + 1
          /\ renderOverview(selectedCluster', 1)
      BY <2>1, <2>2 DEF fetchClusterList
    <3>2. listeners' \in Nat
      BY <3>1 DEF SectionInv
    <3>. QED
      BY <2>2, <3>1, <3>2, RenderOfCluster DEF SectionInv
  <2>3. CASE ~open
    BY <2>1, <2>3 DEF fetchClusterList, SectionInv
  <2>. QED
    BY <2>2, <2>3
<1>3. ASSUME NEW cluster \in Clusters, SelectCluster(cluster) PROVE SectionInv'
  <2>1. UNCHANGED <<menu, area, areas>> /\ selectedCluster' = cluster
    BY <1>3 DEF SelectCluster
  <2>2. CASE area = 0
    BY <2>1, <2>2 DEF SectionInv, menu
  <2>3. CASE area # 0
    <3>1. Show(cluster, 1, area, shown, ticking) /\ crossed' = Stray(cluster)
      BY <1>3, <2>3 DEF SelectCluster
    <3>2. ASSUME ~crossed'
          PROVE  /\ \A r \in requests : r.cluster = cluster
                 /\ \A t \in Stopped(ticking) : t.cluster = cluster
      BY <3>1, <3>2 DEF Stray, Stopped
    <3>3. area \in Nat
      BY DEF SectionInv
    <3>. QED
      BY <2>1, <3>1, <3>2, <3>3, ShowOfCluster DEF SectionInv, menu
  <2>. QED
    BY <2>2, <2>3
<1>4. CASE SelectOverview
  <2>1. listeners \in Nat /\ listeners > 0 /\ renderOverview(selectedCluster, listeners)
    BY <1>4 DEF SelectOverview, SectionInv
  <2>2. UNCHANGED <<open, listeners, selectedCluster>>
    BY <1>4 DEF SelectOverview, menu
  <2>3. open
    BY <2>1 DEF SectionInv
  <2>. QED
    BY <2>1, <2>2, <2>3, RenderOfCluster DEF SectionInv
<1>5. CASE SelectCategory
  BY <1>5 DEF SelectCategory, SectionInv, menu
<1>6. ASSUME NEW r \in requests, Answer(r) PROVE SectionInv'
  <2>1. CASE renderGrid(r)
    BY <2>1, DrawInv DEF renderGrid, timers
  <2>2. CASE renderPlaceholder(r)
    BY <2>2, DrawInv DEF renderPlaceholder
  <2>. QED
    BY <1>6, <2>1, <2>2 DEF Answer
<1>7. CASE Retry
  <2>1. UNCHANGED <<menu, selectedCluster, area, areas, crossed>>
    BY <1>7 DEF Retry
  <2>2. CASE area = 0
    BY <2>1, <2>2 DEF SectionInv, menu
  <2>3. CASE area # 0
    <3>1. PICK t \in ticking : Show(t.cluster, 1, area, shown, ticking \ {t})
      BY <1>7, <2>3 DEF Retry
    <3>2. ASSUME ~crossed
          PROVE  /\ \A r \in requests' : r.cluster = selectedCluster
                 /\ \A u \in ticking' : u.cluster = selectedCluster
                 /\ ShowsSelected(shown', selectedCluster) \/ \E r \in requests' : r.area = area
      <4>1. /\ t.cluster = selectedCluster
            /\ \A r \in requests : r.cluster = selectedCluster
            /\ \A u \in Stopped(ticking \ {t}) : u.cluster = selectedCluster
        BY <2>3, <3>2 DEF SectionInv, Stopped
      <4>2. area \in Nat
        BY DEF SectionInv
      <4>. QED
        BY <3>1, <4>1, <4>2, ShowOfCluster
    <3>. QED
      BY <2>1, <3>2 DEF SectionInv, menu
  <2>. QED
    BY <2>2, <2>3
<1>. QED
  BY <1>1, <1>2, <1>3, <1>4, <1>5, <1>6, <1>7 DEF Next

LEMMA SectionNext == SectionInv /\ [PagesNext]_pages => SectionInv'
<1>. SUFFICES ASSUME SectionInv, [PagesNext]_pages PROVE SectionInv'
  OBVIOUS
<1>1. CASE OpenExplorer \/ OpenSection
  BY <1>1 DEF OpenExplorer, OpenSection, NoSection, SectionInv
<1>2. CASE ReloadExplorer \/ InExplorer(E!Step) \/ UNCHANGED pages
  BY <1>2 DEF ReloadExplorer, InExplorer, pages, vars, menu, timers, SectionInv
<1>3. CASE InSection(Next)
  BY <1>3, SectionStep DEF InSection
<1>. QED
  BY <1>1, <1>2, <1>3 DEF PagesNext

\* The overview of the Kubernetes section at rest is of the cluster selected,
\* whatever was clicked and loaded meanwhile, unless something of another cluster
\* was left when it was asked (kubernetes-overview.js show).
THEOREM OverviewOfSelected == PagesSpec => []OverviewIsOfSelected
<1>1. SectionInv => OverviewIsOfSelected
  BY DEF SectionInv, ShowsSelected, OverviewIsOfSelected
<1>2. PagesSpec => []SectionInv
  BY SectionInit, SectionNext, PTL DEF PagesSpec
<1>. QED
  BY <1>1, <1>2, PTL

-----------------------------------------------------------------------------
(***************************************************************************)
(* Types.  The two pages are apart: a step of one keeps the other's.       *)
(***************************************************************************)
LEMMA StoppedType ==
    ASSUME NEW T, NEW running \in SUBSET T PROVE Stopped(running) \subseteq T
  BY DEF Stopped

\* What k calls ask is counted, each for a container that there was.
LEMMA NewRequestsType ==
    ASSUME TypeOK, NEW cluster \in Clusters, NEW k \in Nat, k > 0, NEW container, NEW n \in Nat,
           container - k \in Nat, container \in 1 .. n, areas <= n
    PROVE  requests \cup NewRequests(cluster, k, container)
               \subseteq [n : 1 .. asked + k, cluster : Clusters, area : 1 .. n]
<1>1. asked \in Nat /\ areas \in Nat /\ requests \subseteq Request
  BY DEF TypeOK
<1>2. 1 .. asked \subseteq 1 .. asked + k /\ 1 .. areas \subseteq 1 .. n
  BY <1>1
<1>3. requests \subseteq [n : 1 .. asked + k, cluster : Clusters, area : 1 .. n]
  BY <1>1, <1>2 DEF Request
<1>4. \A i \in 1 .. k : asked + i \in 1 .. asked + k /\ container + i - k \in 1 .. n
  BY <1>1
<1>5. NewRequests(cluster, k, container)
          \subseteq [n : 1 .. asked + k, cluster : Clusters, area : 1 .. n]
  BY <1>4 DEF NewRequests
<1>. QED
  BY <1>3, <1>5

LEMMA ShowType ==
    ASSUME TypeOK, NEW cluster \in Clusters \cup {None}, NEW k \in Nat, k > 0,
           NEW container, container - k \in Nat, areas' \in Nat, areas <= areas',
           container \in 1 .. areas', NEW content \in Content, NEW running \in SUBSET ticking,
           Show(cluster, k, container, content, running), misses' = misses
    PROVE  /\ shown' \in Content /\ asked' \in Nat /\ requests' \subseteq Request'
           /\ pendingRetry' \in 0 .. asked' /\ ticking' \subseteq Timer'
<1>1. /\ asked \in Nat /\ areas \in Nat /\ misses \in Nat
      /\ requests \subseteq Request /\ ticking \subseteq Timer
  BY DEF TypeOK
<1>2. ticking' \subseteq Timer /\ pendingRetry' = 0
  BY <1>1, StoppedType DEF Show
<1>3. CASE cluster = None
  <2>1. /\ shown' = [kind |-> "placeholder", cluster |-> None] /\ asked' = asked
        /\ requests' = requests
    BY <1>3 DEF Show
  <2>2. 1 .. areas \subseteq 1 .. areas'
    BY <1>1
  <2>. QED
    BY <1>1, <1>2, <2>1, <2>2 DEF Content, Request, Timer
<1>4. CASE cluster # None
  <2>1. /\ requests' = requests \cup NewRequests(cluster, k, container)
        /\ asked' = asked + k /\ shown' = content /\ cluster \in Clusters
    BY <1>4 DEF Show
  <2>2. requests' \subseteq [n : 1 .. asked + k, cluster : Clusters, area : 1 .. areas']
    BY <2>1, NewRequestsType
  <2>3. asked' \in Nat /\ 1 .. asked \subseteq 1 .. asked'
    BY <1>1, <2>1
  <2>. QED
    BY <1>2, <2>1, <2>2, <2>3 DEF Request, Timer
<1>. QED
  BY <1>3, <1>4

LEMMA RenderType ==
    ASSUME TypeOK, NEW cluster \in Clusters \cup {None}, NEW k \in Nat, k > 0,
           renderOverview(cluster, k), misses' = misses
    PROVE  /\ shown' \in Content /\ asked' \in Nat /\ requests' \subseteq Request'
           /\ pendingRetry' \in 0 .. asked' /\ ticking' \subseteq Timer'
           /\ areas' \in Nat /\ area' \in 0 .. areas' /\ crossed' \in BOOLEAN
<1>1. /\ areas \in Nat /\ areas' = areas + k /\ area' = areas + k
      /\ Show(cluster, k, areas + k, Blank, ticking) /\ crossed' \in BOOLEAN
  BY DEF TypeOK, renderOverview, Stray
<1>2. PICK container : container = areas + k
  OBVIOUS
<1>3. /\ container - k \in Nat /\ areas' \in Nat /\ areas <= areas' /\ container \in 1 .. areas'
      /\ area' \in 0 .. areas'
  BY <1>1, <1>2
<1>4. Blank \in Content /\ ticking \in SUBSET ticking
  BY DEF Blank, Content
<1>5. Show(cluster, k, container, Blank, ticking)
  BY <1>1, <1>2, Zenon
<1>6. /\ shown' \in Content /\ asked' \in Nat /\ requests' \subseteq Request'
      /\ pendingRetry' \in 0 .. asked' /\ ticking' \subseteq Timer'
  BY <1>3, <1>4, <1>5, ShowType
<1>. QED
  BY <1>1, <1>3, <1>6

LEMMA DrawType ==
    ASSUME TypeOK, NEW r \in requests, NEW kind \in {"grid", "placeholder"}, Draw(r, kind)
    PROVE  /\ shown' \in Content /\ requests' \subseteq Request'
           /\ r.n \in 1 .. asked /\ r.cluster \in Clusters
           /\ UNCHANGED <<open, listings, options, listeners, selectedCluster, area, areas,
                          asked, crossed, inputs>>
<1>1. r \in Request
  BY DEF TypeOK
<1>2. r.n \in 1 .. asked /\ r.cluster \in Clusters
  BY <1>1 DEF Request
<1>3. UNCHANGED <<open, listings, options, listeners, selectedCluster, area, areas, asked,
                  crossed, inputs>>
  BY DEF Draw, menu
<1>4. requests' \subseteq Request'
  BY <1>3 DEF Draw, TypeOK, Request
<1>5. shown' \in Content
  BY <1>2 DEF Draw, TypeOK, Content
<1>. QED
  BY <1>2, <1>3, <1>4, <1>5

LEMMA SectionType == ASSUME TypeOK, Next PROVE TypeOK'
<1>. USE DEF menu, timers
<1>1. CASE initializeKubernetes \/ Leave
  <2>1. Blank \in Content
    BY DEF Blank, Content
  <2>2. /\ options' = {} /\ listeners' = 0 /\ area' = 0 /\ shown' = Blank
        /\ UNCHANGED <<selectedCluster, areas, requests, asked, timers, crossed, misses>>
        /\ open' \in BOOLEAN /\ listings' \in {listings, listings + 1} /\ inputs' = inputs + 1
    BY <1>1 DEF initializeKubernetes, Leave, Replaced, Input
  <2>. QED
    BY <2>1, <2>2 DEF TypeOK, Request, Timer
<1>2. CASE Listed
  <2>1. PICK list \in SUBSET Clusters, first \in Clusters \cup {None} :
            fetchClusterList(list, first)
    BY <1>2 DEF Listed
  <2>2. /\ selectedCluster' \in Clusters \cup {None} /\ listings' \in Nat
        /\ UNCHANGED <<open, inputs, misses>>
    BY <2>1 DEF fetchClusterList, TypeOK
  <2>3. CASE open
    <3>1. /\ options' = list /\ listeners' = listeners + 1
          /\ renderOverview(selectedCluster', 1)
      BY <2>1, <2>3 DEF fetchClusterList
    <3>2. PICK cluster : cluster = selectedCluster'
      OBVIOUS
    <3>3. 1 \in Nat /\ 1 > 0 /\ misses' = misses /\ cluster \in Clusters \cup {None}
          /\ renderOverview(cluster, 1)
      BY <2>2, <3>1, <3>2
    <3>4. /\ shown' \in Content /\ asked' \in Nat /\ requests' \subseteq Request'
          /\ pendingRetry' \in 0 .. asked' /\ ticking' \subseteq Timer'
          /\ areas' \in Nat /\ area' \in 0 .. areas' /\ crossed' \in BOOLEAN
      BY <3>3, RenderType
    <3>. QED
      BY <2>2, <3>1, <3>4 DEF TypeOK
  <2>4. CASE ~open
    BY <2>1, <2>2, <2>4 DEF fetchClusterList, TypeOK, Request, Timer
  <2>. QED
    BY <2>3, <2>4
<1>3. ASSUME NEW cluster \in Clusters, SelectCluster(cluster) PROVE TypeOK'
  <2>1. UNCHANGED <<menu, area, areas, misses>> /\ selectedCluster' = cluster
        /\ inputs' = inputs + 1
    BY <1>3 DEF SelectCluster, Input
  <2>2. CASE area = 0
    <3>1. UNCHANGED <<shown, requests, asked, timers, crossed>>
      BY <1>3, <2>2 DEF SelectCluster
    <3>. QED
      BY <2>1, <3>1 DEF TypeOK, Request, Timer
  <2>3. CASE area # 0
    <3>1. Show(cluster, 1, area, shown, ticking) /\ crossed' \in BOOLEAN
      BY <1>3, <2>3 DEF SelectCluster, Stray
    <3>2. /\ 1 \in Nat /\ 1 > 0 /\ area - 1 \in Nat /\ areas' \in Nat /\ areas <= areas'
          /\ area \in 1 .. areas' /\ shown \in Content /\ misses' = misses
      BY <2>1, <2>3 DEF TypeOK
    <3>3. /\ shown' \in Content /\ asked' \in Nat /\ requests' \subseteq Request'
          /\ pendingRetry' \in 0 .. asked' /\ ticking' \subseteq Timer'
      BY <3>1, <3>2, ShowType
    <3>. QED
      BY <2>1, <3>1, <3>3 DEF TypeOK
  <2>. QED
    BY <2>2, <2>3
<1>4. CASE SelectOverview
  <2>1. /\ listeners \in Nat /\ listeners > 0 /\ renderOverview(selectedCluster, listeners)
        /\ misses' = misses /\ selectedCluster \in Clusters \cup {None}
        /\ UNCHANGED <<menu, selectedCluster>> /\ inputs' = inputs + 1
    BY <1>4 DEF SelectOverview, TypeOK, Input
  <2>2. /\ shown' \in Content /\ asked' \in Nat /\ requests' \subseteq Request'
        /\ pendingRetry' \in 0 .. asked' /\ ticking' \subseteq Timer'
        /\ areas' \in Nat /\ area' \in 0 .. areas' /\ crossed' \in BOOLEAN
    BY <2>1, RenderType
  <2>. QED
    BY <2>1, <2>2 DEF TypeOK
<1>5. CASE SelectCategory
  <2>1. Blank \in Content
    BY DEF Blank, Content
  <2>. QED
    BY <1>5, <2>1 DEF SelectCategory, Input, TypeOK, Request, Timer
<1>6. ASSUME NEW r \in requests, Answer(r) PROVE TypeOK'
  <2>1. CASE renderGrid(r)
    <3>1. UNCHANGED <<timers, misses>> /\ Draw(r, "grid")
      BY <2>1 DEF renderGrid
    <3>2. /\ shown' \in Content /\ requests' \subseteq Request'
          /\ UNCHANGED <<open, listings, options, listeners, selectedCluster, area, areas,
                         asked, crossed, inputs>>
      BY <3>1, DrawType
    <3>. QED
      BY <3>1, <3>2 DEF TypeOK, Timer
  <2>2. CASE renderPlaceholder(r)
    <3>1. /\ misses' = misses + 1 /\ Draw(r, "placeholder") /\ pendingRetry' = r.n
          /\ ticking' = ticking \cup {[id |-> r.n, cluster |-> r.cluster, miss |-> misses]}
      BY <2>2 DEF renderPlaceholder
    <3>2. /\ shown' \in Content /\ requests' \subseteq Request'
          /\ r.n \in 1 .. asked /\ r.cluster \in Clusters
          /\ UNCHANGED <<open, listings, options, listeners, selectedCluster, area, areas,
                         asked, crossed, inputs>>
      BY <3>1, DrawType
    <3>3. /\ misses \in Nat /\ asked \in Nat /\ ticking \subseteq Timer
      BY DEF TypeOK
    <3>4. misses' \in Nat /\ 0 .. misses - 1 \subseteq 0 .. misses' - 1 /\ misses \in 0 .. misses' - 1
          /\ r.n \in 0 .. asked
      BY <3>1, <3>2, <3>3
    <3>5. ticking' \subseteq Timer'
      BY <3>1, <3>2, <3>3, <3>4 DEF Timer
    <3>. QED
      BY <3>1, <3>2, <3>4, <3>5 DEF TypeOK
  <2>. QED
    BY <1>6, <2>1, <2>2 DEF Answer
<1>7. CASE Retry
  <2>1. UNCHANGED <<menu, selectedCluster, area, areas, crossed, inputs, misses>>
    BY <1>7 DEF Retry
  <2>2. CASE area = 0
    <3>1. UNCHANGED <<pendingRetry, shown, requests, asked>> /\ ticking' \subseteq ticking
      BY <1>7, <2>2 DEF Retry
    <3>. QED
      BY <2>1, <3>1 DEF TypeOK, Request, Timer
  <2>3. CASE area # 0
    <3>1. PICK t \in ticking : Show(t.cluster, 1, area, shown, ticking \ {t})
      BY <1>7, <2>3 DEF Retry
    <3>2. /\ 1 \in Nat /\ 1 > 0 /\ area - 1 \in Nat /\ areas' \in Nat /\ areas <= areas'
          /\ area \in 1 .. areas' /\ shown \in Content /\ misses' = misses
          /\ ticking \ {t} \in SUBSET ticking
      BY <2>1, <2>3 DEF TypeOK
    <3>3. t.cluster \in Clusters \cup {None}
      BY DEF TypeOK, Timer
    <3>4. /\ shown' \in Content /\ asked' \in Nat /\ requests' \subseteq Request'
          /\ pendingRetry' \in 0 .. asked' /\ ticking' \subseteq Timer'
      BY <3>1, <3>2, <3>3, ShowType
    <3>. QED
      BY <2>1, <3>4 DEF TypeOK
  <2>. QED
    BY <2>2, <2>3
<1>. QED
  BY <1>1, <1>2, <1>3, <1>4, <1>5, <1>6, <1>7 DEF Next

LEMMA SectionStays == ASSUME TypeOK, UNCHANGED vars PROVE TypeOK'
  BY DEF TypeOK, vars, menu, timers, Request, Timer

LEMMA SectionGone == ASSUME NoSection PROVE TypeOK'
<1>1. /\ open' = FALSE /\ listings' = 0 /\ options' = {} /\ listeners' = 0
      /\ selectedCluster' = None /\ area' = 0 /\ areas' = 0 /\ shown' = Blank
      /\ requests' = {} /\ asked' = 0 /\ pendingRetry' = 0 /\ ticking' = {}
      /\ crossed' = FALSE /\ inputs' = 0 /\ misses' = 0
  BY DEF NoSection
<1>2. Blank \in Content /\ 0 \in 0 .. 0 /\ 0 \in Nat
  BY DEF Blank, Content
<1>3. /\ open' \in BOOLEAN /\ crossed' \in BOOLEAN
      /\ options' \subseteq Clusters /\ requests' \subseteq Request' /\ ticking' \subseteq Timer'
      /\ shown' \in Content /\ selectedCluster' \in Clusters \cup {None}
  BY <1>1, <1>2, Zenon
<1>4. /\ listings' \in Nat /\ listeners' \in Nat /\ areas' \in Nat /\ area' \in 0 .. areas'
      /\ asked' \in Nat /\ pendingRetry' \in 0 .. asked' /\ inputs' \in Nat /\ misses' \in Nat
  BY <1>1
<1>. QED
  BY <1>3, <1>4 DEF TypeOK, Content

\* The explorer's view is of a resource, or of none.
IsView(v) ==
    \E item \in Items, ctx \in E!Contexts, extra \in Filters \cup {None} :
        v = E!View(item, ctx, extra)

ExplorerRequest == [cluster : Clusters, answer : {E!Waiting, E!NoAnswer} \cup 0 .. MaxChanges]

PaneTypes ==
    /\ context \in E!Contexts /\ filter \in Filters \cup {None} /\ reloaded \in BOOLEAN
    /\ main \in E!Panes
    /\ IsView(current) \/ current = E!NoView
    /\ cards \in E!Summaries \cup {None}

SummaryTypes ==
    /\ currentCluster \in Clusters \cup {None}
    /\ latestSummary \in E!Summaries \cup {None} /\ rail \in E!Summaries \cup {None}
    /\ timer \in BOOLEAN
    /\ explorerRequests \in [E!Slots -> ExplorerRequest \cup {E!Free}]

ServiceTypes == version \in [Clusters -> 0 .. MaxChanges] /\ failures \in 0 .. MaxFailures

ExplorerTypes == PaneTypes /\ SummaryTypes /\ ServiceTypes

LEMMA ExplorerTypesOK == ExplorerTypes => E!TypeOK
<1>. SUFFICES ASSUME ExplorerTypes PROVE E!TypeOK
  OBVIOUS
<1>1. current \in {E!View(item, ctx, extra) : item \in Items, ctx \in E!Contexts,
                                             extra \in Filters \cup {None}} \cup {E!NoView}
  BY DEF ExplorerTypes, PaneTypes, IsView
<1>2. {latestSummary, rail, cards} \subseteq E!Summaries \cup {None}
  BY DEF ExplorerTypes, PaneTypes, SummaryTypes
<1>3. explorerRequests \in [E!Slots -> [cluster : Clusters,
                                        answer : {E!Waiting, E!NoAnswer} \cup 0 .. MaxChanges]
                                       \cup {E!Free}]
  BY DEF ExplorerTypes, SummaryTypes, ExplorerRequest
<1>. QED
  BY <1>1, <1>2, <1>3 DEF ExplorerTypes, PaneTypes, SummaryTypes, ServiceTypes, E!TypeOK

LEMMA LoadTypes ==
    ASSUME ExplorerTypes, NEW p \in E!Panes, E!Load(p), NoSummaries PROVE ExplorerTypes'
<1>1. E!NoContext \in E!Contexts /\ 0 \in 0 .. MaxChanges /\ 0 \in 0 .. MaxFailures
  BY PagesAssumption DEF E!NoContext, E!Contexts
<1>2. IsView(current') \/ current' = E!NoView
  BY <1>1 DEF E!Load, IsView
<1>3. filter' \in Filters \cup {None} /\ reloaded' \in BOOLEAN
  BY DEF E!Load, ExplorerTypes, PaneTypes
<1>4. PaneTypes'
  BY <1>1, <1>2, <1>3 DEF E!Load, PaneTypes, IsView, E!View, E!composeWhere, E!NoView, E!NoContext
<1>. QED
  BY <1>1, <1>4 DEF E!Load, NoSummaries, ExplorerTypes, SummaryTypes, ServiceTypes

LEMMA FetchTypes ==
    ASSUME SummaryTypes, NEW c \in Clusters \cup {None}, E!fetchAndApply(c)
    PROVE  explorerRequests' \in [E!Slots -> ExplorerRequest \cup {E!Free}]
<1>1. CASE c = None
  BY <1>1 DEF E!fetchAndApply, SummaryTypes
<1>2. CASE c # None
  <2>1. PICK k \in E!Slots :
            explorerRequests' = [explorerRequests EXCEPT ![k] = [cluster |-> c, answer |-> E!Waiting]]
    BY <1>2 DEF E!fetchAndApply
  <2>2. [cluster |-> c, answer |-> E!Waiting] \in ExplorerRequest
    BY <1>2 DEF ExplorerRequest
  <2>. QED
    BY <2>1, <2>2 DEF SummaryTypes
<1>. QED
  BY <1>1, <1>2

LEMMA SetClusterTypes ==
    ASSUME SummaryTypes, NEW c \in Clusters \cup {None}, E!setCluster(c) PROVE SummaryTypes'
<1>1. E!fetchAndApply(c) /\ currentCluster' = c /\ timer' = TRUE
      /\ latestSummary' = latestSummary /\ rail' \in {None, rail}
  BY DEF E!setCluster
<1>2. explorerRequests' \in [E!Slots -> ExplorerRequest \cup {E!Free}]
  BY <1>1, FetchTypes
<1>. QED
  BY <1>1, <1>2 DEF SummaryTypes

LEMMA PaneRendered ==
    ASSUME ExplorerTypes, NEW p \in E!Panes, NEW ctx \in E!Contexts,
           NEW extra \in Filters \cup {None}, E!renderMainPane(p, ctx, extra),
           context' = ctx, filter' = extra, reloaded' = FALSE
    PROVE  PaneTypes'
<1>1. current' = E!NoView \/ current' = current \/ (p \in Items /\ current' = E!View(p, ctx, extra))
  BY DEF E!renderMainPane, E!Panes
<1>2. IsView(current') \/ current' = E!NoView
  BY <1>1 DEF IsView, ExplorerTypes, PaneTypes
<1>3. IsView(current)' \/ current' = E!NoView'
  BY <1>2 DEF IsView, E!View, E!composeWhere, E!NoView, E!NoContext, E!Contexts
<1>4. cards' \in E!Summaries \cup {None} /\ main' = p
  BY DEF E!renderMainPane, ExplorerTypes, SummaryTypes
<1>. QED
  BY <1>3, <1>4 DEF PaneTypes

LEMMA TypesStay ==
    /\ PaneTypes /\ UNCHANGED <<context, filter, reloaded, main, current, cards>> => PaneTypes'
    /\ SummaryTypes /\ UNCHANGED E!summary => SummaryTypes'
    /\ ServiceTypes /\ UNCHANGED E!service => ServiceTypes'
<1>1. PaneTypes /\ UNCHANGED <<context, filter, reloaded, main, current, cards>> => PaneTypes'
  BY DEF PaneTypes, IsView, E!View, E!composeWhere
<1>2. SummaryTypes /\ UNCHANGED E!summary => SummaryTypes'
  BY DEF SummaryTypes, E!summary
<1>3. ServiceTypes /\ UNCHANGED E!service => ServiceTypes'
  BY DEF ServiceTypes, E!service
<1>. QED
  BY <1>1, <1>2, <1>3

LEMMA ExplorerStepTypes == ASSUME ExplorerTypes, E!Step PROVE ExplorerTypes'
<1>. USE DEF ExplorerTypes
<1>1. ASSUME NEW ctx \in E!Contexts, E!onChange(ctx) PROVE ExplorerTypes'
  <2>1. /\ context' = ctx /\ E!setCluster(ctx.cluster) /\ E!refreshContext(ctx)
        /\ UNCHANGED <<filter, reloaded, main, cards, E!service>>
    BY <1>1 DEF E!onChange
  <2>2. ctx.cluster \in Clusters \cup {None}
    BY DEF E!Contexts
  <2>3. IsView(current') \/ current' = E!NoView
    <3>1. CASE current = E!NoView
      BY <2>1, <3>1 DEF E!refreshContext
    <3>2. CASE current # E!NoView
      <4>1. PICK item \in Items, old \in E!Contexts, extra \in Filters \cup {None} :
                current = E!View(item, old, extra)
        BY <3>2 DEF PaneTypes, IsView
      <4>2. current.item = item /\ current.extra = extra
        BY <4>1 DEF E!View
      <4>3. current' = E!View(item, ctx, extra)
        BY <2>1, <3>2, <4>2 DEF E!refreshContext
      <4>. QED
        BY <4>3 DEF IsView
    <3>. QED
      BY <3>1, <3>2
  <2>4. PaneTypes'
    BY <2>1, <2>3 DEF PaneTypes, IsView, E!View, E!composeWhere
  <2>. QED
    BY <2>1, <2>2, <2>4, SetClusterTypes, TypesStay
<1>2. ASSUME NEW p \in E!Panes, E!onSelect(p) PROVE ExplorerTypes'
  <2>1. /\ E!renderMainPane(p, context, None) /\ filter' = None /\ reloaded' = FALSE
        /\ context' = context
        /\ UNCHANGED <<E!summary, E!service>> /\ context \in E!Contexts
    BY <1>2 DEF E!onSelect, PaneTypes
  <2>. QED
    BY <2>1, PaneRendered, TypesStay
<1>3. ASSUME NEW item \in Items, NEW extra \in Filters \cup {None}, E!NavigateToCard(item, extra)
      PROVE  ExplorerTypes'
  <2>1. /\ E!renderMainPane(item, context, extra) /\ filter' = extra /\ reloaded' = FALSE
        /\ context' = context
        /\ UNCHANGED <<E!summary, E!service>> /\ item \in E!Panes /\ context \in E!Contexts
    BY <1>3 DEF E!NavigateToCard, E!Panes, PaneTypes
  <2>. QED
    BY <2>1, PaneRendered, TypesStay
<1>4. ASSUME NEW item \in Items \ clusterScoped, NEW namespace \in Namespaces,
             E!NavigateToRelated(item, namespace)
      PROVE  ExplorerTypes'
  <2>. DEFINE ctx == [context EXCEPT !.namespace = namespace]
  <2>1. /\ context' = ctx /\ E!renderMainPane(item, ctx, None)
        /\ filter' = None /\ reloaded' = FALSE
        /\ UNCHANGED E!service /\ item \in E!Panes
        /\ (UNCHANGED E!summary \/ E!setCluster(context.cluster))
    BY <1>4 DEF E!NavigateToRelated, E!Panes
  <2>2. ctx \in E!Contexts /\ context.cluster \in Clusters \cup {None}
    BY DEF PaneTypes, E!Contexts
  <2>3. PaneTypes'
    <3>. HIDE DEF ctx
    <3>. QED
      BY <2>1, <2>2, PaneRendered
  <2>. QED
    BY <2>1, <2>2, <2>3, SetClusterTypes, TypesStay
<1>5. ASSUME NEW c \in Clusters, E!Publish(c) PROVE ExplorerTypes'
  <2>1. /\ version[c] < MaxChanges /\ version' = [version EXCEPT ![c] = @ + 1]
        /\ UNCHANGED <<E!bar, E!pane, E!summary, failures>>
    BY <1>5 DEF E!Publish
  <2>2. ServiceTypes'
    BY <2>1, PagesAssumption DEF ServiceTypes
  <2>. QED
    BY <2>1, <2>2, TypesStay DEF E!bar, E!pane
<1>6. CASE E!Tick
  <2>1. /\ rail' \in {None, rail} /\ E!fetchAndApply(currentCluster)
        /\ UNCHANGED <<E!bar, E!pane, currentCluster, latestSummary, timer, E!service>>
        /\ currentCluster \in Clusters \cup {None}
    BY <1>6 DEF E!Tick, SummaryTypes
  <2>2. SummaryTypes'
    BY <2>1, FetchTypes DEF SummaryTypes
  <2>. QED
    BY <2>1, <2>2, TypesStay DEF E!bar, E!pane
<1>7. ASSUME NEW k \in E!Slots, NEW answer \in {E!NoAnswer} \cup 0 .. MaxChanges,
             E!Answered(k, answer), failures' \in 0 .. MaxFailures
      PROVE  ExplorerTypes'
  <2>1. /\ explorerRequests[k] # E!Free
        /\ explorerRequests' = [explorerRequests EXCEPT ![k].answer = answer]
        /\ UNCHANGED <<E!bar, E!pane, currentCluster, latestSummary, rail, timer, version>>
    BY <1>7 DEF E!Answered
  <2>2. explorerRequests[k] \in ExplorerRequest
    BY <2>1 DEF SummaryTypes
  <2>3. [explorerRequests[k] EXCEPT !.answer = answer] \in ExplorerRequest
    BY <2>2 DEF ExplorerRequest
  <2>4. SummaryTypes'
    BY <2>1, <2>3 DEF SummaryTypes
  <2>. QED
    BY <1>7, <2>1, <2>4, TypesStay DEF E!bar, E!pane, ServiceTypes
<1>8. ASSUME NEW k \in E!Slots, E!Answer(k) \/ E!Fail(k) PROVE ExplorerTypes'
  <2>1. CASE E!Answer(k)
    <3>1. E!Answered(k, version[explorerRequests[k].cluster]) /\ failures' = failures
          /\ explorerRequests[k] # E!Free
      BY <2>1 DEF E!Answer, E!Answered
    <3>2. explorerRequests[k].cluster \in Clusters
      BY <3>1 DEF SummaryTypes, ExplorerRequest
    <3>3. version[explorerRequests[k].cluster] \in 0 .. MaxChanges /\ failures \in 0 .. MaxFailures
      BY <3>2 DEF ServiceTypes
    <3>. QED
      BY <3>1, <3>3, <1>7
  <2>2. CASE E!Fail(k)
    <3>1. E!Answered(k, E!NoAnswer) /\ failures < MaxFailures /\ failures' = failures + 1
      BY <2>2 DEF E!Fail
    <3>2. failures' \in 0 .. MaxFailures
      BY <3>1, PagesAssumption DEF ServiceTypes
    <3>. QED
      BY <3>1, <3>2, <1>7
  <2>. QED
    BY <1>8, <2>1, <2>2
<1>9. ASSUME NEW k \in E!Slots, E!Apply(k) PROVE ExplorerTypes'
  <2>1. /\ explorerRequests[k] # E!Free
        /\ explorerRequests' = [explorerRequests EXCEPT ![k] = E!Free]
        /\ UNCHANGED <<E!bar, main, current, currentCluster, timer, E!service>>
        /\ \/ UNCHANGED <<latestSummary, rail, cards>>
           \/ explorerRequests[k].answer > 0 /\ E!Applied(explorerRequests[k])
           \/ E!Applied(None)
    BY <1>9 DEF E!Apply
  <2>2. explorerRequests[k].answer > 0 => explorerRequests[k] \in E!Summaries
    <3>1. explorerRequests[k] \in ExplorerRequest
      BY <2>1 DEF SummaryTypes
    <3>. QED
      BY <3>1, PagesAssumption DEF ExplorerRequest, E!Summaries, E!Waiting, E!NoAnswer
  <2>3. /\ latestSummary' \in E!Summaries \cup {None} /\ rail' \in E!Summaries \cup {None}
        /\ cards' \in E!Summaries \cup {None}
    BY <2>1, <2>2 DEF E!Applied, PaneTypes, SummaryTypes
  <2>4. explorerRequests' \in [E!Slots -> ExplorerRequest \cup {E!Free}]
    BY <2>1 DEF SummaryTypes
  <2>5. SummaryTypes'
    BY <2>1, <2>3, <2>4 DEF SummaryTypes
  <2>6. PaneTypes'
    BY <2>1, <2>3 DEF PaneTypes, IsView, E!View, E!composeWhere, E!bar
  <2>. QED
    BY <2>1, <2>5, <2>6, TypesStay
<1>. QED
  BY <1>1, <1>2, <1>3, <1>4, <1>5, <1>6, <1>8, <1>9 DEF E!Step

AllTypes == TypeOK /\ page \in {"section", "explorer"} /\ ExplorerTypes

LEMMA ExplorerTypesStay == ASSUME ExplorerTypes, UNCHANGED explorer PROVE ExplorerTypes'
  BY TypesStay DEF explorer, ExplorerTypes, E!summary, E!service

LEMMA InitTypes == PagesInit => AllTypes
<1>. SUFFICES ASSUME PagesInit PROVE AllTypes
  OBVIOUS
<1>1. Blank \in Content /\ E!NoContext \in E!Contexts
      /\ 0 \in 0 .. MaxChanges /\ 0 \in 0 .. MaxFailures
  BY PagesAssumption DEF Blank, Content, E!NoContext, E!Contexts
<1>2. TypeOK
  <2>1. /\ open \in BOOLEAN /\ crossed \in BOOLEAN
        /\ options \subseteq Clusters /\ requests \subseteq Request /\ ticking \subseteq Timer
        /\ shown \in Content /\ selectedCluster \in Clusters \cup {None}
    BY <1>1, Zenon DEF PagesInit, Init
  <2>2. /\ listings \in Nat /\ listeners \in Nat /\ areas \in Nat /\ area \in 0 .. areas
        /\ asked \in Nat /\ pendingRetry \in 0 .. asked /\ inputs \in Nat /\ misses \in Nat
    BY DEF PagesInit, Init
  <2>. QED
    BY <2>1, <2>2 DEF TypeOK
<1>3. ExplorerTypes
  BY <1>1 DEF PagesInit, ExplorerTypes, PaneTypes, SummaryTypes, ServiceTypes, E!Panes
<1>. QED
  BY <1>2, <1>3 DEF PagesInit, AllTypes

LEMMA NextTypes == AllTypes /\ [PagesNext]_pages => AllTypes'
<1>. SUFFICES ASSUME AllTypes, [PagesNext]_pages PROVE AllTypes'
  OBVIOUS
<1>. USE DEF AllTypes
<1>1. overview \in E!Panes
  BY DEF E!Panes
<1>2. CASE OpenExplorer \/ OpenSection
  BY <1>1, <1>2, SectionGone, LoadTypes DEF OpenExplorer, OpenSection
<1>3. CASE ReloadExplorer
  BY <1>3, SectionStays, LoadTypes DEF ReloadExplorer
<1>4. CASE InSection(Next)
  BY <1>4, SectionType, ExplorerTypesStay DEF InSection
<1>5. CASE InExplorer(E!Step)
  BY <1>5, SectionStays, ExplorerStepTypes DEF InExplorer
<1>6. CASE UNCHANGED pages
  BY <1>6, SectionStays, ExplorerTypesStay DEF pages
<1>. QED
  BY <1>2, <1>3, <1>4, <1>5, <1>6 DEF PagesNext

\* The types of both pages hold in every state: in particular no request and no
\* timer is of a container or of a number that there was not.
THEOREM PagesTypes == PagesSpec => []TypesOK
<1>1. AllTypes => TypesOK
  BY ExplorerTypesOK DEF AllTypes, TypesOK
<1>. QED
  BY <1>1, InitTypes, NextTypes, PTL DEF PagesSpec
=============================================================================

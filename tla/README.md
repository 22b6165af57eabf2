# Probler in TLA+

Probler is a data-centre manager: collectors poll network devices, hosts, GPUs
and Kubernetes clusters, parsers turn what they read into inventory, and a web
application shows the inventory and edits the targets that are polled.  The
repository holds the configuration of the services (Go, `go/prob`), a
command-line tool (`go/prob/prctl`), the web application (JavaScript,
`go/prob/newui/web`) and the bindings of its messages (`proto`).  The engines
(service bus, inventory, collection, parsing, the table and popup widgets) are
libraries that are not in the repository; here they are external, and modelled
only as far as the code uses them.

Paths below are relative to `src/`; `W` is `src/go/prob/newui/web`.

## Inventory

| component | state it keeps | operations | what makes it correct | modelled in |
|---|---|---|---|---|
| Targets editor (`W/targets/targets.js`, `targets-hosts.js`, bridge in `W/js/app.js`) | the draft (`tempHosts`, `tempConfigs`, edit mode, editing indices, pending flags) and the cache `targets` in an iframe; a stack of popups in the parent | open, add, edit, remove, save at three levels; answers of saves; the table's pages | the popups show the draft, and what is sent is what was shown | `TargetsEditor` |
| Target actions (`W/targets/targets.js`, `W/confirm/confirm.js`) | `targets`, the table's rows, the type selected, the parent's pending confirmations | start, stop, delete, start all, stop all, change of type | a dialog gives at most one request; a page at rest agrees with the service | `TargetActions` |
| Topology browser (`W/topo`) | list of topologies, current topology, selected name, canvas selection, layout, filters and pages of two lists | load the list, select, refresh, canvas drag, change layout, list pages | the map, the name and the counts are of one topology; a page number is in range | `TopologyBrowser` |
| Section loader (`W/js/sections.js`, `app.js`, `hosts.js`) | current section, the content, tables already initialised | load a section, its tabs | the content and its initialisers belong to the section selected last | `SectionLoader`, `Portal` |
| Dashboard (`W/dashboard`) | statistics, subscriptions, debounce timers | first load, refresh on notification | the cards of the page that stays are filled in and current | `Dashboard`, `Portal` |
| Live popups (`W/js/live-popup.js`, detail modals) | subscriptions, debounce timers | open, update, close | a popup refreshes itself only, and stops when closed | `LivePopup` |
| Kubernetes section (`W/kubernetes`) | cluster and category selected, retry timer | list the clusters, select a cluster or a category, fetch the overview, retry | the overview is of the cluster selected, and comes | `K8sOverview`, `K8sPages` |
| Kubernetes explorer (`W/k8s-explorer`) | context, pane, table, latest summary, interval | select, load, navigate, summary every 30 s | rail, cards and table are of the context | `K8sExplorer`, `ClusterRail`, `K8sPages` |
| Links (`go/prob/common/Links*.go`) | none: a constant map | a link id to collector, parser, cache, persistence | every stage agrees on the service and area of a link | `Links` |
| AdCon collector (`go/prob/adcon`) | target map, ticker | create targets, publish the cluster's summary every 30 s | its records reach their caches | `K8sPipeline` |
| Parsers and inventories (`go/prob/parser`, `inv_k8s`, `inv_box`, `inv_gpu`) | services activated in areas | activation | a parser writes where the inventory listens | `K8sPipeline` |
| Serializers (`go/prob/parser/serializers`; the caches' are in `go/serializers`) | none | `Ready`, `Restarts` to and from text | a field says what its text said, and malformed texts give none | `Serializers`, `K8sPipeline`; the caches' `Marshal` is not modelled |
| Generated types (`proto/*.rs`, `proto/inventory.proto.old`) | the fields of a message, and those it did not know | merge, sizes, write, clear, for each of the messages | what is written is read, also through older bindings and broken streams | `WireTypes`, one module for each binding, `Wire` |
| prctl (`go/prob/prctl`, `go/prob/common/commands`) | none | list, add devices, top | a command asks the service that has the data | not modelled |
| Session (`W/js/app.js`, `W/login.html`) | token in `sessionStorage`, flags in `localStorage` | logout, authenticated request | signed-out users see the login page | not modelled |
| Mobile application (`W/m`) | one section name, the library's forms | load a section, edit targets | as the desktop's | not modelled |
| Alarms, hosts and network views (`W/alm`, `hosts-modal*`, `network-devices*`, ...) | column definitions, modals | show | display only | not modelled |
| Start-up programs, agents, web server | what the libraries keep | activate a service | - | not modelled |

How they interact.  The browser application and the services speak HTTP: a page
posts, patches, deletes or gets, and each call's answer continues an `async`
function later, between any two other events.  The targets page runs in an
iframe; its popups and dialogs are drawn by the parent window, and the two post
messages to each other.  The dashboard lives in the document that the section
loader replaces; its requests, timers and subscriptions outlive that document.
The Kubernetes section and the explorer are two pages, and going from one to the
other loads it anew.  Inside the services a target created by an operator is
polled by the collector of its link; the job's result goes to the link's parser,
and the parser's to the link's inventory cache, which the pages list; the
Kubernetes collector also posts a summary of its cluster itself.

What is hard.  (1) Every `await` in the pages: state read before it is used
after it, and no answer carries a number that would tell a late one.  (2) The
popup stack is shared: `Layer8DPopup.close()` closes what is on top, whoever
calls it.  (3) Nested drafts in module-level variables with flags that defer a
refresh.  (4) Timers: debounces, delayed initialisation, retries, the 30 s
intervals.  (5) Link ids, service names and areas repeated in several programs.
(6) Two programs whose bindings of one schema differ in age.  `PROJECT.json`
lists these hazards at their lines.

## Modules

### TargetsEditor

The draft of a target, the three levels of popups that edit it (target, host,
protocol) and the saves.  Variables have the names of the module-level variables
of `targets.js`; two are added: `popups`, the parent's stack, each with the form
it shows, and `toParent`/`toIframe`, the messages on their way.  A form
(`targetForm`, `hostForm`, `configForm`) is what the generated HTML shows: rows
with an index, and inputs.  Each function of `targets-hosts.js` and `targets.js`
is one action, with the messages it posts; the message listeners of both
windows are `popupShow`, `popupUpdate`, `popupClose` and `IframeReceives`.
`SaveAnswered` is what follows the `await` of a save: by then the user may have
opened another target.

Properties.
- `DraftIsShown`: with no message on its way, the popups are those of the draft,
  each showing its part of it.
- `SendsWhatIsShown`: a request carries what its popup showed.  The exception is
  the one the code has: the answer to an earlier save clears the draft of the
  target opened meanwhile (`closeTargetModal`), which is then sent as a new target
  without hosts - a POST, of an id that the page does not know.
- `HostsDistinct`: a draft never lists a host twice, although an id is compared with
  the others only when a host is added: an edited host keeps its index, whatever
  answers wipe the draft or close popups meanwhile.
- `NoRefreshOwed`: a refresh deferred while a child popup was open is done, or
  dropped with its draft, when the child is closed.

### TargetActions

The operations without a form.  `targets`, `rows` and `selectedInventoryType`
are the page's; `pendingConfirmations` is `confirm.js`'s; `server` is what the
service has.  `requests` are handled and answered in any order; a load takes its
page when the service handles it and delivers it later, so a page may be older
than an answer that arrives before it.

- `OneRequestPerDialog`: as many requests as dialogs, at most, although a closing
  dialog's buttons still react and a dialog left by its X stays pending.
- `SettledIsFresh`: when everything is answered the page shows what the service
  has.  It holds because every answered change loads the table again and the
  table delivers its pages in the order asked.  Its exception, `missed`, is the
  target whose change was answered when it was no longer in the cache: assigning
  its state throws before the table is loaded again (`targets.js:614`).

### TopologyBrowser

The topology page.  The variables are the globals of `topology-core.js`, with
the two lists of the panel as functions (`page`, `filter`, `filtered`); `select`
is the menu's value, `scene`, `info` and `view` are what the page shows, `loads`
the requests without an answer.  A topology is the request it answers: name,
layout and canvas.  `Answer` is what follows the `await` of a load: no answer
tells whether another was asked since.  The handlers of a drag are registered
twice, in `topology-core.js` and in `webgl-topology.js`; both are modelled.

- `ShownTogether`: map, counts and lists are of one topology, although a search
  waits 300 ms and answers come in any order.
- `AskedIsSelected`, `NewestIsShown`: what was asked last is what is selected,
  and is what is shown once its answer is the last to come.  An older answer that
  comes later does replace it; the code has no means against it.
- `NeverStuckLoading`: every failure takes the message away.
- `OneSelectionPerDrag` (violated, `topology_drag`): a drag selects two canvases
  with different coordinates, and asks twice.
- `PageExists` (violated, `topology_pages`): the page is reset when a topology is
  asked and not when it is shown, so that a page chosen between two answers may
  not exist in the second topology.

### SectionLoader, Dashboard and Portal

`SectionLoader` is `loadSection` in its four steps: the click (`loadSection`),
the page's arrival (`Fetched`, `FetchFailed`), the timer after which it is shown
(`Show`) and the one after which it is initialised (`Initialise`).  Loads are
numbered in the order of the clicks; timers of equal delay run in the order they
were set.  `ClickTab` is the tab listener of `hosts.js`.

`Dashboard` has the cards: the first load with its three requests, the
subscription when they are answered, the debounced refresh.  Counts are versions.
Cards are looked up before the request or after it (`late`), as the three
functions do differently.  It has no specification of its own, for it does not
decide when its document comes and goes: `document` is a parameter.

`Portal` composes them.  `document` is the number of the load whose page is the
content while that is the dashboard's; when the loader replaces the content the
cards are those of a `NewDocument`; when the loader initialises a load of the
dashboard, `initializeDashboard` runs, on whatever page is there by then.  All
other steps of either leave the other alone, in any order.

- `ContentInitialised`: the page that stays has had its own section's initialiser.
- `LastAskedStays`: it is the one asked last, unless an answer overtook another.
- `CardsSettle`: on the dashboard that stays, at rest, a card shows the service's
  counts or none.  Two cases are excepted, both the code's: an answer overtaken
  by a later one's, and a change between the first load and the subscription.
- `CardsFilled`: no card of it is left blank, although the initialiser that asked
  may have been another load's.
- `EveryLoadShown` (liveness): no click is left without page or error.
- `TabHasTable` (violated, `sections_tabs`): the flag that the table of virtual
  machines exists outlives the table.

### LivePopup

`LivePopup.subscribe` and the three detail popups that use it, on the shared
stack of popups.  The identifier of a popup is its number; `timers` are the
subscriptions whose debounce runs.

- `UnsubscribedOnClose`: what is subscribed is open, whoever closed the others.
- `ChangeIsPending`: the debounce loses no change.
- `NoStrangerClosed` (action property): a timer that fires is one of an open
  popup, so what it closes is that popup or one stacked above.
- `ChangeReachesPopup` (liveness): a popup does not stay out of date, but for
  the case the code leaves: its timer closed the popup above it.

### K8sOverview, K8sExplorer, ClusterRail and K8sPages

`K8sOverview` is the Kubernetes section: the list of clusters, the menu, the
tabs, and the overview of the cluster selected with its retry every 5 seconds.  A
request and a timer carry the cluster they are for; `area` tells the overview's
container from those that were replaced, in which an answer draws unseen.  A
timer is of the request that missed, and `miss` keeps timers in their order.

`K8sExplorer` is the explorer: the context bar, the rail with the counts of the
cluster's summary, the main pane (overview with cards, table of a resource, or a
hint) and the interval that asks for the summary again.  `composeWhere`,
`renderMainPane`, `setCluster` and `fetchAndApply` are the functions of those
names; `Apply` is what follows the `await` of `fetchAndApply`, which drops the
answer for a cluster that is no longer selected.  `filter` is a history
variable: what the pane was reached with; it stays when the page is loaded again
with the same pane, which `reloaded` notes.

`ClusterRail` is the abstract specification of the rail: it shows a summary
published for the selected cluster or nothing, is blank from the moment another
cluster is selected, and may draw or blank at any time.  It knows no requests, no
interval and no order of answers.

`K8sPages` composes the two pages: leaving one for the other, or loading the
explorer again, drops its requests, timers and state.

- `OverviewIsOfSelected`: an overview at rest is of the cluster selected.  It is
  not when, at the moment the user asked for a cluster, an answer for another was
  awaited, or a timer of another ran that a later one had replaced in
  `pendingRetry` (`crossed`): `show` draws every answer and stops one timer only.
- `OverviewComes` (liveness): a cluster that reports late is shown in the end.
- `RailFollows`: the explorer's rail implements `ClusterRail`, without exception,
  for its answers are guarded and the overview's are not.
- `RailSettles` (liveness): once cluster and summary stay, the rail comes to show
  that summary, whatever else is still on its way.
- `CardsAgree`: with no request on its way, cards and rail are of one summary,
  although a change of cluster blanks the rail only.
- `TableIsOfContext`: the table asks for the pane's resource in the bar's context
  with the filter it was reached by, although a view outlives its pane (a hint
  leaves it) and a context change rebuilds it.  A page loaded again is excepted:
- `FilterSurvives` (violated, `k8s_reload`): `navigateTo` writes the filter of a card
  to the address "so it survives refresh", and a load reads the group and the item
  only; the table comes back without the filter.

### Links, Serializers and K8sPipeline

`Links` is the table of `Links.go` and `Links_k8s.go` as operators: collector,
parser and cache of a link.  `Serializers` has both directions of the parser's
`Ready` and `Restarts`, on texts that are records of their parts: a numeral is a number or
not, with the widths of `Atoi` (`IntLimit`) and of the `int32` field
(`FieldLimit`).  `K8sPipeline` extends them with the programs: `adcon` makes a
target for each link (`PostTarget`) and publishes the cluster's summary
(`publish`), a poll sends a job to the link's parser (`Poll`), which makes a
record of the text and sends it to the link's cache (`Parse`, `Store`).
Programs start and stop in any order; what is sent to nobody is lost (`Lose`).
The caches register serializers
of their own (`go/serializers`), with the same `Unmarshal` and a `Marshal` that gives
no text; nothing in the repository asks a cache for a text, and they are left out.
Of the parser's `Marshal` no step of the model is made either: a theorem says what it
means to `Unmarshal`.

- `OwnCache`: records are in the cache of their own kind; parsers and caches
  share names, and the areas alone keep them apart.
- `FieldSaysText`: the fields of a cached record say what the collector's text said,
  number by number, and a text without a slash gives no value.  A number that does
  not fit its field is excepted: it becomes another without an error, and what is no
  number becomes zero: `a/b` is cached as 0/0, where `Ready.go:48` has no value for
  what is malformed, and `3 5h12m`, without a parenthesis, is read as 0 restarts.
- `Refilled` (liveness): a cache that lost its records gets them again.

### WireTypes, the bindings and Wire

The ten files of `proto` are generated: for each message `merge_from`,
`compute_size`, `write_to_with_cached_sizes` and `clear`, which are the same code
for every field of a kind.  A message is therefore its table of fields: number,
wire type, type and kind (`WireTypes`), one module for each binding (`Gpu`,
`Inventory`, `Istio`, `K8s`, `K8sResources`, `KubernetesCommon`,
`KubernetesNetworking`, `KubernetesWorkloads`, `Protocols`, `VCluster`), each
definition mapped to the lines of its message.  `InventoryOld` lists where
`inventory.proto.old` gives a number another type.  `MCWire` puts them together.

`Wire` is the code for a field of each kind, and the way of a message: a writer
fills it in and writes it, a relay reads it and writes what it has, a reader
reads that.  The stream is the sequence of tags, numbers, lengths and contents;
`stack` are the calls of `merge_from`.  The relay lacks any part of the fields
that are set (an older binding of the same schema), the writer may have the
schema of `inventory.proto.old` (`theirs`; `ours` are the bindings of today), and
a stream may break off, after which the message is cleared and read again.
`Schema` and `Earlier` are constants, of which `SchemaAssumption` says what the
generator sees to (`WellFormed`) and `EarlierAssumption` how the old schema
differs from today's; `MCWire` gives them the schemas of the repository, and TLC
evaluates both on these.

- `NothingLost`: what the reader has is what was written, also through a relay
  that did not know all of it: empty messages and defaults in a list included.
- `RelayReads`: the relay has every field it knows just as it was written.
- `NeverMore`: a message used again holds nothing of the first try.
- `NotMisread`: what a program of the old schema wrote is not taken for a field of
  today.  The exception is number 2 of `NetworkDeviceList`, a map then and a
  message today: both are written with a length, and it is read.
- `Aligned`: lengths announced are lengths written, so reading stands at a tag or
  at the end of what it is in.

No Rust program of the repository uses the bindings, and `mod.rs` declares `gpu`
only.  The Go bindings, which the programs use, are of the same schemas, and agree
with them on every number and type.

## Runs

| run | model | bounds | distinct states | shows |
|---|---|---|---|---|
| `editor` | TargetsEditor | 1 target, in the cache or not, 2 hosts, 1 protocol, 2 saves | 4.9 M | the draft, its popups and its saves agree |
| `actions` | TargetActions | 2 targets, 2 types, 3 clicks | 1.2 M | no dialog gives two requests; the table settles |
| `topology` | TopologyBrowser | 2 topologies, 2 layouts, 1 canvas, 1 list, 3 requests | 3.3 M | the page is of one topology, the last asked |
| `topology_drag`, `topology_pages` | TopologyBrowser | 2 topologies | - | two disagreements with comments of the code |
| `portal` | Portal | 3 sections, 3 loads, 1 card, 1 change | 0.46 M | pages are initialised and in order, the cards filled in and current |
| `sections_tabs` | SectionLoader | 3 sections, 4 loads | - | the tab without a table |
| `live_popups` | LivePopup | 3 records, 5 popups, 5 changes | 801 | subscriptions, debounce and stack agree |
| `pipeline` | K8sPipeline | 5 links, 3 stops, 3 numbers and no number | 64 k | records reach their caches, with what their texts said, again and again |
| `k8s_pages` | K8sPages | 2 clusters; section: 3 acts, 2 misses; explorer: 1 namespace, 2 resources, 1 filter, 2 requests, 1 summary, 1 failure | 0.68 M | overview, rail, cards and table follow the selection |
| `k8s_reload` | K8sPages | as `k8s_pages` | - | the filter in the address is not read |
| `wire` | MCWire | every message, 2 fields set, 1 broken stream | 1.0 M | the bindings agree on every message |

The four runs without a number of states expect a violation and stop at it; each
is a finding, at the line whose comment or documentation the code contradicts.

Why the bounds are enough.  What the properties need is two of everything that
can be confused (targets, topologies, sections, records, clusters), one more
request than can cross, and an event between each two steps of a handler.

- A target that the page knows and one that it does not are the two cases that the
  editor's code tells apart.  The table's pages are empty, so one target is both: new
  until a save is accepted, then known, with whatever hosts it was given, until the
  next load.  The second save is the late answer, and the one that a draft it has
  wiped is sent by; two hosts give indices and collision.
- Three loads of a section let one come late and be overtaken while a third is
  asked; the third section is one that is neither the dashboard nor has tabs.
  The cards of the dashboard share no state and one card is followed; one change
  suffices to make a value stale, before, during or after each request.
- The links do not depend on each other and neither do the two lists of the
  topology panel: one is followed at a time.  Of the links the pipeline follows
  five: the cluster's own, which the publisher feeds as well, the pods', whose
  records have the fields of the serializers, two whose cache is not named after
  the link and the last of the table; the parsers of all share one name.
  Numbers are one that fits a field, the least that does not and the least that
  does not fit `Atoi` either; widths are 16 and 4 in place of 2^63 and 2^31.
- The third act and the second miss of `k8s_pages` are what it takes to lose a
  timer.  In the explorer the acts are unbounded and two requests are on their
  way: one late, one current.  One summary of each cluster, for a cluster without
  a summary and one with it are what `Apply` tells apart.
- A message with two fields set, in it or in a message inside it, gives every pair
  of neighbours on the stream, every field under every other, and any one or both
  of them unknown to the relay.  Deeper messages are empty: `merge_from` calls
  itself and no level knows its depth.  One stream that breaks off, anywhere, is
  cleared as a second would be.

For what is proved the bounds do not matter.

Deadlock is allowed where the user may stop clicking or the bounds end a
behavior (every cfg with `CHECK_DEADLOCK FALSE`); it is checked in `editor`.

## What is assumed of the surroundings

- One browser tab, one user.  A popup covers the page and the iframe beneath it;
  a message between the two windows arrives before the next click.
- `Layer8DPopup.close()` closes the popup on top and calls its `onClose`.  Whether the
  buttons of a popup react while it fades away is up to the library, which is not in
  the repository.  The buttons of a dialog are `confirm.js`'s own, and `TargetActions`
  lets them react; the Save and X of the editor's popups are the library's, and
  `TargetsEditor` takes a popup that is closed to be gone for the user.  If they did
  react, the Save of a new host after its X would add it all the same, and close the
  target's popup instead of its own.
- The table widget delivers its pages in the order they were asked.
- Timers of equal delay fire in the order they were set.
- WebGL is available; `initializeKubernetes` runs once for each load of its
  section.
- Whether writing a namespace through the context bar calls its `onChange` is the
  library's: `NavigateToRelated` allows both.
- The configuration that tells adcon that it is in a cluster does not change.
  A message is lost when its receiver does not run, and not otherwise.
- The stream library keeps the fields a binding does not know and writes them
  after those it knows.

Fairness.  `SectionLoader` and `Portal`: requests end and the loader's timers
run; nothing is asked of the dashboard.  `LivePopup`: timers run.  `K8sPages`: on
the section requests end and timers run; on the explorer the interval fires, and
each request is answered or fails and is handled.  Each is weak fairness of steps
of the page that is open, since leaving a page drops them.  `K8sPipeline`: a
program that stopped is started again (the deployments restart it), its main loop
and timers run, each message arrives or is lost.  The users' actions are never
fair.  The other models have safety properties only.

## Proofs

All theorems hold for every value of the constants, under the assumptions named
in the modules (`EditorAssumption`, `ActionsAssumption`, `BrowserAssumption`,
`LoaderAssumption`, `PortalAssumption`, `PopupAssumption`, `OverviewAssumption`,
`PagesAssumption`, `SerializersAssumption`, `PipelineAssumption`,
`WireAssumption`, `SchemaAssumption`, `EarlierAssumption`), which the runs
evaluate.  Each module begins with its types, which the rest cites.

- `TargetsEditorProofs`: types, then `DraftIsShown` and `SendsWhatIsShown`.
  Neither is inductive, for a popup may be out of date while
  a message is on its way.  The invariant `DraftInv` says for each message that
  can be on its way how deep the stack is and which popup owes a refresh; after
  an answer has wiped a draft it says only that the page is in add mode.  The
  other two hold whatever a wipe has closed: `NoRefreshOwed` by `Shape`, which
  says at which popups a message can still arrive (`Bridged`) and that a deferred
  refresh waits for a popup that has closed or is about to (`Owing`);
  `HostsDistinct`, on top of it, by `Edited`: as long as an index is kept, its
  popup is there, was asked for or has just closed, and that popup, the messages
  for it and its save all name the host at the index, unless the draft is empty.
- `TargetActionsProofs`: types, `OneRequestPerDialog` and `SettledIsFresh`.  For the
  first, a question is paid for by its dialogs as long as it is pending and until
  its answer is handled (`Paid`).  For the second, before the page is at rest it may
  differ from the service only in the targets of which a change was accepted and
  not answered yet, or answered too late (`Dirty`): the page of the last load if
  one is on its way, and otherwise the cache (`Shown`).
- `TopologyBrowserProofs`: types and the four properties of `topology`.  Two facts
  make them inductive: the topology kept for the lists is that of the panel
  (`CurrentShown`), and no request has a number not given yet (`Numbered`).
- `PortalProofs`: first the loader alone.  `LastAskedStays` and
  `ContentInitialised` speak of a page at rest; `InOrder` says where loads are
  before (those without an answer follow the last page that came), and
  `WillInitialise` that the content had its initialiser or has it waiting.
  `PortalImplementsLoader` carries both to the composed page: every step of it is
  a step of the loader or leaves the loader alone.  Then `CardsSettle` and
  `CardsFilled`, by `CardsInv`: of each card of a page that was initialised, a
  change is noticed or on its way to be, or some request is such that it and all
  later ones bring what the service has and the card awaits or shows one of them
  (`UpToDate`); and the card is filled in or will be.
- `LivePopupProofs`: types and the three safety properties; their conjunction is
  inductive as it stands.
- `K8sPagesProofs`: `RailImplementsClusterRail` is the refinement: initial states
  map to initial states, and each step of either page to a step of `ClusterRail` or
  a stutter; what it needs is that no answer is of a summary not yet published
  (`Published`).  `CardsAgree` needs `RailIsLatest` - a change of cluster blanks the
  rail and keeps the latest summary, but sends a request - and `CardsAreLatest`.
  `OverviewIsOfSelected` needs `SectionInv`: unless `crossed`, every request and
  every timer is of the cluster selected, and the container shows it or awaits it.
  `TypesOK` is proved last, page by page.
- `K8sPipelineProofs`: `OwnCache` and `FieldSaysText`, by where a message may be
  going and what it carries there (`Addressed`, `Carried`); beneath them, that no
  two of the 41 links share an area, no parser has a cache's address, and a numeral
  that fits is the numeral of the number read from it, for any widths.  From the last
  follows `ParserReadsBack`, of no run: what the parser's serializers read they read
  again from the text they write of it, which is the first one if its numbers fit.

- `WireProofs`: all six properties of `Wire`, for every well-formed schema.  As in
  the model, messages two levels down are empty.  The argument has three parts.
  - What a stream is read as.  `ReadsTo` is a relation between parts, the message
    before them and the message after them: a set of readings is `Sound` if each of
    its readings is of no parts, or begins with an item (a tag and what it
    announces) whose contents and remainder are read by readings of the set; a
    reading holds if it is in a sound set.  It says what `merge_from` does without
    being recursive, and `ReadsUnfold` is its one induction step.  Induction is over
    sets, not predicates (`SetInduct`, `NatInduct`): sums and concatenations over
    the fields of a message are folds, and become functions on the subsets of a
    finite set (`ConcatSteps`, `SumSteps`).
  - What is read of what is written: of a single value, of a field of each kind
    (`FieldReads`, or `FieldSkips` if it is not known), of a message
    (`Assemble`: its fields in any order, the unknown ones kept by their number),
    and of messages in messages (`InnerGoes`).  `SourceGoes` puts this together: for
    every message that a writer can make and every set of fields that the relay
    lacks, the relay reads a message that has what it knows, and what it writes is
    of the length that it announces and is read as what was sent.  Number 2 of
    `NetworkDeviceList` from a program of the old schema has lemmas of its own
    (`OddGoes`): it is read as a message of which no field is known, and shifts
    nothing after it.
  - The invariant, `IInv`.  Where `SourceGoes` says what there is to be read
    (`Goal`), `Leads` says that it still will be: for each call of `merge_from`, the
    rest of its piece of the stream is read, from what its message is when the call
    inside it has returned, as what that message is in the end.  An item, a message
    that begins and one that ends each keep this (`PassStep`, `EnterStep`,
    `ReturnStep`); a stream that breaks off ends it, and `Retry` begins again with
    an empty message.  `NothingLost`, `RelayReads` and `Aligned` are what it says at
    the end of the stream or at the next tag; `NeverMore` and `NotMisread` are parts
    of it (`Never`, `Clean`), the first because reading never shortens a list
    (`ReadsGrow`).  TLC checks the properties and not `IInv` itself, in which
    `ReadsTo` quantifies over all sets of readings.

The safety properties of every passing run are proved.  Liveness (`EveryLoadShown`,
`ChangeReachesPopup`, `OverviewComes`, `RailSettles`, `Refilled`) is only
model-checked: it rests on fairness and ENABLED, which are beyond the prover.

## Not modelled

- Session.  Signing in is the library's page: `login.html` redirects to it and no
  page loads `js/login.js`.  What is left here copies a token once when the page
  starts and removes it at the end, without a step between.
- Mobile application.  A second client of the same services, made of the library's
  navigation and forms; what it keeps itself is the name of a section.
- `prctl`.  Commands that send one request and print a table.  One of them asks where
  nothing is: `getClusters.go:46` asks area 1, where `Links_k8s.go:19` and
  `inv_k8s/main.go:37` place the cluster's record, and `Links_k8s.go:99` - the table
  that `Links` is - puts its cache in area 10.
- `health-detail-live.js` does nothing: `app.html` loads it (line 322) before
  `live-popup.js` (line 371), and it returns when `LivePopup` is not defined.
- Alarms, hosts and network views, the WebGL renderer: columns, formats, drawing.
- Start-up programs, maintenance, log and network agents, web server: each starts
  library services.  The Layer 8 libraries themselves are not in the repository.
- Of the generated types, the descriptors for reflection and text formatting:
  tables that the library reads.
- Of modelled components: the port and the other inputs of a protocol's form; zoom,
  pan and the details dialog of the topology page; the contents of detail popups;
  the tables of the categories of the Kubernetes section, which are a library's;
  the explorer's search box, favourites, recents and detail popups; the network
  device and GPU links, which are in `Links` and are not followed; persistence,
  which has the area of the cache.

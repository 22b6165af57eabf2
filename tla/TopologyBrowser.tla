--------------------------- MODULE TopologyBrowser ---------------------------
(***************************************************************************)
(* The topology page: a menu of topologies, a map drawn by WebGL, an       *)
(* information panel and two paged, searchable lists.  A topology is asked *)
(* from the server, laid out there and cut to the canvas the user dragged; *)
(* it is asked again when the topology, the layout or the canvas changes,  *)
(* and no request is cancelled or numbered.                                *)
(*                                                                         *)
(* topo/topology-core.js, topology-data.js, topology-ui.js, topo/app.js    *)
(* with WebGL available.  Zoom and pan, which only move the camera, the    *)
(* details dialog and the legend are left out.                             *)
(***************************************************************************)
EXTENDS Integers, Sequences, FiniteSets

CONSTANTS
    Names,          \* of topologies
    Listings,       \* the sets of names that the server may list
    Layouts,
    Canvases,       \* selections of a part of the map
    Texts,          \* what is typed in a search field
    Lists,          \* the lists of the panel: nodes and links
    Pages,          \* Pages[n][f]: pages of a list of topology n filtered by f
    NoFilter,       \* the empty search text
    None,
    MaxLoads,       \* bound: topologies asked for in a behavior
    MaxListLoads,   \* bound: lists of topologies asked for
    MaxInputs       \* bound: clicks in the lists, texts typed and drags

Filters == Texts \cup {NoFilter}

Load == [n : 1..MaxLoads, name : Names, layout : Layouts,
         canvas : Canvases \cup {None}]
Info == [name : Names \cup {None}, topology : Load]
View == [topology : Load, filter : Filters, page : Nat]
Reply == [load : Load, ok : BOOLEAN]

ASSUME BrowserAssumption ==
    /\ Listings \subseteq SUBSET Names
    /\ None \notin Names \cup Canvases \cup Filters
    /\ None \notin Load \cup Info \cup View \cup Reply
    /\ Pages \in [Names -> [Filters -> Nat]]
    /\ {MaxLoads, MaxListLoads, MaxInputs} \subseteq Nat

VARIABLES
    topologies,             \* names the server listed
    select,                 \* the menu's value
    selectedTopologyName, currentTopology, canvasSelection, layoutMode,
    page, filter,           \* nodesPage and linksPage, nodesFilter and linksFilter
    filtered,               \* by list, the pages of filteredNodes, filteredLinks
    typed,                  \* by list, texts whose 300 ms have not passed
    typing,                 \* by list, the last of them is the field's on screen
    scene,                  \* the topology drawn
    info,                   \* name and topology of the information panel
    view,                   \* by list, what it shows
    status,                 \* the kind of message in the status bar
    loads, listLoads,       \* requests without an answer
    isSelecting,            \* a drag, for the handlers of topology-core.js
    webglSelecting,         \* the same drag, for those of webgl-topology.js
    newest,                 \* history: the last request since the menu was cleared
    last,                   \* history: the last answer
    dragLoads,              \* history: requests made by the last drag
    asked, askedLists, inputs   \* counters

selection == <<select, selectedTopologyName>>
lists == <<page, filter, filtered, typed, typing>>
panel == <<info, view>>
drag == <<isSelecting, webglSelecting, dragLoads>>
history == <<newest, last, asked>>
listLoading == <<topologies, listLoads, askedLists>>
vars == <<selection, currentTopology, canvasSelection, layoutMode, lists, scene,
          panel, status, loads, listLoading, drag, history, inputs>>

Init ==
    /\ topologies = {} /\ select = None
    /\ selectedTopologyName = None /\ currentTopology = None
    /\ canvasSelection = None /\ layoutMode \in Layouts
    /\ page = [l \in Lists |-> 0] /\ filter = [l \in Lists |-> NoFilter]
    /\ filtered = [l \in Lists |-> 0]
    /\ typed = [l \in Lists |-> << >>] /\ typing = [l \in Lists |-> FALSE]
    /\ scene = None /\ info = None /\ view = [l \in Lists |-> None]
    /\ status = "loading"
    /\ loads = {} /\ listLoads = 1 /\ askedLists = 1
    /\ isSelecting = FALSE /\ webglSelecting = FALSE /\ dragLoads = 0
    /\ newest = None /\ last = None /\ asked = 0 /\ inputs = 0

(***************************************************************************)
(* Asking for topologies                                                   *)
(***************************************************************************)
resetPagination ==
    /\ page' = [l \in Lists |-> 0]
    /\ filter' = [l \in Lists |-> NoFilter]
    /\ filtered' = [l \in Lists |-> 0]
    /\ UNCHANGED <<typed, typing>>

\* The request is made before the first await, from the state of this moment.
Ask(name, layout, canvas) ==
    LET load == [n |-> asked + 1, name |-> name, layout |-> layout,
                 canvas |-> canvas]
    IN  /\ asked < MaxLoads
        /\ asked' = asked + 1
        /\ loads' = loads \cup {load}
        /\ newest' = load
        /\ status' = "loading"
        /\ resetPagination
        /\ UNCHANGED last

loadTopology(name, layout) ==
    /\ Ask(name, layout, None)
    /\ selectedTopologyName' = name

loadTopologyWithCanvas(canvas, layout) ==
    /\ Ask(selectedTopologyName, layout, canvas)
    /\ UNCHANGED selectedTopologyName

NoLoad == UNCHANGED <<loads, history, lists, selectedTopologyName>>

loadTopologyList ==
    /\ askedLists < MaxListLoads
    /\ askedLists' = askedLists + 1
    /\ listLoads' = listLoads + 1
    /\ status' = "loading"
    /\ UNCHANGED topologies

\* The mouse is held down during a drag.
Free == ~isSelecting

(***************************************************************************)
(* The menus and buttons                                                   *)
(***************************************************************************)
SelectTopology(name) ==
    /\ Free /\ name \in topologies /\ name # select
    /\ select' = name
    /\ loadTopology(name, layoutMode)
    /\ UNCHANGED <<currentTopology, canvasSelection, layoutMode, scene, panel,
                   listLoading, drag, inputs>>

\* The option without a value.  The scene stays: only the SVG overlay is emptied.
clearTopology ==
    /\ Free /\ select # None
    /\ select' = None
    /\ currentTopology' = None /\ selectedTopologyName' = None
    /\ resetPagination
    /\ canvasSelection' = None
    /\ info' = None /\ view' = [l \in Lists |-> None]
    /\ status' = "ready"
    /\ newest' = None
    /\ UNCHANGED <<layoutMode, scene, loads, listLoading, drag, last, asked, inputs>>

refresh ==
    /\ Free
    /\ \/ /\ select # None
          /\ loadTopology(select, layoutMode)
          /\ UNCHANGED <<select, listLoading>>
       \/ /\ select = None
          /\ loadTopologyList
          /\ NoLoad /\ UNCHANGED select
    /\ UNCHANGED <<currentTopology, canvasSelection, layoutMode, scene, panel,
                   drag, inputs>>

\* A choice of the layout without its reload.
setLayoutOnly(layout) ==
    /\ Free /\ layout # layoutMode
    /\ layoutMode' = layout
    /\ NoLoad
    /\ UNCHANGED <<select, currentTopology, canvasSelection, scene, panel, status,
                   listLoading, drag, inputs>>

setLayout(layout) ==
    /\ Free /\ layout # layoutMode
    /\ layoutMode' = layout
    /\ CASE selectedTopologyName = None -> NoLoad /\ UNCHANGED status
         [] selectedTopologyName # None /\ canvasSelection # None ->
                loadTopologyWithCanvas(canvasSelection, layout)
         [] OTHER -> loadTopology(selectedTopologyName, layout)
    /\ UNCHANGED <<select, currentTopology, canvasSelection, scene, panel,
                   listLoading, drag, inputs>>

\* Back to the whole map.
resetZoom ==
    /\ Free /\ canvasSelection # None
    /\ canvasSelection' = None
    /\ IF selectedTopologyName # None
       THEN loadTopology(selectedTopologyName, layoutMode)
       ELSE NoLoad /\ UNCHANGED status
    /\ UNCHANGED <<select, currentTopology, layoutMode, scene, panel, listLoading,
                   drag, inputs>>

(***************************************************************************)
(* A drag with Shift selects a canvas.  Both sets of handlers see it: the  *)
(* WebGL canvas lies inside the map container.                             *)
(***************************************************************************)
Input == inputs < MaxInputs /\ inputs' = inputs + 1

\* The selection of both sets of handlers begins.
mousedown ==
    /\ Input /\ Free
    /\ isSelecting' = TRUE /\ webglSelecting' = TRUE
    /\ dragLoads' = 0
    /\ UNCHANGED <<selection, currentTopology, canvasSelection, layoutMode, lists,
                   scene, panel, status, loads, listLoading, history>>

SelectCanvas(canvas) ==
    /\ canvasSelection' = canvas
    /\ loadTopologyWithCanvas(canvas, layoutMode)
    /\ dragLoads' = dragLoads + 1

\* handleMouseUp of the canvas, also when the mouse leaves it, and
\* onSelectionComplete.  A drag shorter than 10 pixels selects nothing.
webglMouseUp(canvas) ==
    /\ webglSelecting
    /\ webglSelecting' = FALSE
    /\ IF canvas # None /\ selectedTopologyName # None
       THEN SelectCanvas(canvas)
       ELSE NoLoad /\ UNCHANGED <<canvasSelection, status, dragLoads>>
    /\ UNCHANGED <<select, currentTopology, layoutMode, scene, panel, listLoading,
                   isSelecting, inputs>>

\* finalizeCanvasSelection.  Its coordinates follow the page's own zoom, not the
\* camera's, and differ from those of the WebGL handlers.
documentMouseUp(canvas) ==
    /\ isSelecting /\ ~webglSelecting
    /\ isSelecting' = FALSE
    /\ CASE canvas = None ->
                /\ status' = "info"
                /\ NoLoad /\ UNCHANGED <<canvasSelection, dragLoads>>
         [] canvas # None /\ selectedTopologyName = None ->
                /\ canvasSelection' = canvas
                /\ status' = "info"
                /\ NoLoad /\ UNCHANGED dragLoads
         [] OTHER -> SelectCanvas(canvas)
    /\ UNCHANGED <<select, currentTopology, layoutMode, scene, panel, listLoading,
                   webglSelecting, inputs>>

(***************************************************************************)
(* Answers                                                                 *)
(***************************************************************************)
IsEmpty(topology) == Pages[topology.name][NoFilter] = 0

\* updateNodesList and updateLinksList.  A topology without nodes is shown as
\* such, and leaves the filtered list of the one before it.
Shown(topology, l) == [topology |-> topology, filter |-> filter[l], page |-> page[l]]

Filtered(topology, l) ==
    IF IsEmpty(topology) THEN filtered[l] ELSE Pages[topology.name][filter[l]]

\* Mutation: the links are left as they are.
renderWithoutLinks(topology) ==
    /\ info' = [name |-> selectedTopologyName, topology |-> topology]
    /\ view' = [l \in Lists |-> IF l = "links" THEN view[l] ELSE Shown(topology, l)]
    /\ filtered' = [l \in Lists |-> Filtered(topology, l)]
    /\ typing' = [l \in Lists |-> FALSE]
    /\ scene' = topology

\* Mutation: the panel keeps the name it shows.
renderKeepsName(topology) ==
    /\ info' = [name |-> IF info = None THEN selectedTopologyName ELSE info.name,
                topology |-> topology]
    /\ view' = [l \in Lists |-> Shown(topology, l)]
    /\ filtered' = [l \in Lists |-> Filtered(topology, l)]
    /\ typing' = [l \in Lists |-> FALSE]
    /\ scene' = topology

renderTopology(topology) ==
    /\ info' = [name |-> selectedTopologyName, topology |-> topology]
    /\ view' = [l \in Lists |-> Shown(topology, l)]
    /\ filtered' = [l \in Lists |-> Filtered(topology, l)]
    /\ typing' = [l \in Lists |-> FALSE]
    /\ scene' = topology

Answer(load, ok) ==
    /\ load \in loads
    /\ loads' = loads \ {load}
    /\ last' = [load |-> load, ok |-> ok]
    /\ UNCHANGED <<selection, canvasSelection, layoutMode, page, filter, typed,
                   listLoading, drag, newest, asked, inputs>>

\* A canvas that was reset meanwhile makes the message throw, after the topology
\* was rendered.
Loaded(load) ==
    /\ Answer(load, TRUE)
    /\ currentTopology' = load
    /\ renderTopology(load)
    /\ status' = IF load.canvas # None /\ canvasSelection = None
                 THEN "error" ELSE "success"

\* Mutation: the error is not caught.
LoadThrows(load) ==
    /\ Answer(load, FALSE)
    /\ UNCHANGED <<currentTopology, status, filtered, typing, scene, panel>>

\* A failed load forgets the topology, and leaves on the page what it showed; a
\* failed load of a canvas forgets nothing.
LoadFailed(load) ==
    /\ Answer(load, FALSE)
    /\ currentTopology' = IF load.canvas = None THEN None ELSE currentTopology
    /\ status' = "error"
    /\ UNCHANGED <<filtered, typing, scene, panel>>

\* populateTopologySelect builds the menu anew: it has no value.
ListAnswer(names, message) ==
    /\ listLoads > 0
    /\ listLoads' = listLoads - 1
    /\ topologies' = names
    /\ select' = None
    /\ status' = message
    /\ UNCHANGED <<selectedTopologyName, currentTopology, canvasSelection, layoutMode,
                   lists, scene, panel, loads, askedLists, drag, history, inputs>>

(***************************************************************************)
(* The lists                                                               *)
(***************************************************************************)
\* updateNodesList after an event of the list.  Without a topology it throws,
\* after the page or the filter was set.
Update(l, p, f) ==
    /\ page' = [page EXCEPT ![l] = p]
    /\ filter' = [filter EXCEPT ![l] = f]
    /\ IF currentTopology = None THEN UNCHANGED <<filtered, typing, view>>
       ELSE /\ view' = [view EXCEPT ![l] = [topology |-> currentTopology,
                                            filter |-> f, page |-> p]]
            /\ filtered' = [filtered EXCEPT ![l] =
                               IF IsEmpty(currentTopology) THEN @
                               ELSE Pages[currentTopology.name][f]]
            /\ typing' = [typing EXCEPT ![l] = FALSE]

\* The search field and the buttons of a list, there if it is not empty.
HasField(l) == view[l] # None /\ ~IsEmpty(view[l].topology)
PagesShown(l) == Pages[view[l].topology.name][view[l].filter]

ListStep == UNCHANGED <<selection, currentTopology, canvasSelection, layoutMode,
                        scene, info, status, loads, listLoading, drag, history>>

\* Mutation: the page is not compared with the first one.
previousPageUnguarded(l) ==
    /\ Input /\ Free
    /\ HasField(l) /\ PagesShown(l) > 1 /\ view[l].page # 0
    /\ Update(l, page[l] - 1, filter[l])
    /\ UNCHANGED typed
    /\ ListStep

\* The buttons are disabled by the page that was shown, and a click looks at the
\* page kept: a load resets the one and not the other.
previousPage(l) ==
    /\ Input /\ Free
    /\ HasField(l) /\ PagesShown(l) > 1 /\ view[l].page # 0
    /\ page[l] > 0
    /\ Update(l, page[l] - 1, filter[l])
    /\ UNCHANGED typed
    /\ ListStep

nextPage(l) ==
    /\ Input /\ Free
    /\ HasField(l) /\ PagesShown(l) > 1 /\ view[l].page < PagesShown(l) - 1
    /\ page[l] < filtered[l] - 1
    /\ Update(l, page[l] + 1, filter[l])
    /\ UNCHANGED typed
    /\ ListStep

\* Typing starts the field's timer, again if it runs.  Every rendering makes a
\* new field; the timer of the old one still fires.
TypeText(l, f) ==
    /\ Input /\ Free
    /\ HasField(l)
    /\ typed' = [typed EXCEPT ![l] =
                    Append(IF typing[l] /\ @ # << >> THEN SubSeq(@, 1, Len(@) - 1)
                           ELSE @, f)]
    /\ typing' = [typing EXCEPT ![l] = TRUE]
    /\ UNCHANGED <<page, filter, filtered, view>>
    /\ ListStep

search(l) ==
    /\ typed[l] # << >>
    /\ typed' = [typed EXCEPT ![l] = Tail(@)]
    /\ Update(l, 0, Head(typed[l]))
    /\ UNCHANGED inputs
    /\ ListStep

MenuStep ==
    \/ \E name \in Names : SelectTopology(name)
    \/ clearTopology \/ refresh \/ resetZoom
    \/ \E layout \in Layouts : setLayout(layout)

DragStep ==
    \/ mousedown
    \/ \E canvas \in Canvases \cup {None} : webglMouseUp(canvas) \/ documentMouseUp(canvas)

AnswerStep ==
    \/ \E load \in loads : Loaded(load) \/ LoadFailed(load)
    \/ \E names \in Listings : ListAnswer(names, "success")
    \/ ListAnswer({}, "error")

ListsStep ==
    \E l \in Lists : \/ previousPage(l) \/ nextPage(l) \/ search(l)
                     \/ \E f \in Filters : TypeText(l, f)

Next == MenuStep \/ DragStep \/ AnswerStep \/ ListsStep

Spec == Init /\ [][Next]_vars
-----------------------------------------------------------------------------
(***************************************************************************)
(* Properties                                                              *)
(***************************************************************************)
\* Every variable has its type.
TypeOK ==
    /\ topologies \subseteq Names /\ select \in Names \cup {None}
    /\ selectedTopologyName \in Names \cup {None}
    /\ currentTopology \in Load \cup {None} /\ scene \in Load \cup {None}
    /\ canvasSelection \in Canvases \cup {None} /\ layoutMode \in Layouts
    /\ page \in [Lists -> Nat] /\ filter \in [Lists -> Filters]
    /\ filtered \in [Lists -> Nat]
    /\ typed \in [Lists -> Seq(Filters)] /\ typing \in [Lists -> BOOLEAN]
    /\ info \in Info \cup {None} /\ view \in [Lists -> View \cup {None}]
    /\ status \in {"ready", "loading", "success", "error", "info"}
    /\ loads \subseteq Load /\ listLoads \in Nat
    /\ isSelecting \in BOOLEAN /\ webglSelecting \in BOOLEAN /\ dragLoads \in Nat
    /\ newest \in Load \cup {None}
    /\ last \in Reply \cup {None}
    /\ {asked, askedLists, inputs} \subseteq Nat

\* The panel's two lists and its counts are always of one topology, the one on
\* the map, in whatever order answers, failures, searches and paging come: a
\* late search never brings back a list of a topology that was replaced.
ShownTogether ==
    \A l \in Lists : IF info = None THEN view[l] = None
                     ELSE view[l] # None /\ view[l].topology = info.topology
                          /\ scene = info.topology

\* What was asked last is what is selected: the menu's topology in the layout
\* shown, and cut to no other canvas than the one selected.
AskedIsSelected ==
    selectedTopologyName # None =>
        /\ newest # None
        /\ newest.name = selectedTopologyName
        /\ newest.layout = layoutMode
        /\ newest.canvas \in {None, canvasSelection}

\* Once the last request is answered, and until an older one is, the page shows
\* the topology selected under its own name.
NewestIsShown ==
    last # None /\ last.ok /\ last.load = newest =>
        /\ currentTopology = newest
        /\ info = [name |-> selectedTopologyName, topology |-> newest]
        /\ scene = newest

\* The status bar never says that something is loading when nothing is: every
\* failure, also the exception after a canvas was reset, is reported.
NeverStuckLoading == status = "loading" => loads # {} \/ listLoads > 0

\* app.js:181: "Disable SVG-based mouse events since WebGL handles them".  A
\* drag selects one canvas and asks for it once.
OneSelectionPerDrag == dragLoads <= 1

\* topology-core.js:340: "Reset pagination when loading new topology".  A list
\* never shows a page that its topology does not have.
PageExists ==
    \A l \in Lists : HasField(l) /\ view[l].page > 0 => view[l].page < PagesShown(l)
=============================================================================

------------------------- MODULE TopologyBrowserProofs -------------------------
(***************************************************************************)
(* What TLAPS proves of the topology page, for any topologies, layouts,    *)
(* canvases, lists and texts and any number of requests: its types and the *)
(* four properties that the run `topology' checks.                         *)
(*                                                                         *)
(* Two facts make them inductive.  CurrentShown: the topology kept, which  *)
(* the lists draw after a click or a search, is the one of the information *)
(* panel.  Numbered: no request is numbered higher than the requests made, *)
(* so that an answer that came is never that of a request made after it.   *)
(***************************************************************************)
EXTENDS TopologyBrowser, SequenceTheorems, TLAPS

CurrentShown ==
    currentTopology # None => info # None /\ info.topology = currentTopology

Numbered ==
    /\ \A load \in loads : load.n <= asked
    /\ last # None => last.load.n <= asked

Inv ==
    /\ TypeOK /\ ShownTogether /\ CurrentShown
    /\ AskedIsSelected /\ NewestIsShown /\ Numbered
    /\ NeverStuckLoading

LEMMA InitInv == Init => Inv
<1>. SUFFICES ASSUME Init PROVE Inv
  OBVIOUS
<1>1. TypeOK
  <2>1. << >> \in Seq(Filters) /\ NoFilter \in Filters
    BY EmptySeq DEF Filters
  <2>2. /\ page \in [Lists -> Nat] /\ filter \in [Lists -> Filters]
        /\ filtered \in [Lists -> Nat] /\ typed \in [Lists -> Seq(Filters)]
        /\ typing \in [Lists -> BOOLEAN] /\ view \in [Lists -> View \cup {None}]
    BY <2>1 DEF Init
  <2>3. /\ topologies \subseteq Names /\ select \in Names \cup {None}
        /\ selectedTopologyName \in Names \cup {None}
        /\ currentTopology \in Load \cup {None} /\ scene \in Load \cup {None}
        /\ canvasSelection \in Canvases \cup {None} /\ layoutMode \in Layouts
    BY DEF Init
  <2>4. /\ info \in Info \cup {None} /\ newest \in Load \cup {None}
        /\ last \in Reply \cup {None}
    BY DEF Init
  <2>5. /\ status \in {"ready", "loading", "success", "error", "info"}
        /\ isSelecting \in BOOLEAN /\ webglSelecting \in BOOLEAN
    BY Zenon DEF Init
  <2>6. /\ loads \subseteq Load /\ listLoads \in Nat /\ dragLoads \in Nat
        /\ {asked, askedLists, inputs} \subseteq Nat
    BY DEF Init
  <2>. QED
    BY <2>2, <2>3, <2>4, <2>5, <2>6 DEF TypeOK
<1>2. AskedIsSelected /\ NewestIsShown
  BY DEF Init, AskedIsSelected, NewestIsShown
<1>. QED
  BY <1>1, <1>2
     DEF Init, Inv, ShownTogether, CurrentShown, Numbered, NeverStuckLoading

(***************************************************************************)
(* Steps of a kind                                                         *)
(***************************************************************************)

\* A step that asks for a topology and selects what it asks for.
LEMMA AskInv ==
    ASSUME Inv,
           NEW name \in Names, NEW layout \in Layouts,
           NEW canvas \in Canvases \cup {None},
           Ask(name, layout, canvas),
           selectedTopologyName' = name, layoutMode' = layout,
           canvasSelection' \in Canvases \cup {None},
           canvas \in {None, canvasSelection'},
           select' \in Names \cup {None}, dragLoads' \in Nat,
           isSelecting' \in BOOLEAN, webglSelecting' \in BOOLEAN,
           UNCHANGED <<currentTopology, scene, panel, listLoading, inputs>>
    PROVE  Inv'
<1>. USE DEF Inv
<1>. DEFINE load == [n |-> asked + 1, name |-> name, layout |-> layout,
                     canvas |-> canvas]
<1>1. /\ asked < MaxLoads /\ asked' = asked + 1
      /\ loads' = loads \cup {load} /\ newest' = load
      /\ status' = "loading" /\ last' = last
      /\ UNCHANGED <<typed, typing>>
  BY DEF Ask, resetPagination
<1>2. /\ page' \in [Lists -> Nat] /\ filter' \in [Lists -> Filters]
      /\ filtered' \in [Lists -> Nat]
  BY DEF Ask, resetPagination, Filters
<1>3. /\ UNCHANGED <<currentTopology, scene, info, view, topologies, listLoads,
                     askedLists, inputs>>
  BY DEF panel, listLoading
<1>4. asked \in Nat /\ asked' \in Nat /\ asked + 1 \in 1..MaxLoads
  BY <1>1, BrowserAssumption DEF TypeOK
<1>5. load \in Load /\ load # None /\ load.n = asked + 1
  BY <1>4, BrowserAssumption DEF Load
<1>. HIDE DEF load
<1>6. TypeOK'
  BY <1>1, <1>2, <1>3, <1>4, <1>5 DEF TypeOK
<1>7. ShownTogether' /\ CurrentShown'
  BY <1>3 DEF ShownTogether, CurrentShown
<1>8. AskedIsSelected'
  BY <1>1, <1>5 DEF AskedIsSelected, load
<1>9. Numbered' /\ NewestIsShown'
  <2>1. /\ \A l \in loads : l \in Load /\ l.n \in Nat /\ l.n <= asked
        /\ last # None => last.load.n \in Nat /\ last.load.n <= asked
    BY DEF Numbered, TypeOK, Load, Reply
  <2>2. Numbered'
    BY <1>1, <1>4, <1>5, <2>1 DEF Numbered
  <2>3. last' # None => last'.load # newest'
    BY <1>1, <1>4, <1>5, <2>1
  <2>. QED
    BY <2>2, <2>3 DEF NewestIsShown
<1>10. NeverStuckLoading'
  BY <1>1 DEF NeverStuckLoading
<1>. QED
  BY <1>6, <1>7, <1>8, <1>9, <1>10

\* A step that asks for nothing and shows nothing.
LEMMA IdleInv ==
    ASSUME Inv,
           NoLoad, UNCHANGED <<currentTopology, scene, panel>>,
           topologies' \in SUBSET Names, select' \in Names \cup {None},
           canvasSelection' \in Canvases \cup {None}, layoutMode' \in Layouts,
           selectedTopologyName # None => UNCHANGED <<canvasSelection, layoutMode>>,
           status' \in {"ready", "loading", "success", "error", "info"},
           status' = "loading" => loads # {} \/ listLoads' > 0,
           listLoads' \in Nat, askedLists' \in Nat, inputs' \in Nat,
           dragLoads' \in Nat, isSelecting' \in BOOLEAN, webglSelecting' \in BOOLEAN
    PROVE  Inv'
<1>. USE DEF Inv
<1>1. UNCHANGED <<loads, newest, last, asked, page, filter, filtered, typed, typing,
                  selectedTopologyName, currentTopology, scene, info, view>>
  BY DEF NoLoad, history, lists, panel
<1>2. TypeOK'
  BY <1>1 DEF TypeOK
<1>3. ShownTogether' /\ CurrentShown' /\ NewestIsShown' /\ Numbered'
  BY <1>1 DEF ShownTogether, CurrentShown, NewestIsShown, Numbered
<1>4. AskedIsSelected'
  BY <1>1 DEF AskedIsSelected
<1>. QED
  BY <1>1, <1>2, <1>3, <1>4 DEF NeverStuckLoading

\* An event of a list draws the topology kept.
LEMMA UpdateInv ==
    ASSUME Inv, NEW l \in Lists, NEW p \in Nat, NEW f \in Filters,
           Update(l, p, f), ListStep,
           typed' \in [Lists -> Seq(Filters)], inputs' \in Nat
    PROVE  Inv'
<1>. USE DEF Inv
<1>1. UNCHANGED <<select, selectedTopologyName, currentTopology, canvasSelection,
                  layoutMode, scene, info, status, loads, topologies, listLoads,
                  askedLists, isSelecting, webglSelecting, dragLoads, newest, last,
                  asked>>
  BY DEF ListStep, selection, listLoading, drag, history
<1>2. page' \in [Lists -> Nat] /\ filter' \in [Lists -> Filters]
  BY DEF Update, TypeOK
<1>3. CASE currentTopology = None
  <2>1. UNCHANGED <<filtered, typing, view>>
    BY <1>3 DEF Update
  <2>. QED
    BY <1>1, <1>2, <2>1 DEF TypeOK, ShownTogether, CurrentShown, AskedIsSelected,
       NewestIsShown, Numbered, NeverStuckLoading
<1>4. CASE currentTopology # None
  <2>. DEFINE shown == [topology |-> currentTopology, filter |-> f, page |-> p]
  <2>1. /\ view' = [view EXCEPT ![l] = shown]
        /\ filtered' = [filtered EXCEPT ![l] =
                           IF IsEmpty(currentTopology) THEN @
                           ELSE Pages[currentTopology.name][f]]
        /\ typing' = [typing EXCEPT ![l] = FALSE]
    BY <1>4 DEF Update
  <2>2. /\ currentTopology \in Load /\ currentTopology.name \in Names
        /\ Pages[currentTopology.name][f] \in Nat
    <3>1. currentTopology \in Load
      BY <1>4 DEF TypeOK
    <3>2. currentTopology.name \in Names
      BY <3>1 DEF Load
    <3>. QED
      BY <3>1, <3>2, BrowserAssumption
  <2>3. shown \in View /\ shown # None /\ shown.topology = currentTopology
    BY <2>2, BrowserAssumption DEF View
  <2>4. info # None /\ info.topology = currentTopology
    BY <1>4 DEF CurrentShown
  <2>. HIDE DEF shown
  <2>5. filtered' \in [Lists -> Nat] /\ typing' \in [Lists -> BOOLEAN]
    BY <2>1, <2>2 DEF TypeOK
  <2>6. /\ view' \in [Lists -> View \cup {None}]
        /\ \A k \in Lists : view'[k] = IF k = l THEN shown ELSE view[k]
    BY <2>1, <2>3 DEF TypeOK
  <2>7. TypeOK'
    BY <1>1, <1>2, <2>5, <2>6 DEF TypeOK
  <2>8. ShownTogether'
    BY <1>1, <2>3, <2>4, <2>6 DEF ShownTogether
  <2>. QED
    BY <1>1, <2>7, <2>8 DEF CurrentShown, AskedIsSelected, NewestIsShown, Numbered,
       NeverStuckLoading
<1>. QED
  BY <1>3, <1>4

(***************************************************************************)
(* The actions                                                             *)
(***************************************************************************)

LEMMA MenuInv == ASSUME Inv, MenuStep PROVE Inv'
<1>. USE DEF Inv
<1>. USE BrowserAssumption
<1>1. ASSUME NEW name \in Names, SelectTopology(name) PROVE Inv'
  <2>1. /\ Ask(name, layoutMode, None) /\ selectedTopologyName' = name
        /\ select' = name
        /\ UNCHANGED <<currentTopology, canvasSelection, layoutMode, scene, panel,
                       listLoading, isSelecting, webglSelecting, dragLoads, inputs>>
    BY <1>1 DEF SelectTopology, loadTopology, drag
  <2>. QED
    BY <2>1, AskInv DEF TypeOK
<1>2. CASE clearTopology
  <2>1. /\ select' = None /\ currentTopology' = None
        /\ selectedTopologyName' = None /\ canvasSelection' = None
        /\ info' = None /\ view' = [l \in Lists |-> None]
        /\ status' = "ready" /\ newest' = None
        /\ UNCHANGED <<layoutMode, scene, loads, topologies, listLoads, askedLists,
                       isSelecting, webglSelecting, dragLoads, last, asked, inputs,
                       typed, typing>>
    BY <1>2 DEF clearTopology, resetPagination, drag, listLoading
  <2>2. /\ page' \in [Lists -> Nat] /\ filter' \in [Lists -> Filters]
        /\ filtered' \in [Lists -> Nat]
    BY <1>2 DEF clearTopology, resetPagination, Filters
  <2>3. TypeOK'
    BY <2>1, <2>2 DEF TypeOK
  <2>4. NewestIsShown'
    <3>1. last # None => last.load # None
      BY DEF TypeOK, Reply
    <3>. QED
      BY <2>1, <3>1 DEF NewestIsShown
  <2>. QED
    BY <2>1, <2>3, <2>4 DEF ShownTogether, CurrentShown, AskedIsSelected, Numbered,
       NeverStuckLoading
<1>3. CASE refresh
  <2>1. UNCHANGED <<currentTopology, canvasSelection, layoutMode, scene, panel,
                    isSelecting, webglSelecting, dragLoads, inputs>>
    BY <1>3 DEF refresh, drag
  <2>2. CASE /\ select # None /\ loadTopology(select, layoutMode)
             /\ UNCHANGED <<select, listLoading>>
    BY <2>1, <2>2, AskInv DEF loadTopology, TypeOK
  <2>3. CASE loadTopologyList /\ NoLoad /\ UNCHANGED select
    <3>1. /\ askedLists' = askedLists + 1 /\ listLoads' = listLoads + 1
          /\ status' = "loading" /\ UNCHANGED topologies
      BY <2>3 DEF loadTopologyList
    <3>2. askedLists' \in Nat /\ listLoads' \in Nat /\ listLoads' > 0
      BY <3>1 DEF TypeOK
    <3>. QED
      BY <2>1, <2>3, <3>1, <3>2, IdleInv DEF TypeOK
  <2>. QED
    BY <1>3, <2>2, <2>3 DEF refresh
<1>4. CASE resetZoom
  <2>1. /\ canvasSelection' = None
        /\ UNCHANGED <<select, currentTopology, layoutMode, scene, panel, listLoading,
                       isSelecting, webglSelecting, dragLoads, inputs>>
    BY <1>4 DEF resetZoom, drag
  <2>2. CASE selectedTopologyName # None
    <3>1. Ask(selectedTopologyName, layoutMode, None) /\ UNCHANGED selectedTopologyName
      BY <1>4, <2>2 DEF resetZoom, loadTopology
    <3>. QED
      BY <2>1, <2>2, <3>1, AskInv DEF TypeOK
  <2>3. CASE selectedTopologyName = None
    <3>1. NoLoad /\ UNCHANGED status
      BY <1>4, <2>3 DEF resetZoom
    <3>. QED
      BY <2>1, <2>3, <3>1, IdleInv DEF TypeOK, NeverStuckLoading, listLoading
  <2>. QED
    BY <2>2, <2>3
<1>5. ASSUME NEW layout \in Layouts, setLayout(layout) PROVE Inv'
  <2>1. /\ layoutMode' = layout
        /\ UNCHANGED <<select, currentTopology, canvasSelection, scene, panel,
                       listLoading, isSelecting, webglSelecting, dragLoads, inputs>>
    BY <1>5 DEF setLayout, drag
  <2>2. CASE selectedTopologyName = None
    <3>1. NoLoad /\ UNCHANGED status
      BY <1>5, <2>2 DEF setLayout
    <3>. QED
      BY <2>1, <2>2, <3>1, IdleInv DEF TypeOK, NeverStuckLoading, listLoading
  <2>3. CASE selectedTopologyName # None
    <3>1. PICK canvas \in {None, canvasSelection} :
              Ask(selectedTopologyName, layout, canvas)
              /\ UNCHANGED selectedTopologyName
      <4>1. CASE canvasSelection # None
        BY <1>5, <2>3, <4>1 DEF setLayout, loadTopologyWithCanvas
      <4>2. CASE canvasSelection = None
        BY <1>5, <2>3, <4>2 DEF setLayout, loadTopology
      <4>. QED
        BY <4>1, <4>2
    <3>2. /\ selectedTopologyName \in Names /\ canvas \in Canvases \cup {None}
          /\ canvas \in {None, canvasSelection'}
          /\ canvasSelection' \in Canvases \cup {None}
          /\ select' \in Names \cup {None} /\ dragLoads' \in Nat
          /\ isSelecting' \in BOOLEAN /\ webglSelecting' \in BOOLEAN
      BY <2>1, <2>3, <3>1 DEF TypeOK
    <3>. QED
      BY <2>1, <3>1, <3>2, AskInv
  <2>. QED
    BY <2>2, <2>3
<1>. QED
  BY <1>1, <1>2, <1>3, <1>4, <1>5 DEF MenuStep

LEMMA DragInv == ASSUME Inv, DragStep PROVE Inv'
<1>. USE DEF Inv
<1>1. CASE mousedown
  <2>1. /\ inputs' = inputs + 1
        /\ isSelecting' = TRUE /\ webglSelecting' = TRUE /\ dragLoads' = 0
        /\ NoLoad
        /\ UNCHANGED <<select, currentTopology, canvasSelection, layoutMode, scene,
                       panel, status, topologies, listLoads, askedLists>>
    BY <1>1 DEF mousedown, Input, NoLoad, selection, listLoading
  <2>. QED
    BY <2>1, IdleInv DEF TypeOK, NeverStuckLoading
<1>2. ASSUME NEW canvas \in Canvases \cup {None}, webglMouseUp(canvas) PROVE Inv'
  <2>1. /\ webglSelecting' = FALSE
        /\ UNCHANGED <<select, currentTopology, layoutMode, scene, panel, topologies,
                       listLoads, askedLists, isSelecting, inputs>>
    BY <1>2 DEF webglMouseUp, listLoading
  <2>2. CASE canvas # None /\ selectedTopologyName # None
    <3>1. SelectCanvas(canvas)
      BY <1>2, <2>2 DEF webglMouseUp
    <3>2. /\ Ask(selectedTopologyName, layoutMode, canvas)
          /\ UNCHANGED selectedTopologyName
          /\ canvasSelection' = canvas /\ dragLoads' = dragLoads + 1
      BY <3>1 DEF SelectCanvas, loadTopologyWithCanvas
    <3>3. /\ selectedTopologyName \in Names /\ dragLoads' \in Nat
          /\ layoutMode \in Layouts /\ select' \in Names \cup {None}
      BY <2>1, <2>2, <3>2 DEF TypeOK
    <3>4. isSelecting' \in BOOLEAN /\ webglSelecting' \in BOOLEAN
      BY <2>1, Zenon DEF TypeOK
    <3>. QED
      BY <2>1, <3>2, <3>3, <3>4, AskInv DEF listLoading
  <2>3. CASE ~(canvas # None /\ selectedTopologyName # None)
    <3>1. NoLoad /\ UNCHANGED <<canvasSelection, status, dragLoads>>
      BY <1>2, <2>3 DEF webglMouseUp
    <3>. QED
      BY <2>1, <3>1, IdleInv DEF TypeOK, NeverStuckLoading
  <2>. QED
    BY <2>2, <2>3
<1>3. ASSUME NEW canvas \in Canvases \cup {None}, documentMouseUp(canvas) PROVE Inv'
  <2>1. /\ isSelecting' = FALSE
        /\ UNCHANGED <<select, currentTopology, layoutMode, scene, panel, topologies,
                       listLoads, askedLists, webglSelecting, inputs>>
    BY <1>3 DEF documentMouseUp, listLoading
  <2>2. CASE canvas # None /\ selectedTopologyName # None
    <3>1. SelectCanvas(canvas)
      BY <1>3, <2>2 DEF documentMouseUp
    <3>2. /\ Ask(selectedTopologyName, layoutMode, canvas)
          /\ UNCHANGED selectedTopologyName
          /\ canvasSelection' = canvas /\ dragLoads' = dragLoads + 1
      BY <3>1 DEF SelectCanvas, loadTopologyWithCanvas
    <3>3. /\ selectedTopologyName \in Names /\ dragLoads' \in Nat
          /\ layoutMode \in Layouts /\ select' \in Names \cup {None}
      BY <2>1, <2>2, <3>2 DEF TypeOK
    <3>4. isSelecting' \in BOOLEAN /\ webglSelecting' \in BOOLEAN
      BY <2>1, Zenon DEF TypeOK
    <3>. QED
      BY <2>1, <3>2, <3>3, <3>4, AskInv DEF listLoading
  <2>3. CASE canvas # None /\ selectedTopologyName = None
    <3>1. /\ canvasSelection' = canvas /\ status' = "info"
          /\ NoLoad /\ UNCHANGED dragLoads
      BY <1>3, <2>3 DEF documentMouseUp
    <3>. QED
      BY <2>1, <2>3, <3>1, IdleInv DEF TypeOK
  <2>4. CASE canvas = None
    <3>1. status' = "info" /\ NoLoad /\ UNCHANGED <<canvasSelection, dragLoads>>
      BY <1>3, <2>4 DEF documentMouseUp
    <3>. QED
      BY <2>1, <3>1, IdleInv DEF TypeOK
  <2>. QED
    BY <2>2, <2>3, <2>4
<1>. QED
  BY <1>1, <1>2, <1>3 DEF DragStep

LEMMA AnswerInv == ASSUME Inv, AnswerStep PROVE Inv'
<1>. USE DEF Inv
<1>1. ASSUME NEW load \in loads, Loaded(load) PROVE Inv'
  <2>1. /\ loads' = loads \ {load} /\ last' = [load |-> load, ok |-> TRUE]
        /\ currentTopology' = load /\ scene' = load
        /\ info' = [name |-> selectedTopologyName, topology |-> load]
        /\ view' = [l \in Lists |-> Shown(load, l)]
        /\ filtered' = [l \in Lists |-> Filtered(load, l)]
        /\ typing' = [l \in Lists |-> FALSE]
        /\ status' \in {"error", "success"}
    BY <1>1 DEF Loaded, Answer, renderTopology
  <2>2. UNCHANGED <<select, selectedTopologyName, canvasSelection, layoutMode, page,
                    filter, typed, topologies, listLoads, askedLists, isSelecting,
                    webglSelecting, dragLoads, newest, asked, inputs>>
    BY <1>1 DEF Loaded, Answer, selection, listLoading, drag
  <2>3. load \in Load /\ load.name \in Names /\ load.n <= asked
    BY DEF TypeOK, Load, Numbered
  <2>4. /\ \A l \in Lists : /\ Shown(load, l) \in View
                             /\ Shown(load, l) # None
                             /\ Shown(load, l).topology = load
        /\ \A l \in Lists : Filtered(load, l) \in Nat
    BY <2>3, BrowserAssumption DEF TypeOK, View, Shown, Filtered
  <2>5. /\ info' \in Info /\ info' # None /\ last' \in Reply
    BY <2>1, <2>3, BrowserAssumption DEF TypeOK, Info, Reply
  <2>6. TypeOK'
    <3>1. /\ view' \in [Lists -> View \cup {None}] /\ filtered' \in [Lists -> Nat]
          /\ typing' \in [Lists -> BOOLEAN]
      BY <2>1, <2>4
    <3>. QED
      BY <2>1, <2>2, <2>3, <2>5, <3>1 DEF TypeOK
  <2>7. ShownTogether' /\ CurrentShown'
    BY <2>1, <2>4, <2>5 DEF ShownTogether, CurrentShown
  <2>8. NewestIsShown' /\ Numbered'
    BY <2>1, <2>2, <2>3 DEF NewestIsShown, Numbered
  <2>. QED
    BY <2>1, <2>2, <2>6, <2>7, <2>8 DEF AskedIsSelected, NeverStuckLoading
<1>2. ASSUME NEW load \in loads, LoadFailed(load) PROVE Inv'
  <2>1. /\ loads' = loads \ {load} /\ last' = [load |-> load, ok |-> FALSE]
        /\ currentTopology' \in {None, currentTopology} /\ status' = "error"
        /\ UNCHANGED <<filtered, typing, scene, info, view>>
    BY <1>2 DEF LoadFailed, Answer, panel
  <2>2. UNCHANGED <<select, selectedTopologyName, canvasSelection, layoutMode, page,
                    filter, typed, topologies, listLoads, askedLists, isSelecting,
                    webglSelecting, dragLoads, newest, asked, inputs>>
    BY <1>2 DEF LoadFailed, Answer, selection, listLoading, drag
  <2>3. load \in Load /\ load.n <= asked /\ last' \in Reply
    BY <2>1 DEF TypeOK, Numbered, Reply
  <2>4. TypeOK'
    BY <2>1, <2>2, <2>3 DEF TypeOK
  <2>. QED
    BY <2>1, <2>2, <2>3, <2>4 DEF ShownTogether, CurrentShown, AskedIsSelected,
       NewestIsShown, Numbered, NeverStuckLoading
<1>3. ASSUME NEW names \in SUBSET Names, NEW message \in {"success", "error"},
             ListAnswer(names, message)
      PROVE  Inv'
  <2>1. /\ listLoads > 0 /\ listLoads' = listLoads - 1
        /\ topologies' = names /\ select' = None /\ status' = message
        /\ NoLoad
        /\ UNCHANGED <<currentTopology, canvasSelection, layoutMode, scene, panel,
                       askedLists, isSelecting, webglSelecting, dragLoads, inputs>>
    BY <1>3 DEF ListAnswer, NoLoad, drag
  <2>2. listLoads' \in Nat
    BY <2>1 DEF TypeOK
  <2>. QED
    BY <2>1, <2>2, IdleInv DEF TypeOK
<1>. QED
  BY <1>1, <1>2, <1>3, BrowserAssumption DEF AnswerStep

LEMMA ListsInv == ASSUME Inv, ListsStep PROVE Inv'
<1>. USE DEF Inv
<1>1. PICK l \in Lists : \/ previousPage(l) \/ nextPage(l) \/ search(l)
                         \/ \E f \in Filters : TypeText(l, f)
  BY DEF ListsStep
<1>2. /\ page[l] \in Nat /\ filtered[l] \in Nat /\ filter[l] \in Filters
      /\ typed[l] \in Seq(Filters) /\ inputs \in Nat
  BY DEF TypeOK
<1>3. CASE previousPage(l)
  <2>1. /\ page[l] > 0 /\ Update(l, page[l] - 1, filter[l]) /\ ListStep
        /\ UNCHANGED typed /\ inputs' = inputs + 1
    BY <1>3 DEF previousPage, Input
  <2>2. page[l] - 1 \in Nat
    BY <1>2, <2>1
  <2>. QED
    BY <1>2, <2>1, <2>2, UpdateInv DEF TypeOK
<1>4. CASE nextPage(l)
  <2>1. /\ Update(l, page[l] + 1, filter[l]) /\ ListStep
        /\ UNCHANGED typed /\ inputs' = inputs + 1
    BY <1>4 DEF nextPage, Input
  <2>2. page[l] + 1 \in Nat
    BY <1>2
  <2>. QED
    BY <1>2, <2>1, <2>2, UpdateInv DEF TypeOK
<1>5. CASE search(l)
  <2>1. /\ typed[l] # << >> /\ typed' = [typed EXCEPT ![l] = Tail(@)]
        /\ Update(l, 0, Head(typed[l])) /\ ListStep /\ UNCHANGED inputs
    BY <1>5 DEF search
  <2>2. Head(typed[l]) \in Filters /\ Tail(typed[l]) \in Seq(Filters)
    BY <1>2, <2>1, HeadTailProperties
  <2>3. typed' \in [Lists -> Seq(Filters)]
    BY <2>1, <2>2 DEF TypeOK
  <2>. QED
    BY <1>2, <2>1, <2>2, <2>3, UpdateInv
<1>6. ASSUME NEW f \in Filters, TypeText(l, f) PROVE Inv'
  <2>. DEFINE kept == IF typing[l] /\ typed[l] # << >>
                      THEN SubSeq(typed[l], 1, Len(typed[l]) - 1) ELSE typed[l]
  <2>1. /\ inputs' = inputs + 1
        /\ typed' = [typed EXCEPT ![l] = Append(kept, f)]
        /\ typing' = [typing EXCEPT ![l] = TRUE]
        /\ UNCHANGED <<page, filter, filtered, view>>
    BY <1>6 DEF TypeText, Input
  <2>2. UNCHANGED <<select, selectedTopologyName, currentTopology, canvasSelection,
                    layoutMode, scene, info, status, loads, topologies, listLoads,
                    askedLists, isSelecting, webglSelecting, dragLoads, newest, last,
                    asked>>
    BY <1>6 DEF TypeText, ListStep, selection, listLoading, drag, history
  <2>3. kept \in Seq(Filters)
    <3>1. Len(typed[l]) - 1 \in Int /\ \A i \in 1..Len(typed[l]) - 1 : typed[l][i] \in Filters
      BY <1>2, LenProperties, ElementOfSeq
    <3>. QED
      BY <1>2, <3>1, SubSeqProperties
  <2>. HIDE DEF kept
  <2>4. Append(kept, f) \in Seq(Filters)
    BY <2>3, AppendProperties
  <2>5. typed' \in [Lists -> Seq(Filters)] /\ typing' \in [Lists -> BOOLEAN]
    BY <2>1, <2>4 DEF TypeOK
  <2>6. TypeOK'
    BY <1>2, <2>1, <2>2, <2>5 DEF TypeOK
  <2>. QED
    BY <2>1, <2>2, <2>6 DEF ShownTogether, CurrentShown, AskedIsSelected,
       NewestIsShown, Numbered, NeverStuckLoading
<1>. QED
  BY <1>1, <1>3, <1>4, <1>5, <1>6

LEMMA NextInv == Inv /\ [Next]_vars => Inv'
<1>1. ASSUME Inv, UNCHANGED vars PROVE Inv'
  <2>1. /\ NoLoad
        /\ UNCHANGED <<currentTopology, scene, panel, topologies, select,
                       canvasSelection, layoutMode, status, listLoads, askedLists,
                       inputs, dragLoads, isSelecting, webglSelecting>>
    BY <1>1 DEF vars, NoLoad, selection, listLoading, drag
  <2>. QED
    BY <1>1, <2>1, IdleInv DEF Inv, TypeOK, NeverStuckLoading
<1>. QED
  BY <1>1, MenuInv, DragInv, AnswerInv, ListsInv DEF Next

-----------------------------------------------------------------------------
(***************************************************************************)
(* Theorems                                                                *)
(***************************************************************************)

\* The types, and what is said of the state between answers.
THEOREM Invariant == Spec => []Inv
BY InitInv, NextInv, PTL DEF Spec

\* The page's variables have their types: what is drawn, listed and awaited
\* was asked for (topology-core.js).
THEOREM TypeCorrect == Spec => []TypeOK
BY Invariant, PTL DEF Inv

\* Map, panel and lists are of one topology.
THEOREM Together == Spec => []ShownTogether
BY Invariant, PTL DEF Inv

\* The last request is for what is selected.
THEOREM Asked == Spec => []AskedIsSelected
BY Invariant, PTL DEF Inv

\* The answer to the last request is shown, under its own name.
THEOREM NewestShown == Spec => []NewestIsShown
BY Invariant, PTL DEF Inv

\* `Loading' is said only while something is awaited.
THEOREM NeverStuck == Spec => []NeverStuckLoading
BY Invariant, PTL DEF Inv
=============================================================================

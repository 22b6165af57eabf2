---------------------------- MODULE TargetActions ----------------------------
(***************************************************************************)
(* The actions of the targets page that need no form: start or stop one    *)
(* target, delete one, start or stop all of a type, change the type shown. *)
(* The page keeps a cache of the targets its table shows; every change is  *)
(* a request to the target service, and the table is then loaded again.    *)
(* Deletions and bulk changes are confirmed first, in a dialog of the      *)
(* parent window.                                                          *)
(*                                                                         *)
(* iframe: targets/targets.js.  parent: confirm/confirm.js.  The service,  *)
(* the table and the popup library are external.  A target's hosts and     *)
(* links are left out; TargetsEditor models how they are edited.           *)
(***************************************************************************)
EXTENDS Integers, Sequences, FiniteSets

CONSTANTS
    TargetIds,
    Types,        \* inventory types
    None,         \* no dialog
    Waiting,      \* a load or request the service has not handled yet
    MaxClicks     \* bound: what the user clicks in a behavior

States == {"up", "down"}    \* state 2, and every other one
Target == [type : Types, state : States]
Database == UNION {[T -> Target] : T \in SUBSET TargetIds}

\* What a confirmation is about: the id that confirm.js and the page exchange.
Question == [kind : {"delete"}, target : TargetIds]
            \cup [kind : {"bulk"}, state : States]

ASSUME ActionsAssumption ==
    /\ None \notin Question
    /\ Waiting \notin Database \cup BOOLEAN
    /\ MaxClicks \in Nat

VARIABLES
    server,                 \* the service's targets
    targets,                \* the page's cache
    rows,                   \* the targets the table lists
    selectedInventoryType,
    requests,               \* changes sent and not yet answered
    loads,                  \* loads of the table, in the order they were asked
    toParent,               \* questions posted to the parent
    toIframe,               \* answers posted back to the page
    dialog,                 \* the question the open dialog asks
    fading,                 \* that of a closed dialog whose buttons still react
    pendingConfirmations,   \* the questions the parent may still answer
    allowed,                \* history: by question, the dialogs shown for it
                            \* less the requests made for it
    missed,                 \* history: targets changed by a request whose
                            \* answer did not load the table again
    clicks

parent == <<dialog, fading, pendingConfirmations>>
bridge == <<toParent, toIframe>>
page == <<targets, rows, selectedInventoryType>>
vars == <<server, page, requests, loads, bridge, parent, allowed, missed, clicks>>

With(db, t, target) == [u \in DOMAIN db \cup {t} |-> IF u = t THEN target ELSE db[u]]
Without(db, T) == [u \in DOMAIN db \ T |-> db[u]]
OfType(db, type) == LET T == {t \in DOMAIN db : db[t].type = type}
                    IN  [t \in T |-> db[t]]

Init ==
    /\ server \in Database
    /\ selectedInventoryType \in Types
    /\ targets = OfType(server, selectedInventoryType)
    /\ rows = DOMAIN targets
    /\ requests = {} /\ loads = << >>
    /\ toParent = << >> /\ toIframe = << >>
    /\ dialog = None /\ fading = None /\ pendingConfirmations = {}
    /\ allowed = [q \in Question |-> 0]
    /\ missed = {} /\ clicks = 0

(***************************************************************************)
(* Loads and requests                                                      *)
(***************************************************************************)

\* The table is asked for a page; it will show what the service has when it
\* answers, so nothing missed so far stays missed.
fetchData(type) ==
    /\ loads' = Append(loads, [type |-> type, page |-> Waiting])
    /\ missed' = {}

\* Mutation: the table is not loaded again.
renderNothing == UNCHANGED <<loads, missed>>

renderTargets == fetchData(selectedInventoryType)

\* The click's number tells apart two requests for the same change.
Request(change) == [change |-> change, n |-> clicks, accepted |-> Waiting]

Send(change) == requests' = requests \cup {Request(change)}

Quiet == toParent = << >> /\ toIframe = << >>

\* What a click costs.  A posted message is delivered before the next click.
Click == clicks < MaxClicks /\ clicks' = clicks + 1 /\ Quiet

\* The dialog covers the page.
PageClick == Click /\ dialog = None

(***************************************************************************)
(* The page                                                                *)
(***************************************************************************)
onInventoryTypeChange(type) ==
    /\ PageClick
    /\ type # selectedInventoryType
    /\ selectedInventoryType' = type
    /\ fetchData(type)
    /\ UNCHANGED <<server, targets, rows, requests, bridge, parent, allowed>>

refreshData ==
    /\ PageClick
    /\ fetchData(selectedInventoryType)
    /\ UNCHANGED <<server, page, requests, bridge, parent, allowed>>

Opposite(state) == IF state = "up" THEN "down" ELSE "up"

\* Mutation: the request leaves out the target's type.
toggleWithoutType(t) ==
    /\ PageClick
    /\ t \in rows /\ t \in DOMAIN targets
    /\ Send([kind |-> "toggle", target |-> t, state |-> Opposite(targets[t].state)])
    /\ UNCHANGED <<server, page, loads, bridge, parent, allowed, missed>>

\* The whole cached target is sent, with the other state.
toggleTargetState(t) ==
    /\ PageClick
    /\ t \in rows /\ t \in DOMAIN targets
    /\ Send([kind |-> "toggle", target |-> t, type |-> targets[t].type,
             state |-> Opposite(targets[t].state)])
    /\ UNCHANGED <<server, page, loads, bridge, parent, allowed, missed>>

\* A save of the target form gives the target the type selected now.
handleTargetSave(t, state) ==
    /\ PageClick
    /\ Send([kind |-> "save", target |-> t, type |-> selectedInventoryType,
             state |-> state])
    /\ UNCHANGED <<server, page, loads, bridge, parent, allowed, missed>>

Ask(question) ==
    /\ PageClick
    /\ toParent' = Append(toParent, question)
    /\ UNCHANGED <<server, page, requests, loads, toIframe, parent, allowed, missed>>

deleteTarget(t) == t \in rows /\ Ask([kind |-> "delete", target |-> t])

setAllTargetsState(state) == Ask([kind |-> "bulk", state |-> state])

\* A refusal posts an answer too, which the page ignores.
handleConfirmResult ==
    /\ toIframe # << >>
    /\ toIframe' = Tail(toIframe)
    /\ LET answer == Head(toIframe)
           q == answer.question
       IN  IF ~answer.confirmed THEN UNCHANGED <<requests, allowed>>
           ELSE /\ Send(IF q.kind = "delete" THEN q
                        ELSE [kind |-> "bulk", type |-> selectedInventoryType,
                              state |-> q.state])
                /\ allowed' = [allowed EXCEPT ![q] = @ - 1]
    /\ UNCHANGED <<server, page, loads, toParent, parent, missed, clicks>>

(***************************************************************************)
(* The parent: confirm.js over a popup library.  The library may leave a   *)
(* closed dialog on the screen for a moment, with buttons that still react.*)
(***************************************************************************)
showConfirm ==
    /\ toParent # << >>
    /\ toParent' = Tail(toParent)
    /\ dialog' = Head(toParent)
    /\ pendingConfirmations' = pendingConfirmations \cup {Head(toParent)}
    /\ allowed' = [allowed EXCEPT ![Head(toParent)] = @ + 1]
    /\ UNCHANGED <<server, page, requests, loads, toIframe, fading, missed, clicks>>

\* Mutation: a pending confirmation is never deleted.
answerAgain(q, confirmed) ==
    /\ IF q \in pendingConfirmations
       THEN toIframe' = Append(toIframe, [question |-> q, confirmed |-> confirmed])
       ELSE UNCHANGED toIframe
    /\ UNCHANGED pendingConfirmations

answer(q, confirmed) ==
    /\ IF q \in pendingConfirmations
       THEN toIframe' = Append(toIframe, [question |-> q, confirmed |-> confirmed])
       ELSE UNCHANGED toIframe
    /\ pendingConfirmations' = pendingConfirmations \ {q}

\* Layer8DPopup.close() closes what is open now, whichever button was clicked.
closeDialog == /\ dialog' = None
               /\ fading' = IF dialog = None THEN fading ELSE dialog

ClickButton(q, confirmed) ==
    /\ Click
    /\ q \in {dialog, fading} \ {None}
    /\ closeDialog
    /\ answer(q, confirmed)
    /\ UNCHANGED <<server, page, requests, loads, toParent, allowed, missed>>

\* The X of the popup: confirm.js is not told.
ClickX ==
    /\ Click
    /\ dialog # None
    /\ closeDialog
    /\ UNCHANGED <<server, page, requests, loads, bridge, pendingConfirmations,
                   allowed, missed>>

Faded ==
    /\ fading # None
    /\ fading' = None
    /\ UNCHANGED <<server, page, requests, loads, bridge, dialog,
                   pendingConfirmations, allowed, missed, clicks>>

(***************************************************************************)
(* The service, and what the page does with its answers                    *)
(***************************************************************************)

\* Requests and loads are handled in any order; a change may be refused.
Applied(c) ==
    CASE c.kind = "delete" -> Without(server, {c.target})
      [] c.kind = "bulk" -> [t \in DOMAIN server |->
                                IF server[t].type = c.type
                                THEN [server[t] EXCEPT !.state = c.state]
                                ELSE server[t]]
      [] OTHER -> With(server, c.target, [type |-> c.type, state |-> c.state])

HandleRequest(r, accepted) ==
    /\ r \in requests /\ r.accepted = Waiting
    /\ server' = IF accepted THEN Applied(r.change) ELSE server
    /\ requests' = (requests \ {r}) \cup {[r EXCEPT !.accepted = accepted]}
    /\ UNCHANGED <<page, loads, bridge, parent, allowed, missed, clicks>>

HandleLoad(i) ==
    /\ i \in DOMAIN loads /\ loads[i].page = Waiting
    /\ loads' = [loads EXCEPT ![i].page = OfType(server, loads[i].type)]
    /\ UNCHANGED <<server, page, requests, bridge, parent, allowed, missed, clicks>>

\* onDataLoaded.  The table hands over its pages in the order it asked for them.
onDataLoaded ==
    /\ loads # << >> /\ Head(loads).page # Waiting
    /\ loads' = Tail(loads)
    /\ targets' = Head(loads).page
    /\ rows' = DOMAIN Head(loads).page
    /\ UNCHANGED <<server, selectedInventoryType, requests, bridge, parent,
                   allowed, missed, clicks>>

Affected(c) == IF c.kind = "bulk" THEN TargetIds ELSE {c.target}

Answered(r) ==
    /\ r \in requests
    /\ requests' = requests \ {r}
    /\ UNCHANGED <<server, rows, selectedInventoryType, bridge, parent, allowed, clicks>>

\* The service refused, or the answer was lost: a toast and nothing else.
RequestFailed(r) ==
    /\ Answered(r)
    /\ missed' = IF r.accepted = TRUE THEN missed \cup Affected(r.change) ELSE missed
    /\ UNCHANGED <<targets, loads>>

\* By the time the answer comes the target may have left the cache: setting its
\* state throws, and the table is not loaded again.
toggleAnswered(r) ==
    LET c == r.change
    IN  /\ c.kind = "toggle" /\ r.accepted = TRUE
        /\ Answered(r)
        /\ IF c.target \in DOMAIN targets
           THEN /\ targets' = [targets EXCEPT ![c.target].state = c.state]
                /\ renderTargets
           ELSE /\ missed' = missed \cup {c.target}
                /\ UNCHANGED <<targets, loads>>

saveAnswered(r) ==
    LET c == r.change
    IN  /\ c.kind = "save" /\ r.accepted = TRUE
        /\ Answered(r)
        /\ targets' = With(targets, c.target, [type |-> c.type, state |-> c.state])
        /\ renderTargets

deleteAnswered(r) ==
    /\ r.change.kind = "delete" /\ r.accepted = TRUE
    /\ Answered(r)
    /\ targets' = Without(targets, {r.change.target})
    /\ renderTargets

bulkAnswered(r) ==
    /\ r.change.kind = "bulk" /\ r.accepted = TRUE
    /\ Answered(r)
    /\ renderTargets
    /\ UNCHANGED targets

UserStep ==
    \/ \E type \in Types : onInventoryTypeChange(type)
    \/ refreshData
    \/ \E t \in TargetIds : toggleTargetState(t) \/ deleteTarget(t)
    \/ \E t \in TargetIds, state \in States : handleTargetSave(t, state)
    \/ \E state \in States : setAllTargetsState(state)
    \/ \E q \in Question, confirmed \in BOOLEAN : ClickButton(q, confirmed)
    \/ ClickX

Next ==
    \/ UserStep
    \/ handleConfirmResult \/ showConfirm \/ Faded
    \/ \E r \in requests, accepted \in BOOLEAN : HandleRequest(r, accepted)
    \/ \E i \in DOMAIN loads : HandleLoad(i)
    \/ onDataLoaded
    \/ \E r \in requests : \/ RequestFailed(r)
                           \/ toggleAnswered(r) \/ saveAnswered(r)
                           \/ deleteAnswered(r) \/ bulkAnswered(r)

Spec == Init /\ [][Next]_vars
-----------------------------------------------------------------------------
(***************************************************************************)
(* Properties                                                              *)
(***************************************************************************)
Change == [kind : {"delete"}, target : TargetIds]
          \cup [kind : {"toggle", "save"}, target : TargetIds,
                type : Types, state : States]
          \cup [kind : {"bulk"}, type : Types, state : States]

TypeOK ==
    /\ server \in Database /\ targets \in Database
    /\ rows \subseteq TargetIds
    /\ selectedInventoryType \in Types
    /\ requests \subseteq [change : Change, n : Nat, accepted : BOOLEAN \cup {Waiting}]
    /\ loads \in Seq([type : Types, page : Database \cup {Waiting}])
    /\ toParent \in Seq(Question)
    /\ toIframe \in Seq([question : Question, confirmed : BOOLEAN])
    /\ {dialog, fading} \subseteq Question \cup {None}
    /\ pendingConfirmations \subseteq Question
    /\ allowed \in [Question -> Int]
    /\ missed \subseteq TargetIds
    /\ clicks \in Nat

\* A dialog allows one request: however often its buttons are clicked, also
\* while it fades, and whichever dialogs were left by their X, there are never
\* more deletions of a target than dialogs that asked for it.
OneRequestPerDialog == \A q \in Question : allowed[q] >= 0

\* When every request and load is answered, the page caches and lists what the
\* service has of the selected type, whatever order the requests, the loads and
\* the changes of type took: an answered save never leaves a deleted target
\* behind.  The exception is a target whose change was answered too late to be
\* seen: the answer was lost, or the target had left the cache.
SettledIsFresh ==
    requests = {} /\ loads = << >> /\ Quiet =>
        LET fresh == OfType(server, selectedInventoryType)
        IN  /\ Without(targets, missed) = Without(fresh, missed)
            /\ rows \ missed = DOMAIN fresh \ missed
=============================================================================

---------------------------- MODULE TargetsEditor ----------------------------
(***************************************************************************)
(* The targets page: an iframe that keeps one draft (the target being      *)
(* added or edited), and the parent window that shows the draft in a stack *)
(* of popups.  The two talk by postMessage, one queue each way; the target *)
(* service answers a save at any later time.                               *)
(*                                                                         *)
(* iframe: targets/targets.js and targets/targets-hosts.js.                *)
(* parent: the bridge of js/app.js and the popup library (external).       *)
(* JavaScript's index i is i + 1 here, and its -1 is 0.                    *)
(***************************************************************************)
EXTENDS Naturals, Sequences, FiniteSets

CONSTANTS
    TargetIds,    \* target ids a user may type or click
    HostIds,      \* host ids a user may type
    Protocols,    \* protocol numbers of a host's configurations
    Pages,        \* the pages of the target table the service may answer with
    NewTarget,    \* currentEditMode = 'add'
    NoValue,      \* an empty or missing form field
    Hole,         \* an array index below the length that was never assigned
    Answered,     \* a save request that has been answered
    MaxSaves      \* bound: the save requests of a behavior

Host == [hostId : HostIds, configs : SUBSET Protocols]

\* A hosts map: at most one entry for a host id.
HostsMap == {S \in SUBSET Host : \A g, h \in S : g.hostId = h.hostId => g = h}

ASSUME EditorAssumption ==
    /\ IsFiniteSet(Host) /\ IsFiniteSet(Protocols)
    /\ Pages \subseteq UNION {[T -> HostsMap] : T \in SUBSET TargetIds}
    /\ NewTarget \notin TargetIds
    /\ NoValue \notin TargetIds \cup HostIds
    /\ Hole \notin Host \cup Protocols
    /\ MaxSaves \in Nat

Modals == {"target-modal", "host-modal", "config-modal"}

VARIABLES
    targets,               \* cache of the page the table shows
    currentEditMode,       \* the target being edited, or NewTarget
    tempHosts,             \* the draft: an array of hosts
    tempConfigs,           \* the host draft: an array of protocols
    editingHostIndex,
    editingConfigIndex,
    pendingTargetRefresh,
    pendingHostRefresh,
    popups,                \* the parent's stack of popups, the top one last
    toParent,              \* messages the iframe posted to the parent
    toIframe,              \* messages the parent posted to the iframe
    requests,              \* the save requests, in the order they were sent
    wiped                  \* history: an accepted save's answer has reset the
                           \* draft since the target popup was last opened

draft == <<currentEditMode, tempHosts>>
hostDraft == <<tempConfigs, editingHostIndex, editingConfigIndex>>
pending == <<pendingTargetRefresh, pendingHostRefresh>>
bridge == <<toParent, toIframe>>
vars == <<targets, draft, hostDraft, pending, popups, bridge, requests, wiped>>

(***************************************************************************)
(* Maps and arrays                                                         *)
(***************************************************************************)

\* Object.entries: the members of a map as an array, in one fixed order.
Entries(S) == CHOOSE s \in [1..Cardinality(S) -> S] :
                  \A x \in S : \E i \in 1..Cardinality(S) : s[i] = x

Filled(hosts) == {i \in DOMAIN hosts : hosts[i] # Hole}

\* A later host with the same id replaces an earlier one; holes are skipped.
hostsArrayToMap(hosts) ==
    {hosts[i] : i \in {j \in Filled(hosts) :
                           \A k \in Filled(hosts) :
                               hosts[k].hostId = hosts[j].hostId => k <= j}}

\* A map of configurations is the set of its protocols, one entry for each.
configsArrayToMap(configs) == {configs[i] : i \in Filled(configs)}

\* array.splice(i, 1)
Splice(s, i) == IF i > Len(s) THEN s
                ELSE SubSeq(s, 1, i - 1) \o SubSeq(s, i + 1, Len(s))

\* array[i] = x, which leaves holes when i is past the end.
Assign(s, i, x) ==
    [j \in 1..(IF i > Len(s) THEN i ELSE Len(s)) |->
        IF j = i THEN x ELSE IF j <= Len(s) THEN s[j] ELSE Hole]

(***************************************************************************)
(* Forms and messages                                                      *)
(***************************************************************************)

\* A form is what a popup shows: the id field, whether it is locked
\* (disabled), and the rows of its nested table.
targetForm(id, mode, hosts) ==
    [form |-> "target-modal", id |-> id, locked |-> mode # NewTarget,
     rows |-> hosts]

hostForm(id, index, configs) ==
    [form |-> "host-modal", id |-> id, locked |-> index > 0, rows |-> configs]

configForm == [form |-> "config-modal", id |-> NoValue, locked |-> FALSE,
               rows |-> << >>]

show(modal, content) == [type |-> "show", modal |-> modal, content |-> content]
close == [type |-> "close"]
update(content) == [type |-> "update", content |-> content]
saved(modal, id, rows) ==
    [type |-> "save", modal |-> modal, id |-> id, rows |-> rows]
closed(modal) == [type |-> "closed", modal |-> modal]

Top == popups[Len(popups)]
Quiet == toParent = << >> /\ toIframe = << >>
Shown(modal) == popups # << >> /\ Quiet /\ Top.content.form = modal

\* The value of an input of the parent's document while some popup shows it.
FormIds(form) == {popups[i].content.id :
                    i \in {j \in DOMAIN popups : popups[j].content.form = form}}

Init ==
    /\ targets \in Pages
    /\ currentEditMode = NewTarget /\ tempHosts = << >>
    /\ tempConfigs = << >> /\ editingHostIndex = 0 /\ editingConfigIndex = 0
    /\ pendingTargetRefresh = FALSE /\ pendingHostRefresh = FALSE
    /\ popups = << >> /\ toParent = << >> /\ toIframe = << >>
    /\ requests = << >> /\ wiped = FALSE

(***************************************************************************)
(* The user.  A popup covers the iframe, so the page's own buttons are     *)
(* reached only when the stack is empty; a posted message is delivered     *)
(* before the next click (Quiet); and a popup that was closed is gone for  *)
(* the user, which is the popup library's to see to.                       *)
(***************************************************************************)

\* t = NoValue is the Add button; an id no longer cached opens as Add too.
showTargetModal(t) ==
    LET mode == IF t \in DOMAIN targets THEN t ELSE NewTarget
        hosts == IF t \in DOMAIN targets THEN Entries(targets[t]) ELSE << >>
        id == IF t \in DOMAIN targets THEN t ELSE NoValue
    IN  /\ popups = << >> /\ Quiet
        /\ currentEditMode' = mode
        /\ tempHosts' = hosts
        /\ toParent' = Append(toParent,
                              show("target-modal", targetForm(id, mode, hosts)))
        /\ wiped' = FALSE
        /\ UNCHANGED <<targets, hostDraft, pending, popups, toIframe, requests>>

\* index = 0 is the Add Host button.
showHostModal(index) ==
    LET isEdit == index \in Filled(tempHosts)
        configs == IF isEdit THEN Entries(tempHosts[index].configs) ELSE << >>
        editing == IF isEdit THEN index ELSE 0
        id == IF isEdit THEN tempHosts[index].hostId ELSE NoValue
    IN  /\ Shown("target-modal")
        /\ index \in {0} \cup Filled(Top.content.rows)
        /\ editingHostIndex' = editing
        /\ tempConfigs' = configs
        /\ toParent' = Append(toParent,
                              show("host-modal", hostForm(id, editing, configs)))
        /\ UNCHANGED <<targets, draft, editingConfigIndex, pending, popups,
                       toIframe, requests, wiped>>

showConfigModal(index) ==
    /\ Shown("host-modal")
    /\ index \in {0} \cup Filled(Top.content.rows)
    /\ editingConfigIndex' = IF index \in Filled(tempConfigs) THEN index ELSE 0
    /\ toParent' = Append(toParent, show("config-modal", configForm))
    /\ UNCHANGED <<targets, draft, tempConfigs, editingHostIndex, pending,
                   popups, toIframe, requests, wiped>>

\* The form a refresh posts: the id the parent shows, or else the draft's own.
targetRefresh(hosts) ==
    LET shown == FormIds("target-modal")
        own == IF currentEditMode = NewTarget THEN NoValue ELSE currentEditMode
    IN  update(targetForm(IF shown # {} THEN CHOOSE id \in shown : TRUE ELSE own,
                          currentEditMode, hosts))

hostRefresh(configs) ==
    LET shown == FormIds("host-modal")
        own == IF editingHostIndex \in Filled(tempHosts)
               THEN tempHosts[editingHostIndex].hostId ELSE NoValue
    IN  update(hostForm(IF shown # {} THEN CHOOSE id \in shown : TRUE ELSE own,
                        editingHostIndex, configs))

removeHostAndRefresh(index) ==
    /\ Shown("target-modal")
    /\ index \in Filled(Top.content.rows)
    /\ tempHosts' = Splice(tempHosts, index)
    /\ toParent' = Append(toParent, targetRefresh(tempHosts'))
    /\ UNCHANGED <<targets, currentEditMode, hostDraft, pending, popups,
                   toIframe, requests, wiped>>

removeConfigAndRefresh(index) ==
    /\ Shown("host-modal")
    /\ index \in Filled(Top.content.rows)
    /\ tempConfigs' = Splice(tempConfigs, index)
    /\ toParent' = Append(toParent, hostRefresh(tempConfigs'))
    /\ UNCHANGED <<targets, draft, editingHostIndex, editingConfigIndex,
                   pending, popups, toIframe, requests, wiped>>

\* Typing in the id field of the top popup, when it is not disabled.
TypeId(id) ==
    /\ popups # << >> /\ Quiet
    /\ ~Top.content.locked
    /\ \/ Top.content.form = "target-modal" /\ id \in TargetIds
       \/ Top.content.form = "host-modal" /\ id \in HostIds
    /\ popups' = [popups EXCEPT ![Len(popups)].content.id = id]
    /\ UNCHANGED <<targets, draft, hostDraft, pending, bridge, requests, wiped>>

\* Save posts the fields of the top popup.  A configuration's form posts the
\* protocol chosen, or NoValue when its address is empty.
ClickSave(protocol) ==
    LET field == IF Top.content.form # Top.modal THEN NoValue
                 ELSE IF Top.modal = "config-modal" THEN protocol
                 ELSE Top.content.id
    IN  /\ popups # << >> /\ Quiet
        /\ Top.modal = "target-modal" => Len(requests) < MaxSaves
        /\ toIframe' = Append(toIframe, saved(Top.modal, field, Top.content.rows))
        /\ UNCHANGED <<targets, draft, hostDraft, pending, popups, toParent,
                       requests, wiped>>

ClickClose ==
    /\ popups # << >> /\ Quiet
    /\ popups' = SubSeq(popups, 1, Len(popups) - 1)
    /\ toIframe' = Append(toIframe, closed(Top.modal))
    /\ UNCHANGED <<targets, draft, hostDraft, pending, toParent, requests, wiped>>

(***************************************************************************)
(* The parent's side of the bridge                                         *)
(***************************************************************************)
ParentReceives(type) ==
    /\ toParent # << >>
    /\ Head(toParent).type = type
    /\ toParent' = Tail(toParent)
    /\ UNCHANGED <<targets, draft, hostDraft, pending, requests, wiped>>

popupShow ==
    /\ ParentReceives("show")
    /\ popups' = Append(popups, [modal |-> Head(toParent).modal,
                                 content |-> Head(toParent).content])
    /\ UNCHANGED toIframe

\* close() takes no id: it closes whatever popup is on top.
popupClose ==
    /\ ParentReceives("close")
    /\ IF popups = << >> THEN UNCHANGED <<popups, toIframe>>
       ELSE /\ popups' = SubSeq(popups, 1, Len(popups) - 1)
            /\ toIframe' = Append(toIframe, closed(Top.modal))

popupUpdate ==
    /\ ParentReceives("update")
    /\ popups' = IF popups = << >> THEN popups
                 ELSE [popups EXCEPT ![Len(popups)].content = Head(toParent).content]
    /\ UNCHANGED toIframe

(***************************************************************************)
(* The iframe's message handlers                                           *)
(***************************************************************************)
IframeReceives(type, modal) ==
    /\ toIframe # << >>
    /\ Head(toIframe).type = type
    /\ Head(toIframe).modal = modal
    /\ toIframe' = Tail(toIframe)
    /\ UNCHANGED popups

\* A save that fails its checks shows a toast and changes nothing else.
Refused == UNCHANGED <<targets, draft, hostDraft, pending, toParent, requests, wiped>>

\* Mutation: the form is sent unchecked.
handleTargetSaveUnchecked ==
    /\ IframeReceives("save", "target-modal")
    /\ requests' = Append(requests,
           [method |-> IF currentEditMode = NewTarget THEN "POST" ELSE "PATCH",
            targetId |-> Head(toIframe).id, hosts |-> hostsArrayToMap(tempHosts)])
    /\ UNCHANGED <<targets, draft, hostDraft, pending, toParent, wiped>>

\* Mutation: a new target may have an id that the page knows.
handleTargetSaveKnown ==
    LET id == Head(toIframe).id
    IN  /\ IframeReceives("save", "target-modal")
        /\ IF id # NoValue
           THEN /\ requests' = Append(requests,
                       [method |-> IF currentEditMode = NewTarget
                                   THEN "POST" ELSE "PATCH",
                        targetId |-> id, hosts |-> hostsArrayToMap(tempHosts)])
                /\ UNCHANGED <<targets, draft, hostDraft, pending, toParent, wiped>>
           ELSE Refused

\* Every path up to the await: the checks, and the request that is sent.
handleTargetSave ==
    LET id == Head(toIframe).id
        hosts == hostsArrayToMap(tempHosts)
        accepted == /\ id # NoValue
                    /\ ~(currentEditMode = NewTarget /\ id \in DOMAIN targets)
    IN  /\ IframeReceives("save", "target-modal")
        /\ IF accepted
           THEN /\ requests' = Append(requests,
                       [method |-> IF currentEditMode = NewTarget
                                   THEN "POST" ELSE "PATCH",
                        targetId |-> id, hosts |-> hosts])
                /\ UNCHANGED <<targets, draft, hostDraft, pending, toParent, wiped>>
           ELSE Refused

\* Mutation: no check for a host that is already in the draft.
mayAddAnyHost(id) == TRUE

\* findIndex visits holes too, and reading hostId of one throws: so adding a
\* host to an array with a hole does nothing, as adding a known host does.
mayAddHost(id) ==
    \A i \in DOMAIN tempHosts : tempHosts[i] # Hole /\ tempHosts[i].hostId # id

handleHostSave ==
    LET id == Head(toIframe).id
        host == [hostId |-> id,
                 configs |-> configsArrayToMap(tempConfigs)]
        accepted == id # NoValue /\ (editingHostIndex > 0 \/ mayAddHost(id))
    IN  /\ IframeReceives("save", "host-modal")
        /\ IF accepted
           THEN /\ tempHosts' = IF editingHostIndex > 0
                                THEN Assign(tempHosts, editingHostIndex, host)
                                ELSE Append(tempHosts, host)
                /\ pendingTargetRefresh' = TRUE
                /\ tempConfigs' = << >>
                /\ editingHostIndex' = 0
                /\ toParent' = Append(toParent, close)
                /\ UNCHANGED <<targets, currentEditMode, editingConfigIndex,
                               pendingHostRefresh, requests, wiped>>
           ELSE Refused

handleConfigSave ==
    LET protocol == Head(toIframe).id
        accepted ==
            /\ protocol # NoValue
            /\ editingConfigIndex > 0 \/
                   \A i \in DOMAIN tempConfigs : tempConfigs[i] \notin {Hole, protocol}
    IN  /\ IframeReceives("save", "config-modal")
        /\ IF accepted
           THEN /\ tempConfigs' = IF editingConfigIndex > 0
                                  THEN Assign(tempConfigs, editingConfigIndex, protocol)
                                  ELSE Append(tempConfigs, protocol)
                /\ pendingHostRefresh' = TRUE
                /\ editingConfigIndex' = 0
                /\ toParent' = Append(toParent, close)
                /\ UNCHANGED <<targets, draft, editingHostIndex,
                               pendingTargetRefresh, requests, wiped>>
           ELSE Refused

\* Mutation: the mode survives the popup.
resetHostsOnly == tempHosts' = << >> /\ UNCHANGED currentEditMode

resetDraft == tempHosts' = << >> /\ currentEditMode' = NewTarget

targetModalClosed ==
    /\ IframeReceives("closed", "target-modal")
    /\ resetDraft
    /\ UNCHANGED <<targets, hostDraft, pending, toParent, requests, wiped>>

onHostModalClosed ==
    /\ IframeReceives("closed", "host-modal")
    /\ toParent' = IF pendingTargetRefresh
                   THEN Append(toParent, targetRefresh(tempHosts)) ELSE toParent
    /\ pendingTargetRefresh' = FALSE
    /\ tempConfigs' = << >>
    /\ editingHostIndex' = 0
    /\ UNCHANGED <<targets, draft, editingConfigIndex, pendingHostRefresh, requests, wiped>>

\* Mutation: the flag is not cleared.
onConfigModalClosedKeepsFlag ==
    /\ IframeReceives("closed", "config-modal")
    /\ toParent' = IF pendingHostRefresh
                   THEN Append(toParent, hostRefresh(tempConfigs)) ELSE toParent
    /\ editingConfigIndex' = 0
    /\ UNCHANGED <<targets, draft, tempConfigs, editingHostIndex, pending,
                   requests, wiped>>

onConfigModalClosed ==
    /\ IframeReceives("closed", "config-modal")
    /\ toParent' = IF pendingHostRefresh
                   THEN Append(toParent, hostRefresh(tempConfigs)) ELSE toParent
    /\ pendingHostRefresh' = FALSE
    /\ editingConfigIndex' = 0
    /\ UNCHANGED <<targets, draft, tempConfigs, editingHostIndex,
                   pendingTargetRefresh, requests, wiped>>

(***************************************************************************)
(* The service's answers, which interleave with everything above           *)
(***************************************************************************)

closeTargetModal ==
    /\ currentEditMode' = NewTarget
    /\ tempHosts' = << >>
    /\ toParent' = Append(toParent, close)
    /\ wiped' = TRUE

\* The rest of handleTargetSave: it updates the cache, wipes whatever draft
\* is open by now and asks the parent to close the top popup.
SaveAnswered(s, ok) ==
    LET r == requests[s]
    IN  /\ s \in DOMAIN requests /\ r # Answered
        /\ requests' = [requests EXCEPT ![s] = Answered]
        /\ IF ok
           THEN /\ targets' = [t \in DOMAIN targets \cup {r.targetId} |->
                                  IF t = r.targetId THEN r.hosts ELSE targets[t]]
                /\ closeTargetModal
           ELSE UNCHANGED <<targets, draft, toParent, wiped>>
        /\ UNCHANGED <<hostDraft, pending, popups, toIframe>>

\* onDataLoaded: the table (external) delivers a page and replaces the cache.
TableLoaded(page) ==
    /\ targets' = page
    /\ UNCHANGED <<draft, hostDraft, pending, popups, bridge, requests, wiped>>

\* The rows of the top popup, each with its buttons, and 0 for "+ Add".
Buttons == {0} \cup (IF popups = << >> THEN {} ELSE DOMAIN Top.content.rows)

UserStep ==
    \/ \E t \in TargetIds \cup {NoValue} : showTargetModal(t)
    \/ \E i \in Buttons : \/ showHostModal(i) \/ removeHostAndRefresh(i)
                         \/ showConfigModal(i) \/ removeConfigAndRefresh(i)
    \/ \E id \in TargetIds \cup HostIds : TypeId(id)
    \/ \E p \in Protocols \cup {NoValue} : ClickSave(p)
    \/ ClickClose

BridgeStep ==
    \/ popupShow \/ popupClose \/ popupUpdate
    \/ handleTargetSave \/ handleHostSave \/ handleConfigSave
    \/ targetModalClosed \/ onHostModalClosed \/ onConfigModalClosed

Next ==
    \/ UserStep
    \/ BridgeStep
    \/ \E s \in 1..MaxSaves, ok \in BOOLEAN : SaveAnswered(s, ok)
    \/ \E page \in Pages : TableLoaded(page)

Spec == Init /\ [][Next]_vars
-----------------------------------------------------------------------------
(***************************************************************************)
(* Properties                                                              *)
(***************************************************************************)
TargetForm == [form : {"target-modal"}, id : TargetIds \cup {NoValue},
               locked : BOOLEAN, rows : Seq(Host \cup {Hole})]
HostForm == [form : {"host-modal"}, id : HostIds \cup {NoValue},
             locked : BOOLEAN, rows : Seq(Protocols \cup {Hole})]
Form == TargetForm \cup HostForm \cup {configForm}
Rows == Seq(Host \cup {Hole}) \cup Seq(Protocols \cup {Hole})

Popup == [modal : Modals, content : Form]
ToParent == [type : {"show"}, modal : Modals, content : Form]
            \cup [type : {"update"}, content : Form] \cup {close}
Saved(modal, Ids) == [type : {"save"}, modal : {modal},
                      id : Ids \cup {NoValue}, rows : Rows]
ToIframe == Saved("target-modal", TargetIds) \cup Saved("host-modal", HostIds)
            \cup Saved("config-modal", Protocols)
            \cup [type : {"closed"}, modal : Modals]
Request == [method : {"POST", "PATCH"}, targetId : TargetIds, hosts : SUBSET Host]

\* Every variable has its type: in particular the hosts that are sent and
\* cached are maps whose hosts carry maps of configurations, never arrays.
TypeOK ==
    /\ targets \in UNION {[T -> SUBSET Host] : T \in SUBSET TargetIds}
    /\ currentEditMode \in TargetIds \cup {NewTarget}
    /\ tempHosts \in Seq(Host \cup {Hole})
    /\ tempConfigs \in Seq(Protocols \cup {Hole})
    /\ editingHostIndex \in Nat /\ editingConfigIndex \in Nat
    /\ pendingTargetRefresh \in BOOLEAN /\ pendingHostRefresh \in BOOLEAN
    /\ popups \in Seq(Popup)
    /\ toParent \in Seq(ToParent)
    /\ toIframe \in Seq(ToIframe)
    /\ requests \in Seq(Request \cup {Answered})
    /\ wiped \in BOOLEAN

\* Between user actions the parent shows exactly the draft the iframe keeps:
\* the popup at the bottom of the stack is the form of the target being
\* edited, and while it is on top its rows are tempHosts.  Only an answer that
\* arrives after the popup was opened can separate the two, and such an answer
\* leaves the page in add mode (closeTargetModal), never editing.
DraftIsShown ==
    /\ currentEditMode # NewTarget => ~wiped
    /\ Quiet /\ ~wiped =>
          IF popups = << >>
          THEN currentEditMode = NewTarget /\ tempHosts = << >>
          ELSE LET bottom == popups[1].content
               IN  /\ bottom.form = "target-modal"
                   /\ bottom.locked <=> currentEditMode # NewTarget
                   /\ bottom.locked => bottom.id = currentEditMode
                   /\ Len(popups) = 1 => bottom.rows = tempHosts

\* What is sent is what the user saw: the hosts of a request are the rows of
\* the popup whose Save was clicked, and a PATCH goes to the target that popup
\* edits.  A request of a wiped draft is the exception, and it is always a POST
\* of an id the page does not know: a late answer can never turn an edit into a
\* PATCH that drops the target's hosts.
SendsWhatIsShown ==
    [][Len(requests') > Len(requests) =>
          LET r == requests'[Len(requests')]
          IN  \/ /\ r.hosts = hostsArrayToMap(Head(toIframe).rows)
                 /\ r.method = "PATCH" => r.targetId = popups[1].content.id
              \/ wiped /\ r.method = "POST" /\ r.targetId \notin DOMAIN targets]_vars

\* The hosts of a draft have distinct ids, so hostsArrayToMap loses none.  The
\* check for a known id is made only when adding: editing relies on the index
\* staying that of the host whose id the popup shows, whatever closes popups
\* or wipes the draft meanwhile.
HostsDistinct ==
    \A i, j \in Filled(tempHosts) : tempHosts[i].hostId = tempHosts[j].hostId => i = j

\* A refresh that was put off until a popup has closed is never still owed when
\* the messages have been delivered, even when the close that was posted for
\* that popup hit another one.
NoRefreshOwed == Quiet => ~pendingTargetRefresh /\ ~pendingHostRefresh
=============================================================================

------------------------- MODULE TargetsEditorProofs -------------------------
(***************************************************************************)
(* What TLAPS proves of the targets page, for all values of the constants: *)
(* its types, and then the editor's safety properties.                     *)
(*                                                                         *)
(* The popups show the draft, and a save sends what they show              *)
(* (DraftIsShown, SendsWhatIsShown).  Neither is inductive: a popup may be *)
(* out of date while a message is on its way.  The invariant DraftInv      *)
(* says, for each message that can be on its way, how deep the stack is    *)
(* and which popup still owes a refresh.  It says so only until an answer  *)
(* wipes the draft; from then on, only that the page is in add mode, which *)
(* is all these two properties need.                                       *)
(*                                                                         *)
(* The other two hold after a wipe as well.  Shape says where each message *)
(* can still arrive and what a deferred refresh waits for (NoRefreshOwed); *)
(* Edited, which rests on it, that the index of the host being edited is   *)
(* that of the host its popup shows (HostsDistinct).                       *)
(***************************************************************************)
EXTENDS TargetsEditor, FiniteSetTheorems, SequenceTheorems, TLAPS

\* Object.entries of a finite map is an array of its members.
LEMMA EntriesType ==
    ASSUME NEW S, IsFiniteSet(S)
    PROVE  Entries(S) \in Seq(S)
<1>. DEFINE n == Cardinality(S)
            All(s) == \A x \in S : \E i \in 1..n : s[i] = x
<1>1. n \in Nat /\ ExistsBijection(1..n, S)
  BY FS_CardinalityType
<1>2. PICK f \in Bijection(1..n, S) : TRUE
  BY <1>1 DEF ExistsBijection
<1>3. f \in [1..n -> S] /\ All(f)
  BY <1>2 DEF Bijection, Surjection, Injection
<1>4. Entries(S) \in [1..n -> S]
  BY <1>3 DEF Entries
<1>. QED
  BY <1>1, <1>4, SeqDef

\* Removing an element, or assigning one, leaves an array of the same type.
LEMMA SpliceType ==
    ASSUME NEW S, NEW s \in Seq(S), NEW i \in Nat \ {0}
    PROVE  Splice(s, i) \in Seq(S)
<1>1. CASE i > Len(s)
  BY <1>1 DEF Splice
<1>2. CASE i <= Len(s)
  <2>1. SubSeq(s, 1, i - 1) \in Seq(S)
    BY <1>2, SubSeqProperties, LenProperties, ElementOfSeq
  <2>2. SubSeq(s, i + 1, Len(s)) \in Seq(S)
    BY <1>2, SubSeqProperties, LenProperties, ElementOfSeq
  <2>. QED
    BY <1>2, <2>1, <2>2, ConcatProperties, LenProperties DEF Splice
<1>. QED
  BY <1>1, <1>2, LenProperties

LEMMA AssignType ==
    ASSUME NEW S, Hole \in S, NEW s \in Seq(S), NEW i \in Nat, NEW x \in S
    PROVE  Assign(s, i, x) \in Seq(S)
<1>. DEFINE n == IF i > Len(s) THEN i ELSE Len(s)
            e(j) == IF j = i THEN x ELSE IF j <= Len(s) THEN s[j] ELSE Hole
<1>1. n \in Nat
  BY LenProperties
<1>2. \A j \in 1..n : e(j) \in S
  BY <1>1, ElementOfSeq, LenProperties
<1>3. [j \in 1..n |-> e(j)] \in Seq(S)
  <2>. HIDE DEF e, n
  <2>. QED BY <1>1, <1>2, IsASeq
<1>. QED
  BY <1>3 DEF Assign

-----------------------------------------------------------------------------
(***************************************************************************)
(* Types                                                                   *)
(***************************************************************************)

LEMMA FilledIndex ==
    ASSUME NEW S, NEW s \in Seq(S)
    PROVE  Filled(s) \subseteq 1..Len(s)
BY LenProperties DEF Filled

\* A page's hosts, as an array.
LEMMA CachedHosts ==
    ASSUME TypeOK, NEW t \in DOMAIN targets
    PROVE  Entries(targets[t]) \in Seq(Host \cup {Hole})
<1>1. targets[t] \in SUBSET Host
  BY DEF TypeOK
<1>2. IsFiniteSet(targets[t])
  BY <1>1, FS_Subset, EditorAssumption DEF EditorAssumption
<1>3. Entries(targets[t]) \in Seq(targets[t])
  BY <1>2, EntriesType
<1>. QED
  BY <1>1, <1>3, SeqMonotonic

\* The array of a host's protocols.
LEMMA CachedConfigs ==
    ASSUME TypeOK, NEW i \in Filled(tempHosts)
    PROVE  /\ tempHosts[i] \in Host
           /\ Entries(tempHosts[i].configs) \in Seq(Protocols \cup {Hole})
<1>1. tempHosts[i] \in Host
  BY FilledIndex, ElementOfSeq DEF TypeOK, Filled
<1>2. tempHosts[i].configs \in SUBSET Protocols
  BY <1>1 DEF Host
<1>3. IsFiniteSet(tempHosts[i].configs)
  BY <1>2, FS_Subset, EditorAssumption DEF EditorAssumption
<1>4. Entries(tempHosts[i].configs) \in Seq(tempHosts[i].configs)
  BY <1>3, EntriesType
<1>. QED
  BY <1>1, <1>2, <1>4, SeqMonotonic

\* The fields of a form, by its kind.
LEMMA FormFields ==
    ASSUME NEW c \in Form
    PROVE  /\ c.form \in Modals
           /\ c.form = "target-modal" =>
                  /\ c.id \in TargetIds \cup {NoValue}
                  /\ c.rows \in Seq(Host \cup {Hole})
           /\ c.form = "host-modal" =>
                  /\ c.id \in HostIds \cup {NoValue}
                  /\ c.rows \in Seq(Protocols \cup {Hole})
           /\ c.form = "config-modal" => c.id = NoValue /\ c.rows = << >>
           /\ c.rows \in Seq(Host \cup {Hole}) \cup Seq(Protocols \cup {Hole})
<1>1. CASE c \in TargetForm
  BY <1>1 DEF TargetForm, Modals
<1>2. CASE c \in HostForm
  BY <1>2 DEF HostForm, Modals
<1>3. CASE c = configForm
  BY <1>3, EmptySeq DEF configForm, Modals
<1>. QED
  BY <1>1, <1>2, <1>3 DEF Form

LEMMA PopupType ==
    ASSUME TypeOK, NEW i \in DOMAIN popups
    PROVE  popups[i] \in Popup /\ popups[i].content \in Form
<1>1. popups \in Seq(Popup) /\ i \in 1..Len(popups)
  BY LenProperties DEF TypeOK
<1>2. popups[i] \in Popup
  BY <1>1, ElementOfSeq
<1>. QED
  BY <1>2 DEF Popup

\* The form on top of the stack, and the id fields that can be read from it.
LEMMA TopType ==
    ASSUME TypeOK, popups # << >>
    PROVE  /\ Len(popups) \in 1..Len(popups)
           /\ Top \in Popup
           /\ Top.content \in Form
           /\ Top.content.rows \in Rows
<1>1. Len(popups) \in 1..Len(popups)
  BY LenProperties, EmptySeq DEF TypeOK
<1>2. Top \in Popup
  BY <1>1, ElementOfSeq DEF TypeOK, Top
<1>3. Top.content \in Form
  BY <1>2 DEF Popup
<1>4. Top.content.rows \in Rows
  BY <1>3, FormFields DEF Rows
<1>. QED
  BY <1>1, <1>2, <1>3, <1>4

LEMMA FormIdsType ==
    ASSUME TypeOK
    PROVE  /\ FormIds("target-modal") \subseteq TargetIds \cup {NoValue}
           /\ FormIds("host-modal") \subseteq HostIds \cup {NoValue}
<1>1. ASSUME NEW i \in DOMAIN popups
      PROVE  popups[i].content \in Form
  BY PopupType
<1>2. ASSUME NEW i \in DOMAIN popups, popups[i].content.form = "target-modal"
      PROVE  popups[i].content.id \in TargetIds \cup {NoValue}
  BY <1>1, <1>2, FormFields
<1>3. ASSUME NEW i \in DOMAIN popups, popups[i].content.form = "host-modal"
      PROVE  popups[i].content.id \in HostIds \cup {NoValue}
  BY <1>1, <1>3, FormFields
<1>. QED
  BY <1>2, <1>3 DEF FormIds

\* The forms and messages the handlers build.
LEMMA TargetFormType ==
    ASSUME NEW id \in TargetIds \cup {NoValue}, NEW mode,
           NEW hosts \in Seq(Host \cup {Hole})
    PROVE  targetForm(id, mode, hosts) \in Form
BY DEF targetForm, Form, TargetForm

LEMMA HostFormType ==
    ASSUME NEW id \in HostIds \cup {NoValue}, NEW index \in Nat,
           NEW configs \in Seq(Protocols \cup {Hole})
    PROVE  hostForm(id, index, configs) \in Form
BY DEF hostForm, Form, HostForm

LEMMA TargetRefreshType ==
    ASSUME TypeOK, NEW hosts \in Seq(Host \cup {Hole})
    PROVE  targetRefresh(hosts) \in ToParent
<1>. DEFINE shown == FormIds("target-modal")
            own == IF currentEditMode = NewTarget THEN NoValue ELSE currentEditMode
            id == IF shown # {} THEN CHOOSE x \in shown : TRUE ELSE own
<1>1. id \in TargetIds \cup {NoValue}
  BY FormIdsType DEF TypeOK
<1>2. targetForm(id, currentEditMode, hosts) \in Form
  <2>. HIDE DEF id
  <2>. QED BY <1>1, TargetFormType
<1>. QED
  BY <1>2 DEF targetRefresh, update, ToParent

LEMMA HostRefreshType ==
    ASSUME TypeOK, NEW configs \in Seq(Protocols \cup {Hole})
    PROVE  hostRefresh(configs) \in ToParent
<1>. DEFINE shown == FormIds("host-modal")
            own == IF editingHostIndex \in Filled(tempHosts)
                   THEN tempHosts[editingHostIndex].hostId ELSE NoValue
            id == IF shown # {} THEN CHOOSE x \in shown : TRUE ELSE own
<1>1. own \in HostIds \cup {NoValue}
  BY CachedConfigs DEF Host
<1>2. id \in HostIds \cup {NoValue}
  BY <1>1, FormIdsType
<1>3. hostForm(id, editingHostIndex, configs) \in Form
  <2>. HIDE DEF id
  <2>. QED BY <1>2, HostFormType DEF TypeOK
<1>. QED
  BY <1>3 DEF hostRefresh, update, ToParent

LEMMA InitType == Init => TypeOK
<1>. SUFFICES ASSUME Init PROVE TypeOK
  OBVIOUS
<1>1. PICK T \in SUBSET TargetIds : targets \in [T -> HostsMap]
  BY EditorAssumption DEF Init, EditorAssumption
<1>2. targets \in [T -> SUBSET Host]
  BY <1>1 DEF HostsMap
<1>3. targets \in UNION {[U -> SUBSET Host] : U \in SUBSET TargetIds}
  BY <1>2
<1>. QED
  BY <1>3, EmptySeq DEF Init, TypeOK

\* The message at the head of a queue.
LEMMA HeadType ==
    ASSUME TypeOK
    PROVE  /\ toParent # << >> => /\ Head(toParent) \in ToParent
                                  /\ Tail(toParent) \in Seq(ToParent)
           /\ toIframe # << >> => /\ Head(toIframe) \in ToIframe
                                  /\ Tail(toIframe) \in Seq(ToIframe)
BY HeadTailProperties DEF TypeOK

\* The fields of a save, by the modal it comes from.
LEMMA SaveFields ==
    ASSUME NEW m \in ToIframe, m.type = "save"
    PROVE  /\ m.modal = "target-modal" => m.id \in TargetIds \cup {NoValue}
           /\ m.modal = "host-modal" => m.id \in HostIds \cup {NoValue}
           /\ m.modal = "config-modal" => m.id \in Protocols \cup {NoValue}
BY DEF ToIframe, Saved

LEMMA SavedType ==
    ASSUME NEW modal \in Modals, NEW id, NEW rows \in Rows,
           modal = "target-modal" => id \in TargetIds \cup {NoValue},
           modal = "host-modal" => id \in HostIds \cup {NoValue},
           modal = "config-modal" => id \in Protocols \cup {NoValue}
    PROVE  saved(modal, id, rows) \in ToIframe
<1>1. CASE modal = "target-modal"
  BY <1>1 DEF saved, ToIframe, Saved
<1>2. CASE modal = "host-modal"
  BY <1>2 DEF saved, ToIframe, Saved
<1>3. CASE modal = "config-modal"
  BY <1>3 DEF saved, ToIframe, Saved
<1>. QED
  BY <1>1, <1>2, <1>3 DEF Modals

\* A well-typed message keeps its queue well typed.
LEMMA PostType ==
    ASSUME TypeOK
    PROVE  /\ \A m \in ToParent : Append(toParent, m) \in Seq(ToParent)
           /\ \A m \in ToIframe : Append(toIframe, m) \in Seq(ToIframe)
BY AppendProperties DEF TypeOK

LEMMA MapType ==
    ASSUME NEW S, NEW s \in Seq(S \cup {Hole})
    PROVE  configsArrayToMap(s) \subseteq S
BY LenProperties, ElementOfSeq DEF configsArrayToMap, Filled

LEMMA HostsMapType ==
    ASSUME NEW S, NEW s \in Seq(S \cup {Hole})
    PROVE  hostsArrayToMap(s) \subseteq S
BY LenProperties, ElementOfSeq DEF hostsArrayToMap, Filled

LEMMA PopType ==
    ASSUME TypeOK, popups # << >>
    PROVE  SubSeq(popups, 1, Len(popups) - 1) \in Seq(Popup)
<1>1. Len(popups) \in Nat /\ \A i \in 1..Len(popups) : popups[i] \in Popup
  BY LenProperties, ElementOfSeq DEF TypeOK
<1>. QED
  BY <1>1, SubSeqProperties

LEMMA UserStepType ==
    ASSUME TypeOK, UserStep
    PROVE  TypeOK'
<1>1. ASSUME NEW t \in TargetIds \cup {NoValue}, showTargetModal(t)
      PROVE  TypeOK'
  <2>. DEFINE hosts == IF t \in DOMAIN targets THEN Entries(targets[t]) ELSE << >>
              mode == IF t \in DOMAIN targets THEN t ELSE NewTarget
              id == IF t \in DOMAIN targets THEN t ELSE NoValue
  <2>1. /\ hosts \in Seq(Host \cup {Hole})
        /\ mode \in TargetIds \cup {NewTarget}
        /\ id \in TargetIds \cup {NoValue}
    BY CachedHosts, EmptySeq DEF TypeOK
  <2>2. show("target-modal", targetForm(id, mode, hosts)) \in ToParent
    <3>. HIDE DEF id, mode, hosts
    <3>. QED BY <2>1, TargetFormType DEF show, ToParent, Modals
  <2>3. toParent' \in Seq(ToParent)
    BY <1>1, <2>2, AppendProperties DEF showTargetModal, TypeOK
  <2>4. tempHosts' = hosts /\ currentEditMode' = mode
    BY <1>1 DEF showTargetModal
  <2>. QED
    BY <1>1, <2>1, <2>3, <2>4
       DEF showTargetModal, TypeOK, hostDraft, pending
<1>2. ASSUME NEW i \in Buttons, showHostModal(i)
      PROVE  TypeOK'
  <2>. DEFINE isEdit == i \in Filled(tempHosts)
              configs == IF isEdit THEN Entries(tempHosts[i].configs) ELSE << >>
              editing == IF isEdit THEN i ELSE 0
              id == IF isEdit THEN tempHosts[i].hostId ELSE NoValue
  <2>1. /\ configs \in Seq(Protocols \cup {Hole})
        /\ editing \in Nat
        /\ id \in HostIds \cup {NoValue}
    BY CachedConfigs, FilledIndex, EmptySeq DEF TypeOK, Host
  <2>2. show("host-modal", hostForm(id, editing, configs)) \in ToParent
    <3>. HIDE DEF isEdit, configs, editing, id
    <3>. QED BY <2>1, HostFormType DEF show, ToParent, Modals
  <2>3. toParent' \in Seq(ToParent)
    BY <1>2, <2>2, AppendProperties DEF showHostModal, TypeOK
  <2>4. tempConfigs' = configs /\ editingHostIndex' = editing
    BY <1>2 DEF showHostModal
  <2>. QED
    BY <1>2, <2>1, <2>3, <2>4 DEF showHostModal, TypeOK, draft, pending
<1>3. ASSUME NEW i \in Buttons, removeHostAndRefresh(i)
      PROVE  TypeOK'
  <2>1. i \in Nat \ {0}
    BY <1>3, TopType, FilledIndex, FormFields
       DEF removeHostAndRefresh, Shown
  <2>2. tempHosts' \in Seq(Host \cup {Hole})
    BY <1>3, <2>1, SpliceType DEF removeHostAndRefresh, TypeOK
  <2>3. toParent' \in Seq(ToParent)
    BY <1>3, <2>2, TargetRefreshType, AppendProperties
       DEF removeHostAndRefresh, TypeOK
  <2>. QED
    BY <1>3, <2>2, <2>3 DEF removeHostAndRefresh, TypeOK, hostDraft, pending
<1>4. ASSUME NEW i \in Buttons, showConfigModal(i)
      PROVE  TypeOK'
  <2>1. show("config-modal", configForm) \in ToParent
    BY DEF show, ToParent, Modals, Form
  <2>2. toParent' \in Seq(ToParent)
    BY <1>4, <2>1, AppendProperties DEF showConfigModal, TypeOK
  <2>3. editingConfigIndex' \in Nat
    BY <1>4, FilledIndex DEF showConfigModal, TypeOK
  <2>. QED
    BY <1>4, <2>2, <2>3 DEF showConfigModal, TypeOK, draft, pending
<1>5. ASSUME NEW i \in Buttons, removeConfigAndRefresh(i)
      PROVE  TypeOK'
  <2>1. i \in Nat \ {0}
    BY <1>5, TopType, FilledIndex, FormFields
       DEF removeConfigAndRefresh, Shown
  <2>2. tempConfigs' \in Seq(Protocols \cup {Hole})
    BY <1>5, <2>1, SpliceType DEF removeConfigAndRefresh, TypeOK
  <2>3. toParent' \in Seq(ToParent)
    BY <1>5, <2>2, HostRefreshType, AppendProperties
       DEF removeConfigAndRefresh, TypeOK
  <2>. QED
    BY <1>5, <2>2, <2>3 DEF removeConfigAndRefresh, TypeOK, draft, pending
<1>6. ASSUME NEW id \in TargetIds \cup HostIds, TypeId(id)
      PROVE  TypeOK'
  <2>. DEFINE new == [Top EXCEPT !.content.id = id]
  <2>1. new \in Popup
    <3>1. Top \in Popup /\ Top.content \in Form
      BY <1>6, TopType DEF TypeId
    <3>2. CASE Top.content.form = "target-modal"
      <4>1. Top.content \in TargetForm /\ id \in TargetIds
        BY <1>6, <3>1, <3>2 DEF TypeId, Form, HostForm, configForm
      <4>2. [Top.content EXCEPT !.id = id] \in TargetForm
        BY <4>1 DEF TargetForm
      <4>. QED BY <3>1, <4>2 DEF Popup, Form
    <3>3. CASE Top.content.form = "host-modal"
      <4>1. Top.content \in HostForm /\ id \in HostIds
        BY <1>6, <3>1, <3>3 DEF TypeId, Form, TargetForm, configForm
      <4>2. [Top.content EXCEPT !.id = id] \in HostForm
        BY <4>1 DEF HostForm
      <4>. QED BY <3>1, <4>2 DEF Popup, Form
    <3>. QED BY <1>6, <3>2, <3>3 DEF TypeId
  <2>2. popups' = [popups EXCEPT ![Len(popups)] = new]
    BY <1>6 DEF TypeId, Top
  <2>3. popups' \in Seq(Popup)
    <3>1. popups \in Seq(Popup) /\ Len(popups) \in 1..Len(popups)
      BY <1>6, TopType DEF TypeId, TypeOK
    <3>. HIDE DEF new
    <3>. QED BY <2>1, <2>2, <3>1, ExceptSeq
  <2>. QED
    BY <1>6, <2>3 DEF TypeId, TypeOK, draft, hostDraft, pending, bridge
<1>7. ASSUME NEW p \in Protocols \cup {NoValue}, ClickSave(p)
      PROVE  TypeOK'
  <2>. DEFINE field == IF Top.content.form # Top.modal THEN NoValue
                       ELSE IF Top.modal = "config-modal" THEN p
                       ELSE Top.content.id
              m == saved(Top.modal, field, Top.content.rows)
  <2>1. /\ Top.modal \in Modals /\ Top.content \in Form
        /\ Top.content.rows \in Rows
    BY <1>7, TopType DEF ClickSave, Popup
  <2>2. /\ Top.modal = "target-modal" => field \in TargetIds \cup {NoValue}
        /\ Top.modal = "host-modal" => field \in HostIds \cup {NoValue}
        /\ Top.modal = "config-modal" => field \in Protocols \cup {NoValue}
    BY <2>1, FormFields
  <2>3. m \in ToIframe
    <3>. HIDE DEF field
    <3>. QED BY <2>1, <2>2, SavedType
  <2>4. toIframe' \in Seq(ToIframe)
    BY <1>7, <2>3, AppendProperties DEF ClickSave, TypeOK
  <2>. QED
    BY <1>7, <2>4 DEF ClickSave, TypeOK, draft, hostDraft, pending
<1>8. ASSUME ClickClose
      PROVE  TypeOK'
  <2>1. closed(Top.modal) \in ToIframe
    BY <1>8, TopType DEF ClickClose, Popup, closed, ToIframe
  <2>2. toIframe' \in Seq(ToIframe)
    BY <1>8, <2>1, AppendProperties DEF ClickClose, TypeOK
  <2>3. popups' \in Seq(Popup)
    BY <1>8, PopType DEF ClickClose
  <2>. QED
    BY <1>8, <2>2, <2>3 DEF ClickClose, TypeOK, draft, hostDraft, pending
<1>. QED
  BY <1>1, <1>2, <1>3, <1>4, <1>5, <1>6, <1>7, <1>8 DEF UserStep

LEMMA ParentStepType ==
    ASSUME TypeOK, popupShow \/ popupClose \/ popupUpdate
    PROVE  TypeOK'
<1>1. ASSUME NEW type, ParentReceives(type)
      PROVE  /\ Head(toParent) \in ToParent /\ Head(toParent).type = type
             /\ toParent' \in Seq(ToParent)
  BY <1>1, HeadType DEF ParentReceives
<1>2. CASE popupShow
  <2>1. Head(toParent).modal \in Modals /\ Head(toParent).content \in Form
    BY <1>1, <1>2 DEF popupShow, ToParent, close
  <2>2. popups' \in Seq(Popup)
    BY <1>2, <2>1, AppendProperties DEF popupShow, Popup, TypeOK
  <2>. QED
    BY <1>1, <1>2, <2>2
       DEF popupShow, ParentReceives, TypeOK, draft, hostDraft, pending
<1>3. CASE popupClose
  <2>1. CASE popups = << >>
    BY <1>1, <1>3, <2>1
       DEF popupClose, ParentReceives, TypeOK, draft, hostDraft, pending
  <2>2. CASE popups # << >>
    <3>1. closed(Top.modal) \in ToIframe
      BY <2>2, TopType DEF Popup, closed, ToIframe
    <3>2. toIframe' \in Seq(ToIframe)
      BY <1>3, <2>2, <3>1, PostType DEF popupClose
    <3>3. popups' \in Seq(Popup)
      BY <1>3, <2>2, PopType DEF popupClose
    <3>. QED
      BY <1>1, <1>3, <2>2, <3>2, <3>3
         DEF popupClose, ParentReceives, TypeOK, draft, hostDraft, pending
  <2>. QED
    BY <2>1, <2>2
<1>4. CASE popupUpdate
  <2>1. Head(toParent).content \in Form
    BY <1>1, <1>4 DEF popupUpdate, ToParent, close
  <2>2. popups' \in Seq(Popup)
    <3>1. CASE popups = << >>
      BY <1>4, <3>1 DEF popupUpdate, TypeOK
    <3>2. CASE popups # << >>
      <4>. DEFINE new == [Top EXCEPT !.content = Head(toParent).content]
      <4>1. new \in Popup
        BY <2>1, <3>2, TopType DEF Popup
      <4>2. popups' = [popups EXCEPT ![Len(popups)] = new]
        BY <1>4, <3>2 DEF popupUpdate, Top
      <4>. HIDE DEF new
      <4>. QED
        BY <3>2, <4>1, <4>2, TopType, ExceptSeq DEF TypeOK
    <3>. QED
      BY <3>1, <3>2
  <2>. QED
    BY <1>1, <1>4, <2>2
       DEF popupUpdate, ParentReceives, TypeOK, draft, hostDraft, pending
<1>. QED
  BY <1>2, <1>3, <1>4

LEMMA CloseType == close \in ToParent /\ Hole \in Host \cup {Hole}
BY DEF ToParent

LEMMA IframeStepType ==
    ASSUME TypeOK,
           \/ handleTargetSave \/ handleHostSave \/ handleConfigSave
           \/ targetModalClosed \/ onHostModalClosed \/ onConfigModalClosed
    PROVE  TypeOK'
<1>1. ASSUME NEW type, NEW modal, IframeReceives(type, modal)
      PROVE  /\ Head(toIframe) \in ToIframe
             /\ Head(toIframe).type = type /\ Head(toIframe).modal = modal
             /\ toIframe' \in Seq(ToIframe)
             /\ popups' \in Seq(Popup)
  BY <1>1, HeadType DEF IframeReceives, TypeOK
<1>2. CASE handleTargetSave
  <2>1. toIframe' \in Seq(ToIframe) /\ popups' \in Seq(Popup)
    BY <1>1, <1>2 DEF handleTargetSave
  <2>2. requests' \in Seq(Request \cup {Answered})
    <3>. DEFINE r == [method |-> IF currentEditMode = NewTarget
                                 THEN "POST" ELSE "PATCH",
                      targetId |-> Head(toIframe).id,
                      hosts |-> hostsArrayToMap(tempHosts)]
    <3>1. CASE requests' = requests
      BY <3>1 DEF TypeOK
    <3>2. CASE requests' = Append(requests, r) /\ Head(toIframe).id # NoValue
      <4>1. Head(toIframe).id \in TargetIds
        BY <1>1, <1>2, <3>2, SaveFields DEF handleTargetSave
      <4>2. hostsArrayToMap(tempHosts) \subseteq Host
        BY HostsMapType DEF TypeOK
      <4>3. r \in Request
        BY <4>1, <4>2 DEF Request
      <4>. HIDE DEF r
      <4>. QED
        BY <3>2, <4>3, AppendProperties DEF TypeOK
    <3>. QED
      BY <1>2, <3>1, <3>2 DEF handleTargetSave, Refused
  <2>. QED
    BY <1>2, <2>1, <2>2
       DEF handleTargetSave, Refused, TypeOK, draft, hostDraft, pending
<1>3. CASE handleHostSave
  <2>1. toIframe' \in Seq(ToIframe) /\ popups' \in Seq(Popup)
    BY <1>1, <1>3 DEF handleHostSave
  <2>2. CASE Refused
    BY <1>3, <2>1, <2>2 DEF Refused, TypeOK, draft, hostDraft, pending
  <2>3. CASE ~Refused
    <3>. DEFINE host == [hostId |-> Head(toIframe).id,
                         configs |-> configsArrayToMap(tempConfigs)]
    <3>1. Head(toIframe).id \in HostIds
      BY <1>1, <1>3, <2>3, SaveFields DEF handleHostSave
    <3>2. host \in Host
      BY <3>1, MapType DEF Host, TypeOK
    <3>3. \/ tempHosts' = Assign(tempHosts, editingHostIndex, host)
          \/ tempHosts' = Append(tempHosts, host)
      BY <1>3, <2>3 DEF handleHostSave
    <3>4. tempHosts' \in Seq(Host \cup {Hole})
      <4>. HIDE DEF host
      <4>1. Append(tempHosts, host) \in Seq(Host \cup {Hole})
        BY <3>2, AppendProperties DEF TypeOK
      <4>2. Assign(tempHosts, editingHostIndex, host) \in Seq(Host \cup {Hole})
        BY <3>2, AssignType DEF TypeOK
      <4>. QED
        BY <3>3, <4>1, <4>2
    <3>5. toParent' \in Seq(ToParent)
      BY <1>3, <2>3, CloseType, PostType DEF handleHostSave
    <3>6. /\ tempConfigs' = << >> /\ editingHostIndex' = 0
          /\ pendingTargetRefresh' = TRUE
          /\ UNCHANGED <<targets, currentEditMode, editingConfigIndex,
                         pendingHostRefresh, requests, wiped>>
      BY <1>3, <2>3 DEF handleHostSave
    <3>. QED
      BY <2>1, <3>4, <3>5, <3>6, EmptySeq DEF TypeOK
  <2>. QED
    BY <2>2, <2>3
<1>4. CASE handleConfigSave
  <2>1. toIframe' \in Seq(ToIframe) /\ popups' \in Seq(Popup)
    BY <1>1, <1>4 DEF handleConfigSave
  <2>2. CASE Refused
    BY <1>4, <2>1, <2>2 DEF Refused, TypeOK, draft, hostDraft, pending
  <2>3. CASE ~Refused
    <3>. DEFINE protocol == Head(toIframe).id
    <3>1. protocol \in Protocols
      BY <1>1, <1>4, <2>3, SaveFields DEF handleConfigSave
    <3>2. \/ tempConfigs' = Assign(tempConfigs, editingConfigIndex, protocol)
          \/ tempConfigs' = Append(tempConfigs, protocol)
      BY <1>4, <2>3 DEF handleConfigSave
    <3>3. tempConfigs' \in Seq(Protocols \cup {Hole})
      <4>. HIDE DEF protocol
      <4>1. Append(tempConfigs, protocol) \in Seq(Protocols \cup {Hole})
        BY <3>1, AppendProperties DEF TypeOK
      <4>2. Assign(tempConfigs, editingConfigIndex, protocol)
                \in Seq(Protocols \cup {Hole})
        BY <3>1, AssignType DEF TypeOK
      <4>. QED
        BY <3>2, <4>1, <4>2
    <3>4. toParent' \in Seq(ToParent)
      BY <1>4, <2>3, CloseType, PostType DEF handleConfigSave
    <3>5. /\ editingConfigIndex' = 0 /\ pendingHostRefresh' = TRUE
          /\ UNCHANGED <<targets, draft, editingHostIndex,
                         pendingTargetRefresh, requests, wiped>>
      BY <1>4, <2>3 DEF handleConfigSave
    <3>. QED
      BY <2>1, <3>3, <3>4, <3>5 DEF TypeOK, draft
  <2>. QED
    BY <2>2, <2>3
<1>5. CASE targetModalClosed
  BY <1>1, <1>5, EmptySeq
     DEF targetModalClosed, resetDraft, TypeOK, hostDraft, pending
<1>6. CASE onHostModalClosed
  <2>1. toIframe' \in Seq(ToIframe) /\ popups' \in Seq(Popup)
    BY <1>1, <1>6 DEF onHostModalClosed
  <2>2. toParent' \in Seq(ToParent)
    BY <1>6, TargetRefreshType, AppendProperties DEF onHostModalClosed, TypeOK
  <2>. QED
    BY <1>6, <2>1, <2>2, EmptySeq DEF onHostModalClosed, TypeOK, draft
<1>7. CASE onConfigModalClosed
  <2>1. toIframe' \in Seq(ToIframe) /\ popups' \in Seq(Popup)
    BY <1>1, <1>7 DEF onConfigModalClosed
  <2>2. toParent' \in Seq(ToParent)
    BY <1>7, HostRefreshType, AppendProperties DEF onConfigModalClosed, TypeOK
  <2>. QED
    BY <1>7, <2>1, <2>2 DEF onConfigModalClosed, TypeOK, draft
<1>. QED
  BY <1>2, <1>3, <1>4, <1>5, <1>6, <1>7

LEMMA ServiceStepType ==
    ASSUME TypeOK,
           \/ \E s \in 1..MaxSaves, ok \in BOOLEAN : SaveAnswered(s, ok)
           \/ \E page \in Pages : TableLoaded(page)
    PROVE  TypeOK'
<1>1. ASSUME NEW s \in 1..MaxSaves, NEW ok \in BOOLEAN, SaveAnswered(s, ok)
      PROVE  TypeOK'
  <2>1. s \in 1..Len(requests) /\ requests[s] \in Request
    BY <1>1, LenProperties, ElementOfSeq DEF SaveAnswered, TypeOK
  <2>2. requests' \in Seq(Request \cup {Answered})
    BY <1>1, <2>1, ExceptSeq DEF SaveAnswered, TypeOK
  <2>3. CASE ok
    <3>1. PICK T \in SUBSET TargetIds : targets \in [T -> SUBSET Host]
      BY DEF TypeOK
    <3>2. requests[s].targetId \in TargetIds /\ requests[s].hosts \in SUBSET Host
      BY <2>1 DEF Request
    <3>3. targets' \in [T \cup {requests[s].targetId} -> SUBSET Host]
      BY <1>1, <2>3, <3>1, <3>2 DEF SaveAnswered
    <3>4. T \cup {requests[s].targetId} \in SUBSET TargetIds
      BY <3>1, <3>2
    <3>5. targets' \in UNION {[U -> SUBSET Host] : U \in SUBSET TargetIds}
      BY <3>3, <3>4
    <3>6. toParent' \in Seq(ToParent)
      BY <1>1, <2>3, CloseType, PostType DEF SaveAnswered, closeTargetModal
    <3>. QED
      BY <1>1, <2>2, <2>3, <3>5, <3>6, EmptySeq
         DEF SaveAnswered, closeTargetModal, TypeOK, hostDraft, pending
  <2>4. CASE ~ok
    BY <1>1, <2>2, <2>4 DEF SaveAnswered, TypeOK, draft, hostDraft, pending
  <2>. QED
    BY <2>3, <2>4
<1>2. ASSUME NEW page \in Pages, TableLoaded(page)
      PROVE  TypeOK'
  <2>1. PICK T \in SUBSET TargetIds : targets' \in [T -> HostsMap]
    BY <1>2, EditorAssumption DEF TableLoaded, EditorAssumption
  <2>2. targets' \in [T -> SUBSET Host]
    BY <2>1 DEF HostsMap
  <2>3. targets' \in UNION {[U -> SUBSET Host] : U \in SUBSET TargetIds}
    BY <2>2
  <2>. QED
    BY <1>2, <2>3
       DEF TableLoaded, TypeOK, draft, hostDraft, pending, bridge
<1>. QED
  BY <1>1, <1>2

LEMMA TypeStep == TypeOK /\ [Next]_vars => TypeOK'
<1>. SUFFICES ASSUME TypeOK, [Next]_vars PROVE TypeOK'
  OBVIOUS
<1>1. CASE Next
  BY <1>1, UserStepType, ParentStepType, IframeStepType, ServiceStepType
     DEF Next, BridgeStep
<1>2. CASE UNCHANGED vars
  BY <1>2 DEF vars, TypeOK, draft, hostDraft, pending, bridge
<1>. QED
  BY <1>1, <1>2

\* Types hold: what is sent and cached are maps of hosts, and every message
\* between the windows has one of the shapes its receiver expects.
THEOREM TypeCorrect == Spec => []TypeOK
BY InitType, TypeStep, PTL DEF Spec

-----------------------------------------------------------------------------
(***************************************************************************)
(* The draft and what is shown of it                                       *)
(***************************************************************************)
Level == <<"target-modal", "host-modal", "config-modal">>

depth == Len(popups)

\* The stack is target, host, configuration, from the bottom.
Nested == /\ depth <= 3
          /\ \A i \in 1..depth : /\ popups[i].modal = Level[i]
                                 /\ popups[i].content.form = Level[i]

\* The form of the target being edited.
IsDraftForm(content) ==
    /\ content.form = "target-modal"
    /\ content.locked <=> currentEditMode # NewTarget
    /\ content.locked => content.id = currentEditMode

\* The target's form is up to date.
UpToDate == popups[1].content.rows = tempHosts

Resting ==
    /\ Quiet
    /\ IF depth = 0 THEN currentEditMode = NewTarget /\ tempHosts = << >>
       ELSE UpToDate

Opening(m) ==
    /\ toParent = <<m>> /\ toIframe = << >>
    /\ m.type = "show"
    /\ depth < 3 /\ m.modal = Level[depth + 1] /\ m.content.form = Level[depth + 1]
    /\ IF depth = 0 THEN IsDraftForm(m.content) /\ m.content.rows = tempHosts
       ELSE UpToDate

Closing(m) ==
    /\ toParent = <<m>> /\ toIframe = << >>
    /\ m.type = "close"
    /\ \/ depth \in 2..3 /\ UpToDate
       \/ depth = 2 /\ pendingTargetRefresh

Updating(m) ==
    /\ toParent = <<m>> /\ toIframe = << >>
    /\ m.type = "update"
    /\ depth \in 1..2 /\ m.content.form = Level[depth]
    /\ IF depth = 1 THEN IsDraftForm(m.content) /\ m.content.rows = tempHosts
       ELSE UpToDate

Saving(m) ==
    /\ toParent = << >> /\ toIframe = <<m>>
    /\ m.type = "save"
    /\ depth > 0 /\ m.modal = Level[depth]
    /\ UpToDate
    /\ depth = 1 => m.rows = tempHosts /\ m.id = popups[1].content.id

Closed(m) ==
    /\ toParent = << >> /\ toIframe = <<m>>
    /\ m.type = "closed"
    /\ depth < 3 /\ m.modal = Level[depth + 1]
    /\ \/ depth = 0
       \/ UpToDate
       \/ depth = 1 /\ pendingTargetRefresh

Clean ==
    /\ Nested
    /\ depth > 0 => IsDraftForm(popups[1].content)
    /\ \/ Resting
       \/ \E m \in ToParent : Opening(m) \/ Closing(m) \/ Updating(m)
       \/ \E m \in ToIframe : Saving(m) \/ Closed(m)

DraftInv == /\ TypeOK
            /\ currentEditMode # NewTarget => ~wiped
            /\ ~wiped => Clean
-----------------------------------------------------------------------------
LEMMA Single ==
    ASSUME NEW m
    PROVE  /\ Append(<< >>, m) = <<m>>
           /\ <<m>> # << >> /\ Head(<<m>>) = m /\ Tail(<<m>>) = << >>
OBVIOUS

\* At most one message is on its way, and it tells the phase.
LEMMA Phase ==
    ASSUME TypeOK, Clean
    PROVE  /\ Quiet => Resting
           /\ toParent # << >> =>
                  /\ Tail(toParent) = << >> /\ toIframe = << >>
                  /\ Head(toParent).type = "show" => Opening(Head(toParent))
                  /\ Head(toParent).type = "close" => Closing(Head(toParent))
                  /\ Head(toParent).type = "update" => Updating(Head(toParent))
           /\ toIframe # << >> =>
                  /\ Tail(toIframe) = << >> /\ toParent = << >>
                  /\ Head(toIframe).type = "save" => Saving(Head(toIframe))
                  /\ Head(toIframe).type = "closed" => Closed(Head(toIframe))
<1>1. CASE Resting
  BY <1>1 DEF Resting, Quiet
<1>2. ASSUME NEW m \in ToParent, Opening(m) \/ Closing(m) \/ Updating(m)
      PROVE  /\ ~Quiet /\ toIframe = << >> /\ toParent = <<m>>
             /\ m.type = "show" => Opening(m)
             /\ m.type = "close" => Closing(m)
             /\ m.type = "update" => Updating(m)
  BY <1>2, Single DEF Opening, Closing, Updating, Quiet
<1>3. ASSUME NEW m \in ToIframe, Saving(m) \/ Closed(m)
      PROVE  /\ ~Quiet /\ toParent = << >> /\ toIframe = <<m>>
             /\ m.type = "save" => Saving(m)
             /\ m.type = "closed" => Closed(m)
  BY <1>3, Single DEF Saving, Closed, Quiet
<1>4. ASSUME NEW m \in ToParent, Opening(m) \/ Closing(m) \/ Updating(m)
      PROVE  Head(toParent) = m /\ Tail(toParent) = << >>
  BY <1>2, <1>4, Single
<1>5. ASSUME NEW m \in ToIframe, Saving(m) \/ Closed(m)
      PROVE  Head(toIframe) = m /\ Tail(toIframe) = << >>
  BY <1>3, <1>5, Single
<1>. QED
  BY <1>1, <1>2, <1>3, <1>4, <1>5 DEF Clean

\* The top popup, by the depth of the stack.
LEMMA TopLevel ==
    ASSUME TypeOK, Nested, popups # << >>
    PROVE  /\ depth \in 1..3
           /\ Top = popups[depth]
           /\ Top.modal = Level[depth] /\ Top.content.form = Level[depth]
           /\ Top.content.form = "target-modal" => depth = 1
           /\ Top.content.form = "host-modal" => depth = 2
           /\ Top.content.form = "config-modal" => depth = 3
<1>1. depth \in 1..depth /\ depth \in Nat /\ Top = popups[depth]
  BY TopType, LenProperties DEF TypeOK, depth, Top
<1>2. Top.modal = Level[depth] /\ Top.content.form = Level[depth]
  BY <1>1 DEF Nested
<1>3. depth \in {1, 2, 3}
  BY <1>1 DEF Nested
<1>. QED
  BY <1>1, <1>2, <1>3 DEF Level

LEMMA Empty == ASSUME TypeOK PROVE popups = << >> <=> depth = 0
<1>1. popups \in Seq(Popup)
  BY DEF TypeOK
<1>2. Len(<< >>) = 0 /\ (popups # << >> => Len(popups) \in Nat \ {0})
  BY <1>1, EmptySeq
<1>. QED
  BY <1>2 DEF depth

\* A refresh posts the form of the target being edited.
LEMMA RefreshedForm ==
    ASSUME TypeOK, Nested, depth > 0, IsDraftForm(popups[1].content), NEW hosts
    PROVE  /\ targetRefresh(hosts).type = "update"
           /\ IsDraftForm(targetRefresh(hosts).content)
           /\ targetRefresh(hosts).content.rows = hosts
<1>1. DOMAIN popups = 1..depth /\ depth \in Nat
  BY LenProperties DEF TypeOK, depth
<1>2. ASSUME NEW i \in DOMAIN popups
      PROVE  popups[i].content.form = "target-modal" <=> i = 1
  BY <1>1 DEF Nested, Level
<1>3. FormIds("target-modal") = {popups[1].content.id}
  BY <1>1, <1>2 DEF FormIds
<1>4. targetRefresh(hosts)
          = update(targetForm(popups[1].content.id, currentEditMode, hosts))
  BY <1>3 DEF targetRefresh
<1>5. PICK c : c = targetRefresh(hosts).content
  OBVIOUS
<1>6. /\ targetRefresh(hosts).type = "update"
      /\ c.form = "target-modal" /\ c.id = popups[1].content.id
      /\ c.locked = (currentEditMode # NewTarget) /\ c.rows = hosts
  BY <1>4, <1>5 DEF update, targetForm
<1>7. currentEditMode # NewTarget => popups[1].content.id = currentEditMode
  BY DEF IsDraftForm
<1>8. IsDraftForm(c)
  BY <1>6, <1>7 DEF IsDraftForm
<1>. QED
  BY <1>5, <1>6, <1>8

LEMMA CleanKept ==
    ASSUME Clean,
           UNCHANGED <<draft, pendingTargetRefresh, popups, toParent, toIframe>>
    PROVE  Clean'
BY DEF Clean, draft, Nested, depth, IsDraftForm, Resting, Quiet, UpToDate,
       Opening, Closing, Updating, Saving, Closed

-----------------------------------------------------------------------------
(***************************************************************************)
(* Each step keeps a clean state clean.                                    *)
(***************************************************************************)

\* Opening the target popup makes any quiet state without popups clean.
LEMMA CleanOpen ==
    ASSUME TypeOK, TypeOK', NEW t \in TargetIds \cup {NoValue}, showTargetModal(t)
    PROVE  Clean'
<1>. DEFINE mode == IF t \in DOMAIN targets THEN t ELSE NewTarget
            hosts == IF t \in DOMAIN targets THEN Entries(targets[t]) ELSE << >>
            id == IF t \in DOMAIN targets THEN t ELSE NoValue
<1>1. PICK m : m = show("target-modal", targetForm(id, mode, hosts))
  OBVIOUS
<1>2. /\ currentEditMode' = mode /\ tempHosts' = hosts
      /\ toParent' = <<m>> /\ toIframe' = << >> /\ depth' = 0
  BY <1>1, Single, EmptySeq DEF showTargetModal, Quiet, depth
<1>3. mode # NewTarget => id = mode
  BY EditorAssumption DEF EditorAssumption
<1>4. m.type = "show" /\ m.modal = Level[1] /\ m.content.form = Level[1]
  BY <1>1 DEF show, targetForm, Level
<1>5. /\ m.content.form = "target-modal"
      /\ m.content.locked = (mode # NewTarget)
      /\ m.content.id = id /\ m.content.rows = hosts
  BY <1>1 DEF show, targetForm
<1>6. IsDraftForm(m.content)' /\ m.content.rows = tempHosts'
  <2>. HIDE DEF mode, hosts, id
  <2>. QED BY <1>2, <1>3, <1>5 DEF IsDraftForm
<1>7. Opening(m)'
  BY <1>2, <1>4, <1>6 DEF Opening
<1>8. m \in ToParent
  BY <1>2, Single, HeadTailProperties DEF TypeOK
<1>9. Nested'
  BY <1>2 DEF Nested
<1>. QED
  BY <1>2, <1>7, <1>8, <1>9 DEF Clean

\* The steps that post a message and leave the stack alone.
LEMMA CleanPost ==
    ASSUME TypeOK, TypeOK', Clean, Resting, popups # << >>,
           popups' = popups, currentEditMode' = currentEditMode,
           pendingTargetRefresh' = pendingTargetRefresh,
           NEW m,
           \/ /\ toParent' = <<m>> /\ toIframe' = << >>
              /\ \/ /\ m.type = "show" /\ depth < 3 /\ tempHosts' = tempHosts
                    /\ m.modal = Level[depth + 1]
                    /\ m.content.form = Level[depth + 1]
                 \/ /\ m.type = "update" /\ depth \in 1..2
                    /\ m.content.form = Level[depth]
                    /\ IF depth = 1
                       THEN IsDraftForm(m.content) /\ m.content.rows = tempHosts'
                       ELSE tempHosts' = tempHosts
           \/ /\ toParent' = << >> /\ toIframe' = <<m>> /\ tempHosts' = tempHosts
              /\ m.type = "save" /\ m.modal = Level[depth]
              /\ depth = 1 => m.rows = tempHosts /\ m.id = popups[1].content.id
    PROVE  Clean'
<1>1. depth > 0 /\ depth' = depth /\ UpToDate
  BY Empty, TopLevel DEF Clean, depth, Resting
<1>2. Nested' /\ IsDraftForm(popups[1].content)'
  BY <1>1 DEF Clean, Nested, IsDraftForm, depth
<1>3. /\ toParent' = <<m>> => m \in ToParent
      /\ toIframe' = <<m>> => m \in ToIframe
  BY Single, HeadTailProperties DEF TypeOK
<1>4. CASE toParent' = <<m>> /\ toIframe' = << >> /\ m.type = "show"
  BY <1>1, <1>2, <1>3, <1>4 DEF Clean, Opening, UpToDate
<1>5. CASE toParent' = <<m>> /\ toIframe' = << >> /\ m.type = "update"
  <2>1. Updating(m)'
    BY <1>1, <1>5 DEF Updating, UpToDate, IsDraftForm
  <2>. QED
    BY <1>1, <1>2, <1>3, <1>5, <2>1 DEF Clean
<1>6. CASE toParent' = << >> /\ toIframe' = <<m>>
  BY <1>1, <1>2, <1>3, <1>6, Single DEF Clean, Saving, UpToDate
<1>. QED
  BY <1>4, <1>5, <1>6

\* A popup that closes tells the iframe, and leaves the ones under it alone.
LEMMA CleanPop ==
    ASSUME TypeOK, TypeOK', Clean, popups # << >>,
           popups' = SubSeq(popups, 1, Len(popups) - 1),
           toParent' = << >>, toIframe = << >>,
           toIframe' = Append(toIframe, closed(Top.modal)),
           UNCHANGED <<draft, pendingTargetRefresh>>,
           \/ UpToDate
           \/ depth = 2 /\ pendingTargetRefresh
    PROVE  Clean'
<1>1. /\ depth \in 1..3 /\ Top.modal = Level[depth]
      /\ depth' = depth - 1 /\ depth' \in 0..2
      /\ depth' # 0 => popups'[1] = popups[1]
      /\ \A i \in 1..depth' : popups'[i] = popups[i]
  <2>1. depth \in 1..3 /\ Top.modal = Level[depth]
    BY TopLevel DEF Clean
  <2>2. popups \in Seq(Popup) /\ depth = Len(popups)
    BY DEF TypeOK, depth
  <2>3. \A i \in 1..(depth - 1) : popups[i] \in Popup
    BY <2>1, <2>2, ElementOfSeq
  <2>4. /\ Len(SubSeq(popups, 1, depth - 1)) = depth - 1
        /\ \A i \in 1..(depth - 1) : SubSeq(popups, 1, depth - 1)[i] = popups[i]
    BY <2>1, <2>2, <2>3, SubSeqProperties
  <2>. QED
    BY <2>1, <2>2, <2>4 DEF depth
<1>2. Nested'
  <2>1. SUFFICES ASSUME NEW i \in 1..depth'
                 PROVE  /\ popups'[i].modal = Level[i]
                        /\ popups'[i].content.form = Level[i]
    BY <1>1 DEF Nested, depth
  <2>2. popups'[i] = popups[i] /\ i \in 1..depth
    BY <1>1 DEF depth
  <2>. QED
    BY <2>2 DEF Clean, Nested
<1>3. depth' > 0 => IsDraftForm(popups[1].content)'
  <2>1. IsDraftForm(popups[1].content)
    BY <1>1 DEF Clean
  <2>2. currentEditMode' = currentEditMode
    BY DEF draft
  <2>. QED
    BY <1>1, <2>1, <2>2 DEF IsDraftForm, depth
<1>4. PICK m : m = closed(Top.modal)
  OBVIOUS
<1>5. toIframe' = <<m>> /\ m.type = "closed" /\ m.modal = Level[depth' + 1]
  BY <1>1, <1>4, Single DEF closed
<1>6. \/ depth' = 0
      \/ UpToDate'
      \/ depth' = 1 /\ pendingTargetRefresh'
  <2>1. tempHosts' = tempHosts
    BY DEF draft
  <2>2. UpToDate /\ depth' # 0 => UpToDate'
    BY <1>1, <2>1 DEF UpToDate
  <2>. QED
    BY <1>1, <2>2
<1>7. Closed(m)'
  BY <1>1, <1>5, <1>6 DEF Closed
<1>8. m \in ToIframe
  BY <1>5, Single, HeadTailProperties DEF TypeOK
<1>. QED
  BY <1>2, <1>3, <1>7, <1>8 DEF Clean

LEMMA CleanUser ==
    ASSUME TypeOK, TypeOK', Clean, UserStep
    PROVE  Clean'
<1>1. ASSUME NEW t \in TargetIds \cup {NoValue}, showTargetModal(t)
      PROVE  Clean'
  BY <1>1, CleanOpen
<1>2. ASSUME NEW i \in Buttons, showHostModal(i)
      PROVE  Clean'
  <2>1. Resting /\ depth = 1 /\ popups # << >>
    BY <1>2, Phase, TopLevel DEF showHostModal, Shown, Clean
  <2>2. PICK m : /\ toParent' = <<m>> /\ m.type = "show"
                 /\ m.modal = "host-modal" /\ m.content.form = "host-modal"
    <3>. DEFINE editing == IF i \in Filled(tempHosts) THEN i ELSE 0
                configs == IF i \in Filled(tempHosts)
                           THEN Entries(tempHosts[i].configs) ELSE << >>
                id == IF i \in Filled(tempHosts)
                      THEN tempHosts[i].hostId ELSE NoValue
                m == show("host-modal", hostForm(id, editing, configs))
    <3>1. toParent' = <<m>>
      BY <1>2, Single DEF showHostModal, Shown, Quiet
    <3>2. /\ m.type = "show" /\ m.modal = "host-modal"
          /\ m.content.form = "host-modal"
      BY DEF show, hostForm
    <3>. QED
      BY <3>1, <3>2
  <2>. QED
    BY <1>2, <2>1, <2>2, CleanPost
       DEF showHostModal, Shown, Quiet, draft, pending, Level
<1>3. ASSUME NEW i \in Buttons, removeHostAndRefresh(i)
      PROVE  Clean'
  <2>1. Resting /\ depth = 1 /\ popups # << >>
    BY <1>3, Phase, TopLevel DEF removeHostAndRefresh, Shown, Clean
  <2>2. PICK m : m = targetRefresh(tempHosts')
    OBVIOUS
  <2>3. /\ m.type = "update" /\ IsDraftForm(m.content)
        /\ m.content.rows = tempHosts'
    BY <2>1, <2>2, RefreshedForm DEF Clean
  <2>4. toParent' = <<m>> /\ toIframe' = << >>
    BY <1>3, <2>2, Single DEF removeHostAndRefresh, Shown, Quiet
  <2>. QED
    BY <1>3, <2>1, <2>3, <2>4, CleanPost
       DEF removeHostAndRefresh, pending, Level, IsDraftForm
<1>4. ASSUME NEW i \in Buttons, showConfigModal(i)
      PROVE  Clean'
  <2>1. Resting /\ depth = 2 /\ popups # << >>
    BY <1>4, Phase, TopLevel DEF showConfigModal, Shown, Clean
  <2>2. PICK m : m = show("config-modal", configForm)
    OBVIOUS
  <2>3. /\ m.type = "show" /\ m.modal = "config-modal"
        /\ m.content.form = "config-modal"
        /\ Level[depth + 1] = "config-modal" /\ depth < 3
    BY <2>1, <2>2 DEF show, configForm, Level
  <2>4. toParent' = <<m>> /\ toIframe' = << >>
    BY <1>4, <2>2, Single DEF showConfigModal, Shown, Quiet
  <2>. QED
    BY <1>4, <2>1, <2>3, <2>4, CleanPost
       DEF showConfigModal, draft, pending
<1>5. ASSUME NEW i \in Buttons, removeConfigAndRefresh(i)
      PROVE  Clean'
  <2>1. Resting /\ depth = 2 /\ popups # << >>
    BY <1>5, Phase, TopLevel DEF removeConfigAndRefresh, Shown, Clean
  <2>2. PICK m : m = hostRefresh(tempConfigs')
    OBVIOUS
  <2>3. m.type = "update" /\ m.content.form = "host-modal"
    BY <2>2 DEF hostRefresh, update, hostForm
  <2>4. toParent' = <<m>> /\ toIframe' = << >>
    BY <1>5, <2>2, Single DEF removeConfigAndRefresh, Shown, Quiet
  <2>. QED
    BY <1>5, <2>1, <2>3, <2>4, CleanPost
       DEF removeConfigAndRefresh, draft, pending, Level
<1>6. ASSUME NEW id \in TargetIds \cup HostIds, TypeId(id)
      PROVE  Clean'
  <2>1. Resting /\ depth \in 1..3 /\ Top = popups[depth] /\ depth = Len(popups)
    BY <1>6, Phase, TopLevel DEF TypeId, Clean, depth
  <2>2. depth' = depth /\ DOMAIN popups = 1..depth
    BY <1>6, <2>1, LenProperties DEF TypeId, TypeOK, depth
  <2>3. ASSUME NEW i \in 1..depth
        PROVE  /\ popups'[i].modal = popups[i].modal
               /\ popups'[i].content.form = popups[i].content.form
               /\ popups'[i].content.rows = popups[i].content.rows
               /\ popups'[i].content.locked = popups[i].content.locked
               /\ popups'[i].content.locked =>
                      popups'[i].content.id = popups[i].content.id
    <3>1. i \in DOMAIN popups /\ popups[i] \in Popup /\ popups[i].content \in Form
      BY <2>2, PopupType
    <3>2. CASE i # depth
      BY <1>6, <2>1, <2>2, <3>1, <3>2 DEF TypeId
    <3>3. CASE i = depth
      <4>1. ~popups[i].content.locked
        BY <1>6, <2>1, <3>3 DEF TypeId
      <4>2. popups'[i] = [popups[i] EXCEPT !.content.id = id]
        BY <1>6, <2>1, <3>1, <3>3 DEF TypeId
      <4>3. popups'[i].modal = popups[i].modal
        BY <4>2, <3>1 DEF Popup
      <4>4. popups'[i].content = [popups[i].content EXCEPT !.id = id]
        BY <4>2, <3>1 DEF Popup
      <4>. QED
        BY <4>1, <4>3, <4>4, <3>1 DEF Form, TargetForm, HostForm, configForm
    <3>. QED
      BY <3>2, <3>3
  <2>4. Nested'
    BY <2>1, <2>2, <2>3 DEF Clean, Nested
  <2>5. IsDraftForm(popups[1].content)'
    BY <1>6, <2>1, <2>3 DEF Clean, IsDraftForm, TypeId, draft
  <2>6. Resting'
    BY <1>6, <2>1, <2>2, <2>3 DEF Resting, UpToDate, TypeId, draft, bridge, Quiet
  <2>. QED
    BY <2>4, <2>5, <2>6 DEF Clean
<1>7. ASSUME NEW p \in Protocols \cup {NoValue}, ClickSave(p)
      PROVE  Clean'
  <2>1. Resting /\ popups # << >>
    BY <1>7, Phase DEF ClickSave
  <2>2. /\ Top.modal = Level[depth] /\ Top.content.form = Level[depth]
        /\ depth \in 1..3 /\ Top = popups[depth]
    BY <2>1, TopLevel DEF Clean
  <2>. DEFINE field == IF Top.content.form # Top.modal THEN NoValue
                       ELSE IF Top.modal = "config-modal" THEN p
                       ELSE Top.content.id
  <2>3. PICK m : m = saved(Top.modal, field, Top.content.rows)
    OBVIOUS
  <2>4. m.type = "save" /\ m.modal = Level[depth]
    BY <2>2, <2>3 DEF saved
  <2>5. depth = 1 => m.rows = tempHosts /\ m.id = popups[1].content.id
    BY <2>1, <2>2, <2>3 DEF saved, Level, Resting, UpToDate
  <2>6. toParent' = << >> /\ toIframe' = <<m>>
    BY <1>7, <2>3, Single DEF ClickSave, Quiet
  <2>. QED
    BY <1>7, <2>1, <2>4, <2>5, <2>6, CleanPost DEF ClickSave, draft, pending
<1>8. ASSUME ClickClose
      PROVE  Clean'
  <2>1. Resting /\ popups # << >>
    BY <1>8, Phase DEF ClickClose
  <2>2. toParent' = << >> /\ toIframe = << >> /\ UpToDate
    BY <1>8, <2>1, Empty DEF ClickClose, Resting, Quiet
  <2>3. UNCHANGED <<draft, pendingTargetRefresh>>
    BY <1>8 DEF ClickClose, pending
  <2>. QED
    BY <1>8, <2>1, <2>2, <2>3, CleanPop DEF ClickClose
<1>. QED
  BY <1>1, <1>2, <1>3, <1>4, <1>5, <1>6, <1>7, <1>8 DEF UserStep

LEMMA CleanParent ==
    ASSUME TypeOK, TypeOK', Clean, popupShow \/ popupClose \/ popupUpdate
    PROVE  Clean'
<1>1. popups \in Seq(Popup) /\ depth = Len(popups) /\ depth \in Nat
  BY LenProperties DEF TypeOK, depth
<1>2. ASSUME NEW type, ParentReceives(type)
      PROVE  /\ toParent # << >> /\ Head(toParent).type = type
             /\ toParent' = << >> /\ toIframe = << >>
             /\ UNCHANGED <<draft, pendingTargetRefresh>>
  BY <1>2, Phase DEF ParentReceives, pending
<1>3. CASE popupShow
  <2>. DEFINE c == Head(toParent).content
              pp == [modal |-> Head(toParent).modal, content |-> c]
  <2>1. Opening(Head(toParent))
    BY <1>2, <1>3, Phase DEF popupShow
  <2>2. /\ depth < 3
        /\ Head(toParent).modal = Level[depth + 1] /\ c.form = Level[depth + 1]
        /\ IF depth = 0 THEN IsDraftForm(c) /\ c.rows = tempHosts ELSE UpToDate
    BY <2>1 DEF Opening
  <2>3. /\ popups' = Append(popups, pp) /\ toIframe' = << >> /\ toParent' = << >>
        /\ UNCHANGED <<draft, pendingTargetRefresh>>
    BY <1>2, <1>3 DEF popupShow
  <2>4. pp.modal = Level[depth + 1] /\ pp.content = c
    BY <2>2
  <2>. HIDE DEF pp, c
  <2>5. depth' = depth + 1
    BY <1>1, <2>3 DEF depth
  <2>6. /\ \A i \in 1..depth : popups'[i] = popups[i]
        /\ popups'[depth + 1] = pp
    BY <1>1, <2>3 DEF depth
  <2>7. Nested'
    <3>1. SUFFICES ASSUME NEW i \in 1..(depth + 1)
                   PROVE  /\ popups'[i].modal = Level[i]
                          /\ popups'[i].content.form = Level[i]
      BY <1>1, <2>2, <2>5 DEF Nested
    <3>2. CASE i = depth + 1
      BY <2>2, <2>4, <2>6, <3>2
    <3>3. CASE i \in 1..depth
      BY <2>6, <3>3 DEF Clean, Nested
    <3>. QED
      BY <1>1, <3>2, <3>3
  <2>8. /\ IsDraftForm(popups[1].content)'
        /\ UpToDate'
    <3>1. CASE depth = 0
      BY <2>2, <2>3, <2>4, <2>6, <3>1 DEF draft, IsDraftForm, UpToDate
    <3>2. CASE depth > 0
      BY <1>1, <2>2, <2>3, <2>6, <3>2 DEF Clean, draft, IsDraftForm, UpToDate
    <3>. QED
      BY <1>1, <3>1, <3>2
  <2>9. Resting'
    BY <1>1, <2>3, <2>5, <2>8 DEF Resting, Quiet
  <2>. QED
    BY <2>7, <2>8, <2>9 DEF Clean
<1>4. CASE popupClose
  <2>1. Closing(Head(toParent))
    BY <1>2, <1>4, Phase DEF popupClose
  <2>2. depth > 0 /\ (UpToDate \/ (depth = 2 /\ pendingTargetRefresh))
    BY <2>1 DEF Closing
  <2>3. popups # << >>
    BY <2>2, Empty
  <2>4. /\ popups' = SubSeq(popups, 1, Len(popups) - 1)
        /\ toIframe' = Append(toIframe, closed(Top.modal))
    BY <1>4, <2>3 DEF popupClose
  <2>5. /\ toParent' = << >> /\ toIframe = << >>
        /\ UNCHANGED <<draft, pendingTargetRefresh>>
    BY <1>2, <1>4 DEF popupClose
  <2>. QED
    BY <2>2, <2>3, <2>4, <2>5, CleanPop
<1>5. CASE popupUpdate
  <2>. DEFINE c == Head(toParent).content
  <2>1. Updating(Head(toParent))
    BY <1>2, <1>5, Phase DEF popupUpdate
  <2>2. /\ depth \in 1..2 /\ c.form = Level[depth]
        /\ IF depth = 1 THEN IsDraftForm(c) /\ c.rows = tempHosts ELSE UpToDate
    BY <2>1 DEF Updating
  <2>3. popups # << >>
    BY <2>2, Empty
  <2>4. /\ popups' = [popups EXCEPT ![depth].content = c]
        /\ toIframe' = << >> /\ toParent' = << >>
        /\ UNCHANGED <<draft, pendingTargetRefresh>>
    BY <1>2, <1>5, <2>3 DEF popupUpdate, depth
  <2>. HIDE DEF c
  <2>5. depth' = depth /\ DOMAIN popups = 1..depth
    BY <1>1, <2>2, <2>4, LenProperties DEF depth
  <2>6. popups[depth] \in Popup
    BY <1>1, <2>2, ElementOfSeq
  <2>7. /\ \A i \in 1..depth : i # depth => popups'[i] = popups[i]
        /\ popups'[depth].content = c
        /\ popups'[depth].modal = popups[depth].modal
    BY <2>2, <2>4, <2>5, <2>6 DEF Popup
  <2>8. Nested'
    <3>1. SUFFICES ASSUME NEW i \in 1..depth
                   PROVE  /\ popups'[i].modal = Level[i]
                          /\ popups'[i].content.form = Level[i]
      BY <2>2, <2>5 DEF Nested
    <3>2. popups[i].modal = Level[i] /\ popups[i].content.form = Level[i]
      BY DEF Clean, Nested
    <3>. QED
      BY <2>2, <2>7, <3>2
  <2>9. IsDraftForm(popups[1].content)' /\ UpToDate'
    <3>1. CASE depth = 1
      BY <2>2, <2>4, <2>7, <3>1 DEF draft, IsDraftForm, UpToDate
    <3>2. CASE depth = 2
      BY <2>2, <2>4, <2>7, <3>2 DEF Clean, draft, IsDraftForm, UpToDate
    <3>. QED
      BY <2>2, <3>1, <3>2
  <2>10. Resting'
    BY <2>2, <2>4, <2>5, <2>9 DEF Resting, Quiet
  <2>. QED
    BY <2>8, <2>9, <2>10 DEF Clean
<1>. QED
  BY <1>3, <1>4, <1>5

\* A handler that posts nothing leaves the page at rest.
LEMMA CleanRest ==
    ASSUME Clean, UNCHANGED <<draft, popups>>, depth > 0, UpToDate,
           toParent' = << >>, toIframe' = << >>
    PROVE  Clean'
<1>1. Nested' /\ IsDraftForm(popups[1].content)'
  BY DEF Clean, Nested, IsDraftForm, depth, draft
<1>2. Resting'
  BY DEF Resting, Quiet, UpToDate, depth, draft
<1>. QED
  BY <1>1, <1>2 DEF Clean

\* A handler that posts the refresh of the popup on top.
LEMMA CleanRefresh ==
    ASSUME TypeOK', Clean, UNCHANGED <<draft, popups>>, NEW m,
           toParent' = <<m>>, toIframe' = << >>,
           m.type = "update", depth \in 1..2, m.content.form = Level[depth],
           IF depth = 1 THEN IsDraftForm(m.content) /\ m.content.rows = tempHosts
           ELSE UpToDate
    PROVE  Clean'
<1>1. Nested' /\ IsDraftForm(popups[1].content)'
  BY DEF Clean, Nested, IsDraftForm, depth, draft
<1>2. Updating(m)'
  BY DEF Updating, UpToDate, IsDraftForm, depth, draft
<1>3. m \in ToParent
  BY Single, HeadTailProperties DEF TypeOK
<1>. QED
  BY <1>1, <1>2, <1>3 DEF Clean

LEMMA CleanIframe ==
    ASSUME TypeOK, TypeOK', Clean,
           \/ handleTargetSave \/ handleHostSave \/ handleConfigSave
           \/ targetModalClosed \/ onHostModalClosed \/ onConfigModalClosed
    PROVE  Clean'
<1>1. ASSUME NEW modal, IframeReceives("save", modal)
      PROVE  /\ Saving(Head(toIframe)) /\ Level[depth] = modal
             /\ depth \in 1..3 /\ UpToDate
             /\ toParent = << >> /\ toIframe' = << >> /\ popups' = popups
  <2>1. Saving(Head(toIframe)) /\ toIframe' = << >> /\ Head(toIframe).modal = modal
    BY <1>1, Phase DEF IframeReceives
  <2>2. depth > 0 /\ depth \in Nat /\ depth <= 3
    BY <2>1, LenProperties DEF Saving, Clean, Nested, TypeOK, depth
  <2>. QED
    BY <1>1, <2>1, <2>2 DEF Saving, IframeReceives
<1>2. ASSUME NEW modal, IframeReceives("closed", modal)
      PROVE  /\ Closed(Head(toIframe)) /\ Level[depth + 1] = modal
             /\ depth \in 0..2
             /\ toParent = << >> /\ toIframe' = << >> /\ popups' = popups
  <2>1. Closed(Head(toIframe)) /\ toIframe' = << >> /\ Head(toIframe).modal = modal
    BY <1>2, Phase DEF IframeReceives
  <2>2. depth < 3 /\ depth \in Nat
    BY <2>1, LenProperties DEF Closed, TypeOK, depth
  <2>. QED
    BY <1>2, <2>1, <2>2 DEF Closed, IframeReceives
<1>3. ASSUME NEW modal, IframeReceives("save", modal), Refused
      PROVE  Clean'
  BY <1>1, <1>3, CleanRest DEF Refused
<1>4. CASE handleTargetSave
  <2>1. IframeReceives("save", "target-modal") /\ UNCHANGED <<draft, toParent>>
    BY <1>4 DEF handleTargetSave, Refused
  <2>. QED
    BY <1>1, <2>1, CleanRest
<1>5. CASE handleHostSave
  <2>1. IframeReceives("save", "host-modal")
    BY <1>5 DEF handleHostSave
  <2>2. depth = 2 /\ popups' = popups /\ toParent = << >> /\ toIframe' = << >>
    BY <1>1, <2>1 DEF Level
  <2>3. CASE Refused
    BY <1>3, <2>1, <2>3
  <2>4. CASE ~Refused
    <3>1. PICK m : m = close
      OBVIOUS
    <3>2. /\ pendingTargetRefresh' /\ currentEditMode' = currentEditMode
          /\ toParent' = <<m>>
      BY <1>5, <2>2, <2>4, <3>1, Single DEF handleHostSave
    <3>3. m \in ToParent /\ m.type = "close"
      BY <3>1, CloseType DEF close
    <3>4. Closing(m)'
      BY <2>2, <3>2, <3>3 DEF Closing, depth
    <3>5. Nested' /\ IsDraftForm(popups[1].content)'
      <4>1. Nested /\ IsDraftForm(popups[1].content)
        BY <2>2 DEF Clean
      <4>2. popups' = popups /\ currentEditMode' = currentEditMode
        BY <2>2, <3>2
      <4>. QED
        BY <4>1, <4>2 DEF Nested, IsDraftForm, depth
    <3>. QED
      BY <3>3, <3>4, <3>5 DEF Clean
  <2>. QED
    BY <2>3, <2>4
<1>6. CASE handleConfigSave
  <2>1. IframeReceives("save", "config-modal")
    BY <1>6 DEF handleConfigSave
  <2>2. /\ depth = 3 /\ UpToDate
        /\ popups' = popups /\ toParent = << >> /\ toIframe' = << >>
    BY <1>1, <2>1 DEF Level
  <2>3. CASE Refused
    BY <1>3, <2>1, <2>3
  <2>4. CASE ~Refused
    <3>1. PICK m : m = close
      OBVIOUS
    <3>2. UNCHANGED draft /\ toParent' = <<m>>
      BY <1>6, <2>2, <2>4, <3>1, Single DEF handleConfigSave
    <3>3. m \in ToParent /\ m.type = "close"
      BY <3>1, CloseType DEF close
    <3>4. Closing(m)'
      BY <2>2, <3>2, <3>3 DEF Closing, UpToDate, depth, draft
    <3>5. Nested' /\ IsDraftForm(popups[1].content)'
      <4>1. Nested /\ IsDraftForm(popups[1].content)
        BY <2>2 DEF Clean
      <4>2. popups' = popups /\ currentEditMode' = currentEditMode
        BY <2>2, <3>2 DEF draft
      <4>. QED
        BY <4>1, <4>2 DEF Nested, IsDraftForm, depth
    <3>. QED
      BY <3>3, <3>4, <3>5 DEF Clean
  <2>. QED
    BY <2>3, <2>4
<1>7. CASE targetModalClosed
  <2>1. IframeReceives("closed", "target-modal")
    BY <1>7 DEF targetModalClosed
  <2>2. depth = 0 /\ popups' = popups /\ toParent = << >> /\ toIframe' = << >>
    BY <1>2, <2>1 DEF Level
  <2>3. /\ toParent' = << >>
        /\ currentEditMode' = NewTarget /\ tempHosts' = << >>
    BY <1>7, <2>2 DEF targetModalClosed, resetDraft
  <2>4. depth' = 0
    BY <2>2 DEF depth
  <2>5. Resting' /\ Nested'
    BY <2>2, <2>3, <2>4 DEF Resting, Quiet, Nested
  <2>. QED
    BY <2>4, <2>5 DEF Clean
<1>8. CASE onHostModalClosed
  <2>1. IframeReceives("closed", "host-modal")
    BY <1>8 DEF onHostModalClosed
  <2>2. /\ depth = 1 /\ popups' = popups /\ toParent = << >> /\ toIframe' = << >>
        /\ Closed(Head(toIframe))
    BY <1>2, <2>1 DEF Level
  <2>3. UNCHANGED draft
    BY <1>8 DEF onHostModalClosed
  <2>4. CASE pendingTargetRefresh
    <3>1. PICK m : m = targetRefresh(tempHosts)
      OBVIOUS
    <3>2. toParent' = <<m>>
      BY <1>8, <2>2, <2>4, <3>1, Single DEF onHostModalClosed
    <3>3. /\ m.type = "update" /\ IsDraftForm(m.content)
          /\ m.content.rows = tempHosts
      BY <2>2, <3>1, RefreshedForm DEF Clean
    <3>4. m.content.form = Level[depth]
      BY <2>2, <3>3 DEF IsDraftForm, Level
    <3>. QED
      BY <2>2, <2>3, <3>2, <3>3, <3>4, CleanRefresh
  <2>5. CASE ~pendingTargetRefresh
    <3>1. UpToDate
      BY <2>2, <2>5 DEF Closed
    <3>2. toParent' = << >>
      BY <1>8, <2>2, <2>5 DEF onHostModalClosed
    <3>. QED
      BY <2>2, <2>3, <3>1, <3>2, CleanRest
  <2>. QED
    BY <2>4, <2>5
<1>9. CASE onConfigModalClosed
  <2>1. IframeReceives("closed", "config-modal")
    BY <1>9 DEF onConfigModalClosed
  <2>2. /\ depth = 2 /\ popups' = popups /\ toParent = << >> /\ toIframe' = << >>
        /\ Closed(Head(toIframe))
    BY <1>2, <2>1 DEF Level
  <2>3. UNCHANGED draft /\ UpToDate
    BY <1>9, <2>2 DEF onConfigModalClosed, Closed
  <2>4. CASE pendingHostRefresh
    <3>1. PICK m : m = hostRefresh(tempConfigs)
      OBVIOUS
    <3>2. toParent' = <<m>>
      BY <1>9, <2>2, <2>4, <3>1, Single DEF onConfigModalClosed
    <3>3. m.type = "update" /\ m.content.form = Level[depth]
      BY <2>2, <3>1 DEF hostRefresh, update, hostForm, Level
    <3>. QED
      BY <2>2, <2>3, <3>2, <3>3, CleanRefresh
  <2>5. CASE ~pendingHostRefresh
    <3>1. toParent' = << >>
      BY <1>9, <2>2, <2>5 DEF onConfigModalClosed
    <3>. QED
      BY <2>2, <2>3, <3>1, CleanRest
  <2>. QED
    BY <2>4, <2>5
<1>. QED
  BY <1>4, <1>5, <1>6, <1>7, <1>8, <1>9

-----------------------------------------------------------------------------
LEMMA InitClean == Init => Clean
<1>. SUFFICES ASSUME Init PROVE Clean
  OBVIOUS
<1>1. depth = 0
  BY EmptySeq DEF Init, depth
<1>2. Resting /\ Nested
  BY <1>1 DEF Init, Resting, Quiet, Nested
<1>. QED
  BY <1>1, <1>2 DEF Clean

\* What a step does to the history variable and to the mode: an answer wipes
\* the draft and leaves add mode, and only opening a popup starts a new draft.
LEMMA WipeStep ==
    ASSUME TypeOK, currentEditMode # NewTarget => ~wiped, Next
    PROVE  /\ currentEditMode' # NewTarget => ~wiped'
           /\ \/ wiped'
              \/ \E t \in TargetIds \cup {NoValue} : showTargetModal(t)
              \/ ~wiped
<1>1. ASSUME NEW t \in TargetIds \cup {NoValue}, showTargetModal(t)
      PROVE  ~wiped'
  BY <1>1 DEF showTargetModal
<1>2. CASE UserStep
  BY <1>1, <1>2
     DEF UserStep, showHostModal, showConfigModal, removeHostAndRefresh,
         removeConfigAndRefresh, TypeId, ClickSave, ClickClose, draft
<1>3. CASE BridgeStep
  BY <1>3
     DEF BridgeStep, popupShow, popupClose, popupUpdate, ParentReceives,
         handleTargetSave, handleHostSave, handleConfigSave, Refused,
         targetModalClosed, onHostModalClosed, onConfigModalClosed,
         resetDraft, draft
<1>4. ASSUME NEW s \in 1..MaxSaves, NEW ok \in BOOLEAN, SaveAnswered(s, ok)
      PROVE  /\ currentEditMode' # NewTarget => ~wiped'
             /\ wiped' \/ ~wiped
  BY <1>4 DEF SaveAnswered, closeTargetModal, draft
<1>5. ASSUME NEW page \in Pages, TableLoaded(page)
      PROVE  /\ currentEditMode' # NewTarget => ~wiped'
             /\ wiped' \/ ~wiped
  BY <1>5 DEF TableLoaded, draft, TypeOK
<1>. QED
  BY <1>2, <1>3, <1>4, <1>5 DEF Next

LEMMA CleanStep ==
    ASSUME TypeOK, TypeOK', Clean, Next, ~wiped'
    PROVE  Clean'
<1>1. ASSUME NEW s \in 1..MaxSaves, NEW ok \in BOOLEAN, SaveAnswered(s, ok)
      PROVE  Clean'
  <2>1. ~ok
    BY <1>1 DEF SaveAnswered, closeTargetModal
  <2>. QED
    BY <1>1, <2>1, CleanKept DEF SaveAnswered, pending
<1>2. ASSUME NEW page \in Pages, TableLoaded(page)
      PROVE  Clean'
  BY <1>2, CleanKept DEF TableLoaded, pending, bridge
<1>. QED
  BY <1>1, <1>2, CleanUser, CleanParent, CleanIframe DEF Next, BridgeStep

THEOREM DraftInvariant == Spec => []DraftInv
<1>1. Init => DraftInv
  BY InitType, InitClean DEF Init, DraftInv
<1>2. ASSUME DraftInv, [Next]_vars
      PROVE  DraftInv'
  <2>1. TypeOK'
    BY <1>2, TypeStep DEF DraftInv
  <2>2. CASE Next
    <3>1. currentEditMode' # NewTarget => ~wiped'
      BY <1>2, <2>2, WipeStep DEF DraftInv
    <3>2. ~wiped' => Clean'
      BY <1>2, <2>1, <2>2, WipeStep, CleanStep, CleanOpen DEF DraftInv
    <3>. QED
      BY <2>1, <3>1, <3>2 DEF DraftInv
  <2>3. CASE UNCHANGED vars
    BY <1>2, <2>1, <2>3, CleanKept DEF DraftInv, vars, draft, pending, bridge
  <2>. QED
    BY <1>2, <2>2, <2>3
<1>. QED
  BY <1>1, <1>2, PTL DEF Spec

\* The popups show the draft that is being edited, unless a late answer wiped
\* it; and then the page is in add mode.
THEOREM DraftShown == Spec => []DraftIsShown
<1>1. DraftInv => DraftIsShown
  <2>. SUFFICES ASSUME DraftInv PROVE DraftIsShown
    OBVIOUS
  <2>1. CASE ~Quiet \/ wiped
    BY <2>1 DEF DraftInv, DraftIsShown
  <2>2. CASE Quiet /\ ~wiped
    <3>1. Resting /\ Clean
      BY <2>2, Phase DEF DraftInv
    <3>2. CASE popups = << >>
      BY <2>2, <3>1, <3>2, Empty DEF DraftInv, DraftIsShown, Resting
    <3>3. CASE popups # << >>
      <4>1. depth > 0 /\ IsDraftForm(popups[1].content) /\ UpToDate
        BY <3>1, <3>3, Empty, TopLevel DEF DraftInv, Clean, Resting
      <4>. QED
        BY <2>2, <3>3, <4>1 DEF DraftInv, DraftIsShown, IsDraftForm, UpToDate
    <3>. QED
      BY <3>2, <3>3
  <2>. QED
    BY <2>1, <2>2
<1>. QED
  BY <1>1, DraftInvariant, PTL

\* A request carries what the popup showed when Save was clicked, unless a late
\* answer wiped the draft; and then it is a POST of an id the page does not know.
THEOREM ShownIsSent == Spec => SendsWhatIsShown
<1>. DEFINE r == requests'[Len(requests')]
            Shows == \/ /\ r.hosts = hostsArrayToMap(Head(toIframe).rows)
                        /\ r.method = "PATCH" => r.targetId = popups[1].content.id
                     \/ /\ wiped /\ r.method = "POST"
                        /\ r.targetId \notin DOMAIN targets
<1>1. ASSUME DraftInv, [Next]_vars, Len(requests') > Len(requests)
      PROVE  Shows
  <2>1. handleTargetSave
    <3>1. requests' # requests
      BY <1>1, LenProperties DEF DraftInv, TypeOK
    <3>2. ASSUME NEW s \in 1..MaxSaves, NEW ok \in BOOLEAN, SaveAnswered(s, ok)
          PROVE  FALSE
      <4>1. requests \in Seq(Request \cup {Answered})
        BY <1>1 DEF DraftInv, TypeOK
      <4>2. s \in 1..Len(requests) /\ requests' = [requests EXCEPT ![s] = Answered]
        BY <3>2, <4>1, LenProperties DEF SaveAnswered
      <4>. QED
        BY <1>1, <4>1, <4>2, ExceptSeq, LenProperties
    <3>3. ~UserStep
      BY <3>1 DEF UserStep, showTargetModal, showHostModal, showConfigModal,
                  removeHostAndRefresh, removeConfigAndRefresh, TypeId,
                  ClickSave, ClickClose
    <3>4. BridgeStep => handleTargetSave
      BY <3>1 DEF BridgeStep, popupShow, popupClose, popupUpdate, ParentReceives,
                  handleHostSave, handleConfigSave, Refused, targetModalClosed,
                  onHostModalClosed, onConfigModalClosed
    <3>5. \A page \in Pages : ~TableLoaded(page)
      BY <3>1 DEF TableLoaded
    <3>. QED
      BY <1>1, <3>1, <3>2, <3>3, <3>4, <3>5 DEF Next, vars
  <2>2. PICK q : q = [method |-> IF currentEditMode = NewTarget
                                 THEN "POST" ELSE "PATCH",
                      targetId |-> Head(toIframe).id,
                      hosts |-> hostsArrayToMap(tempHosts)]
    OBVIOUS
  <2>3. /\ requests' = Append(requests, q)
        /\ currentEditMode = NewTarget => q.targetId \notin DOMAIN targets
        /\ IframeReceives("save", "target-modal")
    BY <1>1, <2>1, <2>2 DEF handleTargetSave, Refused
  <2>4. r = q
    BY <1>1, <2>3 DEF DraftInv, TypeOK
  <2>5. CASE wiped
    BY <1>1, <2>2, <2>3, <2>4, <2>5 DEF DraftInv
  <2>6. CASE ~wiped
    <3>1. Saving(Head(toIframe)) /\ Head(toIframe).modal = "target-modal"
      BY <1>1, <2>3, <2>6, Phase DEF DraftInv, IframeReceives
    <3>2. depth \in 1..3
      BY <1>1, <2>6, <3>1, Empty, TopLevel DEF DraftInv, Clean, Saving
    <3>3. depth = 1
      BY <3>1, <3>2 DEF Saving, Level
    <3>4. /\ Head(toIframe).rows = tempHosts
          /\ Head(toIframe).id = popups[1].content.id
      BY <3>1, <3>3 DEF Saving
    <3>. QED
      BY <2>2, <2>4, <3>4
  <2>. QED
    BY <2>5, <2>6
<1>2. DraftInv /\ [Next]_vars => [Len(requests') > Len(requests) => Shows]_vars
  BY <1>1
<1>. QED
  BY <1>2, DraftInvariant, PTL DEF Spec, SendsWhatIsShown

-----------------------------------------------------------------------------
(***************************************************************************)
(* What stays true after a wipe                                            *)
(*                                                                         *)
(* A late answer closes whatever popup is on top, so that afterwards the   *)
(* messages on their way may reach other popups than they were posted for. *)
(* What remains says where a message can still arrive (Bridged) and what a *)
(* deferred refresh waits for (Owing).                                     *)
(***************************************************************************)
Posted(type) == \E i \in DOMAIN toParent : toParent[i].type = type
ClosedSent(modal) == \E i \in DOMAIN toIframe : toIframe[i] = closed(modal)
Open(modal) == \E i \in 1 .. depth : popups[i].modal = modal
OnTop(modal) == depth > 0 /\ popups[depth].modal = modal

\* A host's popup is above the target's, a configuration's is on top.
Stacked == \A i \in 1 .. depth :
    /\ popups[i].modal = "target-modal" <=> i = 1
    /\ popups[i].modal = "host-modal" =>
          /\ i = 2 /\ popups[i].content.form = "host-modal"
          /\ popups[1].content.form = "target-modal"
    /\ popups[i].modal = "config-modal" => i = depth /\ popups[i].content.form = "config-modal"
    /\ popups[i].content.form = "target-modal" => i = 1

MayShow(m) ==
    /\ m.content.form = m.modal
    /\ m.modal = "target-modal" => depth = 0
    /\ m.modal = "host-modal" => depth = 1 /\ popups[1].content.form = "target-modal"
    /\ m.modal = "config-modal" => depth > 0 /\ ~Open("config-modal")

MayUpdate(m) ==
    /\ m.content.form \in {"target-modal", "host-modal"}
    /\ m.content.form = "target-modal" => depth <= 1
    /\ ~Open("config-modal")

\* Only what an answer posts comes after a popup that is asked for.
ParentGets == \A i \in DOMAIN toParent :
    /\ toParent[i].type = "show" =>
          /\ i = 1 /\ toIframe = << >> /\ MayShow(toParent[i])
          /\ \A j \in DOMAIN toParent : j # 1 => toParent[j].type = "close"
    /\ toParent[i].type = "update" => MayUpdate(toParent[i])

IframeGets == \A i \in DOMAIN toIframe :
    LET m == toIframe[i]
    IN  /\ m.type = "save" => i = 1 /\ (OnTop(m.modal) \/ ClosedSent(m.modal))
        /\ m = closed("host-modal") => depth <= 1
        /\ m = closed("config-modal") => ~Open("config-modal")

Bridged == Stacked /\ ParentGets /\ IframeGets

\* The popup has been closed, or will be by a message on its way.
Leaving(modal) == ClosedSent(modal) \/ (OnTop(modal) /\ Posted("close"))

Owing ==
    /\ pendingTargetRefresh => Leaving("host-modal") /\ ~Posted("show")
    /\ pendingHostRefresh => Leaving("config-modal") /\ ~Posted("show")

-----------------------------------------------------------------------------
(***************************************************************************)
(* Queues and the stack                                                    *)
(***************************************************************************)
LEMMA Appended ==
    ASSUME NEW S, NEW q \in Seq(S), NEW x \in S
    PROVE  /\ Append(q, x) \in Seq(S) /\ Append(q, x) # << >>
           /\ \A i \in DOMAIN Append(q, x) : \/ i \in DOMAIN q /\ Append(q, x)[i] = q[i]
                                             \/ i = Len(q) + 1 /\ Append(q, x)[i] = x
           /\ \A i \in DOMAIN q : i \in DOMAIN Append(q, x) /\ Append(q, x)[i] = q[i]
           /\ \E i \in DOMAIN Append(q, x) : i = Len(q) + 1 /\ Append(q, x)[i] = x
<1>1. /\ Append(q, x) \in Seq(S)
      /\ Append(q, x) # << >>
      /\ Len(Append(q, x)) = Len(q) + 1 /\ Len(q) \in Nat
      /\ \A i \in 1 .. Len(q) : Append(q, x)[i] = q[i]
      /\ Append(q, x)[Len(q) + 1] = x
  BY AppendProperties, LenProperties
<1>2. DOMAIN Append(q, x) = 1 .. Len(q) + 1 /\ DOMAIN q = 1 .. Len(q)
  BY <1>1, LenProperties
<1>. QED
  BY <1>1, <1>2

LEMMA Tailed ==
    ASSUME NEW S, NEW q \in Seq(S), q # << >>
    PROVE  /\ Tail(q) \in Seq(S) /\ 1 \in DOMAIN q /\ Head(q) = q[1]
           /\ \A i \in DOMAIN Tail(q) : i \in Nat /\ i > 0 /\ i + 1 \in DOMAIN q
                                        /\ Tail(q)[i] = q[i + 1]
           /\ \A i \in DOMAIN q : i # 1 => \E j \in DOMAIN Tail(q) : Tail(q)[j] = q[i]
<1>1. /\ Tail(q) \in Seq(S) /\ Len(Tail(q)) = Len(q) - 1
      /\ \A i \in 1 .. Len(Tail(q)) : Tail(q)[i] = q[i + 1]
      /\ Len(q) \in Nat \ {0} /\ Head(q) = q[1]
  BY HeadTailProperties, EmptySeq, LenProperties
<1>2. DOMAIN Tail(q) = 1 .. Len(q) - 1 /\ DOMAIN q = 1 .. Len(q)
  BY <1>1, LenProperties
<1>3. \A i \in DOMAIN q : i # 1 => i - 1 \in DOMAIN Tail(q) /\ Tail(q)[i - 1] = q[i]
  BY <1>1, <1>2
<1>4. \A i \in DOMAIN Tail(q) : /\ i \in Nat /\ i > 0 /\ i + 1 \in DOMAIN q
                                /\ Tail(q)[i] = q[i + 1]
  BY <1>1, <1>2
<1>5. \A i \in DOMAIN q : i # 1 => \E j \in DOMAIN Tail(q) : Tail(q)[j] = q[i]
  BY <1>3
<1>6. 1 \in DOMAIN q
  BY <1>1, <1>2
<1>. QED
  BY <1>1, <1>4, <1>5, <1>6

\* A queue of one.
LEMMA OneMessage ==
    ASSUME NEW m
    PROVE  /\ <<m>> # << >> /\ DOMAIN <<m>> = {1} /\ <<m>>[1] = m
           /\ DOMAIN << >> = {} /\ Append(<< >>, m) = <<m>>
  OBVIOUS

LEMMA StackType ==
    ASSUME TypeOK
    PROVE  /\ popups \in Seq(Popup) /\ depth \in Nat /\ DOMAIN popups = 1 .. depth
           /\ popups = << >> <=> depth = 0
           /\ popups # << >> => Top = popups[depth]
           /\ \A i \in 1 .. depth : popups[i] \in Popup
<1>1. popups \in Seq(Popup)
  BY DEF TypeOK
<1>. QED
  BY <1>1, Empty, LenProperties, ElementOfSeq DEF depth, Top

LEMMA Popped ==
    ASSUME TypeOK, popups # << >>, popups' = SubSeq(popups, 1, Len(popups) - 1)
    PROVE  /\ depth' = depth - 1 /\ depth > 0 /\ depth \in Nat
           /\ \A i \in 1 .. depth' : popups'[i] = popups[i]
<1>1. popups \in Seq(Popup) /\ depth \in Nat /\ depth > 0
  BY StackType
<1>2. \A i \in 1 .. depth - 1 : i \in 1 .. depth /\ i \in 1 .. Len(popups)
  BY <1>1, LenProperties DEF depth
<1>3. /\ Len(SubSeq(popups, 1, depth - 1)) = depth - 1
      /\ \A i \in 1 .. depth - 1 : SubSeq(popups, 1, depth - 1)[i] = popups[i]
  <2>1. \A i \in 1 .. depth - 1 : i \in 1 .. Len(popups)
    BY <1>2
  <2>2. depth = Len(popups)
    BY DEF depth
  <2>. QED
    BY <1>1, <2>1, <2>2
<1>. QED
  BY <1>1, <1>2, <1>3 DEF depth

LEMMA Pushed ==
    ASSUME TypeOK, NEW p \in Popup, popups' = Append(popups, p)
    PROVE  /\ depth' = depth + 1 /\ depth \in Nat
           /\ \A i \in 1 .. depth : popups'[i] = popups[i]
           /\ popups'[depth'] = p
<1>1. popups \in Seq(Popup) /\ depth \in Nat
  BY StackType
<1>. QED
  BY <1>1, AppendProperties DEF depth

LEMMA Redrawn ==
    ASSUME TypeOK, popups # << >>, NEW c, popups' = [popups EXCEPT ![Len(popups)].content = c]
    PROVE  /\ depth' = depth /\ depth \in Nat /\ depth > 0
           /\ \A i \in 1 .. depth : /\ i # depth => popups'[i] = popups[i]
                                    /\ popups'[i].modal = popups[i].modal
           /\ popups'[depth].content = c
<1>1. /\ popups \in Seq(Popup) /\ depth \in Nat /\ depth > 0 /\ DOMAIN popups = 1 .. depth
      /\ \A i \in 1 .. depth : popups[i] \in Popup
  BY StackType
<1>2. popups' = [popups EXCEPT ![depth] = [popups[depth] EXCEPT !.content = c]]
  BY DEF depth
<1>3. Len(popups') = Len(popups)
  BY <1>1, <1>2, LenProperties
<1>4. depth' = depth
  BY <1>3 DEF depth
<1>5. \A p \in Popup : [p EXCEPT !.content = c].modal = p.modal
                       /\ [p EXCEPT !.content = c].content = c
  BY DEF Popup
<1>. QED
  BY <1>1, <1>2, <1>4, <1>5

-----------------------------------------------------------------------------
(***************************************************************************)
(* Where messages arrive                                                   *)
(***************************************************************************)
Shape == Bridged /\ Owing

LEMMA ShapeKept ==
    ASSUME Shape, UNCHANGED <<popups, toParent, toIframe, pending>> PROVE Shape'
  BY DEF Shape, Bridged, Stacked, ParentGets, IframeGets, Owing, Leaving, Posted, ClosedSent,
         OnTop, Open, MayShow, MayUpdate, depth, pending

\* Between the user's clicks nothing is owed.
LEMMA QuietOwesNothing ==
    ASSUME Owing, Quiet PROVE ~pendingTargetRefresh /\ ~pendingHostRefresh
  BY OneMessage DEF Owing, Quiet, Leaving, ClosedSent, Posted

\* The user's click posts a popup or the refresh of the one on top.
LEMMA ShapePosts ==
    ASSUME TypeOK, Shape, Quiet, NEW m, m \in ToParent,
           toParent' = Append(toParent, m), UNCHANGED <<popups, toIframe, pending>>,
           \/ m.type = "show" /\ MayShow(m)
           \/ m.type = "update" /\ MayUpdate(m)
    PROVE  Shape'
<1>1. toParent' = <<m>> /\ DOMAIN toParent' = {1} /\ toParent'[1] = m
  BY OneMessage DEF Quiet
<1>2. toIframe' = << >> /\ DOMAIN toIframe' = {}
  BY OneMessage DEF Quiet
<1>3. ~pendingTargetRefresh' /\ ~pendingHostRefresh'
  BY QuietOwesNothing DEF Shape, pending
<1>4. Stacked'
  BY DEF Shape, Bridged, Stacked, depth
<1>5. MayShow(m) => MayShow(m)'
  BY DEF MayShow, depth, Open
<1>6. MayUpdate(m) => MayUpdate(m)'
  BY DEF MayUpdate, depth, Open
<1>7. ParentGets'
  BY <1>1, <1>2, <1>5, <1>6 DEF ParentGets
<1>8. IframeGets'
  BY <1>2 DEF IframeGets
<1>. QED
  BY <1>3, <1>4, <1>7, <1>8 DEF Shape, Bridged, Owing

\* The page takes a message and may post one for the popup on top.
Posts(m) ==
    /\ toParent' = Append(toParent, m)
    /\ m \in ToParent
    /\ m.type = "close" \/ (m.type = "update" /\ MayUpdate(m))

LEMMA BridgedTaken ==
    ASSUME TypeOK, Bridged, toIframe # << >>, toIframe' = Tail(toIframe), UNCHANGED popups,
           UNCHANGED toParent \/ \E m : Posts(m)
    PROVE  /\ Bridged'
           /\ \A modal : ClosedSent(modal) /\ Head(toIframe) # closed(modal) => ClosedSent(modal)'
           /\ \A modal : OnTop(modal) => OnTop(modal)'
           /\ Posted("close") => Posted("close")'
           /\ ~Posted("show")'
<1>1. toIframe \in Seq(ToIframe) /\ toParent \in Seq(ToParent)
  BY DEF TypeOK
<1>2. /\ 1 \in DOMAIN toIframe /\ Head(toIframe) = toIframe[1]
      /\ \A i \in DOMAIN toIframe' : i \in Nat /\ i > 0 /\ i + 1 \in DOMAIN toIframe
                                     /\ toIframe'[i] = toIframe[i + 1]
      /\ \A i \in DOMAIN toIframe : i # 1 =>
             \E j \in DOMAIN toIframe' : toIframe'[j] = toIframe[i]
  BY <1>1, Tailed
<1>3. \A modal : ClosedSent(modal) /\ Head(toIframe) # closed(modal) => ClosedSent(modal)'
  BY <1>2 DEF ClosedSent
<1>4. \A i \in DOMAIN toParent : toParent[i].type # "show"
  BY DEF Bridged, ParentGets
<1>5. depth' = depth /\ Stacked'
  BY DEF Bridged, Stacked, depth
<1>6. /\ \A i \in DOMAIN toParent' : \/ \E j \in DOMAIN toParent : toParent'[i] = toParent[j]
                                     \/ toParent'[i].type = "close"
                                     \/ toParent'[i].type = "update" /\ MayUpdate(toParent'[i])
      /\ \A i \in DOMAIN toParent : i \in DOMAIN toParent' /\ toParent'[i] = toParent[i]
  <2>1. CASE UNCHANGED toParent
    BY <2>1
  <2>2. ASSUME NEW m, Posts(m) PROVE <1>6!:
    <3>1. toParent' = Append(toParent, m) /\ m \in ToParent
      BY <2>2 DEF Posts
    <3>2. /\ \A i \in DOMAIN toParent' : \/ i \in DOMAIN toParent /\ toParent'[i] = toParent[i]
                                         \/ toParent'[i] = m
          /\ \A i \in DOMAIN toParent : i \in DOMAIN toParent' /\ toParent'[i] = toParent[i]
      BY <1>1, <3>1, Appended
    <3>. QED
      BY <2>2, <3>2 DEF Posts
  <2>. QED
    BY <2>1, <2>2
<1>7. \A i \in DOMAIN toParent' : /\ toParent'[i].type # "show"
                                  /\ toParent'[i].type = "update" => MayUpdate(toParent'[i])
  BY <1>4, <1>6 DEF Bridged, ParentGets
<1>8. ParentGets'
  <2>1. \A m : MayUpdate(m) => MayUpdate(m)'
    BY DEF MayUpdate, depth, Open
  <2>. QED
    BY <1>7, <2>1 DEF ParentGets
<1>9. IframeGets'
  <2>1. \A i \in DOMAIN toIframe : i # 1 => toIframe[i].type # "save"
    BY DEF Bridged, IframeGets
  <2>2. \A modal : Open(modal)' <=> Open(modal)
    BY DEF Open, depth
  <2>3. \A i \in DOMAIN toIframe' : toIframe'[i].type # "save"
    BY <1>2, <2>1
  <2>4. \A i \in DOMAIN toIframe' :
            /\ toIframe'[i] = closed("host-modal") => depth' <= 1
            /\ toIframe'[i] = closed("config-modal") => ~Open("config-modal")'
    BY <1>2, <1>5, <2>2 DEF Bridged, IframeGets
  <2>. QED
    BY <2>3, <2>4 DEF IframeGets
<1>10. \A modal : OnTop(modal) => OnTop(modal)'
  BY DEF OnTop, depth
<1>. QED
  BY <1>3, <1>5, <1>6, <1>7, <1>8, <1>9, <1>10 DEF Bridged, Posted

\* What is owed is paid by the message that a closed popup sends.
LEMMA OwingTaken ==
    ASSUME TypeOK, Shape, toIframe # << >>, toIframe' = Tail(toIframe), UNCHANGED popups,
           UNCHANGED toParent \/ \E m : Posts(m),
           \/ ~pendingTargetRefresh'
           \/ pendingTargetRefresh /\ Head(toIframe) # closed("host-modal")
           \/ Head(toIframe).type = "save" /\ Head(toIframe).modal = "host-modal" /\ Posted("close")',
           \/ ~pendingHostRefresh'
           \/ pendingHostRefresh /\ Head(toIframe) # closed("config-modal")
           \/ Head(toIframe).type = "save" /\ Head(toIframe).modal = "config-modal" /\ Posted("close")'
    PROVE  Shape'
<1>1. /\ Bridged'
      /\ \A modal : ClosedSent(modal) /\ Head(toIframe) # closed(modal) => ClosedSent(modal)'
      /\ \A modal : OnTop(modal) => OnTop(modal)'
      /\ Posted("close") => Posted("close")'
      /\ ~Posted("show")'
  BY BridgedTaken DEF Shape
<1>2. \A modal : /\ Leaving(modal) /\ Head(toIframe) # closed(modal) => Leaving(modal)'
  BY <1>1 DEF Leaving
<1>3. ASSUME NEW modal, Head(toIframe).type = "save", Head(toIframe).modal = modal,
             Posted("close")'
      PROVE  Leaving(modal)'
  <2>1. 1 \in DOMAIN toIframe /\ Head(toIframe) = toIframe[1]
    BY Tailed DEF TypeOK
  <2>2. OnTop(modal) \/ ClosedSent(modal)
    BY <1>3, <2>1 DEF Shape, Bridged, IframeGets
  <2>3. Head(toIframe) # closed(modal)
    BY <1>3 DEF closed
  <2>. QED
    BY <1>1, <1>3, <2>2, <2>3 DEF Leaving
<1>. QED
  BY <1>1, <1>2, <1>3 DEF Shape, Owing

\* The popup on top, and the page's form for it.
LEMMA TopForm ==
    ASSUME TypeOK, Stacked, popups # << >>
    PROVE  /\ depth > 0 /\ Top = popups[depth]
           /\ Top.content.form = "target-modal" => depth = 1
           /\ Top.content.form = "host-modal" => Top.modal # "config-modal"
           /\ Top.content.form # "config-modal" => ~Open("config-modal")
           /\ Top.modal # "config-modal" => ~Open("config-modal")
<1>1. depth \in Nat /\ depth > 0 /\ Top = popups[depth]
  BY StackType
<1>. QED
  BY <1>1 DEF Stacked, Open

LEMMA ShapeUserPosts ==
    ASSUME TypeOK, TypeOK', Shape,
           \/ \E t \in TargetIds \cup {NoValue} : showTargetModal(t)
           \/ \E i \in Buttons : \/ showHostModal(i) \/ removeHostAndRefresh(i)
                                \/ showConfigModal(i) \/ removeConfigAndRefresh(i)
    PROVE  Shape'
<1>1. toParent \in Seq(ToParent) /\ toParent' \in Seq(ToParent)
  BY DEF TypeOK
<1>2. \A m : Quiet /\ toParent' = Append(toParent, m) => m \in ToParent
  BY <1>1, OneMessage, ElementOfSeq DEF Quiet
<1>3. ASSUME NEW t \in TargetIds \cup {NoValue}, showTargetModal(t) PROVE Shape'
  <2>1. PICK m : /\ m.type = "show" /\ m.modal = "target-modal" /\ m.content.form = m.modal
                 /\ toParent' = Append(toParent, m)
    BY <1>3 DEF showTargetModal, show, targetForm
  <2>2. Quiet /\ popups = << >> /\ UNCHANGED <<popups, toIframe, pending>>
    BY <1>3 DEF showTargetModal
  <2>3. MayShow(m)
    BY <2>1, <2>2, StackType DEF MayShow
  <2>. QED
    BY <1>2, <2>1, <2>2, <2>3, ShapePosts
<1>4. ASSUME NEW i \in Buttons, showHostModal(i) PROVE Shape'
  <2>1. PICK m : /\ m.type = "show" /\ m.modal = "host-modal" /\ m.content.form = m.modal
                 /\ toParent' = Append(toParent, m)
    BY <1>4 DEF showHostModal, show, hostForm
  <2>2. Quiet /\ popups # << >> /\ Top.content.form = "target-modal"
        /\ UNCHANGED <<popups, toIframe, pending>>
    BY <1>4 DEF showHostModal, Shown
  <2>3. MayShow(m)
    BY <2>1, <2>2, TopForm DEF MayShow, Shape, Bridged
  <2>. QED
    BY <1>2, <2>1, <2>2, <2>3, ShapePosts
<1>5. ASSUME NEW i \in Buttons, showConfigModal(i) PROVE Shape'
  <2>1. PICK m : /\ m.type = "show" /\ m.modal = "config-modal" /\ m.content.form = m.modal
                 /\ toParent' = Append(toParent, m)
    BY <1>5 DEF showConfigModal, show, configForm
  <2>2. Quiet /\ popups # << >> /\ Top.content.form = "host-modal"
        /\ UNCHANGED <<popups, toIframe, pending>>
    BY <1>5 DEF showConfigModal, Shown
  <2>3. MayShow(m)
    BY <2>1, <2>2, TopForm DEF MayShow, Shape, Bridged
  <2>. QED
    BY <1>2, <2>1, <2>2, <2>3, ShapePosts
<1>6. ASSUME NEW i \in Buttons, removeHostAndRefresh(i) PROVE Shape'
  <2>1. PICK m : /\ m.type = "update" /\ m.content.form = "target-modal"
                 /\ toParent' = Append(toParent, m)
    BY <1>6 DEF removeHostAndRefresh, targetRefresh, update, targetForm
  <2>2. Quiet /\ popups # << >> /\ Top.content.form = "target-modal"
        /\ UNCHANGED <<popups, toIframe, pending>>
    BY <1>6 DEF removeHostAndRefresh, Shown
  <2>3. MayUpdate(m)
    BY <2>1, <2>2, TopForm DEF MayUpdate, Shape, Bridged
  <2>. QED
    BY <1>2, <2>1, <2>2, <2>3, ShapePosts
<1>7. ASSUME NEW i \in Buttons, removeConfigAndRefresh(i) PROVE Shape'
  <2>1. PICK m : /\ m.type = "update" /\ m.content.form = "host-modal"
                 /\ toParent' = Append(toParent, m)
    BY <1>7 DEF removeConfigAndRefresh, hostRefresh, update, hostForm
  <2>2. Quiet /\ popups # << >> /\ Top.content.form = "host-modal"
        /\ UNCHANGED <<popups, toIframe, pending>>
    BY <1>7 DEF removeConfigAndRefresh, Shown
  <2>3. MayUpdate(m)
    BY <2>1, <2>2, TopForm DEF MayUpdate, Shape, Bridged
  <2>. QED
    BY <1>2, <2>1, <2>2, <2>3, ShapePosts
<1>. QED
  BY <1>3, <1>4, <1>5, <1>6, <1>7

LEMMA ShapeClicks ==
    ASSUME TypeOK, Shape,
           \/ \E id \in TargetIds \cup HostIds : TypeId(id)
           \/ \E p \in Protocols \cup {NoValue} : ClickSave(p)
           \/ ClickClose
    PROVE  Shape'
<1>1. Quiet /\ popups # << >> /\ UNCHANGED <<toParent, pending>>
  BY DEF TypeId, ClickSave, ClickClose, bridge
<1>2. /\ depth \in Nat /\ depth > 0 /\ Top = popups[depth]
      /\ DOMAIN popups = 1 .. depth /\ popups \in Seq(Popup)
      /\ \A i \in 1 .. depth : popups[i] \in Popup
  BY <1>1, StackType
<1>3. /\ ~pendingTargetRefresh' /\ ~pendingHostRefresh'
      /\ toParent' = << >> /\ DOMAIN toParent' = {} /\ toIframe = << >>
  BY <1>1, QuietOwesNothing, OneMessage DEF Shape, pending, Quiet
<1>4. ParentGets' /\ Owing'
  BY <1>3 DEF ParentGets, Owing
<1>5. ASSUME NEW id \in TargetIds \cup HostIds, TypeId(id) PROVE Shape'
  <2>1. /\ popups' = [popups EXCEPT ![depth].content.id = id] /\ toIframe' = << >>
        /\ DOMAIN toIframe' = {}
    BY <1>3, <1>5, OneMessage DEF TypeId, depth, bridge
  <2>2. /\ depth' = depth
        /\ \A i \in 1 .. depth : /\ popups'[i].modal = popups[i].modal
                                 /\ popups'[i].content.form = popups[i].content.form
    <3>1. \A q \in Popup : /\ [q EXCEPT !.content.id = id].modal = q.modal
                           /\ [q EXCEPT !.content.id = id].content.form = q.content.form
      BY DEF Popup, Form, TargetForm, HostForm, configForm
    <3>2. /\ \A i \in 1 .. depth : i # depth => popups'[i] = popups[i]
          /\ popups'[depth] = [popups[depth] EXCEPT !.content.id = id]
          /\ DOMAIN popups' = 1 .. depth
      BY <1>2, <2>1
    <3>3. Len(popups') = Len(popups)
      BY <1>2, <2>1, LenProperties
    <3>4. depth' = depth
      BY <3>3 DEF depth
    <3>5. /\ popups'[depth].modal = popups[depth].modal
          /\ popups'[depth].content.form = popups[depth].content.form
      <4>1. popups[depth] \in Popup
        BY <1>2
      <4>. QED
        BY <3>1, <3>2, <4>1
    <3>. QED
      BY <1>2, <3>2, <3>4, <3>5
  <2>3. Stacked'
    BY <1>2, <2>2 DEF Shape, Bridged, Stacked
  <2>4. IframeGets'
    BY <2>1 DEF IframeGets
  <2>. QED
    BY <1>4, <2>3, <2>4 DEF Shape, Bridged
<1>6. ASSUME NEW p \in Protocols \cup {NoValue}, ClickSave(p) PROVE Shape'
  <2>1. PICK m : /\ m.type = "save" /\ m.modal = Top.modal
                 /\ toIframe' = Append(toIframe, m)
    BY <1>6 DEF ClickSave, saved
  <2>2. DOMAIN toIframe' = {1} /\ toIframe'[1] = m /\ UNCHANGED popups
    BY <1>3, <1>6, <2>1, OneMessage DEF ClickSave
  <2>3. Stacked' /\ depth' = depth
    BY <2>2 DEF Shape, Bridged, Stacked, depth
  <2>4. OnTop(m.modal)'
    BY <1>2, <2>1, <2>2, <2>3 DEF OnTop
  <2>5. IframeGets'
    BY <2>1, <2>2, <2>4 DEF IframeGets, closed
  <2>. QED
    BY <1>4, <2>3, <2>5 DEF Shape, Bridged
<1>7. CASE ClickClose
  <2>1. /\ popups' = SubSeq(popups, 1, Len(popups) - 1)
        /\ toIframe' = Append(toIframe, closed(Top.modal))
    BY <1>7 DEF ClickClose
  <2>2. DOMAIN toIframe' = {1} /\ toIframe'[1] = closed(Top.modal)
    BY <1>3, <2>1, OneMessage
  <2>3. depth' = depth - 1 /\ \A i \in 1 .. depth' : popups'[i] = popups[i]
    BY <1>1, <2>1, Popped
  <2>4. Stacked'
    BY <1>2, <2>3 DEF Shape, Bridged, Stacked
  <2>5. /\ Top.modal = "host-modal" => depth = 2
        /\ ~Open("config-modal")'
    BY <1>2, <2>3 DEF Shape, Bridged, Stacked, Open
  <2>6. IframeGets'
    BY <1>2, <2>2, <2>3, <2>5 DEF IframeGets, closed
  <2>. QED
    BY <1>4, <2>4, <2>6 DEF Shape, Bridged
<1>. QED
  BY <1>5, <1>6, <1>7

LEMMA ParentTook ==
    ASSUME TypeOK, Bridged, toParent # << >>, toParent' = Tail(toParent)
    PROVE  /\ 1 \in DOMAIN toParent /\ Head(toParent) = toParent[1]
           /\ \A i \in DOMAIN toParent' : \E j \in DOMAIN toParent : j # 1 /\ toParent'[i] = toParent[j]
           /\ \A j \in DOMAIN toParent : j # 1 => \E i \in DOMAIN toParent' : toParent'[i] = toParent[j]
           /\ ~Posted("show")'
           /\ Head(toParent).type # "show" => ~Posted("show")
           /\ Posted("close") /\ Head(toParent).type # "close" => Posted("close")'
<1>1. toParent \in Seq(ToParent)
  BY DEF TypeOK
<1>2. /\ 1 \in DOMAIN toParent /\ Head(toParent) = toParent[1]
      /\ \A i \in DOMAIN toParent' : i \in Nat /\ i > 0 /\ i + 1 \in DOMAIN toParent
                                     /\ toParent'[i] = toParent[i + 1]
      /\ \A i \in DOMAIN toParent : i # 1 => \E j \in DOMAIN toParent' : toParent'[j] = toParent[i]
  BY <1>1, Tailed
<1>3. \A i \in DOMAIN toParent' : \E j \in DOMAIN toParent : j # 1 /\ toParent'[i] = toParent[j]
  BY <1>2
<1>4. \A j \in DOMAIN toParent : toParent[j].type = "show" => j = 1
  BY DEF Bridged, ParentGets
<1>. QED
  BY <1>2, <1>3, <1>4 DEF Posted

LEMMA ShapeShows ==
    ASSUME TypeOK, Shape, popupShow PROVE Shape'
<1>1. /\ toParent # << >> /\ toParent' = Tail(toParent) /\ Head(toParent).type = "show"
      /\ UNCHANGED <<toIframe, pending>>
      /\ popups' = Append(popups, [modal |-> Head(toParent).modal,
                                   content |-> Head(toParent).content])
  BY DEF popupShow, ParentReceives
<1>2. PICK m : m = Head(toParent)
  OBVIOUS
<1>3. /\ m = toParent[1] /\ 1 \in DOMAIN toParent /\ m \in ToParent
      /\ \A i \in DOMAIN toParent' : \E j \in DOMAIN toParent : j # 1 /\ toParent'[i] = toParent[j]
      /\ ~Posted("show")'
  <2>1. toParent \in Seq(ToParent)
    BY DEF TypeOK
  <2>. QED
    BY <1>1, <1>2, <2>1, ParentTook, ElementOfSeq DEF Shape, Bridged
<1>4. MayShow(m) /\ toIframe = << >>
      /\ \A j \in DOMAIN toParent : j # 1 => toParent[j].type = "close"
  BY <1>1, <1>2, <1>3 DEF Shape, Bridged, ParentGets
<1>5. PICK p : p = [modal |-> m.modal, content |-> m.content]
  OBVIOUS
<1>6. p \in Popup /\ p.modal = m.modal /\ p.content = m.content
  BY <1>1, <1>2, <1>3, <1>5 DEF ToParent, Popup, close
<1>7. popups' = Append(popups, p)
  BY <1>1, <1>2, <1>5
<1>8. /\ depth' = depth + 1 /\ depth \in Nat
      /\ \A i \in 1 .. depth : popups'[i] = popups[i]
      /\ popups'[depth'] = p
  BY <1>6, <1>7, Pushed
<1>9. Stacked'
  <2>1. \A i \in 1 .. depth' : i \in 1 .. depth \/ i = depth'
    BY <1>8
  <2>2. p.content.form = p.modal /\ p.modal \in Modals
    BY <1>4, <1>6 DEF MayShow, Popup
  <2>3. /\ p.modal = "target-modal" <=> depth' = 1
        /\ p.modal = "host-modal" => depth' = 2 /\ popups[1].content.form = "target-modal"
        /\ p.modal = "config-modal" => \A i \in 1 .. depth : popups[i].modal # "config-modal"
    BY <1>4, <1>6, <1>8, <2>2 DEF MayShow, Open, Modals
  <2>4. depth > 0 => popups'[1] = popups[1]
    BY <1>8
  <2>5. ASSUME NEW i \in 1 .. depth
        PROVE  /\ popups[i].modal = "config-modal" => FALSE
               /\ i \in 1 .. depth'
    <3>1. popups[i].modal = "config-modal" => Open("config-modal")
      BY DEF Open
    <3>2. popups[i].modal = "config-modal" => i = depth /\ popups[i].content.form = "config-modal"
      BY DEF Shape, Bridged, Stacked
    <3>3. p.modal = "host-modal" => popups[1].content.form = "target-modal" /\ depth = 1
      BY <1>8, <2>3
    <3>4. p.modal \in {"host-modal", "config-modal"}
      BY <1>8, <2>2, <2>3 DEF Modals
    <3>. QED
      BY <1>8, <2>3, <3>2, <3>3, <3>4
  <2>6. \A i \in 1 .. depth' :
            /\ popups'[i].modal = "target-modal" <=> i = 1
            /\ popups'[i].content.form = "target-modal" => i = 1
    BY <1>6, <1>8, <2>1, <2>2, <2>3 DEF Shape, Bridged, Stacked
  <2>7. \A i \in 1 .. depth' :
            popups'[i].modal = "config-modal" => i = depth' /\ popups'[i].content.form = "config-modal"
    BY <1>6, <1>8, <2>1, <2>2, <2>5
  <2>8. \A i \in 1 .. depth' : popups'[i].modal = "host-modal" =>
            /\ i = 2 /\ popups'[i].content.form = "host-modal"
            /\ popups'[1].content.form = "target-modal"
    <3>1. \A i \in 1 .. depth : popups'[i].modal = "host-modal" =>
            /\ i = 2 /\ popups'[i].content.form = "host-modal"
            /\ popups'[1].content.form = "target-modal"
      BY <1>8, <2>4 DEF Shape, Bridged, Stacked
    <3>2. p.modal = "host-modal" => depth' = 2 /\ p.content.form = "host-modal"
                                   /\ popups'[1].content.form = "target-modal"
      BY <1>8, <2>2, <2>3, <2>4
    <3>. QED
      BY <1>8, <2>1, <3>1, <3>2
  <2>. QED
    BY <2>6, <2>7, <2>8 DEF Stacked
<1>10. ParentGets'
  BY <1>3, <1>4 DEF ParentGets
<1>11. IframeGets'
  BY <1>1, <1>4, OneMessage DEF IframeGets
<1>12. ~pendingTargetRefresh' /\ ~pendingHostRefresh'
  <2>1. Posted("show")
    BY <1>1, <1>2, <1>3 DEF Posted
  <2>. QED
    BY <1>1, <2>1 DEF Shape, Owing, pending
<1>. QED
  BY <1>9, <1>10, <1>11, <1>12 DEF Shape, Bridged, Owing

LEMMA ShapeUpdates ==
    ASSUME TypeOK, Shape, popupUpdate PROVE Shape'
<1>1. /\ toParent # << >> /\ toParent' = Tail(toParent) /\ Head(toParent).type = "update"
      /\ UNCHANGED <<toIframe, pending>>
  BY DEF popupUpdate, ParentReceives
<1>2. /\ 1 \in DOMAIN toParent /\ Head(toParent) = toParent[1]
      /\ \A i \in DOMAIN toParent' : \E j \in DOMAIN toParent : j # 1 /\ toParent'[i] = toParent[j]
      /\ ~Posted("show")' /\ ~Posted("show")
      /\ Posted("close") => Posted("close")'
  BY <1>1, ParentTook DEF Shape, Bridged
<1>3. MayUpdate(Head(toParent))
  BY <1>1, <1>2 DEF Shape, Bridged, ParentGets
<1>4. /\ depth' = depth /\ depth \in Nat
      /\ \A i \in 1 .. depth : /\ popups'[i].modal = popups[i].modal
                               /\ \/ popups'[i].content = popups[i].content
                                  \/ i = depth /\ popups'[i].content = Head(toParent).content
  <2>1. CASE popups = << >>
    BY <2>1, StackType DEF popupUpdate, depth
  <2>2. CASE popups # << >>
    <3>1. popups' = [popups EXCEPT ![Len(popups)].content = Head(toParent).content]
      BY <2>2 DEF popupUpdate
    <3>. QED
      BY <2>2, <3>1, Redrawn
  <2>. QED
    BY <2>1, <2>2
<1>5. Stacked'
  <2>1. \A i \in 1 .. depth : popups[i].modal # "config-modal"
    BY <1>3 DEF MayUpdate, Open
  <2>2. /\ Head(toParent).content.form \in {"target-modal", "host-modal"}
        /\ Head(toParent).content.form = "target-modal" => depth <= 1
    BY <1>3 DEF MayUpdate
  <2>. QED
    BY <1>4, <2>1, <2>2 DEF Shape, Bridged, Stacked
<1>6. \A modal : /\ Open(modal)' <=> Open(modal)
                 /\ OnTop(modal)' <=> OnTop(modal)
  BY <1>4 DEF Open, OnTop
<1>7. \A modal : ClosedSent(modal)' <=> ClosedSent(modal)
  BY <1>1 DEF ClosedSent
<1>8. ParentGets'
  <2>1. \A m : MayUpdate(m) => MayUpdate(m)'
    BY <1>4, <1>6 DEF MayUpdate
  <2>. QED
    BY <1>2, <2>1 DEF ParentGets, Posted, Shape, Bridged
<1>9. IframeGets'
  BY <1>1, <1>4, <1>6, <1>7 DEF IframeGets, Shape, Bridged
<1>10. Owing'
  BY <1>1, <1>2, <1>6, <1>7 DEF Owing, Leaving, pending, Shape
<1>. QED
  BY <1>5, <1>8, <1>9, <1>10 DEF Shape, Bridged

LEMMA ShapeCloses ==
    ASSUME TypeOK, Shape, popupClose PROVE Shape'
<1>1. /\ toParent # << >> /\ toParent' = Tail(toParent) /\ Head(toParent).type = "close"
      /\ UNCHANGED pending
  BY DEF popupClose, ParentReceives, pending
<1>2. /\ 1 \in DOMAIN toParent /\ Head(toParent) = toParent[1]
      /\ \A i \in DOMAIN toParent' : \E j \in DOMAIN toParent : j # 1 /\ toParent'[i] = toParent[j]
      /\ ~Posted("show")' /\ ~Posted("show")
  BY <1>1, ParentTook DEF Shape, Bridged
<1>3. CASE popups = << >>
  <2>1. UNCHANGED <<popups, toIframe>> /\ depth' = depth /\ depth = 0
    BY <1>3, StackType DEF popupClose, depth
  <2>2. \A modal : /\ Open(modal)' <=> Open(modal)
                   /\ OnTop(modal)' <=> OnTop(modal)
                   /\ ~OnTop(modal)
                   /\ ClosedSent(modal)' <=> ClosedSent(modal)
    BY <2>1 DEF Open, OnTop, ClosedSent
  <2>3. ParentGets'
    <3>1. \A m : MayUpdate(m) => MayUpdate(m)'
      BY <2>1, <2>2 DEF MayUpdate
    <3>. QED
      BY <1>2, <3>1 DEF ParentGets, Posted, Shape, Bridged
  <2>4. IframeGets'
    BY <2>1, <2>2 DEF IframeGets, Shape, Bridged
  <2>5. Owing'
    BY <1>1, <1>2, <2>2 DEF Owing, Leaving, pending, Shape
  <2>6. Stacked'
    BY <2>1 DEF Stacked, Shape, Bridged
  <2>. QED
    BY <2>3, <2>4, <2>5, <2>6 DEF Shape, Bridged
<1>4. CASE popups # << >>
  <2>1. /\ popups' = SubSeq(popups, 1, Len(popups) - 1)
        /\ toIframe' = Append(toIframe, closed(Top.modal))
    BY <1>4 DEF popupClose
  <2>2. /\ depth' = depth - 1 /\ depth > 0 /\ depth \in Nat
        /\ \A i \in 1 .. depth' : popups'[i] = popups[i]
    BY <1>4, <2>1, Popped
  <2>3. Top = popups[depth] /\ Top.modal \in Modals
    BY <1>4, <2>2, StackType DEF Popup
  <2>4. /\ \A i \in DOMAIN toIframe' : \/ i \in DOMAIN toIframe /\ toIframe'[i] = toIframe[i]
                                       \/ toIframe'[i] = closed(Top.modal)
        /\ \A i \in DOMAIN toIframe : i \in DOMAIN toIframe' /\ toIframe'[i] = toIframe[i]
        /\ \E i \in DOMAIN toIframe' : toIframe'[i] = closed(Top.modal)
    <3>1. toIframe \in Seq(ToIframe) /\ closed(Top.modal) \in ToIframe
      BY <2>3 DEF TypeOK, ToIframe, closed
    <3>. QED
      BY <2>1, <3>1, Appended
  <2>5. Stacked'
    BY <2>2 DEF Shape, Bridged, Stacked
  <2>6. /\ Top.modal = "host-modal" => depth = 2
        /\ ~Open("config-modal")'
    BY <2>2, <2>3 DEF Shape, Bridged, Stacked, Open
  <2>7. \A modal : OnTop(modal) \/ ClosedSent(modal) => ClosedSent(modal)'
    BY <2>3, <2>4 DEF OnTop, ClosedSent
  <2>8. ParentGets'
    <3>1. \A m : MayUpdate(m) => MayUpdate(m)'
      BY <2>2, <2>6 DEF MayUpdate
    <3>. QED
      BY <1>2, <3>1 DEF ParentGets, Posted, Shape, Bridged
  <2>9. IframeGets'
    BY <2>2, <2>4, <2>6, <2>7 DEF IframeGets, Shape, Bridged, closed
  <2>10. Owing'
    BY <1>1, <1>2, <2>7 DEF Owing, Leaving, pending, Shape
  <2>. QED
    BY <2>5, <2>8, <2>9, <2>10 DEF Shape, Bridged
<1>. QED
  BY <1>3, <1>4

LEMMA ShapeIframe ==
    ASSUME TypeOK, TypeOK', Shape,
           \/ handleTargetSave \/ handleHostSave \/ handleConfigSave
           \/ targetModalClosed \/ onHostModalClosed \/ onConfigModalClosed
    PROVE  Shape'
<1>1. toIframe # << >> /\ toIframe' = Tail(toIframe) /\ UNCHANGED popups
  BY DEF handleTargetSave, handleHostSave, handleConfigSave, targetModalClosed,
         onHostModalClosed, onConfigModalClosed, IframeReceives
<1>2. ASSUME NEW m, toParent' = Append(toParent, m) PROVE m \in ToParent
  <2>1. toParent \in Seq(ToParent) /\ toParent' \in Seq(ToParent)
    BY DEF TypeOK
  <2>2. Len(toParent) + 1 \in 1 .. Len(toParent') /\ toParent'[Len(toParent) + 1] = m
    BY <1>2, <2>1, LenProperties
  <2>. QED
    BY <2>1, <2>2, ElementOfSeq
<1>3. CASE handleTargetSave
  <2>1. UNCHANGED <<toParent, pending>> /\ Head(toIframe).type = "save"
    BY <1>3 DEF handleTargetSave, Refused, IframeReceives
  <2>. QED
    BY <1>1, <2>1, OwingTaken DEF pending, closed
<1>4. CASE handleHostSave
  <2>1. Head(toIframe).type = "save" /\ Head(toIframe).modal = "host-modal"
    BY <1>4 DEF handleHostSave, IframeReceives
  <2>2. CASE UNCHANGED <<toParent, pending>>
    BY <1>1, <2>1, <2>2, OwingTaken DEF pending, closed
  <2>3. CASE toParent' = Append(toParent, close) /\ UNCHANGED pendingHostRefresh
    <3>1. Posts(close)
      BY <1>2, <2>3 DEF Posts, close
    <3>2. Posted("close")'
      <4>1. toParent \in Seq(ToParent) /\ close \in ToParent
        BY <1>2, <2>3 DEF TypeOK
      <4>2. \E i \in DOMAIN toParent' : toParent'[i] = close
        BY <2>3, <4>1, Appended
      <4>. QED
        BY <4>2 DEF Posted, close
    <3>. QED
      BY <1>1, <2>1, <2>3, <3>1, <3>2, OwingTaken DEF closed
  <2>. QED
    BY <1>4, <2>2, <2>3 DEF handleHostSave, Refused
<1>5. CASE handleConfigSave
  <2>1. Head(toIframe).type = "save" /\ Head(toIframe).modal = "config-modal"
    BY <1>5 DEF handleConfigSave, IframeReceives
  <2>2. CASE UNCHANGED <<toParent, pending>>
    BY <1>1, <2>1, <2>2, OwingTaken DEF pending, closed
  <2>3. CASE toParent' = Append(toParent, close) /\ UNCHANGED pendingTargetRefresh
    <3>1. Posts(close)
      BY <1>2, <2>3 DEF Posts, close
    <3>2. Posted("close")'
      <4>1. toParent \in Seq(ToParent) /\ close \in ToParent
        BY <1>2, <2>3 DEF TypeOK
      <4>2. \E i \in DOMAIN toParent' : toParent'[i] = close
        BY <2>3, <4>1, Appended
      <4>. QED
        BY <4>2 DEF Posted, close
    <3>. QED
      BY <1>1, <2>1, <2>3, <3>1, <3>2, OwingTaken DEF closed
  <2>. QED
    BY <1>5, <2>2, <2>3 DEF handleConfigSave, Refused
<1>6. 1 \in DOMAIN toIframe /\ Head(toIframe) = toIframe[1] /\ Head(toIframe) \in ToIframe
  BY <1>1, Tailed, ElementOfSeq DEF TypeOK
<1>7. ASSUME NEW modal, Head(toIframe).type = "closed", Head(toIframe).modal = modal
      PROVE  Head(toIframe) = closed(modal)
  BY <1>6, <1>7 DEF ToIframe, Saved, closed
<1>8. CASE targetModalClosed
  <2>1. /\ UNCHANGED <<toParent, pending>>
        /\ Head(toIframe).type = "closed" /\ Head(toIframe).modal = "target-modal"
    BY <1>8 DEF targetModalClosed, IframeReceives
  <2>. QED
    BY <1>1, <2>1, OwingTaken DEF pending, closed
<1>9. CASE onHostModalClosed
  <2>1. /\ Head(toIframe) = closed("host-modal")
        /\ ~pendingTargetRefresh' /\ UNCHANGED pendingHostRefresh
    BY <1>7, <1>9 DEF onHostModalClosed, IframeReceives
  <2>2. Head(toIframe) # closed("config-modal")
    BY <2>1 DEF closed
  <2>3. UNCHANGED toParent \/ \E m : Posts(m)
    <3>1. CASE UNCHANGED toParent
      BY <3>1
    <3>2. CASE ~UNCHANGED toParent
      <4>1. toParent' = Append(toParent, targetRefresh(tempHosts))
        BY <1>9, <3>2 DEF onHostModalClosed
      <4>2. PICK m : m = targetRefresh(tempHosts)
        OBVIOUS
      <4>3. m.type = "update" /\ m.content.form = "target-modal"
        BY <4>2 DEF targetRefresh, update, targetForm
      <4>4. depth <= 1
        BY <1>6, <2>1 DEF Shape, Bridged, IframeGets
      <4>5. ~Open("config-modal")
        BY <4>4, StackType DEF Shape, Bridged, Stacked, Open
      <4>6. Posts(m)
        BY <1>2, <4>1, <4>2, <4>3, <4>4, <4>5 DEF Posts, MayUpdate
      <4>. QED
        BY <4>6
    <3>. QED
      BY <3>1, <3>2
  <2>. QED
    BY <1>1, <2>1, <2>2, <2>3, OwingTaken
<1>10. CASE onConfigModalClosed
  <2>1. /\ Head(toIframe) = closed("config-modal")
        /\ ~pendingHostRefresh' /\ UNCHANGED pendingTargetRefresh
    BY <1>7, <1>10 DEF onConfigModalClosed, IframeReceives
  <2>2. Head(toIframe) # closed("host-modal")
    BY <2>1 DEF closed
  <2>3. UNCHANGED toParent \/ \E m : Posts(m)
    <3>1. CASE UNCHANGED toParent
      BY <3>1
    <3>2. CASE ~UNCHANGED toParent
      <4>1. toParent' = Append(toParent, hostRefresh(tempConfigs))
        BY <1>10, <3>2 DEF onConfigModalClosed
      <4>2. PICK m : m = hostRefresh(tempConfigs)
        OBVIOUS
      <4>3. m.type = "update" /\ m.content.form = "host-modal"
        BY <4>2 DEF hostRefresh, update, hostForm
      <4>4. ~Open("config-modal")
        BY <1>6, <2>1 DEF Shape, Bridged, IframeGets
      <4>5. Posts(m)
        BY <1>2, <4>1, <4>2, <4>3, <4>4 DEF Posts, MayUpdate
      <4>. QED
        BY <4>5
    <3>. QED
      BY <3>1, <3>2
  <2>. QED
    BY <1>1, <2>1, <2>2, <2>3, OwingTaken
<1>. QED
  BY <1>3, <1>4, <1>5, <1>8, <1>9, <1>10

\* An answer's close is put behind whatever is on its way.
LEMMA ShapeAnswered ==
    ASSUME TypeOK, Shape, NEW s \in 1 .. MaxSaves, NEW ok \in BOOLEAN, SaveAnswered(s, ok)
    PROVE  Shape'
<1>1. UNCHANGED <<pending, popups, toIframe>>
  BY DEF SaveAnswered
<1>2. CASE UNCHANGED toParent
  BY <1>1, <1>2, ShapeKept
<1>3. CASE toParent' = Append(toParent, close)
  <2>1. /\ \A i \in DOMAIN toParent' : \/ i \in DOMAIN toParent /\ toParent'[i] = toParent[i]
                                       \/ toParent'[i].type = "close"
        /\ \A i \in DOMAIN toParent : i \in DOMAIN toParent' /\ toParent'[i] = toParent[i]
    <3>1. toParent \in Seq(ToParent) /\ close \in ToParent
      BY DEF TypeOK, ToParent
    <3>2. close.type = "close"
      BY DEF close
    <3>. QED
      BY <1>3, <3>1, <3>2, Appended
  <2>2. /\ depth' = depth /\ Stacked'
        /\ \A modal : /\ Open(modal)' <=> Open(modal)
                      /\ OnTop(modal)' <=> OnTop(modal)
                      /\ ClosedSent(modal)' <=> ClosedSent(modal)
    BY <1>1 DEF depth, Open, OnTop, ClosedSent, Shape, Bridged, Stacked
  <2>3. /\ \A m : MayShow(m) => MayShow(m)'
        /\ \A m : MayUpdate(m) => MayUpdate(m)'
    BY <1>1, <2>2 DEF MayShow, MayUpdate
  <2>4. ParentGets'
    BY <1>1, <2>1, <2>3 DEF ParentGets, Shape, Bridged
  <2>5. IframeGets'
    BY <1>1, <2>2 DEF IframeGets, Shape, Bridged
  <2>6. (Posted("close") => Posted("close")') /\ (Posted("show")' => Posted("show"))
    BY <2>1 DEF Posted
  <2>7. Owing'
    BY <1>1, <2>2, <2>6 DEF Owing, Leaving, pending, Shape
  <2>. QED
    BY <2>2, <2>4, <2>5, <2>7 DEF Shape, Bridged
<1>. QED
  BY <1>2, <1>3 DEF SaveAnswered, closeTargetModal

LEMMA ShapeStep ==
    ASSUME TypeOK, TypeOK', Shape, [Next]_vars PROVE Shape'
<1>1. CASE UserStep
  BY <1>1, ShapeUserPosts, ShapeClicks DEF UserStep
<1>2. CASE BridgeStep
  BY <1>2, ShapeShows, ShapeCloses, ShapeUpdates, ShapeIframe DEF BridgeStep
<1>3. ASSUME NEW page \in Pages, TableLoaded(page) PROVE Shape'
  BY <1>3, ShapeKept DEF TableLoaded, bridge
<1>4. CASE UNCHANGED vars
  BY <1>4, ShapeKept DEF vars, bridge
<1>. QED
  BY <1>1, <1>2, <1>3, <1>4, ShapeAnswered DEF Next

LEMMA InitShape == Init => Shape
<1>. SUFFICES ASSUME Init PROVE Shape
  OBVIOUS
<1>1. /\ popups = << >> /\ toParent = << >> /\ toIframe = << >> /\ depth = 0
      /\ ~pendingTargetRefresh /\ ~pendingHostRefresh
  BY DEF Init, depth
<1>2. 1 .. depth = {} /\ DOMAIN toParent = {} /\ DOMAIN toIframe = {}
  BY <1>1, OneMessage
<1>. QED
  BY <1>1, <1>2 DEF Shape, Bridged, Stacked, ParentGets, IframeGets, Owing

LEMMA ShapeInvariant == Spec => [](TypeOK /\ Shape)
<1>1. Init => TypeOK /\ Shape
  BY InitType, InitShape
<1>2. TypeOK /\ Shape /\ [Next]_vars => (TypeOK /\ Shape)'
  BY TypeStep, ShapeStep
<1>. QED
  BY <1>1, <1>2, PTL DEF Spec

\* A refresh that was put off until its popup has closed is done by the time that
\* the messages have arrived, whatever popup a close was meant for.
THEOREM RefreshDone == Spec => []NoRefreshOwed
<1>1. TypeOK /\ Shape => NoRefreshOwed
  BY QuietOwesNothing DEF Shape, NoRefreshOwed
<1>. QED
  BY <1>1, ShapeInvariant, PTL

-----------------------------------------------------------------------------
(***************************************************************************)
(* Arrays of hosts with distinct ids                                       *)
(***************************************************************************)
Distinct(hosts) ==
    \A i, j \in Filled(hosts) : hosts[i].hostId = hosts[j].hostId => i = j

\* The hosts of a map are each in its array once.
LEMMA EntriesDistinct ==
    ASSUME NEW S \in HostsMap
    PROVE  Distinct(Entries(S))
<1>1. S \subseteq Host /\ IsFiniteSet(S) /\ \A g, h \in S : g.hostId = h.hostId => g = h
  BY FS_Subset, EditorAssumption DEF HostsMap, EditorAssumption
<1>. DEFINE n == Cardinality(S)
            All(s) == \A x \in S : \E i \in 1 .. n : s[i] = x
            f == Entries(S)
<1>2. n \in Nat /\ ExistsBijection(1 .. n, S)
  BY <1>1, FS_CardinalityType
<1>3. PICK b \in Bijection(1 .. n, S) : TRUE
  BY <1>2 DEF ExistsBijection
<1>4. b \in [1 .. n -> S] /\ All(b)
  BY <1>3 DEF Bijection, Surjection, Injection
<1>5. f \in [1 .. n -> S] /\ All(f)
  BY <1>4 DEF Entries
<1>6. f \in Surjection(1 .. n, S)
  BY <1>5 DEF Surjection
<1>7. IsFiniteSet(1 .. n) /\ Cardinality(1 .. n) = n
  BY <1>2, FS_Interval
<1>8. f \in Injection(1 .. n, S)
  BY <1>1, <1>6, <1>7, FS_SurjSameCardinalityImpliesInj
<1>9. \A i, j \in 1 .. n : f[i] = f[j] => i = j
  BY <1>5, <1>8 DEF Injection, IsInjective
<1>10. Filled(f) \subseteq 1 .. n
  BY <1>5 DEF Filled
<1>11. ASSUME NEW i \in Filled(f), NEW j \in Filled(f), f[i].hostId = f[j].hostId
       PROVE  i = j
  <2>. HIDE DEF f, n, All
  <2>1. i \in 1 .. n /\ j \in 1 .. n /\ f[i] \in S /\ f[j] \in S
    BY <1>5, <1>10
  <2>. QED
    BY <1>1, <1>9, <1>11, <2>1
<1>. QED
  BY <1>11 DEF Distinct

LEMMA SpliceDistinct ==
    ASSUME NEW S, NEW s \in Seq(S), NEW i \in Nat \ {0}, Distinct(s)
    PROVE  Distinct(Splice(s, i))
<1>1. CASE i > Len(s)
  BY <1>1 DEF Splice
<1>2. CASE i <= Len(s)
  <2>. DEFINE front == SubSeq(s, 1, i - 1)
              back == SubSeq(s, i + 1, Len(s))
              old(k) == IF k < i THEN k ELSE k + 1
  <2>1. Len(s) \in Nat /\ DOMAIN s = 1 .. Len(s) /\ \A k \in 1 .. Len(s) : s[k] \in S
    BY LenProperties, ElementOfSeq
  <2>2. front \in Seq(S) /\ Len(front) = i - 1 /\ \A k \in 1 .. i - 1 : front[k] = s[k]
    <3>1. \A k \in 1 .. i - 1 : s[k] \in S
      BY <1>2, <2>1
    <3>. QED
      BY <1>2, <2>1, <3>1, SubSeqProperties
  <2>3. back \in Seq(S) /\ Len(back) = Len(s) - i /\ \A k \in 1 .. Len(s) - i : back[k] = s[i + k]
    <3>1. i + 1 \in Int /\ Len(s) \in Int /\ \A k \in i + 1 .. Len(s) : s[k] \in S
      BY <2>1
    <3>2. /\ back \in Seq(S)
          /\ Len(back) = IF i + 1 <= Len(s) THEN Len(s) - (i + 1) + 1 ELSE 0
          /\ \A k \in 1 .. Len(s) - (i + 1) + 1 : back[k] = s[i + 1 + k - 1]
      BY <3>1, SubSeqProperties
    <3>3. Len(s) - (i + 1) + 1 = Len(s) - i /\ Len(back) = Len(s) - i
      <4>1. i \in Int /\ Len(s) \in Int /\ i <= Len(s)
        BY <1>2, <2>1
      <4>2. CASE i + 1 <= Len(s)
        BY <3>2, <4>1, <4>2
      <4>3. CASE ~(i + 1 <= Len(s))
        <5>1. Len(back) = 0
          BY <3>2, <4>3
        <5>2. i = Len(s)
          BY <4>1, <4>3
        <5>. QED
          BY <4>1, <5>1, <5>2
      <4>. QED
        BY <4>2, <4>3
    <3>4. \A k \in 1 .. Len(s) - i : i + 1 + k - 1 = i + k
      BY <2>1
    <3>. QED
      BY <3>2, <3>3, <3>4
  <2>4. Splice(s, i) = front \o back
    <3>1. ~(i > Len(s))
      BY <1>2, <2>1
    <3>. QED
      BY <3>1, Zenon DEF Splice
  <2>5. /\ DOMAIN Splice(s, i) = 1 .. Len(s) - 1
        /\ \A k \in 1 .. Len(s) - 1 : Splice(s, i)[k] = s[old(k)] /\ old(k) \in 1 .. Len(s)
    <3>. HIDE DEF front, back
    <3>1. /\ front \o back \in Seq(S) /\ Len(front \o back) = Len(s) - 1
          /\ \A k \in 1 .. Len(s) - 1 :
                (front \o back)[k] = IF k <= i - 1 THEN front[k] ELSE back[k - (i - 1)]
      <4>1. /\ front \o back \in Seq(S) /\ Len(front \o back) = Len(front) + Len(back)
            /\ \A k \in 1 .. Len(front) + Len(back) :
                  (front \o back)[k] = IF k <= Len(front) THEN front[k]
                                                         ELSE back[k - Len(front)]
        BY <2>2, <2>3, ConcatProperties
      <4>2. Len(front) = i - 1 /\ Len(front) + Len(back) = Len(s) - 1
        BY <1>2, <2>1, <2>2, <2>3
      <4>. QED
        BY <4>1, <4>2
    <3>2. DOMAIN Splice(s, i) = 1 .. Len(s) - 1
      BY <2>4, <3>1, LenProperties
    <3>3. ASSUME NEW k \in 1 .. Len(s) - 1
          PROVE  Splice(s, i)[k] = s[old(k)] /\ old(k) \in 1 .. Len(s)
      <4>1. CASE k < i
        BY <1>2, <2>1, <2>2, <2>4, <3>1, <4>1
      <4>2. CASE k >= i
        <5>1. k - (i - 1) \in 1 .. Len(s) - i /\ i + (k - (i - 1)) = k + 1
          BY <1>2, <2>1, <4>2
        <5>. QED
          BY <1>2, <2>1, <2>3, <2>4, <3>1, <4>2, <5>1
      <4>. QED
        BY <4>1, <4>2
    <3>. QED
      BY <3>2, <3>3
  <2>6. ASSUME NEW k \in Filled(Splice(s, i)), NEW l \in Filled(Splice(s, i)),
               Splice(s, i)[k].hostId = Splice(s, i)[l].hostId
        PROVE  k = l
    <3>1. k \in 1 .. Len(s) - 1 /\ l \in 1 .. Len(s) - 1
      BY <2>5 DEF Filled
    <3>2. old(k) \in Filled(s) /\ old(l) \in Filled(s)
      BY <2>1, <2>5, <3>1 DEF Filled
    <3>3. old(k) = old(l)
      BY <2>5, <2>6, <3>1, <3>2 DEF Distinct
    <3>. QED
      BY <3>1, <3>3
  <2>. QED
    BY <2>6 DEF Distinct
<1>. QED
  BY <1>1, <1>2, LenProperties

LEMMA AssignDistinct ==
    ASSUME NEW S, NEW s \in Seq(S), NEW i \in Nat \ {0}, NEW x, Distinct(s),
           \A j \in Filled(s) : s[j].hostId = x.hostId => j = i
    PROVE  Distinct(Assign(s, i, x))
<1>. DEFINE n == IF i > Len(s) THEN i ELSE Len(s)
            a == Assign(s, i, x)
<1>1. Len(s) \in Nat /\ DOMAIN s = 1 .. Len(s) /\ n \in Nat
  BY LenProperties
<1>2. /\ DOMAIN a = 1 .. n
      /\ \A j \in 1 .. n : a[j] = IF j = i THEN x ELSE IF j <= Len(s) THEN s[j] ELSE Hole
  BY DEF Assign
<1>3. ASSUME NEW j \in Filled(a)
      PROVE  \/ j = i /\ a[j] = x
             \/ j # i /\ j \in Filled(s) /\ a[j] = s[j]
  <2>. HIDE DEF a
  <2>. QED
    BY <1>1, <1>2 DEF Filled
<1>. QED
  BY <1>3 DEF Distinct

LEMMA AppendDistinct ==
    ASSUME NEW S, NEW s \in Seq(S), NEW x \in S, Distinct(s),
           \A j \in Filled(s) : s[j].hostId # x.hostId
    PROVE  Distinct(Append(s, x))
<1>. DEFINE a == Append(s, x)
<1>1. ASSUME NEW j \in Filled(a)
      PROVE  \/ j = Len(s) + 1 /\ a[j] = x
             \/ j \in Filled(s) /\ a[j] = s[j]
  BY Appended DEF Filled
<1>. QED
  BY <1>1 DEF Distinct

\* What a save sends is a map.
LEMMA SentMap ==
    ASSUME NEW s \in Seq(Host \cup {Hole})
    PROVE  hostsArrayToMap(s) \in HostsMap
<1>1. hostsArrayToMap(s) \subseteq Host
  BY HostsMapType
<1>2. Filled(s) \subseteq Nat
  BY FilledIndex, LenProperties
<1>3. \A g, h \in hostsArrayToMap(s) : g.hostId = h.hostId => g = h
  BY <1>2 DEF hostsArrayToMap
<1>. QED
  BY <1>1, <1>3 DEF HostsMap

-----------------------------------------------------------------------------
(***************************************************************************)
(* The host being edited is the one its popup shows                        *)
(***************************************************************************)
HostOpen == depth >= 2 /\ popups[2].modal = "host-modal"

Showing(m) == m.type = "show" /\ m.modal = "host-modal"

\* An index is kept only for a popup that is there, was asked for, or just left.
EditingShown == editingHostIndex > 0 =>
    \/ HostOpen \/ ClosedSent("host-modal")
    \/ \E i \in DOMAIN toParent : Showing(toParent[i])

\* An index into a draft that a wipe emptied is harmless: no host can have its id.
Editing == editingHostIndex > 0 /\ Filled(tempHosts) # {}

IsEdited(content) == content.locked /\ content.id = tempHosts[editingHostIndex].hostId

ShowsEdited(m) ==
    /\ Showing(m) => IsEdited(m.content)
    /\ m.type = "update" /\ m.content.form = "host-modal" /\ HostOpen => IsEdited(m.content)

SavesEdited(m) ==
    m.type = "save" /\ m.modal = "host-modal" => m.id = tempHosts[editingHostIndex].hostId

EditedShown == Editing =>
    /\ editingHostIndex \in Filled(tempHosts)
    /\ HostOpen => IsEdited(popups[2].content)
    /\ \A i \in DOMAIN toParent : ShowsEdited(toParent[i])
    /\ \A i \in DOMAIN toIframe : SavesEdited(toIframe[i])

\* What the page caches, and what it has sent, has one host for an id.
Maps ==
    /\ \A t \in DOMAIN targets : targets[t] \in HostsMap
    /\ \A s \in DOMAIN requests : requests[s] # Answered => requests[s].hosts \in HostsMap

Edited == EditingShown /\ EditedShown /\ Maps /\ Distinct(tempHosts)

LEMMA NotEditing == ASSUME editingHostIndex' = 0 PROVE EditingShown' /\ EditedShown'
  BY DEF EditingShown, EditedShown, Editing

\* Between clicks, the host's popup is there.
LEMMA QuietHostOpen ==
    ASSUME EditingShown, Quiet, editingHostIndex > 0 PROVE HostOpen
  BY OneMessage DEF EditingShown, Quiet, ClosedSent

LEMMA HostForms ==
    ASSUME TypeOK, Stacked, HostOpen
    PROVE  /\ popups # << >> /\ Top.content.form # "target-modal"
           /\ popups[2].content.form = "host-modal"
           /\ FormIds("host-modal") = {popups[2].content.id}
<1>1. /\ depth \in Nat /\ depth >= 2 /\ 2 \in 1 .. depth /\ DOMAIN popups = 1 .. depth
      /\ popups # << >> /\ Top = popups[depth] /\ \A i \in 1 .. depth : popups[i] \in Popup
  BY StackType DEF HostOpen
<1>2. popups[2].content.form = "host-modal" /\ popups[1].content.form = "target-modal"
  BY <1>1 DEF Stacked, HostOpen
<1>3. \A i \in 1 .. depth : i # 2 => popups[i].content.form # "host-modal"
  <2>. SUFFICES ASSUME NEW i \in 1 .. depth, i # 2 PROVE popups[i].content.form # "host-modal"
    OBVIOUS
  <2>1. popups[i].modal \in Modals
    BY <1>1 DEF Popup
  <2>. QED
    BY <1>2, <2>1 DEF Stacked, Modals
<1>4. FormIds("host-modal") = {popups[2].content.id}
  BY <1>1, <1>2, <1>3 DEF FormIds
<1>. QED
  BY <1>1, <1>2, <1>4 DEF Stacked

LEMMA RefreshEdited ==
    ASSUME TypeOK, Stacked, EditedShown, Editing, HostOpen,
           NEW configs, NEW m, m = hostRefresh(configs)
    PROVE  IsEdited(m.content)
<1>1. FormIds("host-modal") = {popups[2].content.id} /\ IsEdited(popups[2].content)
  BY HostForms DEF EditedShown
<1>2. PICK id : id = popups[2].content.id
  OBVIOUS
<1>3. (CHOOSE x \in {id} : TRUE) = id /\ {id} # {}
  OBVIOUS
<1>4. m = update(hostForm(id, editingHostIndex, configs))
  BY <1>1, <1>2, <1>3 DEF hostRefresh
<1>5. m.content.id = id /\ m.content.locked = (editingHostIndex > 0)
  BY <1>4 DEF update, hostForm
<1>6. m.content.locked
  BY <1>5, Zenon DEF Editing
<1>. QED
  BY <1>1, <1>2, <1>5, <1>6 DEF IsEdited

\* A step that keeps the index and the hosts.
LEMMA EditedKept ==
    ASSUME EditedShown, UNCHANGED <<tempHosts, editingHostIndex>>,
           Editing =>
             /\ HostOpen' => IsEdited(popups'[2].content)
             /\ \A i \in DOMAIN toParent' :
                   \/ toParent'[i].type = "close"
                   \/ /\ HostOpen' => HostOpen
                      /\ \E j \in DOMAIN toParent : toParent'[i] = toParent[j]
                   \/ toParent'[i].type = "update" /\ ~HostOpen'
                   \/ toParent'[i].type \in {"show", "update"} /\ ~Showing(toParent'[i])
                      /\ toParent'[i].content.form # "host-modal"
                   \/ IsEdited(toParent'[i].content)
             /\ \A i \in DOMAIN toIframe' :
                   \/ \E j \in DOMAIN toIframe : toIframe'[i] = toIframe[j]
                   \/ toIframe'[i].type = "closed"
                   \/ SavesEdited(toIframe'[i])
    PROVE  EditedShown'
<1>. SUFFICES ASSUME Editing'
              PROVE  /\ editingHostIndex' \in Filled(tempHosts)'
                     /\ HostOpen' => IsEdited(popups[2].content)'
                     /\ \A i \in DOMAIN toParent' : ShowsEdited(toParent[i])'
                     /\ \A i \in DOMAIN toIframe' : SavesEdited(toIframe[i])'
  BY DEF EditedShown
<1>1. Editing
  BY DEF Editing, Filled
<1>2. \A content : IsEdited(content) <=> content.locked /\ content.id = tempHosts'[editingHostIndex'].hostId
  BY DEF IsEdited
<1>3. editingHostIndex' \in Filled(tempHosts)' /\ (HostOpen' => IsEdited(popups[2].content)')
  BY <1>1, <1>2 DEF EditedShown, IsEdited, Filled
<1>4. ASSUME NEW i \in DOMAIN toParent' PROVE ShowsEdited(toParent[i])'
  <2>1. CASE (HostOpen' => HostOpen) /\ \E j \in DOMAIN toParent : toParent'[i] = toParent[j]
    BY <1>1, <2>1 DEF EditedShown, ShowsEdited, Showing, IsEdited
  <2>. QED
    BY <1>1, <1>4, <2>1 DEF ShowsEdited, Showing, IsEdited
<1>5. ASSUME NEW i \in DOMAIN toIframe' PROVE SavesEdited(toIframe[i])'
  BY <1>1, <1>5 DEF EditedShown, SavesEdited
<1>. QED
  BY <1>3, <1>4, <1>5

LEMMA ShownKept ==
    ASSUME EditingShown, UNCHANGED editingHostIndex,
           HostOpen => HostOpen' \/ ClosedSent("host-modal")',
           ClosedSent("host-modal") => ClosedSent("host-modal")',
           \A i \in DOMAIN toParent : Showing(toParent[i]) =>
               HostOpen' \/ \E j \in DOMAIN toParent' : Showing(toParent'[j])
    PROVE  EditingShown'
  BY DEF EditingShown, Showing

LEMMA MapsKept == ASSUME Maps, UNCHANGED <<targets, requests>> PROVE Maps'
  BY DEF Maps

LEMMA EditedUserPosts ==
    ASSUME TypeOK, Shape, Edited,
           \/ \E t \in TargetIds \cup {NoValue} : showTargetModal(t)
           \/ \E i \in Buttons : \/ showHostModal(i) \/ removeHostAndRefresh(i)
                                \/ showConfigModal(i) \/ removeConfigAndRefresh(i)
    PROVE  Edited'
<1>1. /\ Quiet /\ toIframe' = << >> /\ DOMAIN toIframe' = {} /\ DOMAIN toParent = {}
      /\ UNCHANGED <<targets, requests, popups>>
  BY OneMessage DEF showTargetModal, showHostModal, removeHostAndRefresh, showConfigModal,
                    removeConfigAndRefresh, Shown, Quiet
<1>2. /\ editingHostIndex \in Nat /\ (editingHostIndex > 0 => HostOpen)
      /\ tempHosts \in Seq(Host \cup {Hole}) /\ depth \in Nat /\ depth' = depth
      /\ HostOpen' <=> HostOpen
  BY <1>1, QuietHostOpen, StackType DEF Edited, TypeOK, HostOpen, depth
<1>3. Maps'
  BY <1>1, MapsKept DEF Edited
<1>4. \A m : toParent' = Append(toParent, m) =>
          toParent' = <<m>> /\ DOMAIN toParent' = {1} /\ toParent'[1] = m
  BY <1>1, OneMessage DEF Quiet
<1>5. Shown("target-modal") \/ popups = << >> => ~HostOpen /\ editingHostIndex = 0
  <2>1. Stacked
    BY DEF Shape, Bridged
  <2>2. Shown("target-modal") => ~HostOpen
    BY <2>1, HostForms DEF Shown
  <2>3. popups = << >> => ~HostOpen
    BY <1>2, StackType DEF HostOpen
  <2>. QED
    BY <1>2, <2>2, <2>3
<1>6. ASSUME NEW t \in TargetIds \cup {NoValue}, showTargetModal(t) PROVE Edited'
  <2>1. ~HostOpen /\ editingHostIndex' = 0
    BY <1>5, <1>6 DEF showTargetModal, hostDraft
  <2>2. Distinct(tempHosts')
    <3>1. tempHosts' = IF t \in DOMAIN targets THEN Entries(targets[t]) ELSE << >>
      BY <1>6 DEF showTargetModal
    <3>2. t \in DOMAIN targets => Distinct(Entries(targets[t]))
      BY EntriesDistinct DEF Edited, Maps
    <3>3. Distinct(<< >>)
      BY OneMessage DEF Distinct, Filled
    <3>. QED
      BY <3>1, <3>2, <3>3
  <2>. QED
    BY <1>3, <2>1, <2>2, NotEditing DEF Edited, Distinct, Filled
<1>7. ASSUME NEW i \in Buttons, showHostModal(i) PROVE Edited'
  <2>1. PICK configs, id :
          /\ editingHostIndex' = (IF i \in Filled(tempHosts) THEN i ELSE 0)
          /\ id = (IF i \in Filled(tempHosts) THEN tempHosts[i].hostId ELSE NoValue)
          /\ tempHosts' = tempHosts
          /\ toParent' = Append(toParent, show("host-modal", hostForm(id, editingHostIndex', configs)))
    BY <1>7 DEF showHostModal, draft
  <2>2. PICK m : m = show("host-modal", hostForm(id, editingHostIndex', configs))
    OBVIOUS
  <2>3. /\ m.type = "show" /\ m.modal = "host-modal" /\ m.content.id = id
        /\ m.content.locked = (editingHostIndex' > 0)
    BY <2>2 DEF show, hostForm
  <2>4. DOMAIN toParent' = {1} /\ toParent'[1] = m /\ Showing(m)
    BY <1>4, <2>1, <2>2, <2>3 DEF Showing
  <2>5. EditingShown'
    BY <2>4 DEF EditingShown, Showing
  <2>6. ~HostOpen'
    BY <1>2, <1>5, <1>7 DEF showHostModal
  <2>7. ASSUME Editing'
        PROVE  /\ editingHostIndex' \in Filled(tempHosts)'
               /\ m.content.locked /\ m.content.id = tempHosts'[editingHostIndex'].hostId
    <3>1. m.content.locked
      BY <2>3, <2>7, Zenon DEF Editing
    <3>2. editingHostIndex' > 0
      BY <2>7 DEF Editing
    <3>3. i \in Filled(tempHosts) /\ editingHostIndex' = i
      BY <2>1, <3>2
    <3>. QED
      BY <2>1, <2>3, <3>1, <3>3 DEF Filled
  <2>8. ASSUME Editing' PROVE ShowsEdited(toParent[1])'
    BY <2>3, <2>4, <2>7, <2>8 DEF ShowsEdited, IsEdited
  <2>9. EditedShown'
    BY <1>1, <2>4, <2>6, <2>7, <2>8 DEF EditedShown
  <2>10. Distinct(tempHosts)'
    BY <2>1 DEF Edited, Distinct, Filled
  <2>. QED
    BY <1>3, <2>5, <2>9, <2>10 DEF Edited
<1>8. ASSUME NEW i \in Buttons, removeHostAndRefresh(i) PROVE Edited'
  <2>1. editingHostIndex' = 0 /\ i \in Filled(Top.content.rows) /\ tempHosts' = Splice(tempHosts, i)
    BY <1>5, <1>8 DEF removeHostAndRefresh, hostDraft
  <2>2. i \in Nat \ {0}
    <3>1. popups # << >> /\ Top.content.form = "target-modal"
      BY <1>8 DEF removeHostAndRefresh, Shown
    <3>2. Top.content.rows \in Seq(Host \cup {Hole})
      BY <3>1, TopType, FormFields
    <3>. QED
      BY <2>1, <3>2, FilledIndex, LenProperties
  <2>3. Distinct(Splice(tempHosts, i))
    BY <1>2, <2>2, SpliceDistinct DEF Edited
  <2>. QED
    BY <1>3, <2>1, <2>3, NotEditing DEF Edited, Distinct, Filled
<1>9. ASSUME NEW i \in Buttons, showConfigModal(i) PROVE Edited'
  <2>1. UNCHANGED <<tempHosts, editingHostIndex>>
        /\ toParent' = Append(toParent, show("config-modal", configForm))
    BY <1>9 DEF showConfigModal, draft
  <2>2. PICK m : m = show("config-modal", configForm)
    OBVIOUS
  <2>3. m.type = "show" /\ ~Showing(m) /\ m.content.form # "host-modal"
    BY <2>2 DEF show, configForm, Showing
  <2>4. DOMAIN toParent' = {1} /\ toParent'[1] = m
    BY <1>4, <2>1, <2>2
  <2>5. EditingShown'
    BY <1>1, <1>2, <2>1 DEF EditingShown
  <2>6. Editing /\ HostOpen' => IsEdited(popups'[2].content)
    BY <1>1, <1>2 DEF Edited, EditedShown
  <2>7. EditedShown'
    BY <1>1, <2>1, <2>3, <2>4, <2>6, EditedKept DEF Edited
  <2>. QED
    BY <1>3, <2>1, <2>5, <2>7 DEF Edited, Distinct, Filled
<1>10. ASSUME NEW i \in Buttons, removeConfigAndRefresh(i) PROVE Edited'
  <2>1. UNCHANGED <<tempHosts, editingHostIndex>>
        /\ toParent' = Append(toParent, hostRefresh(tempConfigs'))
    BY <1>10 DEF removeConfigAndRefresh, draft
  <2>2. PICK m : m = hostRefresh(tempConfigs')
    OBVIOUS
  <2>3. m.type = "update"
    BY <2>2 DEF hostRefresh, update
  <2>4. DOMAIN toParent' = {1} /\ toParent'[1] = m
    BY <1>4, <2>1, <2>2
  <2>5. EditingShown'
    BY <1>1, <1>2, <2>1 DEF EditingShown
  <2>6. Editing => /\ HostOpen' => IsEdited(popups'[2].content)
                   /\ ~HostOpen' \/ IsEdited(m.content)
    BY <1>1, <1>2, <2>2, RefreshEdited DEF Edited, EditedShown, Shape, Bridged
  <2>7. EditedShown'
    BY <1>1, <2>1, <2>3, <2>4, <2>6, EditedKept DEF Edited
  <2>. QED
    BY <1>3, <2>1, <2>5, <2>7 DEF Edited, Distinct, Filled
<1>. QED
  BY <1>6, <1>7, <1>8, <1>9, <1>10

LEMMA EditedClicks ==
    ASSUME TypeOK, Shape, Edited,
           \/ \E id \in TargetIds \cup HostIds : TypeId(id)
           \/ \E p \in Protocols \cup {NoValue} : ClickSave(p)
           \/ ClickClose
    PROVE  Edited'
<1>1. /\ Quiet /\ popups # << >>
      /\ UNCHANGED <<toParent, tempHosts, editingHostIndex, targets, requests>>
  BY DEF TypeId, ClickSave, ClickClose, bridge, draft, hostDraft
<1>2. /\ depth \in Nat /\ depth > 0 /\ Top = popups[depth]
      /\ DOMAIN popups = 1 .. depth /\ popups \in Seq(Popup)
      /\ \A i \in 1 .. depth : popups[i] \in Popup
  BY <1>1, StackType
<1>3. /\ toParent' = << >> /\ DOMAIN toParent' = {} /\ DOMAIN toParent = {} /\ toIframe = << >>
  BY <1>1, OneMessage DEF Quiet
<1>4. Maps' /\ Distinct(tempHosts)'
  BY <1>1, MapsKept DEF Edited, Distinct, Filled
<1>5. Editing => HostOpen /\ IsEdited(popups[2].content)
  BY <1>1, QuietHostOpen DEF Edited, EditedShown, Editing
<1>6. ASSUME NEW id \in TargetIds \cup HostIds, TypeId(id) PROVE Edited'
  <2>1. /\ popups' = [popups EXCEPT ![depth].content.id = id] /\ UNCHANGED toIframe
        /\ ~Top.content.locked
    BY <1>6 DEF TypeId, depth, bridge
  <2>2. /\ DOMAIN popups' = 1 .. depth /\ popups'[depth].modal = popups[depth].modal
        /\ \A i \in 1 .. depth : i # depth => popups'[i] = popups[i]
    <3>1. \A q \in Popup : [q EXCEPT !.content.id = id].modal = q.modal
      BY DEF Popup
    <3>. QED
      BY <1>2, <2>1, <3>1
  <2>3. depth' = depth /\ (HostOpen' <=> HostOpen)
    <3>1. Len(popups') = Len(popups)
      BY <1>2, <2>1, LenProperties
    <3>2. depth' = depth
      BY <3>1 DEF depth
    <3>. QED
      BY <1>2, <2>2, <3>2 DEF HostOpen
  <2>4. Editing => popups'[2] = popups[2]
    <3>1. ASSUME Editing PROVE depth # 2 /\ 2 \in 1 .. depth
      BY <1>2, <1>5, <2>1, <3>1 DEF IsEdited, HostOpen
    <3>. QED
      BY <2>2, <3>1
  <2>5. EditedShown'
    BY <1>1, <1>3, <1>5, <2>1, <2>4, EditedKept DEF Edited
  <2>6. EditingShown'
    BY <1>1, <1>3, <2>1, <2>3, ShownKept DEF Edited, ClosedSent
  <2>. QED
    BY <1>4, <2>5, <2>6 DEF Edited
<1>7. ASSUME NEW p \in Protocols \cup {NoValue}, ClickSave(p) PROVE Edited'
  <2>1. PICK m : /\ m.type = "save" /\ m.modal = Top.modal
                 /\ Top.modal = "host-modal" /\ Top.content.form = "host-modal" =>
                        m.id = Top.content.id
                 /\ toIframe' = Append(toIframe, m)
    BY <1>7 DEF ClickSave, saved
  <2>2. DOMAIN toIframe' = {1} /\ toIframe'[1] = m /\ UNCHANGED popups
    BY <1>3, <1>7, <2>1, OneMessage DEF ClickSave
  <2>3. HostOpen' <=> HostOpen
    BY <2>2 DEF HostOpen, depth
  <2>4. Top.modal = "host-modal" => depth = 2 /\ Top.content.form = "host-modal"
    BY <1>2 DEF Shape, Bridged, Stacked
  <2>5. Editing => SavesEdited(m)
    BY <1>2, <1>5, <2>1, <2>4 DEF SavesEdited, IsEdited
  <2>6. EditedShown'
    BY <1>1, <1>3, <1>5, <2>2, <2>3, <2>5, EditedKept DEF Edited
  <2>7. EditingShown'
    BY <1>1, <1>3, <2>3, QuietHostOpen DEF Edited, EditingShown
  <2>. QED
    BY <1>4, <2>6, <2>7 DEF Edited
<1>8. CASE ClickClose
  <2>1. /\ popups' = SubSeq(popups, 1, Len(popups) - 1)
        /\ toIframe' = Append(toIframe, closed(Top.modal))
    BY <1>8 DEF ClickClose
  <2>2. DOMAIN toIframe' = {1} /\ toIframe'[1] = closed(Top.modal)
    BY <1>3, <2>1, OneMessage
  <2>3. depth' = depth - 1 /\ \A i \in 1 .. depth' : popups'[i] = popups[i]
    BY <1>1, <2>1, Popped
  <2>4. /\ HostOpen' => HostOpen /\ popups'[2] = popups[2]
        /\ HostOpen => HostOpen' \/ Top.modal = "host-modal"
    BY <1>2, <2>3 DEF HostOpen
  <2>5. EditedShown'
    BY <1>1, <1>3, <1>5, <2>2, <2>4, EditedKept DEF Edited, closed
  <2>6. Top.modal = "host-modal" => ClosedSent("host-modal")'
    BY <2>2 DEF ClosedSent
  <2>7. EditingShown'
    BY <1>1, <2>4, <2>6, QuietHostOpen DEF Edited, EditingShown
  <2>. QED
    BY <1>4, <2>5, <2>7 DEF Edited
<1>. QED
  BY <1>6, <1>7, <1>8

LEMMA EditedParent ==
    ASSUME TypeOK, Shape, Edited, popupShow \/ popupUpdate \/ popupClose
    PROVE  Edited'
<1>1. /\ toParent # << >> /\ toParent' = Tail(toParent)
      /\ UNCHANGED <<tempHosts, editingHostIndex, targets, requests>>
  BY DEF popupShow, popupUpdate, popupClose, ParentReceives, draft, hostDraft
<1>2. PICK m : m = Head(toParent)
  OBVIOUS
<1>3. /\ 1 \in DOMAIN toParent /\ m = toParent[1]
      /\ \A i \in DOMAIN toParent' : \E j \in DOMAIN toParent : j # 1 /\ toParent'[i] = toParent[j]
      /\ \A j \in DOMAIN toParent : j # 1 => \E i \in DOMAIN toParent' : toParent'[i] = toParent[j]
  BY <1>1, <1>2, ParentTook DEF Shape, Bridged
<1>4. Maps' /\ Distinct(tempHosts)'
  BY <1>1, MapsKept DEF Edited, Distinct, Filled
<1>5. /\ depth \in Nat /\ DOMAIN popups = 1 .. depth
      /\ Editing => ShowsEdited(m) /\ (HostOpen => IsEdited(popups[2].content))
  BY <1>3, StackType DEF Edited, EditedShown
<1>6. /\ \A j \in DOMAIN toParent : toParent[j].type = "show" => j = 1
      /\ m.type = "show" => MayShow(m) /\ \A j \in DOMAIN toParent : j # 1 => toParent[j].type = "close"
      /\ m.type = "update" => MayUpdate(m)
  BY <1>3 DEF Shape, Bridged, ParentGets
<1>7. CASE popupShow
  <2>1. m.type = "show" /\ UNCHANGED toIframe
        /\ popups' = Append(popups, [modal |-> m.modal, content |-> m.content])
    BY <1>2, <1>7 DEF popupShow, ParentReceives
  <2>2. PICK p : p = [modal |-> m.modal, content |-> m.content]
    OBVIOUS
  <2>3. m \in ToParent
    BY <1>3, ElementOfSeq DEF TypeOK
  <2>4. p \in Popup /\ p.modal = m.modal /\ p.content = m.content
    BY <2>1, <2>2, <2>3 DEF ToParent, Popup, close
  <2>5. popups' = Append(popups, p)
    BY <2>1, <2>2
  <2>6. /\ depth' = depth + 1
        /\ \A i \in 1 .. depth : popups'[i] = popups[i]
        /\ popups'[depth'] = p
    BY <2>4, <2>5, Pushed
  <2>7. Showing(m) => HostOpen'
    BY <1>5, <1>6, <2>1, <2>4, <2>6 DEF Showing, MayShow, HostOpen
  <2>8. HostOpen => HostOpen' /\ popups'[2] = popups[2]
    BY <1>5, <2>6 DEF HostOpen
  <2>9. HostOpen' => HostOpen \/ (Showing(m) /\ popups'[2].content = m.content)
    BY <1>5, <2>1, <2>4, <2>6 DEF HostOpen, Showing
  <2>10. Editing /\ HostOpen' => IsEdited(popups'[2].content)
    BY <1>5, <2>8, <2>9 DEF ShowsEdited
  <2>11. \A i \in DOMAIN toParent' : toParent'[i].type = "close"
    BY <1>3, <1>6, <2>1
  <2>12. EditedShown'
    BY <1>1, <2>1, <2>10, <2>11, EditedKept DEF Edited
  <2>13. EditingShown'
    <3>1. ClosedSent("host-modal") => ClosedSent("host-modal")'
      BY <2>1 DEF ClosedSent
    <3>2. \A i \in DOMAIN toParent : Showing(toParent[i]) => HostOpen'
      BY <1>3, <1>6, <2>7 DEF Showing
    <3>. QED
      BY <1>1, <2>8, <3>1, <3>2, ShownKept DEF Edited
  <2>. QED
    BY <1>4, <2>12, <2>13 DEF Edited
<1>8. ASSUME m.type # "show"
      PROVE  \A i \in DOMAIN toParent : Showing(toParent[i]) =>
                 \E j \in DOMAIN toParent' : Showing(toParent'[j])
  BY <1>3, <1>6, <1>8 DEF Showing
<1>9. CASE popupUpdate
  <2>1. m.type = "update" /\ UNCHANGED toIframe
    BY <1>2, <1>9 DEF popupUpdate, ParentReceives
  <2>2. /\ depth' = depth
        /\ \A i \in 1 .. depth : /\ popups'[i].modal = popups[i].modal
                                 /\ \/ popups'[i].content = popups[i].content
                                    \/ i = depth /\ popups'[i].content = m.content
    <3>1. CASE popups = << >>
      BY <1>9, <3>1, StackType DEF popupUpdate, depth
    <3>2. CASE popups # << >>
      <4>1. popups' = [popups EXCEPT ![Len(popups)].content = m.content]
        BY <1>2, <1>9, <3>2 DEF popupUpdate
      <4>. QED
        BY <3>2, <4>1, Redrawn
    <3>. QED
      BY <3>1, <3>2
  <2>3. HostOpen' <=> HostOpen
    BY <1>5, <2>2 DEF HostOpen
  <2>4. HostOpen => \/ popups'[2].content = popups[2].content
                    \/ popups'[2].content = m.content /\ m.content.form = "host-modal"
    BY <1>5, <1>6, <2>1, <2>2 DEF HostOpen, MayUpdate
  <2>5. Editing /\ HostOpen' => IsEdited(popups'[2].content)
    BY <1>5, <2>1, <2>3, <2>4 DEF ShowsEdited
  <2>6. EditedShown'
    BY <1>1, <1>3, <2>1, <2>3, <2>5, EditedKept DEF Edited
  <2>7. EditingShown'
    BY <1>1, <1>8, <2>1, <2>3, ShownKept DEF Edited, ClosedSent
  <2>. QED
    BY <1>4, <2>6, <2>7 DEF Edited
<1>10. CASE popupClose
  <2>1. m.type = "close"
    BY <1>2, <1>10 DEF popupClose, ParentReceives
  <2>2. /\ HostOpen' => HostOpen /\ popups'[2] = popups[2]
        /\ HostOpen => HostOpen' \/ ClosedSent("host-modal")'
        /\ ClosedSent("host-modal") => ClosedSent("host-modal")'
        /\ \A i \in DOMAIN toIframe' : \/ \E j \in DOMAIN toIframe : toIframe'[i] = toIframe[j]
                                       \/ toIframe'[i].type = "closed"
    <3>1. CASE popups = << >>
      BY <1>10, <3>1 DEF popupClose, HostOpen, depth, ClosedSent
    <3>2. CASE popups # << >>
      <4>1. /\ popups' = SubSeq(popups, 1, Len(popups) - 1)
            /\ toIframe' = Append(toIframe, closed(Top.modal))
        BY <1>10, <3>2 DEF popupClose
      <4>2. /\ depth' = depth - 1 /\ depth > 0
            /\ \A i \in 1 .. depth' : popups'[i] = popups[i]
        BY <3>2, <4>1, Popped
      <4>3. Top = popups[depth] /\ Top.modal \in Modals
        BY <3>2, <4>2, StackType DEF Popup
      <4>4. /\ HostOpen' => HostOpen /\ popups'[2] = popups[2]
            /\ HostOpen => HostOpen' \/ Top.modal = "host-modal"
        BY <1>5, <4>2, <4>3 DEF HostOpen
      <4>5. /\ \A i \in DOMAIN toIframe' : \/ i \in DOMAIN toIframe /\ toIframe'[i] = toIframe[i]
                                           \/ toIframe'[i] = closed(Top.modal)
            /\ \A i \in DOMAIN toIframe : i \in DOMAIN toIframe' /\ toIframe'[i] = toIframe[i]
            /\ \E i \in DOMAIN toIframe' : toIframe'[i] = closed(Top.modal)
        <5>1. toIframe \in Seq(ToIframe) /\ closed(Top.modal) \in ToIframe
          BY <4>3 DEF TypeOK, ToIframe, closed
        <5>. QED
          BY <4>1, <5>1, Appended
      <4>6. closed(Top.modal).type = "closed"
        BY DEF closed
      <4>7. /\ Top.modal = "host-modal" => ClosedSent("host-modal")'
            /\ ClosedSent("host-modal") => ClosedSent("host-modal")'
        BY <4>5 DEF ClosedSent
      <4>. QED
        BY <4>4, <4>5, <4>6, <4>7
    <3>. QED
      BY <3>1, <3>2
  <2>3. Editing /\ HostOpen' => IsEdited(popups'[2].content)
    BY <1>5, <2>2
  <2>4. EditedShown'
    BY <1>1, <1>3, <2>2, <2>3, EditedKept DEF Edited
  <2>5. EditingShown'
    BY <1>1, <1>8, <2>1, <2>2, ShownKept DEF Edited
  <2>. QED
    BY <1>4, <2>4, <2>5 DEF Edited
<1>. QED
  BY <1>7, <1>9, <1>10

\* A handler that drops the index may add or replace the host of the popup.
LEMMA EditedIframe ==
    ASSUME TypeOK, TypeOK', Shape, Edited,
           \/ handleTargetSave \/ handleHostSave \/ handleConfigSave
           \/ targetModalClosed \/ onHostModalClosed \/ onConfigModalClosed
    PROVE  Edited'
<1>1. toIframe # << >> /\ toIframe' = Tail(toIframe) /\ UNCHANGED <<popups, targets>>
  BY DEF handleTargetSave, handleHostSave, handleConfigSave, targetModalClosed,
         onHostModalClosed, onConfigModalClosed, IframeReceives, Refused
<1>2. PICK m : m = Head(toIframe)
  OBVIOUS
<1>3. /\ 1 \in DOMAIN toIframe /\ m = toIframe[1] /\ m \in ToIframe
      /\ \A i \in DOMAIN toIframe' : \E j \in DOMAIN toIframe : toIframe'[i] = toIframe[j]
      /\ \A i \in DOMAIN toIframe : i # 1 => \E j \in DOMAIN toIframe' : toIframe'[j] = toIframe[i]
  BY <1>1, <1>2, Tailed, ElementOfSeq DEF TypeOK
<1>4. /\ HostOpen' <=> HostOpen
      /\ m # closed("host-modal") => (ClosedSent("host-modal") => ClosedSent("host-modal")')
  BY <1>1, <1>3 DEF HostOpen, depth, ClosedSent
<1>5. /\ tempHosts \in Seq(Host \cup {Hole}) /\ editingHostIndex \in Nat
      /\ toParent \in Seq(ToParent) /\ toParent' \in Seq(ToParent)
  BY DEF TypeOK
<1>6. Distinct(<< >>) /\ Filled(<< >>) = {}
  BY OneMessage DEF Distinct, Filled
<1>7. \A i \in DOMAIN toParent : toParent[i].type # "show"
  BY <1>1 DEF Shape, Bridged, ParentGets
\* The handler keeps the index and may post the refresh of a form, or a close.
<1>8. ASSUME UNCHANGED <<tempHosts, editingHostIndex>>, Maps', m # closed("host-modal"),
             \/ UNCHANGED toParent
             \/ \E x : /\ toParent' = Append(toParent, x)
                       /\ \/ x.type = "close"
                          \/ x.type = "update" /\ (Editing /\ HostOpen => IsEdited(x.content))
      PROVE  Edited'
  <2>1. \A i \in DOMAIN toParent' : Editing =>
           \/ toParent'[i].type = "close"
           \/ \E j \in DOMAIN toParent : toParent'[i] = toParent[j]
           \/ toParent'[i].type = "update" /\ (HostOpen => IsEdited(toParent'[i].content))
    <3>1. CASE UNCHANGED toParent
      BY <3>1
    <3>2. CASE ~UNCHANGED toParent
      <4>1. PICK x : /\ toParent' = Append(toParent, x)
                     /\ \/ x.type = "close"
                        \/ x.type = "update" /\ (Editing /\ HostOpen => IsEdited(x.content))
        BY <1>8, <3>2
      <4>2. x \in ToParent
        <5>1. Len(toParent) + 1 \in 1 .. Len(toParent') /\ toParent'[Len(toParent) + 1] = x
          BY <1>5, <4>1, LenProperties
        <5>. QED
          BY <1>5, <5>1, ElementOfSeq
      <4>3. \A i \in DOMAIN toParent' : \/ i \in DOMAIN toParent /\ toParent'[i] = toParent[i]
                                        \/ toParent'[i] = x
        BY <1>5, <4>1, <4>2, Appended
      <4>. QED
        BY <4>1, <4>3
    <3>. QED
      BY <3>1, <3>2
  <2>2. Editing /\ HostOpen' => IsEdited(popups'[2].content)
    BY <1>1, <1>4 DEF Edited, EditedShown
  <2>3. EditedShown'
    BY <1>3, <1>4, <1>8, <2>1, <2>2, EditedKept DEF Edited
  <2>4. EditingShown'
    BY <1>4, <1>7, <1>8, ShownKept DEF Edited, Showing
  <2>. QED
    BY <1>8, <2>3, <2>4 DEF Edited, Distinct, Filled
<1>9. CASE handleTargetSave
  <2>1. /\ UNCHANGED <<tempHosts, editingHostIndex, toParent>> /\ m.type = "save"
    BY <1>2, <1>9 DEF handleTargetSave, Refused, draft, hostDraft, IframeReceives
  <2>2. Maps'
    <3>1. CASE UNCHANGED requests
      BY <1>1, <3>1, MapsKept DEF Edited
    <3>2. CASE ~UNCHANGED requests
      <4>1. PICK r : requests' = Append(requests, r) /\ r.hosts = hostsArrayToMap(tempHosts)
        BY <1>9, <3>2 DEF handleTargetSave, Refused
      <4>2. r.hosts \in HostsMap
        BY <1>5, <4>1, SentMap
      <4>3. requests \in Seq(Request \cup {Answered}) /\ requests' \in Seq(Request \cup {Answered})
        BY DEF TypeOK
      <4>4. r \in Request \cup {Answered}
        <5>1. Len(requests) + 1 \in 1 .. Len(requests') /\ requests'[Len(requests) + 1] = r
          BY <4>1, <4>3, LenProperties
        <5>. QED
          BY <4>3, <5>1, ElementOfSeq
      <4>5. \A i \in DOMAIN requests' : \/ i \in DOMAIN requests /\ requests'[i] = requests[i]
                                        \/ requests'[i] = r
        BY <4>1, <4>3, <4>4, Appended
      <4>. QED
        BY <1>1, <4>2, <4>5 DEF Maps, Edited
    <3>. QED
      BY <3>1, <3>2
  <2>. QED
    BY <1>8, <2>1, <2>2 DEF closed
<1>10. CASE handleConfigSave
  <2>1. /\ UNCHANGED <<tempHosts, editingHostIndex, requests>> /\ m.type = "save"
        /\ toParent' \in {toParent, Append(toParent, close)}
    BY <1>2, <1>10 DEF handleConfigSave, Refused, draft, hostDraft, IframeReceives
  <2>2. close.type = "close"
    BY DEF close
  <2>3. Maps'
    BY <1>1, <2>1, MapsKept DEF Edited
  <2>. QED
    BY <1>8, <2>1, <2>2, <2>3 DEF closed
<1>11. CASE onConfigModalClosed
  <2>1. /\ UNCHANGED <<tempHosts, editingHostIndex, requests>> /\ m.modal = "config-modal"
        /\ toParent' \in {toParent, Append(toParent, hostRefresh(tempConfigs))}
    BY <1>2, <1>11 DEF onConfigModalClosed, draft, IframeReceives
  <2>2. PICK x : x = hostRefresh(tempConfigs)
    OBVIOUS
  <2>3. x.type = "update" /\ (Editing /\ HostOpen => IsEdited(x.content))
    BY <2>2, RefreshEdited DEF Shape, Bridged, Edited, hostRefresh, update
  <2>4. Maps'
    BY <1>1, <2>1, MapsKept DEF Edited
  <2>. QED
    BY <1>8, <2>1, <2>2, <2>3, <2>4 DEF closed
<1>12. CASE targetModalClosed
  <2>1. /\ tempHosts' = << >> /\ UNCHANGED <<editingHostIndex, requests, toParent>>
        /\ m.modal = "target-modal"
    BY <1>2, <1>12 DEF targetModalClosed, resetDraft, hostDraft, IframeReceives
  <2>2. EditedShown' /\ Distinct(tempHosts')
    BY <1>6, <2>1 DEF EditedShown, Editing
  <2>3. EditingShown'
    BY <1>4, <1>7, <2>1, ShownKept DEF Edited, Showing, closed
  <2>4. Maps'
    BY <1>1, <2>1, MapsKept DEF Edited
  <2>. QED
    BY <2>2, <2>3, <2>4 DEF Edited, Distinct, Filled
<1>13. CASE onHostModalClosed
  <2>1. editingHostIndex' = 0 /\ UNCHANGED <<tempHosts, requests>>
    BY <1>13 DEF onHostModalClosed, draft
  <2>. QED
    BY <1>1, <2>1, NotEditing, MapsKept DEF Edited, Distinct, Filled
<1>14. CASE handleHostSave
  <2>1. m.type = "save" /\ m.modal = "host-modal" /\ UNCHANGED requests
    BY <1>2, <1>14 DEF handleHostSave, IframeReceives, Refused
  <2>2. Maps'
    BY <1>1, <2>1, MapsKept DEF Edited
  <2>3. CASE Refused
    <3>1. UNCHANGED <<tempHosts, editingHostIndex, toParent>>
      BY <2>3 DEF Refused, draft, hostDraft
    <3>. QED
      BY <1>8, <2>1, <2>2, <3>1 DEF closed
  <2>4. CASE ~Refused
    <3>1. PICK x : x = [hostId |-> m.id, configs |-> configsArrayToMap(tempConfigs)]
      OBVIOUS
    <3>2. /\ m.id # NoValue /\ (editingHostIndex > 0 \/ mayAddHost(m.id))
          /\ tempHosts' = IF editingHostIndex > 0 THEN Assign(tempHosts, editingHostIndex, x)
                          ELSE Append(tempHosts, x)
          /\ editingHostIndex' = 0
      BY <1>2, <1>14, <2>4, <3>1 DEF handleHostSave
    <3>3. x \in Host \cup {Hole} /\ x.hostId = m.id
      <4>1. m.id \in HostIds
        BY <1>3, <2>1, <3>2, SaveFields
      <4>. QED
        BY <3>1, <4>1, MapType DEF Host, TypeOK
    <3>4. Distinct(tempHosts')
      <4>1. CASE editingHostIndex > 0
        <5>1. \A j \in Filled(tempHosts) : tempHosts[j].hostId = x.hostId => j = editingHostIndex
          <6>. SUFFICES ASSUME NEW j \in Filled(tempHosts), tempHosts[j].hostId = x.hostId
                        PROVE  j = editingHostIndex
            OBVIOUS
          <6>1. Editing
            BY <4>1 DEF Editing
          <6>2. /\ editingHostIndex \in Filled(tempHosts)
                /\ m.id = tempHosts[editingHostIndex].hostId
            BY <1>3, <2>1, <6>1 DEF Edited, EditedShown, SavesEdited
          <6>. QED
            BY <3>3, <6>2 DEF Edited, Distinct
        <5>2. editingHostIndex \in Nat \ {0}
          BY <1>5, <4>1
        <5>. QED
          BY <1>5, <3>2, <4>1, <5>1, <5>2, AssignDistinct DEF Edited
      <4>2. CASE ~(editingHostIndex > 0)
        <5>1. \A j \in Filled(tempHosts) : tempHosts[j].hostId # x.hostId
          BY <3>2, <3>3, <4>2 DEF mayAddHost, Filled
        <5>. QED
          BY <1>5, <3>2, <3>3, <4>2, <5>1, AppendDistinct DEF Edited
      <4>. QED
        BY <4>1, <4>2
    <3>. QED
      BY <2>2, <3>2, <3>4, NotEditing DEF Edited, Distinct, Filled
  <2>. QED
    BY <2>3, <2>4
<1>. QED
  BY <1>9, <1>10, <1>11, <1>12, <1>13, <1>14

\* An answer empties the draft, whatever index is kept, and fills the cache.
LEMMA EditedAnswered ==
    ASSUME TypeOK, Edited, NEW s \in 1 .. MaxSaves, NEW ok \in BOOLEAN, SaveAnswered(s, ok)
    PROVE  Edited'
<1>1. /\ UNCHANGED <<editingHostIndex, popups, toIframe>>
      /\ s \in DOMAIN requests /\ requests[s] # Answered
      /\ requests' = [requests EXCEPT ![s] = Answered]
  BY DEF SaveAnswered, hostDraft
<1>2. \A i \in DOMAIN requests' : requests'[i] # Answered => requests'[i] = requests[i]
      /\ i \in DOMAIN requests
  <2>1. DOMAIN requests' = DOMAIN requests
    BY <1>1
  <2>. QED
    BY <1>1, <2>1
<1>3. HostOpen' <=> HostOpen
  BY <1>1 DEF HostOpen, depth
<1>4. CASE ok
  <2>1. /\ tempHosts' = << >> /\ toParent' = Append(toParent, close)
        /\ targets' = [t \in DOMAIN targets \cup {requests[s].targetId} |->
                           IF t = requests[s].targetId THEN requests[s].hosts ELSE targets[t]]
    BY <1>4 DEF SaveAnswered, closeTargetModal
  <2>2. Distinct(tempHosts') /\ EditedShown'
    <3>1. Distinct(<< >>) /\ Filled(<< >>) = {}
      BY OneMessage DEF Distinct, Filled
    <3>. QED
      BY <2>1, <3>1 DEF EditedShown, Editing
  <2>3. Maps'
    BY <1>1, <1>2, <2>1 DEF Edited, Maps
  <2>4. \A i \in DOMAIN toParent : i \in DOMAIN toParent' /\ toParent'[i] = toParent[i]
    <3>1. toParent \in Seq(ToParent) /\ close \in ToParent
      BY DEF TypeOK, ToParent
    <3>. QED
      BY <2>1, <3>1, Appended
  <2>5. EditingShown'
    BY <1>1, <1>3, <2>4, ShownKept DEF Edited, ClosedSent
  <2>. QED
    BY <2>2, <2>3, <2>5 DEF Edited, Distinct, Filled
<1>5. CASE ~ok
  <2>1. UNCHANGED <<targets, tempHosts, toParent>>
    BY <1>5 DEF SaveAnswered, draft
  <2>2. Maps'
    BY <1>2, <2>1 DEF Edited, Maps
  <2>3. EditingShown'
    BY <1>1, <1>3, <2>1, ShownKept DEF Edited, ClosedSent
  <2>4. EditedShown'
    BY <1>1, <1>3, <2>1, EditedKept DEF Edited, EditedShown
  <2>. QED
    BY <2>1, <2>2, <2>3, <2>4 DEF Edited, Distinct, Filled
<1>. QED
  BY <1>4, <1>5

LEMMA PagesAreMaps ==
    ASSUME NEW page \in Pages, NEW t \in DOMAIN page PROVE page[t] \in HostsMap
  BY EditorAssumption DEF EditorAssumption

LEMMA EditedStep ==
    ASSUME TypeOK, TypeOK', Shape, Edited, [Next]_vars PROVE Edited'
<1>1. CASE UserStep
  BY <1>1, EditedUserPosts, EditedClicks DEF UserStep
<1>2. CASE BridgeStep
  BY <1>2, EditedParent, EditedIframe DEF BridgeStep
<1>3. ASSUME UNCHANGED <<draft, hostDraft, popups, bridge, requests>>, Maps' PROVE Edited'
  <2>1. UNCHANGED <<tempHosts, editingHostIndex, popups, toParent, toIframe>>
    BY <1>3 DEF draft, hostDraft, bridge
  <2>2. (HostOpen' <=> HostOpen) /\ (ClosedSent("host-modal")' <=> ClosedSent("host-modal"))
    BY <2>1 DEF HostOpen, depth, ClosedSent
  <2>3. EditingShown' /\ EditedShown'
    BY <2>1, <2>2, EditedKept, ShownKept DEF Edited, EditedShown
  <2>. QED
    BY <1>3, <2>1, <2>3 DEF Edited, Distinct, Filled
<1>4. ASSUME NEW page \in Pages, TableLoaded(page) PROVE Edited'
  <2>1. targets' = page /\ UNCHANGED <<draft, hostDraft, popups, bridge, requests>>
    BY <1>4 DEF TableLoaded
  <2>2. Maps'
    BY <2>1, PagesAreMaps DEF Edited, Maps
  <2>. QED
    BY <1>3, <2>1, <2>2
<1>5. CASE UNCHANGED vars
  <2>1. UNCHANGED <<targets, draft, hostDraft, popups, bridge, requests>>
    BY <1>5 DEF vars
  <2>. QED
    BY <1>3, <2>1, MapsKept DEF Edited
<1>. QED
  BY <1>1, <1>2, <1>4, <1>5, EditedAnswered DEF Next

LEMMA InitEdited == Init => Edited
<1>. SUFFICES ASSUME Init PROVE Edited
  OBVIOUS
<1>1. targets \in Pages /\ editingHostIndex = 0 /\ tempHosts = << >> /\ requests = << >>
  BY DEF Init
<1>2. DOMAIN << >> = {} /\ Filled(<< >>) = {}
  BY OneMessage DEF Filled
<1>3. Maps
  BY <1>1, <1>2, PagesAreMaps DEF Maps
<1>. QED
  BY <1>1, <1>2, <1>3 DEF Edited, EditingShown, EditedShown, Editing, Distinct

\* The hosts of a draft have distinct ids: a host is edited at the index of the
\* host whose id its popup shows, or in a draft that an answer has emptied.
THEOREM DistinctHosts == Spec => []HostsDistinct
<1>1. Init => TypeOK /\ Shape /\ Edited
  BY InitType, InitShape, InitEdited
<1>2. TypeOK /\ Shape /\ Edited /\ [Next]_vars => (TypeOK /\ Shape /\ Edited)'
  BY TypeStep, ShapeStep, EditedStep
<1>3. Edited => HostsDistinct
  BY DEF Edited, Distinct, HostsDistinct
<1>. QED
  BY <1>1, <1>2, <1>3, PTL DEF Spec
=============================================================================

------------------------------- MODULE LivePopup -------------------------------
(***************************************************************************)
(* Detail popups that follow the record they show.  Opening one subscribes *)
(* to the changes of its record; a change sets a timer of 500 ms, further  *)
(* changes until it fires set none, and when it fires the popup on top is  *)
(* closed.  Closing a popup ends its subscription.                         *)
(*                                                                         *)
(* js/live-popup.js and the popups of app.html that use it:                *)
(* js/network-device-modal.js, js/gpu-modal.js and                         *)
(* kubernetes/kubernetes-detail.js.  The popup library and the connection  *)
(* that brings the changes are external.                                   *)
(***************************************************************************)
EXTENDS Integers, Sequences, SequencesExt

CONSTANTS
    Records,        \* the records that have a detail popup
    GpuRecords,     \* those over whose popup the popup of a board opens
    MaxPopups,      \* bound: the popups opened in a behavior
    MaxChanges      \* bound: the changes of records in a behavior

ASSUME PopupAssumption ==
    /\ GpuRecords \subseteq Records
    /\ MaxPopups \in Nat /\ MaxChanges \in Nat

VARIABLES
    stack,      \* the open popups, the one on top last
    subs,       \* the subscriptions, each for a popup's record
    timers,     \* the subscriptions whose timer runs
    opened,     \* how many popups were opened
    changes,    \* how many changes were made
    changed,    \* history: the open popups whose record changed since
    spent       \* history: those whose timer closed another popup instead

vars == <<stack, subs, timers, opened, changes, changed, spent>>

\* `live' tells a record's popup from that of a board.
Popup == [id : Nat, record : Records, live : BOOLEAN]
Subscription == [popup : Nat, record : Records]

Init ==
    /\ stack = << >> /\ subs = {} /\ timers = {}
    /\ opened = 0 /\ changes = 0
    /\ changed = {} /\ spent = {}

Top == Last(stack)
OpenIds == {stack[i].id : i \in DOMAIN stack}

(***************************************************************************)
(* Opening                                                                 *)
(***************************************************************************)
Show(record, live) ==
    /\ opened < MaxPopups
    /\ opened' = opened + 1
    /\ stack' = Append(stack, [id |-> opened + 1, record |-> record, live |-> live])

\* A row of the table: the popup covers the table, so it is the first.
showDetail(record) ==
    /\ stack = << >>
    /\ Show(record, TRUE)
    /\ subs' = subs \cup {[popup |-> opened + 1, record |-> record]}
    /\ UNCHANGED <<timers, changes, changed, spent>>

\* One board of the GPU machine: a popup without a subscription.
showSingleGpu ==
    /\ stack # << >>
    /\ Top.live /\ Top.record \in GpuRecords
    /\ Show(Top.record, FALSE)
    /\ UNCHANGED <<subs, timers, changes, changed, spent>>

(***************************************************************************)
(* Closing.  Layer8DPopup closes the popup on top and calls its onClose,   *)
(* which stops the timer and ends the subscription.                        *)
(***************************************************************************)

Of(popup) == {s \in subs : s.popup = popup.id}

\* Mutation: the popup is shown without an onClose.
EndedNever(popup) == {}

Ended(popup) == Of(popup)

\* Mutation: the timer of a closed popup still fires.
StoppedNone(popup) == {}

\* Mutation: closing a popup stops the timers of every popup.
StoppedAll(popup) == timers

Stopped(popup) == Of(popup)

Close(fired) ==
    /\ stack # << >>
    /\ stack' = Front(stack)
    /\ subs' = subs \ Ended(Top)
    /\ timers' = timers \ (Stopped(Top) \cup fired)
    /\ changed' = changed \ {Top.id}
    /\ UNCHANGED <<opened, changes>>

CloseButton ==
    /\ Close({})
    /\ spent' = spent \ {Top.id}

(***************************************************************************)
(* Updates                                                                 *)
(***************************************************************************)

Interested(record) == {s \in subs : s.record = record}

\* Those whose timer runs already set no other.
Notify(record) ==
    /\ changes < MaxChanges
    /\ changes' = changes + 1
    /\ timers' = timers \cup Interested(record)
    /\ LET told == {s.popup : s \in Interested(record)} \cap OpenIds
       IN  changed' = changed \cup told /\ spent' = spent \ told
    /\ UNCHANGED <<stack, subs, opened>>

\* The popup on top is closed, whose ever the timer is; without a popup the
\* library does nothing.
onUpdate(s) ==
    /\ s \in timers
    /\ Close({s})
    /\ spent' = (spent \cup ({s.popup} \cap OpenIds)) \ {Top.id}

Next ==
    \/ \E record \in Records : showDetail(record) \/ Notify(record)
    \/ showSingleGpu
    \/ CloseButton
    \/ \E s \in timers : onUpdate(s)

\* The browser runs its timers.
Fairness == WF_vars(\E s \in timers : onUpdate(s))

Spec == Init /\ [][Next]_vars /\ Fairness
-----------------------------------------------------------------------------
(***************************************************************************)
(* Properties                                                              *)
(***************************************************************************)
TypeOK ==
    /\ stack \in Seq(Popup)
    /\ subs \subseteq Subscription /\ timers \subseteq subs
    /\ opened \in Nat /\ changes \in Nat
    /\ spent \subseteq OpenIds /\ changed \subseteq OpenIds

\* live-popup.js:2, "unsubscribe on close": what is subscribed is open.
UnsubscribedOnClose == \A s \in subs : s.popup \in OpenIds

\* The debounce loses no change: of a popup whose record changed, a timer is
\* running, unless it has fired since and closed a popup stacked above.
ChangeIsPending ==
    \A id \in changed \ spent : \E s \in timers : s.popup = id

\* A timer closes the popup of its record, or one opened above it: a popup closed
\* meanwhile, by its user or by another timer, takes no stranger with it.
NoStrangerClosed ==
    [][\A s \in timers : onUpdate(s) => s.popup \in OpenIds]_vars

\* A popup does not show a record that has changed for ever: it is closed, by its
\* timer or by its user, or its timer has closed one above it.
ChangeReachesPopup ==
    \A id \in 1 .. MaxPopups : id \in changed ~> id \notin changed \ spent
=============================================================================

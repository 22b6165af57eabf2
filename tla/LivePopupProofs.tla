---------------------------- MODULE LivePopupProofs ----------------------------
(***************************************************************************)
(* What TLAPS proves of the live popups, for any records and any number of *)
(* popups and changes.                                                     *)
(***************************************************************************)
EXTENDS LivePopup, SequenceTheorems, TLAPS

\* Opening adds a popup on top.
LEMMA OpenIdsShow ==
    ASSUME stack \in Seq(Popup), NEW record \in Records, NEW live \in BOOLEAN,
           opened \in Nat, Show(record, live)
    PROVE  /\ stack' \in Seq(Popup) /\ opened' \in Nat
           /\ OpenIds' = OpenIds \cup {opened + 1}
<1>. DEFINE popup == [id |-> opened + 1, record |-> record, live |-> live]
<1>1. stack' = Append(stack, popup) /\ popup \in Popup /\ opened' = opened + 1
  BY DEF Show, Popup
<1>2. /\ stack' \in Seq(Popup) /\ Len(stack') = Len(stack) + 1
      /\ \A i \in 1..Len(stack) : stack'[i] = stack[i]
      /\ stack'[Len(stack) + 1] = popup
  BY <1>1, AppendProperties
<1>. QED
  BY <1>1, <1>2, LenProperties DEF OpenIds

\* Closing takes away at most the id of the popup on top.
LEMMA OpenIdsClose ==
    ASSUME stack \in Seq(Popup), NEW fired, Close(fired)
    PROVE  /\ stack' \in Seq(Popup)
           /\ OpenIds \ {Top.id} \subseteq OpenIds' /\ OpenIds' \subseteq OpenIds
<1>1. stack # << >> /\ stack' = SubSeq(stack, 1, Len(stack) - 1)
  BY DEF Close, Front
<1>2. Len(stack) \in Nat \ {0}
  BY <1>1, LenProperties, EmptySeq
<1>3. /\ stack' \in Seq(Popup) /\ Len(stack') = Len(stack) - 1
      /\ \A i \in 1..Len(stack) - 1 : stack'[i] = stack[i]
  <2>. DEFINE n == Len(stack) - 1
  <2>1. \A i \in 1..n : stack[i] \in Popup
    BY <1>2, ElementOfSeq
  <2>2. n \in Int /\ stack' = SubSeq(stack, 1, n)
    BY <1>1, <1>2
  <2>3. /\ SubSeq(stack, 1, n) \in Seq(Popup)
        /\ Len(SubSeq(stack, 1, n)) = IF 1 <= n THEN n - 1 + 1 ELSE 0
        /\ \A i \in 1 .. n - 1 + 1 : SubSeq(stack, 1, n)[i] = stack[1 + i - 1]
    <3>. HIDE DEF n
    <3>. QED BY <2>1, <2>2, SubSeqProperties
  <2>4. n \in Nat /\ n - 1 + 1 = n /\ \A i \in 1..n : 1 + i - 1 = i
    BY <1>2
  <2>. HIDE DEF n
  <2>5. Len(stack') = n /\ \A i \in 1..n : stack'[i] = stack[i]
    BY <2>2, <2>3, <2>4
  <2>. QED
    BY <2>2, <2>3, <2>5 DEF n
<1>. QED
  BY <1>2, <1>3, LenProperties DEF OpenIds, Top, Last

\* The invariant is inductive as it stands.
Inv == TypeOK /\ UnsubscribedOnClose /\ ChangeIsPending

LEMMA InitInv == Init => Inv
BY EmptySeq DEF Init, Inv, TypeOK, UnsubscribedOnClose, ChangeIsPending, OpenIds

LEMMA NextInv == Inv /\ [Next]_vars => Inv'
<1>. SUFFICES ASSUME Inv, [Next]_vars PROVE Inv'
  OBVIOUS
<1>. USE DEF Inv
<1>1. ASSUME NEW record \in Records, showDetail(record) PROVE Inv'
  <2>1. /\ stack' \in Seq(Popup) /\ opened' \in Nat
        /\ OpenIds' = OpenIds \cup {opened + 1}
    BY <1>1, OpenIdsShow DEF showDetail, TypeOK
  <2>2. /\ subs' = subs \cup {[popup |-> opened + 1, record |-> record]}
        /\ UNCHANGED <<timers, changes, changed, spent>>
    BY <1>1 DEF showDetail
  <2>. QED
    BY <2>1, <2>2 DEF TypeOK, UnsubscribedOnClose, ChangeIsPending, Subscription
<1>2. CASE showSingleGpu
  <2>1. stack # << >> /\ Len(stack) \in DOMAIN stack /\ Top \in Popup
    BY <1>2, LenProperties, EmptySeq, ElementOfSeq DEF showSingleGpu, TypeOK, Top, Last
  <2>2. /\ stack' \in Seq(Popup) /\ opened' \in Nat
        /\ OpenIds' = OpenIds \cup {opened + 1}
    BY <1>2, <2>1, OpenIdsShow DEF showSingleGpu, TypeOK, Popup
  <2>. QED
    BY <1>2, <2>2 DEF showSingleGpu, TypeOK, UnsubscribedOnClose, ChangeIsPending
<1>3. CASE CloseButton
  <2>1. /\ stack' \in Seq(Popup)
        /\ OpenIds \ {Top.id} \subseteq OpenIds' /\ OpenIds' \subseteq OpenIds
    BY <1>3, OpenIdsClose DEF CloseButton, TypeOK
  <2>2. /\ subs' = subs \ Of(Top) /\ timers' = timers \ Of(Top)
        /\ changed' = changed \ {Top.id} /\ spent' = spent \ {Top.id}
        /\ UNCHANGED <<opened, changes>>
    BY <1>3 DEF CloseButton, Close, Ended, Stopped
  <2>. QED
    BY <2>1, <2>2 DEF TypeOK, UnsubscribedOnClose, ChangeIsPending, Of
<1>4. ASSUME NEW record \in Records, Notify(record) PROVE Inv'
  <2>1. OpenIds' = OpenIds
    BY <1>4 DEF Notify, OpenIds
  <2>. QED
    BY <1>4, <2>1 DEF Notify, Interested, TypeOK, UnsubscribedOnClose, ChangeIsPending
<1>5. ASSUME NEW s \in timers, onUpdate(s) PROVE Inv'
  <2>1. /\ stack' \in Seq(Popup)
        /\ OpenIds \ {Top.id} \subseteq OpenIds' /\ OpenIds' \subseteq OpenIds
    BY <1>5, OpenIdsClose DEF onUpdate, TypeOK
  <2>2. /\ subs' = subs \ Of(Top) /\ timers' = timers \ (Of(Top) \cup {s})
        /\ changed' = changed \ {Top.id}
        /\ spent' = (spent \cup ({s.popup} \cap OpenIds)) \ {Top.id}
        /\ UNCHANGED <<opened, changes>>
    BY <1>5 DEF onUpdate, Close, Ended, Stopped
  <2>3. s.popup \in OpenIds
    BY <1>5 DEF TypeOK, UnsubscribedOnClose
  <2>. QED
    BY <2>1, <2>2, <2>3 DEF TypeOK, UnsubscribedOnClose, ChangeIsPending, Of
<1>6. CASE UNCHANGED vars
  BY <1>6 DEF vars, TypeOK, UnsubscribedOnClose, ChangeIsPending, OpenIds
<1>. QED
  BY <1>1, <1>2, <1>3, <1>4, <1>5, <1>6 DEF Next

THEOREM Invariant == Spec => []Inv
BY InitInv, NextInv, PTL DEF Spec

\* The popups' variables have their types: no popup has a number not given yet.
THEOREM TypeCorrect == Spec => []TypeOK
BY Invariant, PTL DEF Inv

\* What is subscribed is open: closing a popup, by its X or by its timer, ends its
\* subscription, and opening one above it does not.
THEOREM Unsubscribed == Spec => []UnsubscribedOnClose
BY Invariant, PTL DEF Inv

\* The debounce loses no change of a record that a popup shows.
THEOREM Pending == Spec => []ChangeIsPending
BY Invariant, PTL DEF Inv

\* A timer that fires belongs to a popup that is open.
THEOREM NoStranger == Spec => NoStrangerClosed
<1>1. Inv => \A s \in timers : onUpdate(s) => s.popup \in OpenIds
  BY DEF Inv, TypeOK, UnsubscribedOnClose
<1>2. Inv /\ [Next]_vars => [\A s \in timers : onUpdate(s) => s.popup \in OpenIds]_vars
  BY <1>1
<1>. QED
  BY <1>2, Invariant, PTL DEF Spec, NoStrangerClosed
=============================================================================

-------------------------- MODULE TargetActionsProofs --------------------------
(***************************************************************************)
(* The actions of the targets page keep their three promises for any       *)
(* targets, types and number of clicks.                                    *)
(*                                                                         *)
(* SettledIsFresh speaks of a page at rest.  Before that, a page may differ*)
(* from the service in the targets of which a change was accepted and not  *)
(* yet answered, or answered too late (Dirty), and in those only - the     *)
(* page of the last load, if one is on its way, and otherwise the cache    *)
(* (Shown).                                                                *)
(* OneRequestPerDialog needs that a question is paid for as long as it is  *)
(* pending and until its answer is handled (Paid).                         *)
(***************************************************************************)
EXTENDS TargetActions, SequenceTheorems, TLAPS

-----------------------------------------------------------------------------
(***************************************************************************)
(* Databases                                                               *)
(***************************************************************************)
LEMMA DatabaseIs ==
    \A db : db \in Database <=> DOMAIN db \subseteq TargetIds /\ db \in [DOMAIN db -> Target]
  BY DEF Database

LEMMA DatabaseElement ==
    ASSUME NEW db \in Database
    PROVE  /\ DOMAIN db \subseteq TargetIds
           /\ \A t \in DOMAIN db : db[t] \in Target
  BY DatabaseIs

LEMMA DatabaseFrom ==
    ASSUME NEW T \in SUBSET TargetIds, NEW db \in [T -> Target]
    PROVE  db \in Database
  BY DEF Database

LEMMA OfTypeIn == \A db \in Database : \A type : OfType(db, type) \in Database
<1> SUFFICES ASSUME NEW db \in Database, NEW type PROVE OfType(db, type) \in Database
  OBVIOUS
<1>1. DEFINE T == {t \in DOMAIN db : db[t].type = type}
<1>2. T \in SUBSET TargetIds /\ [t \in T |-> db[t]] \in [T -> Target]
  BY DatabaseElement
<1>3. OfType(db, type) = [t \in T |-> db[t]]
  BY DEF OfType
<1> QED
  BY <1>2, <1>3, DatabaseFrom

LEMMA WithoutIn == \A db \in Database : \A T : Without(db, T) \in Database
<1> SUFFICES ASSUME NEW db \in Database, NEW T PROVE Without(db, T) \in Database
  OBVIOUS
<1>1. DOMAIN db \ T \in SUBSET TargetIds
      /\ [u \in DOMAIN db \ T |-> db[u]] \in [DOMAIN db \ T -> Target]
  BY DatabaseElement
<1> QED
  BY <1>1, DatabaseFrom DEF Without

LEMMA WithIn ==
    \A db \in Database, t \in TargetIds, target \in Target : With(db, t, target) \in Database
<1> SUFFICES ASSUME NEW db \in Database, NEW t \in TargetIds, NEW target \in Target
             PROVE  With(db, t, target) \in Database
  OBVIOUS
<1>1. DEFINE T == DOMAIN db \cup {t}
<1>2. T \in SUBSET TargetIds
      /\ [u \in T |-> IF u = t THEN target ELSE db[u]] \in [T -> Target]
  BY DatabaseElement
<1>3. With(db, t, target) = [u \in T |-> IF u = t THEN target ELSE db[u]]
  BY DEF With
<1> QED
  BY <1>2, <1>3, DatabaseFrom

LEMMA AppliedIn == ASSUME server \in Database, NEW c \in Change PROVE Applied(c) \in Database
<1>1. CASE c \in [kind : {"delete"}, target : TargetIds]
  BY <1>1, WithoutIn DEF Applied
<1>2. CASE c \in [kind : {"toggle", "save"}, target : TargetIds, type : Types, state : States]
  <2>1. [type |-> c.type, state |-> c.state] \in Target
    BY <1>2 DEF Target
  <2>2. Applied(c) = With(server, c.target, [type |-> c.type, state |-> c.state])
    BY <1>2 DEF Applied
  <2> QED
    BY <1>2, <2>1, <2>2, WithIn
<1>3. CASE c \in [kind : {"bulk"}, type : Types, state : States]
  <2>1. DEFINE db == [t \in DOMAIN server |-> IF server[t].type = c.type
                                              THEN [server[t] EXCEPT !.state = c.state]
                                              ELSE server[t]]
  <2>2. Applied(c) = db
    BY <1>3 DEF Applied
  <2>3. \A t \in DOMAIN server :
            server[t] \in Target /\ [server[t] EXCEPT !.state = c.state] \in Target
    BY <1>3, DatabaseElement DEF Target
  <2>4. db \in [DOMAIN server -> Target] /\ DOMAIN server \in SUBSET TargetIds
    BY <2>3, DatabaseElement
  <2> QED
    BY <2>2, <2>4, DatabaseFrom
<1> QED
  BY <1>1, <1>2, <1>3 DEF Change

-----------------------------------------------------------------------------
(***************************************************************************)
(* Types                                                                   *)
(***************************************************************************)
AnyRequest == [change : Change, n : Nat, accepted : BOOLEAN \cup {Waiting}]
AnyLoad == [type : Types, page : Database \cup {Waiting}]

\* Questions and changes.
LEMMA QuestionIsChange == \A q \in Question : q.kind = "delete" => q \in Change
  BY DEF Question, Change

LEMMA BulkIsChange ==
    ASSUME NEW q \in Question, q.kind # "delete", NEW type \in Types
    PROVE  [kind |-> "bulk", type |-> type, state |-> q.state] \in Change
  BY DEF Question, Change

LEMMA SendType ==
    ASSUME TypeOK, NEW c \in Change, Send(c)
    PROVE  requests' \subseteq AnyRequest
  BY DEF TypeOK, Send, Request, AnyRequest

LEMMA FetchType ==
    ASSUME TypeOK, NEW type \in Types, fetchData(type)
    PROVE  loads' \in Seq(AnyLoad) /\ missed' = {}
<1>1. [type |-> type, page |-> Waiting] \in AnyLoad
  BY DEF AnyLoad
<1>2. loads \in Seq(AnyLoad)
  BY DEF TypeOK, AnyLoad
<1> QED
  BY <1>1, <1>2, AppendProperties DEF fetchData

LEMMA RenderType ==
    ASSUME TypeOK, renderTargets
    PROVE  loads' \in Seq(AnyLoad) /\ missed' = {}
  BY FetchType DEF renderTargets, TypeOK

LEMMA InitType == Init => TypeOK
<1> SUFFICES ASSUME Init PROVE TypeOK
  OBVIOUS
<1>1. targets \in Database
  BY OfTypeIn DEF Init
<1>2. rows \subseteq TargetIds
  BY <1>1, DatabaseElement DEF Init
<1> QED
  BY <1>1, <1>2 DEF Init, TypeOK

LEMMA UserType == ASSUME TypeOK, UserStep PROVE TypeOK'
<1> USE DEF page, parent, bridge
<1>0. clicks \in Nat /\ clicks + 1 \in Nat /\ selectedInventoryType \in Types
  BY DEF TypeOK
<1>1. ASSUME NEW type \in Types, onInventoryTypeChange(type) PROVE TypeOK'
  <2>1. loads' \in Seq(AnyLoad) /\ missed' = {}
    BY <1>1, FetchType DEF onInventoryTypeChange
  <2> QED
    BY <1>0, <1>1, <2>1 DEF onInventoryTypeChange, PageClick, Click, TypeOK, AnyLoad
<1>2. CASE refreshData
  <2>1. loads' \in Seq(AnyLoad) /\ missed' = {}
    BY <1>0, <1>2, FetchType DEF refreshData
  <2> QED
    BY <1>0, <1>2, <2>1 DEF refreshData, PageClick, Click, TypeOK, AnyLoad
<1>3. ASSUME NEW t \in TargetIds, toggleTargetState(t) PROVE TypeOK'
  <2>1. DEFINE c == [kind |-> "toggle", target |-> t, type |-> targets[t].type,
                     state |-> Opposite(targets[t].state)]
  <2>2. Send(c) /\ t \in DOMAIN targets
    BY <1>3 DEF toggleTargetState
  <2>3. targets[t] \in Target
    BY <2>2, DatabaseElement DEF TypeOK
  <2>4. c \in Change
    BY <2>3 DEF Change, Target, Opposite, States
  <2>5. requests' \subseteq AnyRequest
    BY <2>2, <2>4, SendType
  <2> QED
    BY <1>0, <1>3, <2>5 DEF toggleTargetState, PageClick, Click, TypeOK, AnyRequest
<1>4. ASSUME NEW t \in TargetIds, deleteTarget(t) PROVE TypeOK'
  <2>1. [kind |-> "delete", target |-> t] \in Question
    BY DEF Question
  <2>2. toParent' \in Seq(Question)
    BY <1>4, <2>1, AppendProperties DEF deleteTarget, Ask, TypeOK
  <2> QED
    BY <1>0, <1>4, <2>2 DEF deleteTarget, Ask, PageClick, Click, TypeOK
<1>5. ASSUME NEW t \in TargetIds, NEW state \in States, handleTargetSave(t, state)
      PROVE  TypeOK'
  <2>1. DEFINE c == [kind |-> "save", target |-> t, type |-> selectedInventoryType,
                     state |-> state]
  <2>2. Send(c)
    BY <1>5 DEF handleTargetSave
  <2>3. c \in Change
    BY <1>0 DEF Change
  <2>4. requests' \subseteq AnyRequest
    BY <2>2, <2>3, SendType
  <2> QED
    BY <1>0, <1>5, <2>4 DEF handleTargetSave, PageClick, Click, TypeOK, AnyRequest
<1>6. ASSUME NEW state \in States, setAllTargetsState(state) PROVE TypeOK'
  <2>1. [kind |-> "bulk", state |-> state] \in Question
    BY DEF Question
  <2>2. toParent' \in Seq(Question)
    BY <1>6, <2>1, AppendProperties DEF setAllTargetsState, Ask, TypeOK
  <2> QED
    BY <1>0, <1>6, <2>2 DEF setAllTargetsState, Ask, PageClick, Click, TypeOK
<1>7. ASSUME NEW q \in Question, NEW confirmed \in BOOLEAN, ClickButton(q, confirmed)
      PROVE  TypeOK'
  <2>1. toIframe' \in Seq([question : Question, confirmed : BOOLEAN])
    <3>1. [question |-> q, confirmed |-> confirmed] \in [question : Question, confirmed : BOOLEAN]
      OBVIOUS
    <3>2. CASE q \in pendingConfirmations
      <4>1. toIframe' = Append(toIframe, [question |-> q, confirmed |-> confirmed])
        BY <1>7, <3>2 DEF ClickButton, answer
      <4> QED
        BY <3>1, <4>1, AppendProperties DEF TypeOK
    <3>3. CASE q \notin pendingConfirmations
      BY <1>7, <3>3 DEF ClickButton, answer, TypeOK
    <3> QED
      BY <3>2, <3>3
  <2>2. {dialog', fading'} \subseteq Question \cup {None}
    BY <1>7 DEF ClickButton, closeDialog, TypeOK
  <2> QED
    BY <1>0, <1>7, <2>1, <2>2 DEF ClickButton, Click, answer, TypeOK
<1>8. CASE ClickX
  <2>1. {dialog', fading'} \subseteq Question \cup {None}
    BY <1>8 DEF ClickX, closeDialog, TypeOK
  <2> QED
    BY <1>0, <1>8, <2>1 DEF ClickX, Click, TypeOK
<1> QED
  BY <1>1, <1>2, <1>3, <1>4, <1>5, <1>6, <1>7, <1>8 DEF UserStep

LEMMA DialogType ==
    ASSUME TypeOK, handleConfirmResult \/ showConfirm \/ Faded
    PROVE  TypeOK'
<1> USE DEF page, parent, bridge
<1>1. CASE handleConfirmResult
  <2>1. DEFINE a == Head(toIframe)
  <2>2. /\ a \in [question : Question, confirmed : BOOLEAN]
        /\ toIframe' \in Seq([question : Question, confirmed : BOOLEAN])
    BY <1>1, HeadTailProperties DEF handleConfirmResult, TypeOK
  <2>3. CASE ~a.confirmed
    BY <1>1, <2>2, <2>3 DEF handleConfirmResult, TypeOK
  <2>4. CASE a.confirmed
    <3>1. DEFINE c == IF a.question.kind = "delete" THEN a.question
                      ELSE [kind |-> "bulk", type |-> selectedInventoryType,
                            state |-> a.question.state]
    <3>2. Send(c) /\ allowed' = [allowed EXCEPT ![a.question] = @ - 1]
      BY <1>1, <2>4 DEF handleConfirmResult
    <3>3. c \in Change
      BY <2>2, QuestionIsChange, BulkIsChange DEF TypeOK
    <3>4. requests' \subseteq AnyRequest
      BY <3>2, <3>3, SendType
    <3>5. allowed' \in [Question -> Int]
      BY <2>2, <3>2 DEF TypeOK
    <3> QED
      BY <1>1, <2>2, <3>4, <3>5 DEF handleConfirmResult, TypeOK, AnyRequest
  <2> QED
    BY <2>3, <2>4
<1>2. CASE showConfirm
  <2>1. Head(toParent) \in Question /\ toParent' \in Seq(Question)
    BY <1>2, HeadTailProperties DEF showConfirm, TypeOK
  <2>2. allowed' \in [Question -> Int]
    BY <1>2, <2>1 DEF showConfirm, TypeOK
  <2> QED
    BY <1>2, <2>1, <2>2 DEF showConfirm, TypeOK
<1>3. CASE Faded
  BY <1>3 DEF Faded, TypeOK
<1> QED
  BY <1>1, <1>2, <1>3

LEMMA ServiceType ==
    ASSUME TypeOK,
           \/ \E r \in requests, accepted \in BOOLEAN : HandleRequest(r, accepted)
           \/ \E i \in DOMAIN loads : HandleLoad(i)
           \/ onDataLoaded
    PROVE  TypeOK'
<1> USE DEF page, parent, bridge
<1>0. loads \in Seq(AnyLoad) /\ requests \subseteq AnyRequest
  BY DEF TypeOK, AnyLoad, AnyRequest
<1>1. ASSUME NEW r \in requests, NEW accepted \in BOOLEAN, HandleRequest(r, accepted)
      PROVE  TypeOK'
  <2>1. r \in AnyRequest
    BY <1>0
  <2>2. server' \in Database
    BY <1>1, <2>1, AppliedIn DEF HandleRequest, AnyRequest, TypeOK
  <2>3. [r EXCEPT !.accepted = accepted] \in AnyRequest
    BY <2>1 DEF AnyRequest
  <2>4. requests' \subseteq AnyRequest
    BY <1>0, <1>1, <2>3 DEF HandleRequest
  <2> QED
    BY <1>1, <2>2, <2>4 DEF HandleRequest, TypeOK, AnyRequest
<1>2. ASSUME NEW i \in DOMAIN loads, HandleLoad(i) PROVE TypeOK'
  <2>1. loads[i] \in AnyLoad
    BY <1>0, ElementOfSeq, LenProperties
  <2>2. OfType(server, loads[i].type) \in Database
    BY OfTypeIn DEF TypeOK
  <2>3. [loads[i] EXCEPT !.page = OfType(server, loads[i].type)] \in AnyLoad
    BY <2>1, <2>2 DEF AnyLoad
  <2>4. loads' \in Seq(AnyLoad)
    BY <1>0, <1>2, <2>3, ExceptSeq, LenProperties DEF HandleLoad
  <2> QED
    BY <1>2, <2>4 DEF HandleLoad, TypeOK, AnyLoad
<1>3. CASE onDataLoaded
  <2>1. Head(loads) \in AnyLoad /\ loads' \in Seq(AnyLoad)
    BY <1>0, <1>3, HeadTailProperties DEF onDataLoaded
  <2>2. targets' \in Database
    BY <1>3, <2>1 DEF onDataLoaded, AnyLoad
  <2>3. rows' \subseteq TargetIds
    BY <1>3, <2>2, DatabaseElement DEF onDataLoaded
  <2> QED
    BY <1>3, <2>1, <2>2, <2>3 DEF onDataLoaded, TypeOK, AnyLoad
<1> QED
  BY <1>1, <1>2, <1>3

\* A change is of targets.
LEMMA AffectedIn == \A c \in Change : Affected(c) \subseteq TargetIds
  BY DEF Affected, Change

LEMMA AnswerType ==
    ASSUME TypeOK, NEW r \in requests,
           \/ RequestFailed(r) \/ toggleAnswered(r) \/ saveAnswered(r)
           \/ deleteAnswered(r) \/ bulkAnswered(r)
    PROVE  TypeOK'
<1> USE DEF page, parent, bridge
<1>0. r \in AnyRequest /\ r.change \in Change
  BY DEF TypeOK, AnyRequest
<1>1. CASE RequestFailed(r)
  BY <1>0, <1>1, AffectedIn DEF RequestFailed, Answered, TypeOK
<1>2. CASE toggleAnswered(r)
  <2>1. r.change.target \in TargetIds /\ r.change.state \in States
    BY <1>0, <1>2 DEF toggleAnswered, Change
  <2>2. CASE r.change.target \in DOMAIN targets
    <3>1. loads' \in Seq(AnyLoad) /\ missed' = {}
      BY <1>2, <2>2, RenderType DEF toggleAnswered
    <3>2. targets \in [DOMAIN targets -> Target] /\ DOMAIN targets \subseteq TargetIds
      BY DatabaseIs DEF TypeOK
    <3>3. targets' \in [DOMAIN targets -> Target]
      BY <1>2, <2>1, <2>2, <3>2 DEF toggleAnswered, Target
    <3>4. targets' \in Database
      BY <3>2, <3>3, DatabaseFrom
    <3> QED
      BY <1>2, <3>1, <3>4 DEF toggleAnswered, Answered, TypeOK, AnyLoad
  <2>3. CASE r.change.target \notin DOMAIN targets
    BY <1>2, <2>1, <2>3 DEF toggleAnswered, Answered, TypeOK
  <2> QED
    BY <2>2, <2>3
<1>3. CASE saveAnswered(r)
  <2>1. /\ r.change.target \in TargetIds
        /\ [type |-> r.change.type, state |-> r.change.state] \in Target
    BY <1>0, <1>3 DEF saveAnswered, Change, Target
  <2>2. targets' \in Database
    BY <1>3, <2>1, WithIn DEF saveAnswered, TypeOK
  <2>3. loads' \in Seq(AnyLoad) /\ missed' = {}
    BY <1>3, RenderType DEF saveAnswered
  <2> QED
    BY <1>3, <2>2, <2>3 DEF saveAnswered, Answered, TypeOK, AnyLoad
<1>4. CASE deleteAnswered(r)
  <2>1. targets' \in Database
    BY <1>4, WithoutIn DEF deleteAnswered, TypeOK
  <2>2. loads' \in Seq(AnyLoad) /\ missed' = {}
    BY <1>4, RenderType DEF deleteAnswered
  <2> QED
    BY <1>4, <2>1, <2>2 DEF deleteAnswered, Answered, TypeOK, AnyLoad
<1>5. CASE bulkAnswered(r)
  <2>1. loads' \in Seq(AnyLoad) /\ missed' = {}
    BY <1>5, RenderType DEF bulkAnswered
  <2> QED
    BY <1>5, <2>1 DEF bulkAnswered, Answered, TypeOK, AnyLoad
<1> QED
  BY <1>1, <1>2, <1>3, <1>4, <1>5

LEMMA TypeStep == TypeOK /\ [Next]_vars => TypeOK'
<1> SUFFICES ASSUME TypeOK, [Next]_vars PROVE TypeOK'
  OBVIOUS
<1>1. CASE UNCHANGED vars
  BY <1>1 DEF vars, page, parent, bridge, TypeOK
<1> QED
  BY <1>1, UserType, DialogType, ServiceType, AnswerType DEF Next

\* The page's variables have their types: what is cached, listed and sent are
\* targets of the service's type (targets.js).
THEOREM TypeCorrect == Spec => []TypeOK
  BY InitType, TypeStep, PTL DEF Spec

-----------------------------------------------------------------------------
(***************************************************************************)
(* One request for each dialog                                             *)
(***************************************************************************)
\* The answer for q that the page has not handled yet.
Answering(q) == toIframe # << >> /\ Head(toIframe).question = q

Owed(q) == (IF q \in pendingConfirmations THEN 1 ELSE 0)
           + (IF Answering(q) THEN 1 ELSE 0)

\* A pending question and an answer on its way are each covered by a dialog.
Paid == /\ Len(toIframe) <= 1
        /\ \A q \in Question : allowed[q] >= Owed(q)

LEMMA OwedNat == \A q : Owed(q) \in Nat
  BY DEF Owed

\* At most one message is posted back at a time, since a click waits for it.
LEMMA OneAnswer ==
    ASSUME TypeOK, Len(toIframe) <= 1, toIframe # << >>
    PROVE  Tail(toIframe) = << >>
<1>1. /\ Tail(toIframe) \in Seq([question : Question, confirmed : BOOLEAN])
      /\ Len(Tail(toIframe)) = Len(toIframe) - 1
  BY HeadTailProperties DEF TypeOK
<1>2. Len(toIframe) \in Nat
  BY LenProperties DEF TypeOK
<1>3. Len(Tail(toIframe)) = 0
  BY <1>1, <1>2, EmptySeq, LenProperties
<1> QED
  BY <1>1, <1>3, EmptySeq

LEMMA PaidStep == TypeOK /\ Paid /\ [Next]_vars => Paid'
<1> SUFFICES ASSUME TypeOK, Paid, [Next]_vars PROVE Paid'
  OBVIOUS
<1> USE DEF page, parent, bridge
<1>0. /\ allowed \in [Question -> Int]
      /\ \A q \in Question : allowed[q] \in Int /\ allowed[q] >= Owed(q)
  BY DEF TypeOK, Paid
<1>1. CASE UNCHANGED <<toIframe, pendingConfirmations, allowed>>
  BY <1>1 DEF Paid, Owed, Answering
<1>2. CASE handleConfirmResult
  <2>1. DEFINE a == Head(toIframe)
  <2>2. /\ a \in [question : Question, confirmed : BOOLEAN]
        /\ toIframe # << >> /\ toIframe' = Tail(toIframe)
        /\ UNCHANGED pendingConfirmations
    BY <1>2, HeadTailProperties DEF handleConfirmResult, TypeOK
  <2>3. toIframe' = << >> /\ Len(toIframe') = 0
    BY <2>2, OneAnswer, EmptySeq DEF Paid
  <2>4. \A q \in Question : allowed'[q] >= allowed[q] - (IF q = a.question THEN 1 ELSE 0)
    <3>1. CASE a.confirmed
      BY <1>0, <1>2, <2>2, <3>1 DEF handleConfirmResult
    <3>2. CASE ~a.confirmed
      BY <1>0, <1>2, <3>2 DEF handleConfirmResult
    <3> QED
      BY <3>1, <3>2
  <2>5. ASSUME NEW q \in Question PROVE allowed'[q] >= Owed(q)'
    <3>1. Owed(q)' = IF q \in pendingConfirmations THEN 1 ELSE 0
      BY <2>2, <2>3 DEF Owed, Answering
    <3>2. Owed(q) = (IF q \in pendingConfirmations THEN 1 ELSE 0)
                    + (IF q = a.question THEN 1 ELSE 0)
      BY <2>2 DEF Owed, Answering
    <3>3. allowed'[q] \in Int
      BY TypeStep DEF TypeOK
    <3> QED
      BY <1>0, <2>4, <3>1, <3>2, <3>3
  <2> QED
    BY <2>3, <2>5 DEF Paid
<1>3. CASE showConfirm
  <2>1. DEFINE shown == Head(toParent)
  <2>2. /\ shown \in Question
        /\ UNCHANGED toIframe
        /\ pendingConfirmations' = pendingConfirmations \cup {shown}
        /\ allowed' = [allowed EXCEPT ![shown] = @ + 1]
    BY <1>3, HeadTailProperties DEF showConfirm, TypeOK
  <2>3. ASSUME NEW q \in Question PROVE allowed'[q] >= Owed(q)'
    <3>1. Owed(q)' <= Owed(q) + (IF q = shown THEN 1 ELSE 0)
      BY <2>2 DEF Owed, Answering
    <3>2. allowed'[q] = allowed[q] + (IF q = shown THEN 1 ELSE 0)
      BY <1>0, <2>2
    <3> QED
      BY <1>0, <3>1, <3>2, OwedNat DEF Owed
  <2> QED
    BY <2>2, <2>3 DEF Paid
<1>4. ASSUME NEW p \in Question, NEW confirmed \in BOOLEAN, ClickButton(p, confirmed)
      PROVE  Paid'
  <2>1. /\ toIframe = << >> /\ UNCHANGED allowed
        /\ pendingConfirmations' = pendingConfirmations \ {p}
    BY <1>4 DEF ClickButton, Click, Quiet, answer
  <2>2. CASE p \in pendingConfirmations
    <3>1. DEFINE a == [question |-> p, confirmed |-> confirmed]
    <3>2. toIframe' = Append(toIframe, a)
      BY <1>4, <2>2 DEF ClickButton, answer
    <3>3. toIframe' = <<a>>
      BY <2>1, <3>2
    <3>4. Len(toIframe') = 1 /\ toIframe' # << >> /\ Head(toIframe') = a
      BY <3>3
    <3>5. ASSUME NEW q \in Question PROVE Owed(q)' = Owed(q)
      BY <2>1, <2>2, <3>4 DEF Owed, Answering
    <3> QED
      BY <1>0, <2>1, <3>4, <3>5 DEF Paid
  <2>3. CASE p \notin pendingConfirmations
    <3>1. UNCHANGED <<toIframe, pendingConfirmations, allowed>>
      BY <1>4, <2>1, <2>3 DEF ClickButton, answer
    <3> QED
      BY <1>1, <3>1
  <2> QED
    BY <2>2, <2>3
<1>5. CASE UserStep
  <2>1. ASSUME NEW q \in Question, NEW confirmed \in BOOLEAN, ClickButton(q, confirmed)
        PROVE  Paid'
    BY <1>4, <2>1
  <2>2. ASSUME NEW type \in Types, onInventoryTypeChange(type) PROVE Paid'
    BY <1>1, <2>2 DEF onInventoryTypeChange
  <2>3. ASSUME NEW t \in TargetIds, toggleTargetState(t) \/ deleteTarget(t) PROVE Paid'
    BY <1>1, <2>3 DEF toggleTargetState, deleteTarget, Ask
  <2>4. ASSUME NEW t \in TargetIds, NEW state \in States, handleTargetSave(t, state)
        PROVE  Paid'
    BY <1>1, <2>4 DEF handleTargetSave
  <2>5. ASSUME NEW state \in States, setAllTargetsState(state) PROVE Paid'
    BY <1>1, <2>5 DEF setAllTargetsState, Ask
  <2>6. CASE refreshData
    BY <1>1, <2>6 DEF refreshData
  <2>7. CASE ClickX
    BY <1>1, <2>7 DEF ClickX
  <2> QED
    BY <1>5, <2>1, <2>2, <2>3, <2>4, <2>5, <2>6, <2>7 DEF UserStep
<1>6. ASSUME NEW r \in requests, NEW accepted \in BOOLEAN, HandleRequest(r, accepted)
      PROVE  Paid'
  BY <1>1, <1>6 DEF HandleRequest
<1>7. ASSUME NEW i \in DOMAIN loads, HandleLoad(i) PROVE Paid'
  BY <1>1, <1>7 DEF HandleLoad
<1>8. CASE onDataLoaded \/ Faded
  BY <1>1, <1>8 DEF onDataLoaded, Faded
<1>9. ASSUME NEW r \in requests,
             \/ RequestFailed(r) \/ toggleAnswered(r) \/ saveAnswered(r)
             \/ deleteAnswered(r) \/ bulkAnswered(r)
      PROVE  Paid'
  BY <1>1, <1>9 DEF RequestFailed, toggleAnswered, saveAnswered, deleteAnswered,
                    bulkAnswered, Answered
<1>10. CASE UNCHANGED vars
  BY <1>1, <1>10 DEF vars
<1> QED
  BY <1>2, <1>3, <1>5, <1>6, <1>7, <1>8, <1>9, <1>10 DEF Next

LEMMA InitPaid == Init => Paid
  BY DEF Init, Paid, Owed, Answering

\* A dialog of the parent allows one deletion, or one change of a type, whatever
\* is clicked while it fades and however it is left (confirm.js).
THEOREM OneRequest == Spec => []OneRequestPerDialog
<1>1. Init => TypeOK /\ Paid
  BY InitType, InitPaid
<1>2. (TypeOK /\ Paid) /\ [Next]_vars => (TypeOK /\ Paid)'
  BY TypeStep, PaidStep
<1>3. TypeOK /\ Paid => OneRequestPerDialog
  <2> SUFFICES ASSUME TypeOK, Paid, NEW q \in Question PROVE allowed[q] >= 0
    BY DEF OneRequestPerDialog
  <2>1. allowed[q] \in Int /\ Owed(q) \in Nat /\ allowed[q] >= Owed(q)
    BY OwedNat DEF TypeOK, Paid
  <2> QED
    BY <2>1
<1> QED
  BY <1>1, <1>2, <1>3, PTL DEF Spec

-----------------------------------------------------------------------------
(***************************************************************************)
(* What the page shows                                                     *)
(***************************************************************************)
\* The targets the page may show wrongly: those with an accepted change that is
\* not answered yet, or was answered too late.
Dirty == {t \in TargetIds : \/ t \in missed
                            \/ \E r \in requests : /\ r.accepted = TRUE
                                                   /\ t \in Affected(r.change)}

Fresh == OfType(server, selectedInventoryType)

\* Both databases have the same target t, or neither has it.
Same(a, b, t) == /\ t \in DOMAIN a <=> t \in DOMAIN b
                 /\ t \in DOMAIN a => a[t] = b[t]

Agrees(db) == \A t \in TargetIds \ Dirty : Same(db, Fresh, t)

Newest == loads[Len(loads)]

\* The newest page asked for is of the selected type and right but for Dirty; with
\* none on its way, the cache is.
Shown ==
    /\ loads = << >> => Agrees(targets) /\ rows = DOMAIN targets
    /\ loads # << >> => /\ Newest.type = selectedInventoryType
                        /\ Newest.page = Waiting \/ Agrees(Newest.page)

\* A page just asked for owes nothing.
LEMMA ShownAfterFetch ==
    ASSUME TypeOK, fetchData(selectedInventoryType') PROVE Shown'
<1>1. DEFINE l == [type |-> selectedInventoryType', page |-> Waiting]
<1>2. loads \in Seq([type : Types, page : Database \cup {Waiting}])
  BY DEF TypeOK
<1>3. loads' = Append(loads, l)
  BY DEF fetchData
<1>4. Len(loads') = Len(loads) + 1 /\ Len(loads) \in Nat
  BY <1>2, <1>3, LenProperties
<1>5. loads'[Len(loads')] = l /\ loads' # << >>
  BY <1>2, <1>3, <1>4
<1> QED
  BY <1>5 DEF Shown, Newest

LEMMA ShownAfterRender ==
    ASSUME TypeOK, renderTargets, UNCHANGED selectedInventoryType PROVE Shown'
  BY ShownAfterFetch DEF renderTargets

\* While the service and the page stay as they are, a target that is wrong stays
\* accounted for.
LEMMA ShownStays ==
    ASSUME Shown, Dirty \subseteq Dirty',
           UNCHANGED <<server, targets, rows, selectedInventoryType, loads>>
    PROVE  Shown'
<1>1. Fresh' = Fresh /\ Newest' = Newest
  BY DEF Fresh, Newest
<1>2. \A db : Agrees(db) => Agrees(db)'
  BY <1>1 DEF Agrees, Same
<1>3. Agrees(targets) => Agrees(targets)'
  BY <1>1 DEF Agrees, Same
<1>4. Agrees(Newest.page) => Agrees(Newest.page)'
  BY <1>1 DEF Agrees, Same
<1> QED
  BY <1>1, <1>3, <1>4 DEF Shown

LEMMA DirtyMoreRequests ==
    ASSUME requests \subseteq requests', UNCHANGED missed PROVE Dirty \subseteq Dirty'
  BY DEF Dirty

\* A request that goes without a load leaves what it changed in missed.
LEMMA DirtyAnswered ==
    ASSUME NEW r \in requests, requests' = requests \ {r}, missed \subseteq missed',
           r.accepted = TRUE => Affected(r.change) \subseteq missed'
    PROVE  Dirty \subseteq Dirty'
  BY DEF Dirty

\* A change touches the targets it is about and no other.
LEMMA AppliedElsewhere ==
    ASSUME TypeOK, NEW c \in Change, NEW t \in TargetIds \ Affected(c), NEW type
    PROVE  Same(OfType(Applied(c), type), OfType(server, type), t)
<1>1. Same(Applied(c), server, t)
  <2>1. CASE c.kind = "delete"
    <3>1. Applied(c) = Without(server, {c.target}) /\ t # c.target
      BY <2>1 DEF Applied, Affected
    <3> QED
      BY <3>1 DEF Without, Same
  <2>2. CASE c.kind = "bulk"
    BY <2>2 DEF Affected
  <2>3. CASE c.kind \notin {"delete", "bulk"}
    <3>1. /\ Applied(c) = With(server, c.target, [type |-> c.type, state |-> c.state])
          /\ t # c.target
      BY <2>3 DEF Applied, Affected
    <3> QED
      BY <3>1 DEF With, Same
  <2> QED
    BY <2>1, <2>2, <2>3
<1> QED
  BY <1>1 DEF Same, OfType

LEMMA ShownAfterRequest ==
    ASSUME TypeOK, Shown, NEW r \in requests, NEW accepted \in BOOLEAN,
           HandleRequest(r, accepted)
    PROVE  Shown'
<1>1. /\ r \in AnyRequest /\ r.change \in Change /\ r.accepted # TRUE
  BY ActionsAssumption DEF TypeOK, AnyRequest, HandleRequest
<1>2. /\ UNCHANGED <<targets, rows, selectedInventoryType, loads, missed>>
      /\ requests' = (requests \ {r}) \cup {[r EXCEPT !.accepted = accepted]}
      /\ server' = IF accepted THEN Applied(r.change) ELSE server
  BY DEF HandleRequest, page
<1>3. [r EXCEPT !.accepted = accepted].change = r.change
      /\ [r EXCEPT !.accepted = accepted].accepted = accepted
  BY <1>1 DEF AnyRequest
<1>4. Dirty \subseteq Dirty'
  BY <1>1, <1>2 DEF Dirty
<1>5. CASE accepted = FALSE
  BY <1>2, <1>4, <1>5, ShownStays
<1>6. CASE accepted = TRUE
  <2>1. \A t \in TargetIds : t \in Affected(r.change) => t \in Dirty'
    BY <1>2, <1>3, <1>6 DEF Dirty
  <2>2. Fresh' = OfType(Applied(r.change), selectedInventoryType)
    BY <1>2, <1>6 DEF Fresh
  <2>3. \A t \in TargetIds \ Dirty' : Same(Fresh', Fresh, t)
    BY <1>1, <2>1, <2>2, AppliedElsewhere DEF Fresh
  <2>4. ASSUME NEW db, Agrees(db)
        PROVE  \A t \in TargetIds \ Dirty' : Same(db, Fresh', t)
    BY <1>4, <2>3, <2>4 DEF Agrees, Same
  <2>5. Agrees(targets) => Agrees(targets)'
    BY <1>2, <2>4 DEF Agrees
  <2>6. Agrees(Newest.page) => Agrees(Newest.page)'
    BY <1>2, <2>4 DEF Agrees, Newest
  <2> QED
    BY <1>2, <2>5, <2>6 DEF Shown, Newest
<1> QED
  BY <1>5, <1>6

LEMMA ShownAfterLoad ==
    ASSUME TypeOK, Shown, NEW i \in DOMAIN loads, HandleLoad(i) PROVE Shown'
<1>1. /\ UNCHANGED <<server, targets, rows, selectedInventoryType, requests, missed>>
      /\ loads' = [loads EXCEPT ![i].page = OfType(server, loads[i].type)]
  BY DEF HandleLoad, page
<1>2. loads \in Seq(AnyLoad) /\ Len(loads) \in Nat /\ i \in 1 .. Len(loads)
  BY LenProperties DEF TypeOK, AnyLoad
<1>3. Len(loads') = Len(loads) /\ loads' # << >> /\ loads # << >>
  BY <1>1, <1>2
<1>4. Dirty' = Dirty /\ Fresh' = Fresh
  BY <1>1 DEF Dirty, Fresh
<1>5. Newest.type = selectedInventoryType /\ (Newest.page = Waiting \/ Agrees(Newest.page))
  BY <1>3 DEF Shown
<1>6. CASE i = Len(loads)
  <2>1. Newest \in AnyLoad /\ Newest' = [Newest EXCEPT !.page = OfType(server, Newest.type)]
    BY <1>1, <1>2, <1>3, <1>6 DEF Newest
  <2>2. Newest'.type = selectedInventoryType' /\ Newest'.page = Fresh'
    BY <1>1, <1>4, <1>5, <2>1 DEF AnyLoad, Fresh
  <2>3. Agrees(Newest.page)'
    BY <2>2 DEF Agrees, Same
  <2> QED
    BY <1>3, <2>2, <2>3 DEF Shown
<1>7. CASE i # Len(loads)
  <2>1. Newest' = Newest
    BY <1>1, <1>2, <1>3, <1>7 DEF Newest
  <2>2. Agrees(Newest.page) => Agrees(Newest.page)'
    BY <1>4, <2>1 DEF Agrees
  <2> QED
    BY <1>1, <1>3, <1>5, <2>1, <2>2 DEF Shown
<1> QED
  BY <1>6, <1>7

LEMMA ShownAfterDelivery == ASSUME TypeOK, Shown, onDataLoaded PROVE Shown'
<1>1. /\ UNCHANGED <<server, selectedInventoryType, requests, missed>>
      /\ loads # << >> /\ Head(loads).page # Waiting
      /\ loads' = Tail(loads)
      /\ targets' = Head(loads).page /\ rows' = DOMAIN targets'
  BY DEF onDataLoaded
<1>2. loads \in Seq(AnyLoad) /\ Len(loads) \in Nat /\ Len(loads) # 0
  BY <1>1, LenProperties, EmptySeq DEF TypeOK, AnyLoad
<1>3. Dirty' = Dirty /\ Fresh' = Fresh
  BY <1>1 DEF Dirty, Fresh
<1>4. Newest.type = selectedInventoryType /\ (Newest.page = Waiting \/ Agrees(Newest.page))
  BY <1>1 DEF Shown
<1>5. CASE Len(loads) = 1
  <2>1. loads' = << >> /\ Head(loads) = Newest
    BY <1>1, <1>2, <1>5, EmptySeq, LenProperties, HeadTailProperties DEF Newest
  <2>2. Agrees(targets)'
    BY <1>1, <1>3, <1>4, <2>1 DEF Agrees
  <2> QED
    BY <1>1, <2>1, <2>2 DEF Shown
<1>6. CASE Len(loads) # 1
  <2>1. /\ Len(loads') = Len(loads) - 1 /\ Len(loads') > 0
        /\ \A k \in 1 .. Len(loads') : loads'[k] = loads[k + 1]
    <3>1. /\ Len(Tail(loads)) = Len(loads) - 1
          /\ \A k \in 1 .. Len(Tail(loads)) : Tail(loads)[k] = loads[k + 1]
      BY <1>1, <1>2, HeadTailProperties
    <3> QED
      BY <1>1, <1>2, <1>6, <3>1
  <2>2. Newest' = Newest /\ loads' # << >>
    BY <1>2, <2>1 DEF Newest
  <2>3. Agrees(Newest.page) => Agrees(Newest.page)'
    BY <1>3, <2>2 DEF Agrees
  <2> QED
    BY <1>1, <1>4, <2>2, <2>3 DEF Shown
<1> QED
  BY <1>5, <1>6

LEMMA InitShown == Init => Shown
<1> SUFFICES ASSUME Init PROVE Shown
  OBVIOUS
<1>1. targets = Fresh /\ rows = DOMAIN targets /\ loads = << >>
  BY DEF Init, Fresh
<1>2. Agrees(targets)
  BY <1>1 DEF Agrees, Same
<1> QED
  BY <1>1, <1>2 DEF Shown

LEMMA ShownAfterUser == ASSUME TypeOK, Shown, UserStep PROVE Shown'
<1> USE DEF page, parent, bridge
<1>1. ASSUME NEW type \in Types, onInventoryTypeChange(type) PROVE Shown'
  BY <1>1, ShownAfterFetch DEF onInventoryTypeChange
<1>2. CASE refreshData
  BY <1>2, ShownAfterFetch DEF refreshData
<1>3. ASSUME UNCHANGED <<server, targets, rows, selectedInventoryType, loads, missed>>,
             requests \subseteq requests'
      PROVE  Shown'
  BY <1>3, ShownStays, DirtyMoreRequests
<1>4. ASSUME NEW t \in TargetIds, toggleTargetState(t) \/ deleteTarget(t) PROVE Shown'
  BY <1>3, <1>4 DEF toggleTargetState, deleteTarget, Ask, Send
<1>5. ASSUME NEW t \in TargetIds, NEW state \in States, handleTargetSave(t, state)
      PROVE  Shown'
  BY <1>3, <1>5 DEF handleTargetSave, Send
<1>6. ASSUME NEW state \in States, setAllTargetsState(state) PROVE Shown'
  BY <1>3, <1>6 DEF setAllTargetsState, Ask
<1>7. ASSUME NEW q \in Question, NEW confirmed \in BOOLEAN, ClickButton(q, confirmed)
      PROVE  Shown'
  BY <1>3, <1>7 DEF ClickButton
<1>8. CASE ClickX
  BY <1>3, <1>8 DEF ClickX
<1> QED
  BY <1>1, <1>2, <1>4, <1>5, <1>6, <1>7, <1>8 DEF UserStep

LEMMA ShownAfterDialog ==
    ASSUME Shown, handleConfirmResult \/ showConfirm \/ Faded PROVE Shown'
<1>1. /\ UNCHANGED <<server, targets, rows, selectedInventoryType, loads, missed>>
      /\ requests \subseteq requests'
  BY DEF handleConfirmResult, showConfirm, Faded, Send, page
<1> QED
  BY <1>1, ShownStays, DirtyMoreRequests

LEMMA ShownAfterAnswer ==
    ASSUME TypeOK, Shown, NEW r \in requests,
           \/ RequestFailed(r) \/ toggleAnswered(r) \/ saveAnswered(r)
           \/ deleteAnswered(r) \/ bulkAnswered(r)
    PROVE  Shown'
<1>1. CASE RequestFailed(r)
  <2>1. /\ UNCHANGED <<server, targets, rows, selectedInventoryType, loads>>
        /\ requests' = requests \ {r} /\ missed \subseteq missed'
        /\ r.accepted = TRUE => Affected(r.change) \subseteq missed'
    BY <1>1 DEF RequestFailed, Answered
  <2> QED
    BY <2>1, DirtyAnswered, ShownStays
<1>2. CASE toggleAnswered(r)
  <2>1. CASE r.change.target \in DOMAIN targets
    BY <1>2, <2>1, ShownAfterRender DEF toggleAnswered, Answered
  <2>2. CASE r.change.target \notin DOMAIN targets
    <3>1. /\ UNCHANGED <<server, targets, rows, selectedInventoryType, loads>>
          /\ requests' = requests \ {r} /\ missed \subseteq missed'
          /\ Affected(r.change) \subseteq missed'
      BY <1>2, <2>2 DEF toggleAnswered, Answered, Affected
    <3> QED
      BY <3>1, DirtyAnswered, ShownStays
  <2> QED
    BY <2>1, <2>2
<1>3. CASE saveAnswered(r) \/ deleteAnswered(r) \/ bulkAnswered(r)
  BY <1>3, ShownAfterRender DEF saveAnswered, deleteAnswered, bulkAnswered, Answered
<1> QED
  BY <1>1, <1>2, <1>3

LEMMA ShownStep == TypeOK /\ Shown /\ [Next]_vars => Shown'
<1> SUFFICES ASSUME TypeOK, Shown, [Next]_vars PROVE Shown'
  OBVIOUS
<1>1. CASE UNCHANGED vars
  BY <1>1, ShownStays, DirtyMoreRequests DEF vars, page
<1>2. CASE UserStep
  BY <1>2, ShownAfterUser
<1>3. CASE handleConfirmResult \/ showConfirm \/ Faded
  BY <1>3, ShownAfterDialog
<1>4. CASE \E r \in requests, accepted \in BOOLEAN : HandleRequest(r, accepted)
  BY <1>4, ShownAfterRequest
<1>5. CASE \E i \in DOMAIN loads : HandleLoad(i)
  BY <1>5, ShownAfterLoad
<1>6. CASE onDataLoaded
  BY <1>6, ShownAfterDelivery
<1>7. CASE \E r \in requests : \/ RequestFailed(r)
                               \/ toggleAnswered(r) \/ saveAnswered(r)
                               \/ deleteAnswered(r) \/ bulkAnswered(r)
  BY <1>7, ShownAfterAnswer
<1> QED
  BY <1>1, <1>2, <1>3, <1>4, <1>5, <1>6, <1>7 DEF Next

LEMMA SettledWhenShown == TypeOK /\ Shown => SettledIsFresh
<1> SUFFICES ASSUME TypeOK, Shown, requests = {}, loads = << >>
             PROVE  /\ Without(targets, missed) = Without(Fresh, missed)
                    /\ rows \ missed = DOMAIN Fresh \ missed
  BY DEF SettledIsFresh, Fresh
<1>1. Agrees(targets) /\ rows = DOMAIN targets
  BY DEF Shown
<1>2. Dirty = missed
  BY DEF Dirty, TypeOK
<1>3. Fresh \in Database /\ targets \in Database
  BY OfTypeIn DEF Fresh, TypeOK
<1>4. DOMAIN Fresh \subseteq TargetIds /\ DOMAIN targets \subseteq TargetIds
  BY <1>3, DatabaseElement
<1>5. \A t \in TargetIds \ missed : Same(targets, Fresh, t)
  BY <1>1, <1>2 DEF Agrees
<1>6. DOMAIN targets \ missed = DOMAIN Fresh \ missed
  BY <1>4, <1>5 DEF Same
<1>7. \A t \in DOMAIN targets \ missed : targets[t] = Fresh[t]
  BY <1>4, <1>5 DEF Same
<1>8. Without(targets, missed) = Without(Fresh, missed)
  BY <1>6, <1>7 DEF Without
<1> QED
  BY <1>1, <1>6, <1>8

\* A page at rest caches and lists what the service has of the selected type, in
\* whatever order its requests and loads were handled and answered, but for the
\* targets whose change was answered too late (targets.js).
THEOREM Settled == Spec => []SettledIsFresh
<1>1. Init => TypeOK /\ Shown
  BY InitType, InitShown
<1>2. (TypeOK /\ Shown) /\ [Next]_vars => (TypeOK /\ Shown)'
  BY TypeStep, ShownStep
<1>3. TypeOK /\ Shown => SettledIsFresh
  BY SettledWhenShown
<1> QED
  BY <1>1, <1>2, <1>3, PTL DEF Spec
=============================================================================

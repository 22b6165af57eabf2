------------------------------ MODULE PortalProofs ------------------------------
(***************************************************************************)
(* What TLAPS proves of the section loader and of the page composed with   *)
(* its dashboard, for any sections and cards and any number of loads and   *)
(* changes.                                                                *)
(*                                                                         *)
(* The loader alone: LastAskedStays and ContentInitialised are not         *)
(* inductive, for they speak of a page at rest.  The invariants below say  *)
(* where a load is before: InOrder, that as long as no answer overtook     *)
(* another the loads without an answer are those after the last page that  *)
(* came; WillInitialise, that the content had its section's initialiser or *)
(* has it waiting.                                                         *)
(*                                                                         *)
(* The page: every step of Portal is a step of SectionLoader or leaves the *)
(* loader's state as it is, so that what is proved of the loader is true   *)
(* of the page.                                                            *)
(***************************************************************************)
EXTENDS Portal, SequenceTheorems, TLAPS


(***************************************************************************)
(* Lemmas                                                                  *)
(***************************************************************************)

\* The last element of a queue that loses its first, or gains one.
LEMMA LastOfTail ==
    ASSUME NEW S, NEW s \in Seq(S), s # << >>
    PROVE  /\ Head(s) = s[1] /\ Head(s) \in S /\ Tail(s) \in Seq(S)
           /\ Len(s) \in Nat \ {0}
           /\ Tail(s) = << >> => Len(s) = 1
           /\ Tail(s) # << >> => Tail(s)[Len(Tail(s))] = s[Len(s)]
           /\ \A i \in DOMAIN s : i = 1 \/ \E j \in DOMAIN Tail(s) : Tail(s)[j] = s[i]
<1>1. Len(s) \in Nat \ {0} /\ DOMAIN s = 1..Len(s)
  BY EmptySeq, LenProperties
<1>2. /\ Head(s) = s[1] /\ Head(s) \in S /\ Tail(s) \in Seq(S)
      /\ Len(Tail(s)) = Len(s) - 1
      /\ \A i \in 1..Len(Tail(s)) : Tail(s)[i] = s[i + 1]
  BY HeadTailProperties, <1>1, ElementOfSeq
<1>3. /\ Tail(s) = << >> => Len(Tail(s)) = 0
      /\ Tail(s) # << >> => Len(Tail(s)) \in Nat \ {0}
      /\ DOMAIN Tail(s) = 1..Len(Tail(s))
  BY <1>2, EmptySeq, LenProperties
<1>4. ASSUME NEW i \in DOMAIN s, i # 1
      PROVE  \E j \in DOMAIN Tail(s) : Tail(s)[j] = s[i]
  <2>1. i - 1 \in 1..Len(Tail(s)) /\ (i - 1) + 1 = i
    BY <1>1, <1>2, <1>4
  <2>. QED
    BY <1>2, <1>3, <2>1
<1>5. Tail(s) # << >> => Tail(s)[Len(Tail(s))] = s[Len(s)]
  <2>. SUFFICES ASSUME Tail(s) # << >> PROVE Tail(s)[Len(Tail(s))] = s[Len(s)]
    OBVIOUS
  <2>1. Len(Tail(s)) \in 1..Len(Tail(s)) /\ Len(Tail(s)) + 1 = Len(s)
    BY <1>1, <1>2, <1>3
  <2>. QED
    BY <1>2, <2>1
<1>. QED
  BY <1>1, <1>2, <1>3, <1>4, <1>5

LEMMA LastOfAppend ==
    ASSUME NEW S, NEW s \in Seq(S), NEW x \in S
    PROVE  /\ Append(s, x) \in Seq(S) /\ Append(s, x) # << >>
           /\ Append(s, x)[Len(Append(s, x))] = x
           /\ \A i \in DOMAIN s : i \in DOMAIN Append(s, x) /\ Append(s, x)[i] = s[i]
           /\ \E i \in DOMAIN Append(s, x) : Append(s, x)[i] = x
<1>1. /\ Append(s, x) \in Seq(S) /\ Len(Append(s, x)) = Len(s) + 1
      /\ \A i \in 1..Len(s) : Append(s, x)[i] = s[i]
      /\ Append(s, x)[Len(s) + 1] = x
  BY AppendProperties
<1>2. Len(s) \in Nat /\ DOMAIN s = 1..Len(s) /\ DOMAIN Append(s, x) = 1..Len(s) + 1
  BY <1>1, LenProperties
<1>. QED
  BY <1>1, <1>2, EmptySeq

(***************************************************************************)
(* The invariant                                                           *)
(***************************************************************************)

\* The load whose page came last is shown, or is the last that waits to be.
LastCame(k) == IF fading = << >> THEN content = k ELSE fading[Len(fading)] = k

InOrder == ~overtaken => \E k \in 0..Len(loads) :
                             fetches = k + 1 .. Len(loads) /\ LastCame(k)

WillInitialise ==
    content # 0 /\ ~failed =>
        \/ \E i \in DOMAIN settling : settling[i] = content
        \/ \E i \in DOMAIN initialised : initialised[i] = Section

Inv == TypeOK /\ InOrder /\ WillInitialise

LEMMA InitInv == Init => Inv
<1>. SUFFICES ASSUME Init PROVE Inv
  OBVIOUS
<1>1. /\ loads = <<dashboard>> /\ dashboard \in Sections
      /\ loads \in Seq(Sections) /\ Len(loads) = 1
  BY LoaderAssumption DEF Init
<1>2. fading = << >> /\ settling = << >> /\ initialised = << >>
  BY DEF Init
<1>3. TypeOK
  <2>1. << >> \in Seq(Sections) /\ << >> \in Seq(Loads)
    BY EmptySeq
  <2>2. fetches \subseteq Loads /\ content \in 0..Len(loads)
    BY <1>1 DEF Init, Loads
  <2>. QED
    BY <1>1, <1>2, <2>1, <2>2 DEF Init, TypeOK
<1>4. InOrder
  <2>1. fetches = 0 + 1 .. Len(loads) /\ LastCame(0)
    BY <1>1 DEF Init, LastCame
  <2>. QED
    BY <1>1, <2>1 DEF InOrder
<1>. QED
  BY <1>3, <1>4 DEF Init, Inv, WillInitialise

\* A click asks more loads; those asked before stay where they are.
LEMMA AskedInv ==
    ASSUME Inv, NEW sections \in Seq(Sections), loadSection(sections),
           active' \in Sections,
           UNCHANGED <<timers, shown, tableInitialized, overtaken>>
    PROVE  Inv'
<1>. USE DEF Inv
<1>. DEFINE m == Len(sections)
<1>1. /\ loads' \in Seq(Sections) /\ Len(loads') = Len(loads) + m
      /\ \A i \in 1..Len(loads) : loads'[i] = loads[i]
      /\ Len(loads) \in Nat /\ m \in Nat
  <2>1. loads \in Seq(Sections) /\ Len(loads) \in Nat /\ m \in Nat
    BY LenProperties DEF TypeOK
  <2>2. loads' = loads \o sections
    BY DEF loadSection
  <2>. QED
    BY <2>1, <2>2, ConcatProperties
<1>2. fetches' = fetches \cup (Len(loads) + 1 .. Len(loads) + m)
  BY DEF loadSection
<1>3. UNCHANGED <<fading, settling, content, failed, initialised, listeners, tab,
                  tables, tableInitialized, overtaken>>
  BY DEF timers, shown
<1>4. fading \in Seq(Loads') /\ settling \in Seq(Loads')
  <2>1. Loads \subseteq Loads'
    BY <1>1 DEF Loads
  <2>. QED
    BY <2>1, SeqMonotonic DEF TypeOK
<1>5. TypeOK'
  <2>1. fetches' \subseteq Loads' /\ content' \in 0..Len(loads')
    <3>1. /\ fetches \subseteq 1..Len(loads) /\ content' = content
          /\ content \in 0..Len(loads) /\ Loads' = 1..Len(loads')
      BY <1>3 DEF TypeOK, Loads
    <3>2. Len(loads') = Len(loads) + m /\ Len(loads) \in Nat /\ m \in Nat
      BY <1>1
    <3>. HIDE DEF m
    <3>3. ASSUME NEW n \in fetches' PROVE n \in 1..Len(loads) + m
      BY <1>2, <3>1, <3>2
    <3>4. content \in 0..Len(loads) + m
      BY <3>1, <3>2
    <3>. QED
      BY <3>1, <3>2, <3>3, <3>4
  <2>2. fading' \in Seq(Loads') /\ settling' \in Seq(Loads')
    BY <1>3, <1>4
  <2>. QED
    BY <1>1, <1>3, <2>1, <2>2 DEF TypeOK
<1>6. InOrder'
  <2>. SUFFICES ASSUME ~overtaken
                PROVE  \E k \in 0..Len(loads') :
                           fetches' = k + 1 .. Len(loads') /\ LastCame(k)'
    BY <1>3 DEF InOrder
  <2>1. PICK k \in 0..Len(loads) : fetches = k + 1 .. Len(loads) /\ LastCame(k)
    BY DEF InOrder
  <2>2. k \in 0..Len(loads') /\ fetches' = k + 1 .. Len(loads')
    BY <1>1, <1>2, <2>1
  <2>3. LastCame(k)'
    BY <1>3, <2>1 DEF LastCame
  <2>. QED
    BY <2>2, <2>3
<1>7. WillInitialise'
  <2>1. content # 0 => Section' = Section
    BY <1>1, <1>3 DEF Section, TypeOK
  <2>. QED
    BY <1>3, <2>1 DEF WillInitialise
<1>. QED
  BY <1>5, <1>6, <1>7

LEMMA FetchedInv == ASSUME Inv, NEW n \in fetches, Fetched(n) PROVE Inv'
<1>. USE DEF Inv
<1>1. /\ fetches' = fetches \ {n} /\ fading' = Append(fading, n)
      /\ overtaken' = (overtaken \/ Overtakes(n))
      /\ UNCHANGED <<active, loads, settling, content, failed, initialised,
                     listeners, tab, tables, tableInitialized>>
  BY DEF Fetched, shown
<1>2. /\ fading' \in Seq(Loads) /\ fading' # << >> /\ fading'[Len(fading')] = n
  BY <1>1, LastOfAppend DEF TypeOK
<1>3. TypeOK'
  BY <1>1, <1>2 DEF TypeOK, Loads
<1>4. InOrder'
  <2>. SUFFICES ASSUME ~overtaken, ~Overtakes(n)
                PROVE  \E k \in 0..Len(loads) :
                           fetches' = k + 1 .. Len(loads) /\ LastCame(k)'
    BY <1>1 DEF InOrder
  <2>1. PICK k \in 0..Len(loads) : fetches = k + 1 .. Len(loads)
    BY DEF InOrder
  <2>2. Len(loads) \in Nat
    BY LenProperties DEF TypeOK
  <2>3. n = k + 1
    BY <2>1, <2>2 DEF Overtakes
  <2>4. n \in 0..Len(loads) /\ fetches' = n + 1 .. Len(loads) /\ LastCame(n)'
    BY <1>1, <1>2, <2>1, <2>2, <2>3 DEF LastCame
  <2>. QED
    BY <2>4
<1>5. WillInitialise'
  BY <1>1 DEF WillInitialise, Section
<1>. QED
  BY <1>3, <1>4, <1>5

LEMMA FetchFailedInv == ASSUME Inv, NEW n \in fetches, FetchFailed(n) PROVE Inv'
<1>. USE DEF Inv
<1>1. /\ fetches' = fetches \ {n} /\ content' = n /\ failed' = TRUE
      /\ initialised' = << >> /\ listeners' = 0 /\ tab' = None /\ tables' = {}
      /\ overtaken' = (overtaken \/ Overtakes(n) \/ fading # << >>)
      /\ UNCHANGED <<active, loads, fading, settling, tableInitialized>>
  BY DEF FetchFailed, timers
<1>2. TypeOK'
  BY <1>1, EmptySeq DEF TypeOK, Loads
<1>3. InOrder'
  <2>. SUFFICES ASSUME ~overtaken, ~Overtakes(n), fading = << >>
                PROVE  \E k \in 0..Len(loads) :
                           fetches' = k + 1 .. Len(loads) /\ LastCame(k)'
    BY <1>1 DEF InOrder
  <2>1. PICK k \in 0..Len(loads) : fetches = k + 1 .. Len(loads)
    BY DEF InOrder
  <2>2. Len(loads) \in Nat
    BY LenProperties DEF TypeOK
  <2>3. n = k + 1
    BY <2>1, <2>2 DEF Overtakes
  <2>4. n \in 0..Len(loads) /\ fetches' = n + 1 .. Len(loads) /\ LastCame(n)'
    BY <1>1, <2>1, <2>2, <2>3 DEF LastCame
  <2>. QED
    BY <2>4
<1>. QED
  BY <1>1, <1>2, <1>3 DEF WillInitialise

LEMMA ShowInv == ASSUME Inv, Show PROVE Inv'
<1>. USE DEF Inv
<1>1. /\ fading # << >> /\ content' = Head(fading) /\ failed' = FALSE
      /\ initialised' = << >> /\ listeners' = 0 /\ tables' = {}
      /\ tab' = IF loads[Head(fading)] = hosts THEN "hypervisors" ELSE None
      /\ fading' = Tail(fading) /\ settling' = Append(settling, Head(fading))
      /\ UNCHANGED <<active, loads, fetches, tableInitialized, overtaken>>
  BY DEF Show
<1>2. /\ Head(fading) = fading[1] /\ Head(fading) \in Loads
      /\ Tail(fading) \in Seq(Loads) /\ Len(fading) \in Nat \ {0}
      /\ Tail(fading) = << >> => Len(fading) = 1
      /\ Tail(fading) # << >> => Tail(fading)[Len(Tail(fading))] = fading[Len(fading)]
  BY <1>1, LastOfTail DEF TypeOK
<1>3. /\ settling' \in Seq(Loads)
      /\ \E i \in DOMAIN settling' : settling'[i] = content'
  <2>. DEFINE n == Head(fading)
  <2>1. n \in Loads /\ settling \in Seq(Loads)
        /\ settling' = Append(settling, n) /\ content' = n
    BY <1>1, <1>2 DEF TypeOK
  <2>. HIDE DEF n
  <2>. QED
    BY <2>1, LastOfAppend
<1>4. TypeOK'
  <2>1. content' \in 0..Len(loads')
    BY <1>1, <1>2 DEF Loads
  <2>2. initialised' \in Seq(Sections)
    BY <1>1, EmptySeq
  <2>3. tab' \in Tabs \cup {None} /\ Loads' = Loads
    BY <1>1 DEF Tabs, Loads
  <2>. QED
    BY <1>1, <1>2, <1>3, <2>1, <2>2, <2>3 DEF TypeOK
<1>5. InOrder'
  BY <1>1, <1>2 DEF InOrder, LastCame
<1>. QED
  BY <1>3, <1>4, <1>5 DEF WillInitialise

LEMMA InitialiseInv == ASSUME Inv, Initialise PROVE Inv'
<1>. USE DEF Inv
<1>. DEFINE section == loads[Head(settling)]
<1>1. /\ settling # << >> /\ settling' = Tail(settling)
      /\ initialised' = Append(initialised, section)
      /\ listeners' \in {listeners, listeners + 1}
      /\ UNCHANGED <<active, loads, fetches, fading, content, failed, tab, overtaken>>
  BY DEF Initialise
<1>2. /\ Head(settling) = settling[1] /\ Head(settling) \in Loads
      /\ Tail(settling) \in Seq(Loads)
      /\ \A i \in DOMAIN settling :
             i = 1 \/ \E j \in DOMAIN Tail(settling) : Tail(settling)[j] = settling[i]
  BY <1>1, LastOfTail DEF TypeOK
<1>3. section \in Sections
  BY <1>2, ElementOfSeq DEF TypeOK, Loads
<1>4. /\ initialised' \in Seq(Sections)
      /\ \A i \in DOMAIN initialised : i \in DOMAIN initialised'
                                       /\ initialised'[i] = initialised[i]
      /\ \E i \in DOMAIN initialised' : initialised'[i] = section
  <2>1. initialised \in Seq(Sections)
    BY DEF TypeOK
  <2>. HIDE DEF section
  <2>. QED
    BY <1>1, <1>3, <2>1, LastOfAppend
<1>5. tables' \subseteq Tabs /\ tableInitialized' \subseteq Tabs
  BY DEF Initialise, initializeTable, TypeOK, Tabs
<1>6. TypeOK'
  BY <1>1, <1>2, <1>4, <1>5 DEF TypeOK, Loads
<1>7. InOrder'
  BY <1>1 DEF InOrder, LastCame
<1>8. WillInitialise'
  <2>. SUFFICES ASSUME content # 0, ~failed PROVE WillInitialise'
    BY <1>1 DEF WillInitialise
  <2>1. Section' = Section /\ Section = loads[content]
    BY <1>1 DEF Section
  <2>2. CASE \E i \in DOMAIN settling : settling[i] = content
    BY <1>1, <1>2, <1>4, <2>1, <2>2 DEF WillInitialise
  <2>3. CASE \E i \in DOMAIN initialised : initialised[i] = Section
    BY <1>4, <2>1, <2>3 DEF WillInitialise
  <2>. QED
    BY <2>2, <2>3 DEF WillInitialise
<1>. QED
  BY <1>6, <1>7, <1>8

LEMMA ClickTabInv == ASSUME Inv, NEW t \in Tabs, ClickTab(t) PROVE Inv'
<1>. USE DEF Inv
<1>1. /\ tab' = t
      /\ UNCHANGED <<active, loads, fetches, fading, settling, content, failed,
                     initialised, listeners, overtaken>>
  BY DEF ClickTab, timers
<1>2. tables' \subseteq Tabs /\ tableInitialized' \subseteq Tabs
  BY DEF ClickTab, initializeTable, TypeOK
<1>. QED
  BY <1>1, <1>2 DEF TypeOK, Loads, InOrder, LastCame, WillInitialise, Section

LEMMA NextInv == Inv /\ [Next]_vars => Inv'
<1>. SUFFICES ASSUME Inv, [Next]_vars PROVE Inv'
  OBVIOUS
<1>1. ASSUME NEW s \in Sections, ClickLink(s) PROVE Inv'
  <2>1. <<s>> \in Seq(Sections)
    OBVIOUS
  <2>. QED
    BY <1>1, <2>1, AskedInv DEF ClickLink
<1>2. ASSUME NEW s \in Sections, ClickCard(s) PROVE Inv'
  <2>1. [i \in 1..listeners |-> s] \in Seq(Sections)
    BY IsASeq DEF Inv, TypeOK
  <2>. QED
    BY <1>2, <2>1, AskedInv DEF ClickCard, Inv, TypeOK
<1>3. ASSUME NEW n \in fetches, Fetched(n) \/ FetchFailed(n) PROVE Inv'
  BY <1>3, FetchedInv, FetchFailedInv
<1>4. CASE Show
  BY <1>4, ShowInv
<1>5. CASE Initialise
  BY <1>5, InitialiseInv
<1>6. ASSUME NEW t \in Tabs, ClickTab(t) PROVE Inv'
  BY <1>6, ClickTabInv
<1>7. CASE UNCHANGED vars
  BY <1>7 DEF vars, timers, shown, Inv, TypeOK, Loads, InOrder, LastCame,
              WillInitialise, Section
<1>. QED
  BY <1>1, <1>2, <1>3, <1>4, <1>5, <1>6, <1>7 DEF Next

-----------------------------------------------------------------------------
(***************************************************************************)
(* Theorems                                                                *)
(***************************************************************************)

THEOREM Invariant == Spec => []Inv
BY InitInv, NextInv, PTL DEF Spec

\* Without an answer that overtook another the page asked last stays, however
\* many clicks crossed.
THEOREM LastStays == Spec => []LastAskedStays
<1>1. Inv => LastAskedStays
  <2>. SUFFICES ASSUME Inv, AtRest, ~overtaken PROVE content = Len(loads)
    BY DEF LastAskedStays
  <2>1. PICK k \in 0..Len(loads) : fetches = k + 1 .. Len(loads) /\ LastCame(k)
    BY DEF Inv, InOrder
  <2>2. Len(loads) \in Nat
    BY LenProperties DEF Inv, TypeOK
  <2>3. k = Len(loads)
    BY <2>1, <2>2 DEF AtRest
  <2>. QED
    BY <2>1, <2>3 DEF AtRest, LastCame
<1>. QED
  BY <1>1, Invariant, PTL

\* A page at rest has had its own section's initialiser run on it.
THEOREM Initialised == Spec => []ContentInitialised
<1>1. Inv => ContentInitialised
  BY DEF Inv, WillInitialise, ContentInitialised, AtRest
<1>. QED
  BY <1>1, Invariant, PTL

-----------------------------------------------------------------------------
(***************************************************************************)
(* The page with its dashboard                                             *)
(***************************************************************************)

LEMMA PortalStep == PortalNext => [Next]_vars
<1>1. CASE ContentStays
  <2>1. ASSUME NEW s \in Sections, ClickLink(s) \/ ClickCard(s) PROVE Next
    BY <2>1 DEF Next
  <2>2. ASSUME NEW n \in fetches, Fetched(n) PROVE Next
    BY <2>2 DEF Next
  <2>3. ASSUME NEW t \in Tabs, ClickTab(t) PROVE Next
    BY <2>3 DEF Next
  <2>. QED
    BY <1>1, <2>1, <2>2, <2>3 DEF ContentStays
<1>2. CASE ContentReplaced
  <2>1. ASSUME NEW n \in fetches, FetchFailed(n) PROVE Next
    BY <2>1 DEF Next
  <2>2. Show => Next
    BY DEF Next
  <2>. QED
    BY <1>2, <2>1, <2>2 DEF ContentReplaced
<1>3. CASE ContentIsInitialised
  BY <1>3 DEF ContentIsInitialised, Next
<1>4. CASE CardsWork
  BY <1>4 DEF CardsWork
<1>. SUFFICES ASSUME PortalNext PROVE [Next]_vars
  OBVIOUS
<1>. QED
  BY <1>1, <1>2, <1>3, <1>4 DEF PortalNext

\* The dashboard's requests, timers and subscriptions disturb no load: a behavior
\* of the page is one of sections.js and the navigation alone.
THEOREM PortalImplementsLoader == PortalSpec => Spec
<1>1. PortalInit => Init
  BY DEF PortalInit
<1>2. [PortalNext]_<<vars, cardVars>> => [Next]_vars
  <2>1. CASE PortalNext
    BY <2>1, PortalStep
  <2>2. CASE UNCHANGED <<vars, cardVars>>
    BY <2>2
  <2>. QED
    BY <2>1, <2>2
<1>. QED
  BY <1>1, <1>2, PTL DEF PortalSpec, Spec

\* On the page too the section asked last is the one that stays, unless an answer
\* overtook another (sections.js loadSection).
THEOREM PortalLastStays == PortalSpec => []LastAskedStays
<1>. QED
  BY PortalImplementsLoader, LastStays, PTL

\* On the page too a section at rest had its own initialiser run: the dashboard
\* that stays asked for its cards' counts.
THEOREM PortalInitialised == PortalSpec => []ContentInitialised
<1>. QED
  BY PortalImplementsLoader, Initialised, PTL

-----------------------------------------------------------------------------
(***************************************************************************)
(* The cards                                                               *)
(*                                                                         *)
(* CardsSettle and CardsFilled speak of a page at rest.  Before that, a    *)
(* card of a document that had its initialiser is UpToDate: from some      *)
(* request on its answers are right, and one of these is in the document   *)
(* or still to come - unless a change of the card is on its way, waits for *)
(* its timer or was missed.                                                *)
(***************************************************************************)
Ready == document # 0 /\ \E i \in DOMAIN initialised : initialised[i] = dashboard

\* The answers that will be shown in this document.
Coming(c) == {r \in requests : r.card = c /\ D!InDocument(r)}

UpToDate(c) ==
    \E k \in 1 .. sent :
        /\ \A r \in Coming(c) : r.n >= k => r.counts \in {Waiting, server[c], Empty}
        /\ IF newest[c] >= k THEN c \in outdated \/ counts[c] \in {server[c], Empty}
           ELSE \E r \in Coming(c) : r.n >= k

Noticed(c) == c \in missed \cup notices \cup ticking

CardInv(c) == /\ Noticed(c) \/ UpToDate(c)
              /\ newest[c] > 0 \/ Coming(c) # {}

CardsInv == /\ D!TypeOK
            /\ ticking = refreshTimers
            /\ Ready => \A c \in Cards : CardInv(c)

LEMMA DocumentNat == ASSUME TypeOK PROVE document \in Nat
<1>1. content \in 0 .. Len(loads) /\ Len(loads) \in Nat
  BY LenProperties DEF TypeOK
<1>. QED
  BY <1>1 DEF document

\* A click asks for another section; the content is the one it was.
LEMMA AskedSection ==
    ASSUME TypeOK, NEW sections \in Seq(Sections), loadSection(sections),
           UNCHANGED content
    PROVE  Section' = Section
<1>1. loads \in Seq(Sections) /\ Len(loads) \in Nat /\ content \in 0 .. Len(loads)
  BY LenProperties DEF TypeOK
<1>2. \A i \in 1 .. Len(loads) : loads'[i] = loads[i]
  BY <1>1, ConcatProperties DEF loadSection
<1>. QED
  BY <1>1, <1>2 DEF Section

LEMMA ContentStaysDocument ==
    ASSUME TypeOK, ContentStays
    PROVE  UNCHANGED <<document, initialised, cardVars>>
<1>1. ASSUME NEW s \in Sections, ClickLink(s) PROVE UNCHANGED <<document, initialised>>
  <2>1. <<s>> \in Seq(Sections)
    OBVIOUS
  <2>. QED
    BY <1>1, <2>1, AskedSection DEF ClickLink, shown, document
<1>2. ASSUME NEW s \in Sections, ClickCard(s) PROVE UNCHANGED <<document, initialised>>
  <2>1. [i \in 1..listeners |-> s] \in Seq(Sections)
    BY IsASeq DEF TypeOK
  <2>. QED
    BY <1>2, <2>1, AskedSection DEF ClickCard, shown, document
<1>3. ASSUME NEW n \in fetches, Fetched(n) PROVE UNCHANGED <<document, initialised>>
  BY <1>3 DEF Fetched, shown, document, Section
<1>4. ASSUME NEW t \in Tabs, ClickTab(t) PROVE UNCHANGED <<document, initialised>>
  BY <1>4 DEF ClickTab, document, Section
<1>. QED
  BY <1>1, <1>2, <1>3, <1>4 DEF ContentStays

LEMMA CardsStay ==
    ASSUME CardsInv, UNCHANGED <<document, initialised, cardVars>> PROVE CardsInv'
<1>1. D!TypeOK'
  BY DEF CardsInv, cardVars, D!TypeOK, D!Counts
<1>2. Ready' = Ready
  BY DEF Ready
<1>3. ASSUME NEW c \in Cards PROVE CardInv(c)' = CardInv(c)
  BY DEF CardInv, Noticed, UpToDate, Coming, D!InDocument, cardVars
<1>. QED
  BY <1>1, <1>2, <1>3 DEF CardsInv, cardVars

(***************************************************************************)
(* The types of the cards                                                  *)
(***************************************************************************)
Ask(upto, r) == [card : Cards, n : 1 .. upto, document : Nat, run : 0 .. r,
                 counts : D!Counts \cup {Waiting}]

LEMMA FetchTypes ==
    ASSUME TypeOK, D!TypeOK, NEW C \in SUBSET Cards, NEW run \in 0 .. runs',
           runs' \in {runs, runs + 1}, D!fetchStats(C, run)
    PROVE  /\ sent' = sent + 1 /\ sent' \in Nat /\ runs' \in Nat
           /\ requests' \subseteq Ask(sent', runs')
<1>1. sent' = sent + 1 /\ sent' \in Nat /\ runs' \in Nat /\ sent \in Nat /\ runs \in Nat
  BY DEF D!fetchStats, D!TypeOK
<1>2. requests \subseteq Ask(sent', runs')
  BY <1>1 DEF D!TypeOK, Ask
<1>3. ASSUME NEW c \in C
      PROVE  [card |-> c, n |-> sent + 1, run |-> run, counts |-> Waiting,
              document |-> IF c \in late THEN 0 ELSE document] \in Ask(sent', runs')
  BY <1>1, DocumentNat DEF Ask
<1>. QED
  BY <1>1, <1>2, <1>3 DEF D!fetchStats

LEMMA InitialiseTypes ==
    ASSUME TypeOK, D!TypeOK, D!initializeDashboard PROVE D!TypeOK'
<1>1. /\ runs' = runs + 1 /\ runs \in Nat
      /\ D!fetchStats(Cards, runs + 1)
      /\ starting' = starting \cup {runs + 1} /\ missed' = {}
      /\ UNCHANGED <<late, server, counts, newest, outdated, subscribers, notices,
                     refreshTimers, ticking>>
  BY DEF D!initializeDashboard, D!TypeOK, D!card, D!timers
<1>2. /\ sent' = sent + 1 /\ sent' \in Nat /\ runs' \in Nat
      /\ requests' \subseteq Ask(sent', runs')
  BY <1>1, FetchTypes
<1>3. newest \in [Cards -> 0 .. sent'] /\ starting' \subseteq 1 .. runs'
      /\ subscribers \subseteq 1 .. runs'
  BY <1>1, <1>2 DEF D!TypeOK
<1>. QED
  BY <1>1, <1>2, <1>3 DEF D!TypeOK, Ask, D!Counts

LEMMA TimerTypes ==
    ASSUME TypeOK, D!TypeOK, NEW c \in Cards, D!TimerFires(c) PROVE D!TypeOK'
<1>1. /\ D!fetchStats({c}, 0)
      /\ ticking' = ticking \ {c} /\ refreshTimers' = refreshTimers \ {c}
      /\ UNCHANGED <<late, server, runs, counts, newest, outdated, starting, subscribers,
                     notices, missed>>
  BY DEF D!TimerFires, D!card
<1>2. /\ sent' = sent + 1 /\ sent' \in Nat /\ runs' \in Nat
      /\ requests' \subseteq Ask(sent', runs')
  <2>1. {c} \in SUBSET Cards /\ 0 \in 0 .. runs' /\ runs' \in {runs, runs + 1}
    BY <1>1 DEF D!TypeOK
  <2>. QED
    BY <1>1, <2>1, FetchTypes
<1>3. newest \in [Cards -> 0 .. sent']
  BY <1>1, <1>2 DEF D!TypeOK
<1>. QED
  BY <1>1, <1>2, <1>3 DEF D!TypeOK, Ask, D!Counts

LEMMA HandleTypes ==
    ASSUME D!TypeOK, NEW r \in requests, NEW x, D!Handle(r, x) PROVE D!TypeOK'
<1>1. /\ requests' = (requests \ {r}) \cup {[r EXCEPT !.counts = x]}
      /\ x \in {server[r.card], Empty}
      /\ UNCHANGED <<late, server, runs, counts, newest, outdated, sent, starting,
                     subscribers, notices, refreshTimers, ticking, missed>>
  BY DEF D!Handle, D!card, D!timers
<1>2. r \in Ask(sent, runs) /\ requests \subseteq Ask(sent, runs)
  BY DEF D!TypeOK, Ask
<1>3. x \in D!Counts
  BY <1>1, <1>2 DEF D!TypeOK, D!Counts, Ask
<1>4. [r EXCEPT !.counts = x] \in Ask(sent, runs)
  BY <1>2, <1>3 DEF Ask
<1>5. requests' \subseteq Ask(sent, runs)
  BY <1>1, <1>2, <1>4
<1>. QED
  BY <1>1, <1>5 DEF D!TypeOK, Ask, D!Counts

LEMMA UpdateTypes ==
    ASSUME D!TypeOK, NEW r \in requests, D!updateCard(r) PROVE D!TypeOK'
<1>1. /\ requests' = requests \ {r} /\ r.counts # Waiting
      /\ UNCHANGED <<late, server, runs, sent, starting, subscribers, notices,
                     refreshTimers, ticking, missed>>
  BY DEF D!updateCard, D!timers
<1>2. r \in Ask(sent, runs) /\ r.counts \in D!Counts
  BY <1>1 DEF D!TypeOK, Ask
<1>3. CASE ~D!InDocument(r)
  <2>1. UNCHANGED <<counts, newest, outdated>>
    BY <1>3 DEF D!updateCard, D!card
  <2>. QED
    BY <1>1, <2>1 DEF D!TypeOK, D!Counts
<1>4. CASE D!InDocument(r)
  <2>1. /\ counts' = [counts EXCEPT ![r.card] = r.counts]
        /\ outdated' = IF r.n < newest[r.card] THEN outdated \cup {r.card}
                       ELSE outdated \ {r.card}
        /\ newest' = [newest EXCEPT ![r.card] = IF r.n < @ THEN @ ELSE r.n]
    BY <1>4 DEF D!updateCard
  <2>2. counts' \in [Cards -> D!Counts] /\ outdated' \subseteq Cards
    BY <1>2, <2>1 DEF D!TypeOK, Ask
  <2>3. newest' \in [Cards -> 0 .. sent]
    BY <1>2, <2>1 DEF D!TypeOK, Ask
  <2>. QED
    BY <1>1, <2>2, <2>3 DEF D!TypeOK, D!Counts
<1>. QED
  BY <1>3, <1>4

LEMMA StepTypes == ASSUME TypeOK, D!TypeOK, D!Step PROVE D!TypeOK'
<1>. USE DEF D!card, D!timers, D!Counts
<1>1. ASSUME NEW run \in starting, D!Started(run) PROVE D!TypeOK'
  BY <1>1 DEF D!Started, D!TypeOK
<1>2. ASSUME NEW c \in Cards, D!Change(c) PROVE D!TypeOK'
  <2>1. server[c] + 1 \in 0 .. MaxChanges
    BY <1>2, PortalAssumption DEF D!Change, D!TypeOK
  <2>2. server' \in [Cards -> 0 .. MaxChanges]
    BY <1>2, <2>1 DEF D!Change, D!TypeOK
  <2>. QED
    BY <1>2, <2>2 DEF D!Change, D!TypeOK
<1>3. ASSUME NEW c \in Cards, D!debouncedCardRefresh(c) PROVE D!TypeOK'
  BY <1>3 DEF D!debouncedCardRefresh, D!TypeOK
<1>4. ASSUME NEW c \in Cards, D!TimerFires(c) PROVE D!TypeOK'
  BY <1>4, TimerTypes
<1>5. ASSUME NEW r \in requests, NEW x, D!Handle(r, x) PROVE D!TypeOK'
  BY <1>5, HandleTypes
<1>6. ASSUME NEW r \in requests, D!updateCard(r) PROVE D!TypeOK'
  BY <1>6, UpdateTypes
<1>. QED
  BY <1>1, <1>2, <1>3, <1>4, <1>5, <1>6 DEF D!Step

(***************************************************************************)
(* The steps of the cards                                                  *)
(***************************************************************************)

\* A request of a card of the document is right: whatever changed before, its
\* answer will see.
LEMMA Requested ==
    ASSUME D!TypeOK, document # 0, UNCHANGED <<document, late, newest>>,
           NEW C \in SUBSET Cards, NEW run, D!fetchStats(C, run)
    PROVE  /\ \A c \in C : UpToDate(c)' /\ Coming(c)' # {}
           /\ \A c \in Cards \ C : Coming(c)' = Coming(c)
           /\ \A c \in Cards : Coming(c) \subseteq Coming(c)'
<1>. DEFINE new(c) == [card |-> c, n |-> sent + 1, run |-> run, counts |-> Waiting,
                       document |-> IF c \in late THEN 0 ELSE document]
<1>1. /\ sent' = sent + 1 /\ sent \in Nat
      /\ requests' = requests \cup {new(c) : c \in C}
  BY DEF D!fetchStats, D!TypeOK
<1>2. \A r : D!InDocument(r)' <=> D!InDocument(r)
  BY DEF D!InDocument
<1>3. \A c : /\ new(c).card = c /\ new(c).n = sent + 1 /\ new(c).counts = Waiting
             /\ new(c).document = IF c \in late THEN 0 ELSE document
  OBVIOUS
<1>. HIDE DEF new
<1>4. \A c : D!InDocument(new(c))
  BY <1>3 DEF D!InDocument
<1>5. \A c \in Cards : Coming(c) \subseteq Coming(c)'
  BY <1>1, <1>2 DEF Coming
<1>6. \A c \in Cards \ C : Coming(c)' = Coming(c)
  BY <1>1, <1>2, <1>3 DEF Coming
<1>7. ASSUME NEW c \in C PROVE UpToDate(c)' /\ Coming(c)' # {}
  <2>1. new(c) \in Coming(c)' /\ new(c).n >= sent'
    BY <1>1, <1>2, <1>3, <1>4 DEF Coming
  <2>2. ASSUME NEW r \in Coming(c)', r.n >= sent' PROVE r.counts = Waiting
    <3>1. \A q \in requests : q.n \in 1 .. sent
      BY DEF D!TypeOK
    <3>2. r \notin requests
      BY <1>1, <2>2, <3>1
    <3>. QED
      BY <1>1, <1>3, <3>2 DEF Coming
  <2>3. ~(newest'[c] >= sent') /\ sent' \in 1 .. sent'
    BY <1>1 DEF D!TypeOK
  <2>4. /\ \A r \in Coming(c)' : r.n >= sent' => r.counts \in {Waiting, server'[c], Empty}
        /\ \E r \in Coming(c)' : r.n >= sent'
    BY <2>1, <2>2
  <2>. QED
    BY <2>1, <2>3, <2>4 DEF UpToDate
<1>. QED
  BY <1>5, <1>6, <1>7

\* A card that nothing happened to.
LEMMA Untouched ==
    ASSUME D!TypeOK, NEW c \in Cards, UpToDate(c), Coming(c)' = Coming(c),
           sent \in Nat, sent' \in Nat, sent' >= sent,
           server'[c] = server[c], newest'[c] = newest[c], counts'[c] = counts[c],
           c \in outdated => c \in outdated'
    PROVE  UpToDate(c)'
<1>1. PICK k \in 1 .. sent :
        /\ \A r \in Coming(c) : r.n >= k => r.counts \in {Waiting, server[c], Empty}
        /\ IF newest[c] >= k THEN c \in outdated \/ counts[c] \in {server[c], Empty}
           ELSE \E r \in Coming(c) : r.n >= k
  BY DEF UpToDate
<1>2. k \in 1 .. sent'
  OBVIOUS
<1>3. \A r \in Coming(c)' : r.n >= k => r.counts \in {Waiting, server'[c], Empty}
  BY <1>1
<1>4. IF newest'[c] >= k THEN c \in outdated' \/ counts'[c] \in {server'[c], Empty}
      ELSE \E r \in Coming(c)' : r.n >= k
  BY <1>1
<1>. QED
  BY <1>2, <1>3, <1>4 DEF UpToDate

LEMMA InitialiseCards ==
    ASSUME D!TypeOK, document # 0, UNCHANGED document, D!initializeDashboard
    PROVE  \A c \in Cards : CardInv(c)'
<1>1. D!fetchStats(Cards, runs + 1) /\ UNCHANGED <<late, newest>> /\ Cards \in SUBSET Cards
  BY DEF D!initializeDashboard, D!card
<1>2. \A c \in Cards : UpToDate(c)' /\ Coming(c)' # {}
  BY <1>1, Requested
<1>. QED
  BY <1>2 DEF CardInv

LEMMA TimerCards ==
    ASSUME D!TypeOK, document # 0, UNCHANGED document, \A c \in Cards : CardInv(c),
           NEW c \in Cards, D!TimerFires(c)
    PROVE  \A d \in Cards : CardInv(d)'
<1>1. /\ D!fetchStats({c}, 0) /\ ticking' = ticking \ {c} /\ {c} \in SUBSET Cards
      /\ UNCHANGED <<late, newest, server, counts, outdated, notices, missed>>
  BY DEF D!TimerFires, D!card
<1>2. /\ UpToDate(c)' /\ Coming(c)' # {}
      /\ \A d \in Cards \ {c} : Coming(d)' = Coming(d)
  BY <1>1, Requested
<1>3. sent \in Nat /\ sent' = sent + 1
  BY <1>1 DEF D!fetchStats, D!TypeOK
<1>4. ASSUME NEW d \in Cards, d # c PROVE CardInv(d)'
  <2>1. Coming(d)' = Coming(d)
    BY <1>2, <1>4
  <2>2. UpToDate(d) => UpToDate(d)'
    BY <1>1, <1>3, <2>1, Untouched
  <2>3. Noticed(d) => Noticed(d)'
    BY <1>1, <1>4 DEF Noticed
  <2>. QED
    BY <1>1, <2>1, <2>2, <2>3 DEF CardInv
<1>. QED
  BY <1>2, <1>4 DEF CardInv

LEMMA HandleCards ==
    ASSUME D!TypeOK, UNCHANGED document, \A c \in Cards : CardInv(c),
           NEW r \in requests, NEW x, D!Handle(r, x)
    PROVE  \A c \in Cards : CardInv(c)'
<1>. DEFINE a == [r EXCEPT !.counts = x]
<1>1. /\ requests' = (requests \ {r}) \cup {a}
      /\ x \in {server[r.card], Empty} /\ r.counts = Waiting
      /\ UNCHANGED <<late, server, counts, newest, outdated, sent, notices, ticking, missed>>
  BY DEF D!Handle, D!card, D!timers
<1>2. r \in Ask(sent, runs)
  BY DEF D!TypeOK, Ask
<1>3. /\ a.card = r.card /\ a.n = r.n /\ a.document = r.document /\ a.counts = x
  BY <1>2 DEF Ask
<1>. HIDE DEF a
<1>4. \A q : D!InDocument(q)' <=> D!InDocument(q)
  BY <1>1 DEF D!InDocument
<1>5. D!InDocument(a) <=> D!InDocument(r)
  BY <1>3 DEF D!InDocument
<1>6. ASSUME NEW c \in Cards
      PROVE  /\ \A q \in Coming(c)' : q \in Coming(c) \/ (q = a /\ r \in Coming(c))
             /\ \A q \in Coming(c) : q \in Coming(c)' \/ (q = r /\ a \in Coming(c)')
  <2>1. ASSUME NEW q \in Coming(c)' PROVE q \in Coming(c) \/ (q = a /\ r \in Coming(c))
    <3>1. q \in requests' /\ q.card = c /\ D!InDocument(q)
      BY <1>4, <2>1 DEF Coming
    <3>. QED
      BY <1>1, <1>3, <1>5, <3>1 DEF Coming
  <2>2. ASSUME NEW q \in Coming(c) PROVE q \in Coming(c)' \/ (q = r /\ a \in Coming(c)')
    <3>1. q \in requests /\ q.card = c /\ D!InDocument(q)'
      BY <1>4, <2>2 DEF Coming
    <3>2. q = r => a \in Coming(c)'
      BY <1>1, <1>3, <1>4, <1>5, <3>1 DEF Coming
    <3>. QED
      BY <1>1, <3>1, <3>2 DEF Coming
  <2>. QED
    BY <2>1, <2>2
<1>7. ASSUME NEW c \in Cards, UpToDate(c) PROVE UpToDate(c)'
  <2>1. PICK k \in 1 .. sent :
          /\ \A q \in Coming(c) : q.n >= k => q.counts \in {Waiting, server[c], Empty}
          /\ IF newest[c] >= k THEN c \in outdated \/ counts[c] \in {server[c], Empty}
             ELSE \E q \in Coming(c) : q.n >= k
    BY <1>7 DEF UpToDate
  <2>2. ASSUME NEW q \in Coming(c)', q.n >= k
        PROVE  q.counts \in {Waiting, server[c], Empty}
    <3>1. CASE q \in Coming(c)
      BY <2>1, <2>2, <3>1
    <3>2. CASE q = a /\ r \in Coming(c)
      BY <1>1, <1>3, <3>2 DEF Coming
    <3>. QED
      BY <1>6, <3>1, <3>2
  <2>3. (\E q \in Coming(c) : q.n >= k) => \E q \in Coming(c)' : q.n >= k
    BY <1>3, <1>6
  <2>4. k \in 1 .. sent'
    BY <1>1
  <2>. QED
    BY <1>1, <2>1, <2>2, <2>3, <2>4 DEF UpToDate
<1>8. \A c \in Cards : Noticed(c)' = Noticed(c)
  BY <1>1 DEF Noticed
<1>9. \A c \in Cards : Coming(c) # {} => Coming(c)' # {}
  BY <1>6
<1>. QED
  BY <1>1, <1>7, <1>8, <1>9 DEF CardInv

LEMMA UpdateCards ==
    ASSUME D!TypeOK, UNCHANGED document, \A c \in Cards : CardInv(c),
           NEW r \in requests, D!updateCard(r)
    PROVE  \A c \in Cards : CardInv(c)'
<1>1. /\ requests' = requests \ {r} /\ r.counts # Waiting
      /\ UNCHANGED <<late, server, sent, notices, ticking, missed>>
  BY DEF D!updateCard, D!timers
<1>2. r \in Ask(sent, runs) /\ sent \in Nat
  BY DEF D!TypeOK, Ask
<1>3. \A q : D!InDocument(q)' <=> D!InDocument(q)
  BY <1>1 DEF D!InDocument
<1>4. \A c \in Cards : Noticed(c)' = Noticed(c)
  BY <1>1 DEF Noticed
<1>5. ASSUME NEW c \in Cards, r \notin Coming(c) PROVE CardInv(c)'
  <2>1. Coming(c)' = Coming(c)
    BY <1>1, <1>3, <1>5 DEF Coming
  <2>2. ~D!InDocument(r) \/ r.card # c
    BY <1>5 DEF Coming
  <2>3. /\ newest'[c] = newest[c] /\ counts'[c] = counts[c]
        /\ c \in outdated => c \in outdated'
    BY <1>2, <2>2 DEF D!updateCard, D!card, D!TypeOK, Ask
  <2>4. UpToDate(c) => UpToDate(c)'
    BY <1>1, <1>2, <2>1, <2>3, Untouched
  <2>. QED
    BY <1>4, <2>1, <2>3, <2>4 DEF CardInv
<1>6. ASSUME NEW c \in Cards, r \in Coming(c) PROVE CardInv(c)'
  <2>1. /\ r.card = c /\ D!InDocument(r)
        /\ Coming(c)' = Coming(c) \ {r}
    BY <1>1, <1>3, <1>6 DEF Coming
  <2>2. /\ counts'[c] = r.counts
        /\ r.n < newest[c] => c \in outdated'
        /\ newest'[c] = IF r.n < newest[c] THEN newest[c] ELSE r.n
    BY <2>1 DEF D!updateCard, D!TypeOK
  <2>3. newest[c] \in Nat /\ r.n \in 1 .. sent
    BY <1>2 DEF D!TypeOK, Ask
  <2>4. newest'[c] > 0
    BY <2>2, <2>3
  <2>5. ASSUME UpToDate(c) PROVE UpToDate(c)'
    <3>1. PICK k \in 1 .. sent :
            /\ \A q \in Coming(c) : q.n >= k => q.counts \in {Waiting, server[c], Empty}
            /\ IF newest[c] >= k THEN c \in outdated \/ counts[c] \in {server[c], Empty}
               ELSE \E q \in Coming(c) : q.n >= k
      BY <2>5 DEF UpToDate
    <3>2. \A q \in Coming(c)' : q.n >= k => q.counts \in {Waiting, server[c], Empty}
      BY <2>1, <3>1
    <3>3. CASE r.n < newest[c] /\ newest[c] >= k
      BY <1>1, <2>2, <3>2, <3>3 DEF UpToDate
    <3>4. CASE r.n >= newest[c] /\ r.n >= k
      <4>1. counts'[c] \in {server[c], Empty}
        BY <1>1, <1>6, <2>2, <3>1, <3>4
      <4>2. newest'[c] >= k
        BY <2>2, <2>3, <3>4
      <4>. QED
        BY <1>1, <3>2, <4>1, <4>2 DEF UpToDate
    <3>5. CASE r.n < k /\ newest[c] < k
      <4>1. PICK q \in Coming(c) : q.n >= k
        BY <2>3, <3>1, <3>5
      <4>2. q \in Coming(c)' /\ ~(newest'[c] >= k)
        BY <2>1, <2>2, <2>3, <3>5, <4>1
      <4>. QED
        BY <1>1, <3>2, <4>1, <4>2 DEF UpToDate
    <3>. QED
      BY <2>3, <3>3, <3>4, <3>5
  <2>. QED
    BY <1>4, <2>4, <2>5 DEF CardInv
<1>. QED
  BY <1>5, <1>6

LEMMA StepCards ==
    ASSUME TypeOK, CardsInv, UNCHANGED vars, D!Step PROVE CardsInv'
<1>1. D!TypeOK /\ D!TypeOK' /\ sent \in Nat
  BY StepTypes DEF CardsInv, D!TypeOK
<1>2. UNCHANGED <<document, initialised>> /\ Ready' = Ready
  BY DEF vars, shown, document, Section, Ready
<1>3. ticking' = refreshTimers'
  BY DEF CardsInv, D!Step, D!Started, D!Change, D!debouncedCardRefresh, D!TimerFires,
         D!Handle, D!updateCard, D!card, D!timers
<1>4. ASSUME document # 0, \A c \in Cards : CardInv(c) PROVE \A c \in Cards : CardInv(c)'
  <2>1. ASSUME NEW c \in Cards, UNCHANGED <<document, late, requests>>
        PROVE  Coming(c)' = Coming(c)
    BY <2>1 DEF Coming, D!InDocument
  <2>2. ASSUME NEW run \in starting, D!Started(run), NEW c \in Cards PROVE CardInv(c)'
    BY <1>1, <1>2, <1>4, <2>1, <2>2, Untouched
       DEF D!Started, D!card, D!timers, CardInv, Noticed
  <2>3. ASSUME NEW d \in Cards, D!Change(d), NEW c \in Cards PROVE CardInv(c)'
    <3>1. /\ Coming(c)' = Coming(c)
          /\ Noticed(c) => Noticed(c)'
          /\ c = d => Noticed(c)'
          /\ UNCHANGED <<sent, newest, counts, outdated>>
      BY <1>2, <2>1, <2>3 DEF D!Change, D!card, D!timers, Noticed
    <3>2. c # d => server'[c] = server[c]
      BY <1>1, <2>3 DEF D!Change, D!TypeOK
    <3>3. c # d /\ UpToDate(c) => UpToDate(c)'
      BY <1>1, <3>1, <3>2, Untouched
    <3>. QED
      BY <1>4, <3>1, <3>3 DEF CardInv
  <2>4. ASSUME NEW d \in Cards, D!debouncedCardRefresh(d), NEW c \in Cards PROVE CardInv(c)'
    <3>1. /\ Coming(c)' = Coming(c)
          /\ UNCHANGED <<sent, server, newest, counts, outdated>>
      BY <1>2, <2>1, <2>4 DEF D!debouncedCardRefresh, D!card
    <3>2. Noticed(c) => Noticed(c)'
      BY <2>4 DEF D!debouncedCardRefresh, D!timers, Noticed, CardsInv
    <3>3. UpToDate(c) => UpToDate(c)'
      BY <1>1, <3>1, Untouched
    <3>. QED
      BY <1>4, <3>1, <3>2, <3>3 DEF CardInv
  <2>5. ASSUME NEW c \in Cards, D!TimerFires(c) PROVE \A d \in Cards : CardInv(d)'
    BY <1>1, <1>2, <1>4, <2>5, TimerCards
  <2>6. ASSUME NEW r \in requests, NEW x, D!Handle(r, x) PROVE \A c \in Cards : CardInv(c)'
    BY <1>1, <1>2, <1>4, <2>6, HandleCards
  <2>7. ASSUME NEW r \in requests, D!updateCard(r) PROVE \A c \in Cards : CardInv(c)'
    BY <1>1, <1>2, <1>4, <2>7, UpdateCards
  <2>. QED
    BY <2>2, <2>3, <2>4, <2>5, <2>6, <2>7 DEF D!Step
<1>. QED
  BY <1>1, <1>2, <1>3, <1>4 DEF CardsInv, Ready

(***************************************************************************)
(* The page                                                                *)
(***************************************************************************)
LEMMA InitCards == ASSUME PortalInit PROVE CardsInv
<1>1. D!TypeOK
  BY PortalAssumption DEF PortalInit, D!Init, D!TypeOK, D!Counts
<1>2. document = 0
  BY DEF PortalInit, Init, document
<1>. QED
  BY <1>1, <1>2 DEF CardsInv, Ready, PortalInit, D!Init

LEMMA ReplacedCards == ASSUME CardsInv, ContentReplaced PROVE CardsInv'
<1>1. /\ counts' = [c \in Cards |-> Empty] /\ newest' = [c \in Cards |-> 0]
      /\ outdated' = {}
      /\ UNCHANGED <<late, server, runs, requests, sent, starting, subscribers, notices,
                     refreshTimers, ticking, missed>>
  BY DEF ContentReplaced, D!NewDocument, D!timers
<1>2. initialised' = << >>
  BY DEF ContentReplaced, Show, FetchFailed
<1>3. D!TypeOK'
  BY <1>1 DEF CardsInv, D!TypeOK, D!Counts
<1>. QED
  BY <1>1, <1>2, <1>3 DEF CardsInv, Ready

LEMMA InitialisedCards == ASSUME Inv, CardsInv, ContentIsInitialised PROVE CardsInv'
<1>. DEFINE section == loads[Head(settling)]
<1>1. /\ initialised' = Append(initialised, section)
      /\ settling # << >>
      /\ UNCHANGED document
  BY DEF ContentIsInitialised, Initialise, document, Section
<1>2. TypeOK /\ D!TypeOK
  BY DEF Inv, CardsInv
<1>3. section \in Sections
  BY <1>1, <1>2, LastOfTail, ElementOfSeq DEF TypeOK, Loads
<1>4. CASE section = dashboard
  <2>1. D!initializeDashboard
    BY <1>4 DEF ContentIsInitialised
  <2>2. D!TypeOK' /\ ticking' = refreshTimers'
    BY <1>2, <2>1, InitialiseTypes DEF CardsInv, D!initializeDashboard, D!timers
  <2>3. document' # 0 => \A c \in Cards : CardInv(c)'
    BY <1>1, <1>2, <2>1, InitialiseCards
  <2>. QED
    BY <2>2, <2>3 DEF CardsInv, Ready
<1>5. CASE section # dashboard
  <2>1. UNCHANGED cardVars
    BY <1>5 DEF ContentIsInitialised
  <2>2. Ready' => Ready
    <3>. HIDE DEF section
    <3>1. initialised \in Seq(Sections)
      BY <1>2 DEF TypeOK
    <3>2. /\ Len(initialised') = Len(initialised) + 1 /\ Len(initialised) \in Nat
          /\ DOMAIN initialised' = 1 .. Len(initialised')
          /\ DOMAIN initialised = 1 .. Len(initialised)
          /\ \A i \in 1 .. Len(initialised) : initialised'[i] = initialised[i]
          /\ initialised'[Len(initialised) + 1] = section
      BY <1>1, <1>3, <3>1, AppendProperties, LenProperties
    <3>3. ASSUME NEW i \in DOMAIN initialised', initialised'[i] = dashboard
          PROVE  i \in DOMAIN initialised /\ initialised[i] = dashboard
      BY <1>5, <3>2, <3>3
    <3>. QED
      BY <1>1, <3>3 DEF Ready
  <2>3. D!TypeOK'
    BY <1>2, <2>1 DEF cardVars, D!TypeOK, D!Counts
  <2>4. ASSUME NEW c \in Cards PROVE CardInv(c)' = CardInv(c)
    BY <1>1, <2>1 DEF CardInv, Noticed, UpToDate, Coming, D!InDocument, cardVars
  <2>. QED
    BY <2>1, <2>2, <2>3, <2>4 DEF CardsInv, cardVars
<1>. QED
  BY <1>4, <1>5

PageInv == Inv /\ CardsInv

LEMMA PageStep == PageInv /\ [PortalNext]_<<vars, cardVars>> => PageInv'
<1>. SUFFICES ASSUME PageInv, [PortalNext]_<<vars, cardVars>> PROVE PageInv'
  OBVIOUS
<1>0. Inv /\ CardsInv /\ TypeOK
  BY DEF PageInv, Inv
<1>1. Inv'
  BY <1>0, PortalStep, NextInv
<1>2. CASE ContentStays
  BY <1>0, <1>1, <1>2, ContentStaysDocument, CardsStay DEF PageInv
<1>3. CASE ContentReplaced
  BY <1>0, <1>1, <1>3, ReplacedCards DEF PageInv
<1>4. CASE ContentIsInitialised
  BY <1>0, <1>1, <1>4, InitialisedCards DEF PageInv
<1>5. CASE CardsWork
  BY <1>0, <1>1, <1>5, StepCards DEF PageInv, CardsWork
<1>6. CASE UNCHANGED <<vars, cardVars>>
  <2>1. UNCHANGED <<document, initialised, cardVars>>
    BY <1>6 DEF vars, shown, document, Section
  <2>. QED
    BY <1>0, <1>1, <2>1, CardsStay DEF PageInv
<1>. QED
  BY <1>2, <1>3, <1>4, <1>5, <1>6 DEF PortalNext

THEOREM PageInvariant == PortalSpec => []PageInv
<1>1. PortalInit => PageInv
  BY InitInv, InitCards DEF PortalInit, PageInv
<1>. QED
  BY <1>1, PageStep, PTL DEF PortalSpec

\* The variables of the loader (sections.js) and of the cards
\* (dashboard-init.js) have their types.
THEOREM PageTypes == PortalSpec => []TypesOK
<1>1. PageInv => TypesOK
  BY DEF PageInv, Inv, CardsInv, TypesOK
<1>. QED
  BY <1>1, PageInvariant, PTL

\* The dashboard that stays had its initialiser.
LEMMA RestingDashboard ==
    ASSUME PageInv, AtRest, document # 0 PROVE \A c \in Cards : CardInv(c)
<1>1. /\ Section = dashboard /\ ~failed /\ content # 0
      /\ settling = << >>
  BY DEF document, AtRest
<1>2. \E i \in DOMAIN initialised : initialised[i] = Section
  BY <1>1 DEF PageInv, Inv, WillInitialise
<1>. QED
  BY <1>1, <1>2 DEF PageInv, CardsInv, Ready

\* On the dashboard that stays each card shows what its service has, or that it
\* has nothing, unless an answer was overtaken or a change came before the first
\* subscription (dashboard-init.js).
THEOREM Settling == PortalSpec => []CardsSettle
<1>1. PageInv => CardsSettle
  <2>. SUFFICES ASSUME PageInv, AtRest, document # 0, D!Quiet,
                       NEW c \in Cards \ (outdated \cup missed)
                PROVE  counts[c] \in {server[c], Empty}
    BY DEF CardsSettle, D!CardsSettle
  <2>1. requests = {} /\ ~Noticed(c)
    BY DEF D!Quiet, Noticed
  <2>2. Coming(c) = {} /\ UpToDate(c)
    BY <2>1, RestingDashboard DEF Coming, CardInv
  <2>. QED
    BY <2>2 DEF UpToDate
<1>. QED
  BY <1>1, PageInvariant, PTL

\* Every card of the dashboard that stays has been filled in from an answer,
\* whichever load's initialiser it had (dashboard-init.js).
THEOREM Filling == PortalSpec => []CardsFilled
<1>1. PageInv => CardsFilled
  <2>. SUFFICES ASSUME PageInv, AtRest, Section = dashboard, ~failed, D!Quiet,
                       NEW c \in Cards
                PROVE  newest[c] > 0
    BY DEF CardsFilled
  <2>1. document # 0
    <3>1. content # 0
      BY LoaderAssumption DEF Section
    <3>. QED
      BY <3>1 DEF document
  <2>2. Coming(c) = {}
    BY DEF D!Quiet, Coming
  <2>. QED
    BY <2>1, <2>2, RestingDashboard DEF CardInv
<1>. QED
  BY <1>1, PageInvariant, PTL
=============================================================================

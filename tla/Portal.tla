--------------------------------- MODULE Portal ---------------------------------
(***************************************************************************)
(* The desktop page: the section loader and the dashboard it loads.        *)
(*                                                                         *)
(* The content is the loader's; the cards live in it.  A page shown, or an *)
(* error, replaces the cards; the initialiser of a load of the dashboard   *)
(* is initializeDashboard, run on whatever is the content by then; the     *)
(* dashboard's requests, timers and subscriptions outlive the document,    *)
(* and its own steps come between the loader's in any order.               *)
(***************************************************************************)
EXTENDS SectionLoader

CONSTANTS
    Cards, Empty, Waiting,
    MaxChanges              \* bound: the changes of each kind's counts

ASSUME PortalAssumption ==
    /\ Empty \notin Int /\ Waiting \notin Int \cup {Empty}
    /\ MaxChanges \in Nat

VARIABLES
    late, server, runs, counts, requests, sent, starting, subscribers, notices,
    refreshTimers, ticking, newest, outdated, missed        \* Dashboard's

\* The document that the cards are in.
document == IF Section = dashboard /\ ~failed THEN content ELSE 0

D == INSTANCE Dashboard WITH shown <- counts, overtaken <- outdated

cardVars == <<late, server, runs, counts, requests, sent, starting, subscribers, notices,
              refreshTimers, ticking, newest, outdated, missed>>

PortalInit == Init /\ D!Init

\* A click, or a page that comes and waits, leaves the content and its cards.
ContentStays ==
    /\ \/ \E s \in Sections : ClickLink(s) \/ ClickCard(s)
       \/ \E n \in fetches : Fetched(n)
       \/ \E t \in Tabs : ClickTab(t)
    /\ UNCHANGED cardVars

ContentReplaced ==
    /\ Show \/ \E n \in fetches : FetchFailed(n)
    /\ D!NewDocument

ContentIsInitialised ==
    /\ Initialise
    /\ IF loads[Head(settling)] = dashboard THEN D!initializeDashboard ELSE UNCHANGED cardVars

CardsWork == UNCHANGED vars /\ D!Step

PortalNext == ContentStays \/ ContentReplaced \/ ContentIsInitialised \/ CardsWork

\* Timers and requests of the loader are fair, as in SectionLoader; of the
\* dashboard's steps nothing is needed.
PortalSpec == PortalInit /\ [][PortalNext]_<<vars, cardVars>> /\ Fairness
-----------------------------------------------------------------------------
(***************************************************************************)
(* Properties                                                              *)
(***************************************************************************)

TypesOK == TypeOK /\ D!TypeOK

\* On the dashboard that stays, nothing on its way, each card shows what the
\* service has or that it has nothing: whatever was left, loaded twice or changed
\* meanwhile.  The exceptions are those of Dashboard.
CardsSettle == AtRest => D!CardsSettle

\* The dashboard that stays is never left blank: every card has been filled in
\* from an answer, though the initialiser may have been another load's, and the
\* answers those of a document that is gone.
CardsFilled ==
    AtRest /\ Section = dashboard /\ ~failed /\ D!Quiet =>
        \A c \in Cards : newest[c] > 0
=============================================================================

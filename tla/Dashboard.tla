------------------------------- MODULE Dashboard -------------------------------
(***************************************************************************)
(* The cards of the dashboard.  Each shows the counts of a kind of device, *)
(* fetched when the section is initialised; when the three have come the   *)
(* page subscribes to the changes of each kind, and a change fetches the   *)
(* card's counts again after a timer of one second, during which further   *)
(* changes set no other timer.  Nothing ends a subscription.               *)
(*                                                                         *)
(* dashboard/dashboard-init.js.  The services, the connection that brings  *)
(* the changes and the alarms table are external.  The document belongs to *)
(* the section loader: Portal says when it is replaced, and when           *)
(* initializeDashboard runs.                                               *)
(***************************************************************************)
EXTENDS Integers, FiniteSets

CONSTANTS
    Cards,
    Empty,          \* "--": no counts
    Waiting,        \* a request not handled yet
    MaxChanges      \* bound: the changes of each kind's counts

VARIABLES
    document,       \* the document of the section that is the content, by its
                    \* load; 0 when the content is something else
    late,           \* the cards whose function looks its card up after the answer
    server,         \* the counts each service has, by their version
    runs,           \* the runs of initializeDashboard so far
    shown,          \* the counts each card of the document shows
    requests,       \* those whose answer has not come
    sent,           \* how many times requests were sent
    starting,       \* the runs that wait for their three answers
    subscribers,    \* the runs that subscribed
    notices,        \* the changes on their way to the page
    refreshTimers,  \* the cards for which _dashboardRefreshTimers is set
    ticking,        \* the cards whose timer will fire
    newest,         \* history: by card, the latest request whose answer is in
                    \* the document; 0 when none is
    overtaken,      \* history: the cards that show the answer of an older one
    missed          \* history: the cards changed when nobody had subscribed

card == <<shown, newest, overtaken>>
timers == <<refreshTimers, ticking>>

Init ==
    /\ late \in SUBSET Cards
    /\ server = [c \in Cards |-> 0]
    /\ runs = 0
    /\ shown = [c \in Cards |-> Empty]
    /\ requests = {} /\ sent = 0
    /\ starting = {} /\ subscribers = {}
    /\ notices = {} /\ refreshTimers = {} /\ ticking = {}
    /\ newest = [c \in Cards |-> 0]
    /\ overtaken = {} /\ missed = {}

\* Requests of the cards C, for the run that waits for the answers.  A card that
\* is looked up first is none in another section; the answer fills in the card
\* that was found, of a document that may be gone by then.
fetchStats(C, run) ==
    /\ sent' = sent + 1
    /\ requests' = requests \cup
           {[card |-> c, n |-> sent + 1, run |-> run, counts |-> Waiting,
             document |-> IF c \in late THEN 0 ELSE document] :
               c \in {c \in C : document # 0 \/ c \in late}}

(***************************************************************************)
(* The section                                                             *)
(***************************************************************************)

\* Mutation: only the first run fetches, the others wait for its answers.
initializeOnce ==
    /\ runs' = runs + 1
    /\ IF runs = 0 THEN fetchStats(Cards, runs + 1) ELSE UNCHANGED <<requests, sent>>
    /\ starting' = starting \cup {runs + 1}
    /\ missed' = {}
    /\ UNCHANGED <<late, server, card, subscribers, notices, timers>>

\* Two loads of the section that cross run it twice on one document; another
\* section may be on by the time it runs.  What was missed will be seen.
initializeDashboard ==
    /\ runs' = runs + 1
    /\ fetchStats(Cards, runs + 1)
    /\ starting' = starting \cup {runs + 1}
    /\ missed' = {}
    /\ UNCHANGED <<late, server, card, subscribers, notices, timers>>

\* The cards of a document that has just become the content.
NewDocument ==
    /\ shown' = [c \in Cards |-> Empty]
    /\ newest' = [c \in Cards |-> 0] /\ overtaken' = {}
    /\ UNCHANGED <<late, server, runs, requests, sent, starting, subscribers, notices,
                   timers, missed>>

Answers(run) == {r \in requests : r.run = run}

\* The alarms table comes first: when the section was left it has no container,
\* and the table may refuse it.
Started(run) ==
    /\ run \in starting /\ Answers(run) = {}
    /\ starting' = starting \ {run}
    /\ \/ subscribers' = subscribers \cup {run}
       \/ document = 0 /\ UNCHANGED subscribers
    /\ UNCHANGED <<late, server, runs, card, requests, sent, notices, timers, missed>>

(***************************************************************************)
(* Changes                                                                 *)
(***************************************************************************)
Change(c) ==
    /\ server[c] < MaxChanges
    /\ server' = [server EXCEPT ![c] = @ + 1]
    /\ notices' = notices \cup {c}
    /\ UNCHANGED <<late, runs, card, requests, sent, starting, subscribers,
                   timers, missed>>

debouncedCardRefresh(c) ==
    /\ c \in notices
    /\ notices' = notices \ {c}
    /\ IF subscribers = {}
       THEN missed' = missed \cup {c} /\ UNCHANGED timers
       ELSE /\ ticking' = IF c \in refreshTimers THEN ticking ELSE ticking \cup {c}
            /\ refreshTimers' = refreshTimers \cup {c}
            /\ UNCHANGED missed
    /\ UNCHANGED <<late, server, runs, card, requests, sent, starting, subscribers>>

\* Mutation: a change is dropped while an answer of the card is awaited.
TimerFiresIdle(c) ==
    /\ c \in ticking
    /\ ticking' = ticking \ {c} /\ refreshTimers' = refreshTimers \ {c}
    /\ IF \E r \in requests : r.card = c THEN UNCHANGED <<requests, sent>>
       ELSE fetchStats({c}, 0)
    /\ UNCHANGED <<late, server, runs, card, starting, subscribers, notices, missed>>

TimerFires(c) ==
    /\ c \in ticking
    /\ ticking' = ticking \ {c} /\ refreshTimers' = refreshTimers \ {c}
    /\ fetchStats({c}, 0)
    /\ UNCHANGED <<late, server, runs, card, starting, subscribers, notices, missed>>

(***************************************************************************)
(* Answers                                                                 *)
(***************************************************************************)

\* The services answer in any order; no counts when a request fails.
Handle(r, counts) ==
    /\ r \in requests /\ r.counts = Waiting
    /\ counts \in {server[r.card], Empty}
    /\ requests' = (requests \ {r}) \cup {[r EXCEPT !.counts = counts]}
    /\ UNCHANGED <<late, server, runs, card, sent, starting, subscribers, notices,
                   timers, missed>>

\* A card found before the request may be one of a document that is gone.
InDocument(r) == document # 0 /\ (r.card \in late \/ r.document = document)

updateCard(r) ==
    /\ r \in requests /\ r.counts # Waiting
    /\ requests' = requests \ {r}
    /\ IF ~InDocument(r) THEN UNCHANGED card
       ELSE /\ shown' = [shown EXCEPT ![r.card] = r.counts]
            /\ overtaken' = IF r.n < newest[r.card] THEN overtaken \cup {r.card}
                            ELSE overtaken \ {r.card}
            /\ newest' = [newest EXCEPT ![r.card] = IF r.n < @ THEN @ ELSE r.n]
    /\ UNCHANGED <<late, server, runs, sent, starting, subscribers, notices,
                   timers, missed>>

\* What happens while the document stays.
Step ==
    \/ \E run \in starting : Started(run)
    \/ \E c \in Cards : Change(c) \/ debouncedCardRefresh(c) \/ TimerFires(c)
    \/ \E r \in requests : \/ \E counts \in {server[r.card], Empty} : Handle(r, counts)
                           \/ updateCard(r)
-----------------------------------------------------------------------------
(***************************************************************************)
(* Properties                                                              *)
(***************************************************************************)
Counts == 0 .. MaxChanges \cup {Empty}

TypeOK ==
    /\ late \subseteq Cards
    /\ server \in [Cards -> 0 .. MaxChanges]
    /\ runs \in Nat
    /\ shown \in [Cards -> Counts]
    /\ requests \subseteq [card : Cards, n : 1 .. sent, document : Nat,
                           run : 0 .. runs,
                           counts : Counts \cup {Waiting}]
    /\ sent \in Nat
    /\ starting \subseteq 1 .. runs /\ subscribers \subseteq 1 .. runs
    /\ notices \subseteq Cards
    /\ refreshTimers \subseteq Cards /\ ticking \subseteq refreshTimers
    /\ newest \in [Cards -> 0 .. sent]
    /\ overtaken \subseteq Cards /\ missed \subseteq Cards

Quiet == requests = {} /\ notices = {} /\ ticking = {} /\ starting = {}

\* When nothing is on its way the cards show the counts the services have, or
\* none: whatever crossed - visits left before their answers, changes during a
\* debounce or during the first load - no change is lost.  Two cases escape, both
\* the code's: an answer that comes after that of a later request, and a change
\* between the first load and the subscription that follows it.
CardsSettle ==
    document # 0 /\ Quiet =>
        \A c \in Cards \ (overtaken \cup missed) : shown[c] \in {server[c], Empty}
=============================================================================

----------------------------- MODULE SectionLoader -----------------------------
(***************************************************************************)
(* The sections of the desktop page.  A click in the menu, or on a card of *)
(* the dashboard, fetches a section's page.  When it has come a first      *)
(* timer lets the old content fade, then the page replaces the content; a  *)
(* second timer lets the document settle, then the section's initialiser   *)
(* runs on whatever the content is by then.  The section of hosts has tabs *)
(* whose tables are made when the tab is first opened.                     *)
(*                                                                         *)
(* js/sections.js, the navigation of js/app.js and of                      *)
(* dashboard/dashboard-init.js, and js/hosts.js.  What the initialisers of *)
(* the other sections do is left out: here they only leave their mark.     *)
(***************************************************************************)
EXTENDS Integers, Sequences, FiniteSets

CONSTANTS
    Sections,
    dashboard, hosts,     \* two of them: the one with cards and the one with tabs
    None,
    MaxLoads              \* bound: the loads of a behavior

Tabs == {"hypervisors", "vms"}

ASSUME LoaderAssumption ==
    /\ {dashboard, hosts} \subseteq Sections
    /\ None \notin Sections
    /\ MaxLoads \in Nat

VARIABLES
    active,          \* the link of the menu that is highlighted
    loads,           \* the sections asked so far, in order
    fetches,         \* the loads whose page has not come
    fading,          \* timers of 200 ms: the loads whose page waits to be shown
    settling,        \* timers of 100 ms: the loads whose initialiser waits
    content,         \* the load whose page is the content; 0 when there is none
    failed,          \* the content is the error message of that load
    initialised,     \* the initialisers run on the content, one entry per run
    listeners,       \* click listeners of each card of the dashboard
    tab,             \* the tab of hosts that is open
    tables,          \* the tables that the content has
    tableInitialized,\* window.hypervisorsTableInitialized, window.vmsTableInitialized
    overtaken        \* history: an answer came before that of an earlier load,
                     \* or an error while an earlier page waited to be shown

timers == <<fading, settling>>
shown == <<content, failed, initialised, listeners, tab, tables>>
vars == <<active, loads, fetches, timers, shown, tableInitialized, overtaken>>

Section == IF content = 0 THEN None ELSE loads[content]

\* The page starts on the dashboard.
Init ==
    /\ active = dashboard
    /\ loads = <<dashboard>> /\ fetches = {1}
    /\ fading = << >> /\ settling = << >>
    /\ content = 0 /\ failed = FALSE /\ initialised = << >>
    /\ listeners = 0 /\ tab = None /\ tables = {}
    /\ tableInitialized = {}
    /\ overtaken = FALSE

(***************************************************************************)
(* Navigation                                                              *)
(***************************************************************************)
\* Mutation: a section asked while another is on its way is not fetched.
loadSectionOnce(sections) ==
    /\ Len(loads) + Len(sections) <= MaxLoads
    /\ loads' = loads \o sections
    /\ fetches' = IF fetches # {} THEN fetches
                  ELSE Len(loads) + 1 .. Len(loads) + Len(sections)

\* Mutation: the fetch is made for one section more than was asked.
loadSectionAndNext(sections) ==
    /\ Len(loads) + Len(sections) <= MaxLoads
    /\ loads' = loads \o sections
    /\ fetches' = fetches \cup (Len(loads) + 1 .. Len(loads) + Len(sections) + 1)

loadSection(sections) ==
    /\ Len(loads) + Len(sections) <= MaxLoads
    /\ loads' = loads \o sections
    /\ fetches' = fetches \cup (Len(loads) + 1 .. Len(loads) + Len(sections))

ClickLink(section) ==
    /\ active' = section
    /\ loadSection(<<section>>)
    /\ UNCHANGED <<timers, shown, tableInitialized, overtaken>>

\* Each listener loads the card's section; the menu's highlight stays.  The
\* cards lead to network devices, GPUs and Kubernetes.
ClickCard(section) ==
    /\ section \notin {dashboard, hosts}
    /\ Section = dashboard /\ ~failed
    /\ loadSection([i \in 1 .. listeners |-> section])
    /\ listeners > 0
    /\ UNCHANGED <<active, timers, shown, tableInitialized, overtaken>>

(***************************************************************************)
(* A load                                                                  *)
(***************************************************************************)
Overtakes(n) == \E m \in fetches : m < n

Fetched(n) ==
    /\ n \in fetches
    /\ fetches' = fetches \ {n}
    /\ fading' = Append(fading, n)
    /\ overtaken' = (overtaken \/ Overtakes(n))
    /\ UNCHANGED <<active, loads, settling, shown, tableInitialized>>

\* Mutation: nobody catches the error.
FetchUncaught(n) ==
    /\ n \in fetches
    /\ fetches' = fetches \ {n}
    /\ UNCHANGED <<active, loads, timers, shown, tableInitialized, overtaken>>

\* The error message is shown at once.
FetchFailed(n) ==
    /\ n \in fetches
    /\ fetches' = fetches \ {n}
    /\ content' = n /\ failed' = TRUE
    /\ initialised' = << >> /\ listeners' = 0 /\ tab' = None /\ tables' = {}
    /\ overtaken' = (overtaken \/ Overtakes(n) \/ fading # << >>)
    /\ UNCHANGED <<active, loads, timers, tableInitialized>>

\* Timers of one delay run in the order they were set.
Show ==
    /\ fading # << >>
    /\ content' = Head(fading) /\ failed' = FALSE
    /\ initialised' = << >> /\ listeners' = 0 /\ tables' = {}
    /\ tab' = IF loads[Head(fading)] = hosts THEN "hypervisors" ELSE None
    /\ fading' = Tail(fading)
    /\ settling' = Append(settling, Head(fading))
    /\ UNCHANGED <<active, loads, fetches, tableInitialized, overtaken>>

\* The tabs of hosts whose containers are not in the document get no table.
initializeTable(t) ==
    IF Section = hosts /\ ~failed
    THEN /\ tables' = tables \cup {t}
         /\ tableInitialized' = tableInitialized \cup {t}
    ELSE UNCHANGED <<tables, tableInitialized>>

\* Mutation: the initialiser of a load that is no longer the last does not run.
InitialiseLast ==
    /\ settling # << >>
    /\ settling' = Tail(settling)
    /\ initialised' = IF Head(settling) = Len(loads)
                      THEN Append(initialised, loads[Head(settling)]) ELSE initialised
    /\ listeners' = listeners
    /\ UNCHANGED <<tables, tableInitialized>>
    /\ UNCHANGED <<active, loads, fetches, fading, content, failed, tab, overtaken>>

\* The initialiser is the load's; the document it finds is the content.
Initialise ==
    /\ settling # << >>
    /\ settling' = Tail(settling)
    /\ LET section == loads[Head(settling)]
       IN  /\ initialised' = Append(initialised, section)
           /\ listeners' = IF section = dashboard /\ Section = dashboard /\ ~failed
                           THEN listeners + 1 ELSE listeners
           /\ IF section = hosts THEN initializeTable("hypervisors")
              ELSE UNCHANGED <<tables, tableInitialized>>
    /\ UNCHANGED <<active, loads, fetches, fading, content, failed, tab, overtaken>>

\* The listener of the tabs is set by the initialiser of hosts.
ClickTab(t) ==
    /\ Section = hosts /\ ~failed /\ \E i \in DOMAIN initialised : initialised[i] = hosts
    /\ tab' = t
    /\ IF t \notin tableInitialized THEN initializeTable(t)
       ELSE UNCHANGED <<tables, tableInitialized>>
    /\ UNCHANGED <<active, loads, fetches, timers, content, failed, initialised,
                   listeners, overtaken>>

Next ==
    \/ \E s \in Sections : ClickLink(s) \/ ClickCard(s)
    \/ \E n \in fetches : Fetched(n) \/ FetchFailed(n)
    \/ Show \/ Initialise
    \/ \E t \in Tabs : ClickTab(t)

\* The browser runs its timers and a request ends, with a page or an error.
Fairness == /\ WF_vars(Show) /\ WF_vars(Initialise)
            /\ \A n \in 1 .. MaxLoads : WF_vars(Fetched(n) \/ FetchFailed(n))

Spec == Init /\ [][Next]_vars /\ Fairness
-----------------------------------------------------------------------------
(***************************************************************************)
(* Properties                                                              *)
(***************************************************************************)
Loads == 1 .. Len(loads)

TypeOK ==
    /\ active \in Sections
    /\ loads \in Seq(Sections)
    /\ fetches \subseteq Loads
    /\ fading \in Seq(Loads) /\ settling \in Seq(Loads)
    /\ content \in 0 .. Len(loads)
    /\ failed \in BOOLEAN
    /\ initialised \in Seq(Sections)
    /\ listeners \in Nat
    /\ tab \in Tabs \cup {None}
    /\ tables \subseteq Tabs /\ tableInitialized \subseteq Tabs
    /\ overtaken \in BOOLEAN

AtRest == fetches = {} /\ fading = << >> /\ settling = << >>

\* However many loads cross, the page that stays has had its own section's
\* initialiser run on it: that of a page already replaced never takes its place.
ContentInitialised ==
    AtRest /\ content # 0 /\ ~failed =>
        \E i \in DOMAIN initialised : initialised[i] = Section

\* When answers come in the order of the clicks, and no error jumps over a page
\* that waits to be shown, the content is the section asked last.
LastAskedStays ==
    AtRest /\ ~overtaken => content = Len(loads)

\* hosts.js:25, "Initialize tables when switching tabs": a tab that is open has
\* its table, once the section of hosts is initialised.
TabHasTable ==
    AtRest /\ Section = hosts /\ ~failed => tab \in tables

\* No click is left without an answer: its page or its error is shown, or that
\* of a later click is on the screen when it comes.
EveryLoadShown == \A n \in 1 .. MaxLoads : n \in fetches ~> content >= n
=============================================================================

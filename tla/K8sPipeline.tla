------------------------------ MODULE K8sPipeline ------------------------------
(***************************************************************************)
(* How a record of a Kubernetes cluster reaches its cache.  The collector  *)
(* of the cluster, adcon, makes a target for each kind of object; a target *)
(* is polled for ever, and each poll sends a job to the parser of the      *)
(* target's link, which sends records to the cache of its own.  Adcon also *)
(* sends a record of the cluster itself, at its start and every 30 seconds.*)
(* The programs start, stop and start again in any order, and what is sent *)
(* to a service that is not there is lost.                                 *)
(*                                                                         *)
(* A record of a pod has fields that the parser makes of texts, with its   *)
(* Serializers.                                                            *)
(*                                                                         *)
(* adcon/main.go, adcon/summary.go, parser/main.go and inv_k8s/main.go.    *)
(* Polling, parsing and caching are libraries, modelled by how these       *)
(* programs use them.  The links do not depend on each other: a behavior   *)
(* follows one of them.                                                    *)
(***************************************************************************)
EXTENDS Links, Serializers

CONSTANTS
    Followed,       \* the links that behaviors follow
    MaxStops        \* bound: the programs that stop in a behavior

ASSUME PipelineAssumption == Followed \subseteq K8sLinks /\ MaxStops \in Nat

Programs == {"adcon", "parser", "inventory"}

VARIABLES
    link,           \* the link followed
    text,           \* of a field of the objects that adcon finds
    inCluster,      \* adcon can read the configuration of its cluster
    up,             \* the programs that run
    targets,        \* the links of the targets that adcon's collector polls
    publishing,     \* the publisher of the summary runs
    mail,           \* jobs and records on their way
    cache,          \* what the caches hold: a service and the link of the records
    stops

vars == <<link, text, inCluster, up, targets, publishing, mail, cache, stops>>

Init ==
    /\ link \in Followed
    /\ text \in IF link = "K8sPod" THEN Texts ELSE {nil}
    /\ inCluster \in BOOLEAN
    /\ up = {} /\ targets = {} /\ publishing = FALSE
    /\ mail = {} /\ cache = {}
    /\ stops = 0

(***************************************************************************)
(* Programs                                                                *)
(***************************************************************************)

\* The cluster's record has no target: it is not polled.
k8sPrimeObjectLinkIDs == K8sLinks \ {"K8sClust"}

\* The publisher gives up for good when it cannot read the configuration.
Start(p) ==
    /\ p \notin up
    /\ up' = up \cup {p}
    /\ publishing' = IF p = "adcon" THEN inCluster ELSE publishing
    /\ UNCHANGED <<link, text, inCluster, targets, mail, cache, stops>>

\* A program loses what it has in memory.
Stop(p) ==
    /\ stops < MaxStops /\ stops' = stops + 1
    /\ p \in up
    /\ up' = up \ {p}
    /\ targets' = IF p = "adcon" THEN {} ELSE targets
    /\ publishing' = (p # "adcon" /\ publishing)
    /\ cache' = IF p = "inventory" THEN {} ELSE cache
    /\ UNCHANGED <<link, text, inCluster, mail>>

\* The target's own link routes its jobs.
newK8sTarget == link

\* The loop of adcon's main.
PostTarget ==
    /\ "adcon" \in up /\ link \in k8sPrimeObjectLinkIDs
    /\ targets = {}
    /\ targets' = {newK8sTarget}
    /\ UNCHANGED <<link, text, inCluster, up, publishing, mail, cache, stops>>

(***************************************************************************)
(* Jobs and records                                                        *)
(***************************************************************************)
Send(to, of, has) == mail' = mail \cup {[to |-> to, of |-> of, has |-> has]}

Poll(target) ==
    /\ target \in targets
    /\ Send(Parser(target), link, text)
    /\ UNCHANGED <<link, text, inCluster, up, targets, publishing, cache, stops>>

\* Mutation: the summary is published once.
publishOnce ==
    /\ publishing
    /\ publishing' = FALSE
    /\ Send(Cache("K8sClust"), "K8sClust", nil)
    /\ UNCHANGED <<link, text, inCluster, up, targets, cache, stops>>

publish ==
    /\ publishing
    /\ Send(Cache("K8sClust"), "K8sClust", nil)
    /\ UNCHANGED <<link, text, inCluster, up, targets, publishing, cache, stops>>

\* A parser that has the message's address makes records of its own link.
Parsers(m) == {l \in ParserLinks : "parser" \in up /\ Parser(l) = m.to}
Caches(m) == {l \in K8sInventoryLinks : "inventory" \in up /\ Cache(l) = m.to}

Parse(m) ==
    /\ m \in mail
    /\ \E l \in Parsers(m) :
           mail' = (mail \ {m}) \cup {[to |-> Cache(l), of |-> l, has |-> Unmarshal(m.has)]}
    /\ UNCHANGED <<link, text, inCluster, up, targets, publishing, cache, stops>>

Store(m) ==
    /\ m \in mail
    /\ Caches(m) # {}
    /\ mail' = mail \ {m}
    /\ cache' = cache \cup {m}
    /\ UNCHANGED <<link, text, inCluster, up, targets, publishing, stops>>

Lose(m) ==
    /\ m \in mail
    /\ Parsers(m) = {} /\ Caches(m) = {}
    /\ mail' = mail \ {m}
    /\ UNCHANGED <<link, text, inCluster, up, targets, publishing, cache, stops>>

Next ==
    \/ \E p \in Programs : Start(p) \/ Stop(p)
    \/ PostTarget \/ publish
    \/ \E target \in targets : Poll(target)
    \/ \E m \in mail : Parse(m) \/ Store(m) \/ Lose(m)

\* Where messages go in the behaviors.
Addresses == UNION {{Parser(l), Cache(l)} : l \in Followed \cup {"K8sClust"}}

\* A program is started again, adcon's main and its timers run, and a message
\* comes or is lost.
Fairness ==
    /\ \A p \in Programs : WF_vars(Start(p))
    /\ WF_vars(PostTarget) /\ WF_vars(publish)
    /\ WF_vars(\E target \in targets : Poll(target))
    /\ \A to \in Addresses :
           WF_vars(\E m \in mail : m.to = to /\ (Parse(m) \/ Store(m) \/ Lose(m)))

Spec == Init /\ [][Next]_vars /\ Fairness

(***************************************************************************)
(* Properties                                                              *)
(***************************************************************************)

\* The variables have their types; nothing is addressed to no service.
TypeOK ==
    /\ link \in Followed /\ inCluster \in BOOLEAN
    /\ text \in Texts \cup {nil}
    /\ up \subseteq Programs
    /\ targets \subseteq {link}
    /\ publishing \in BOOLEAN
    /\ \A m \in mail \cup cache : m.to \in Addresses /\ m.of \in {link, "K8sClust"}
    /\ stops \in 0..MaxStops

\* A cache holds records of its own kind, made of the target's data or
\* published by adcon: the parsers share one name and are told apart by their
\* areas, whatever order the programs come and go in.
OwnCache ==
    \A m \in cache : m.of \in {link, "K8sClust"} /\ m.to = Cache(m.of)

\* What a cached record has says what the collector's text said, through the
\* parser's Unmarshal and whatever stops meanwhile: the numbers that fit a field
\* are those of the text, one by one, the time since a restart is the text's, and
\* a text without a slash gives no value.  What does not fit, or is no number, is
\* silently another number, or zero, also where Ready.go:48 has `no value'.
FieldSaysText == \A m \in cache : m.of = link => Says(m.has, text)

\* The link followed has a source.
HasSource == link \in k8sPrimeObjectLinkIDs \/ inCluster

Held == \E m \in cache : m.to = Cache(link) /\ m.of = link

\* A cache that lost its records, or whose records were lost on the way, gets
\* them again: adcon's targets are polled for ever and the summary is published
\* for ever, so that no order of crashes and starts leaves a cache empty.
Refilled == HasSource ~> Held
=============================================================================

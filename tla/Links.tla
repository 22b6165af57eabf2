--------------------------------- MODULE Links ---------------------------------
(***************************************************************************)
(* Where the results of a collection go.  A target names a link; the link  *)
(* says which collector polls the target, which parser takes the results   *)
(* and which cache holds the records that the parser makes.  A service is  *)
(* addressed by a name and an area.                                        *)
(*                                                                         *)
(* common/Links.go, common/Links_k8s.go and the activations of             *)
(* parser/main.go, inv_k8s/main.go, inv_box/main.go and inv_gpu/main.go.   *)
(* Persistence is left out: it has the area of the cache.                  *)
(***************************************************************************)
EXTENDS Naturals

Service(name, area) == [name |-> name, area |-> area]

NoService == Service("", 0)

\* The links of the Kubernetes and Istio objects, and of the cluster's summary.
K8sLinks ==
    {"K8sClust", "K8sPod", "K8sDeploy", "K8sSts", "K8sDs", "K8sRs", "K8sJob",
     "K8sCj", "K8sHpa", "K8sSvc", "K8sIng", "K8sNetPol", "K8sEp", "K8sEpSl",
     "K8sIngCl", "K8sPv", "K8sPvc", "K8sScl", "K8sCm", "K8sSec", "K8sRq",
     "K8sLr", "K8sPdb", "K8sSa", "K8sRole", "K8sCr", "K8sRb", "K8sCrb",
     "K8sNode", "K8sNs", "K8sVCl", "IstioVs", "IstioDr", "IstioGw", "IstioSe",
     "IstioPa", "IstioAp", "IstioSc", "IstioEf", "K8sCrd", "K8sEvt"}

\* Their areas, which cache, parser and persistence share.
k8sLinkMap ==
    [link \in K8sLinks |->
        CASE link = "K8sClust" -> 10  [] link = "K8sPod" -> 11
          [] link = "K8sDeploy" -> 12 [] link = "K8sSts" -> 13
          [] link = "K8sDs" -> 14     [] link = "K8sRs" -> 15
          [] link = "K8sJob" -> 16    [] link = "K8sCj" -> 17
          [] link = "K8sHpa" -> 18    [] link = "K8sSvc" -> 19
          [] link = "K8sIng" -> 20    [] link = "K8sNetPol" -> 21
          [] link = "K8sEp" -> 22     [] link = "K8sEpSl" -> 23
          [] link = "K8sIngCl" -> 24  [] link = "K8sPv" -> 25
          [] link = "K8sPvc" -> 26    [] link = "K8sScl" -> 27
          [] link = "K8sCm" -> 28     [] link = "K8sSec" -> 29
          [] link = "K8sRq" -> 30     [] link = "K8sLr" -> 31
          [] link = "K8sPdb" -> 32    [] link = "K8sSa" -> 33
          [] link = "K8sRole" -> 34   [] link = "K8sCr" -> 35
          [] link = "K8sRb" -> 36     [] link = "K8sCrb" -> 37
          [] link = "K8sNode" -> 38   [] link = "K8sNs" -> 39
          [] link = "K8sVCl" -> 40    [] link = "IstioVs" -> 41
          [] link = "IstioDr" -> 42   [] link = "IstioGw" -> 43
          [] link = "IstioSe" -> 44   [] link = "IstioPa" -> 45
          [] link = "IstioAp" -> 46   [] link = "IstioSc" -> 47
          [] link = "IstioEf" -> 48   [] link = "K8sCrd" -> 49
          [] link = "K8sEvt" -> 50]

\* Mutation: two links of one area.
AreaTwice == [k8sLinkMap EXCEPT !["K8sDeploy"] = k8sLinkMap["K8sPod"]]

k8sArea == k8sLinkMap

CacheName(link) ==
    CASE link = "K8sClust" -> "KCluster"
      [] link = "K8sDeploy" -> "K8sDploy"
      [] link = "K8sNetPol" -> "K8sNtPol"
      [] OTHER -> link

\* K8sC, the link of a cluster added by an operator, is that of its summary, but
\* for its collector.
Collector(link) == IF link = "K8sC" THEN Service("AdCon", 1) ELSE Service("Coll", 0)

Parser(link) ==
    CASE link \in K8sLinks -> Service("KPars", k8sArea[link])
      [] link = "K8sC" -> Service("KPars", k8sArea["K8sClust"])
      [] link = "NetDev" -> Service("NPars", 0)
      [] link = "GPU" -> Service("GPars", 2)
      [] OTHER -> NoService

Cache(link) ==
    CASE link \in K8sLinks -> Service(CacheName(link), k8sArea[link])
      [] link = "K8sC" -> Service(CacheName("K8sClust"), k8sArea["K8sClust"])
      [] link = "NetDev" -> Service("NCache", 0)
      [] link = "GPU" -> Service("GCache", 2)
      [] OTHER -> NoService

\* What the programs activate: the links of the parser and of the inventories.
ParserLinks == K8sLinks \cup {"NetDev", "GPU"}
K8sInventoryLinks == K8sLinks
=============================================================================

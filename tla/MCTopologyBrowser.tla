-------------------------- MODULE MCTopologyBrowser --------------------------
(* Two topologies: one of two pages, or of one page when searched, and one of *)
(* a single page.                                                             *)
EXTENDS TopologyBrowser, TLC

CONSTANTS t1, t2, x

MCListings == {Names}
MCPages == (t1 :> (NoFilter :> 2 @@ x :> 1)) @@ (t2 :> (NoFilter :> 1 @@ x :> 0))
=============================================================================

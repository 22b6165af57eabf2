------------------------------ MODULE VCluster ------------------------------
(*****************************************************************************)
(* Virtual clusters.                                                         *)
(* src/proto/vcluster.rs.                                                    *)
(*****************************************************************************)
EXTENDS WireTypes

K8SVCluster ==
    [namespace |-> Str(1), name |-> Str(2), status |-> Str(3), k8s_version |-> Str(4),
     distro |-> Str(5), connected |-> Str(6), synced_pods |-> Int32(7),
     synced_services |-> Int32(8), synced_ingresses |-> Int32(9), age |-> Str(10),
     cluster_name |-> Str(100), key |-> Str(101)]
K8SVClusterList == [list |-> Msgs(1, "K8SVCluster"), metadata |-> Msg(2, "L8MetaData")]

VClusterMessages ==
    [K8SVCluster |-> K8SVCluster, K8SVClusterList |-> K8SVClusterList]
==============================================================================

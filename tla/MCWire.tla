--------------------------------- MODULE MCWire ---------------------------------
(***************************************************************************)
(* Wire with the messages of all bindings of src/proto.                    *)
(***************************************************************************)
EXTENDS Wire, Gpu, Inventory, Istio, K8s, K8sResources, KubernetesCommon,
        KubernetesNetworking, KubernetesWorkloads, Protocols, VCluster, InventoryOld

\* Every message of a binding is sent.
Sent == GpuMessages @@ InventoryMessages @@ IstioMessages @@ K8sMessages
          @@ K8sResourcesMessages @@ KubernetesCommonMessages
          @@ KubernetesNetworkingMessages @@ KubernetesWorkloadsMessages
          @@ ProtocolsMessages @@ VClusterMessages

All == Sent @@ WireMessages @@ Removed
MCSchema == All
MCEarlier == InventoryOldMessages
MCTypes == DOMAIN Sent \ {"GpuEntry", "PhysicalEntry", "LogicalEntry"}

=============================================================================

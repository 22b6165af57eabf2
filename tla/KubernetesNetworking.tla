------------------------ MODULE KubernetesNetworking ------------------------
(*****************************************************************************)
(* Networking, storage, configuration and access resources of Kubernetes.    *)
(* src/proto/kubernetes_networking_storage_rbac.rs.                          *)
(*****************************************************************************)
EXTENDS WireTypes

Service ==
    [api_version |-> Str(1), kind |-> Str(2), metadata |-> Msg(3, "ObjectMeta"),
     spec |-> Msg(4, "ServiceSpec"), status |-> Msg(5, "ServiceStatus")]
ServiceSpec ==
    [ports |-> Msgs(1, "ServicePort"), selector |-> Map(2, "StrEntry"),
     cluster_ip |-> Str(3), type_ |-> Str(4), external_ips |-> Strs(5),
     session_affinity |-> Str(6), load_balancer_ip |-> Str(7),
     load_balancer_source_ranges |-> Strs(8), external_name |-> Str(9),
     external_traffic_policy |-> Str(10), health_check_node_port |-> Int32(11),
     publish_not_ready_addresses |-> Bool(12),
     session_affinity_config |-> Msg(13, "SessionAffinityConfig"),
     ip_family_policy |-> Str(14), ip_families |-> Strs(15)]
ServicePort ==
    [name |-> Str(1), protocol |-> Str(2), port |-> Int32(3), target_port |-> Str(4),
     node_port |-> Int32(5), app_protocol |-> Str(6)]
SessionAffinityConfig == [client_ip |-> Msg(1, "ClientIPConfig")]
ClientIPConfig == [timeout_seconds |-> Int32(1)]
ServiceStatus ==
    [load_balancer |-> Msg(1, "LoadBalancerStatus"), conditions |-> Msgs(2, "KCondition")]
LoadBalancerStatus == [ingress |-> Msgs(1, "LoadBalancerIngress")]
LoadBalancerIngress == [ip |-> Str(1), hostname |-> Str(2), ports |-> Msgs(3, "PortStatus")]
PortStatus == [port |-> Int32(1), protocol |-> Str(2), error |-> Str(3)]
Endpoints ==
    [api_version |-> Str(1), kind |-> Str(2), metadata |-> Msg(3, "ObjectMeta"),
     subsets |-> Msgs(4, "EndpointSubset")]
EndpointSubset ==
    [addresses |-> Msgs(1, "EndpointAddress"),
     not_ready_addresses |-> Msgs(2, "EndpointAddress"), ports |-> Msgs(3, "EndpointPort")]
EndpointAddress ==
    [ip |-> Str(1), hostname |-> Str(2), node_name |-> Str(3),
     target_ref |-> Msg(4, "ObjectReference")]
EndpointPort ==
    [name |-> Str(1), port |-> Int32(2), protocol |-> Str(3), app_protocol |-> Str(4)]
Ingress ==
    [api_version |-> Str(1), kind |-> Str(2), metadata |-> Msg(3, "ObjectMeta"),
     spec |-> Msg(4, "IngressSpec"), status |-> Msg(5, "IngressStatus")]
IngressSpec ==
    [default_backend |-> Msg(1, "IngressBackend"), tls |-> Msgs(2, "IngressTLS"),
     rules |-> Msgs(3, "IngressRule"), ingress_class_name |-> Str(4)]
IngressBackend ==
    [service |-> Msg(1, "IngressServiceBackend"),
     resource |-> Msg(2, "TypedLocalObjectReference")]
IngressServiceBackend == [name |-> Str(1), port |-> Msg(2, "ServiceBackendPort")]
ServiceBackendPort == [name |-> Str(1), number |-> Int32(2)]
IngressTLS == [hosts |-> Strs(1), secret_name |-> Str(2)]
IngressRule == [host |-> Str(1), http |-> Msg(2, "HTTPIngressRuleValue")]
HTTPIngressRuleValue == [paths |-> Msgs(1, "HTTPIngressPath")]
HTTPIngressPath ==
    [path |-> Str(1), path_type |-> Str(2), backend |-> Msg(3, "IngressBackend")]
IngressStatus == [load_balancer |-> Msg(1, "LoadBalancerStatus")]
NetworkPolicy ==
    [api_version |-> Str(1), kind |-> Str(2), metadata |-> Msg(3, "ObjectMeta"),
     spec |-> Msg(4, "NetworkPolicySpec")]
NetworkPolicySpec ==
    [pod_selector |-> Msg(1, "LabelSelector"),
     ingress |-> Msgs(2, "NetworkPolicyIngressRule"),
     egress |-> Msgs(3, "NetworkPolicyEgressRule"), policy_types |-> Strs(4)]
NetworkPolicyIngressRule ==
    [ports |-> Msgs(1, "NetworkPolicyPort"), from |-> Msgs(2, "NetworkPolicyPeer")]
NetworkPolicyEgressRule ==
    [ports |-> Msgs(1, "NetworkPolicyPort"), to |-> Msgs(2, "NetworkPolicyPeer")]
NetworkPolicyPort == [protocol |-> Str(1), port |-> Str(2), end_port |-> Str(3)]
NetworkPolicyPeer ==
    [pod_selector |-> Msg(1, "LabelSelector"),
     namespace_selector |-> Msg(2, "LabelSelector"), ip_block |-> Msg(3, "IPBlock")]
IPBlock == [cidr |-> Str(1), except |-> Strs(2)]
PersistentVolume ==
    [api_version |-> Str(1), kind |-> Str(2), metadata |-> Msg(3, "ObjectMeta"),
     spec |-> Msg(4, "PersistentVolumeSpec"), status |-> Msg(5, "PersistentVolumeStatus")]
PersistentVolumeSpec ==
    [capacity |-> Str(1), persistent_volume_source |-> Msg(2, "PersistentVolumeSource"),
     access_modes |-> Strs(3), claim_ref |-> Msg(4, "ObjectReference"),
     persistent_volume_reclaim_policy |-> Str(5), storage_class_name |-> Str(6),
     mount_options |-> Strs(7), volume_mode |-> Str(8),
     node_affinity |-> Msg(9, "VolumeNodeAffinity")]
PersistentVolumeSource ==
    [gce_persistent_disk |-> Msg(1, "GCEPersistentDiskVolumeSource"),
     aws_elastic_block_store |-> Msg(2, "AWSElasticBlockStoreVolumeSource"),
     host_path |-> Msg(3, "HostPathVolumeSource"), nfs |-> Msg(4, "NFSVolumeSource"),
     iscsi |-> Msg(5, "ISCSIVolumeSource"), csi |-> Msg(6, "CSIVolumeSource")]
GCEPersistentDiskVolumeSource ==
    [pd_name |-> Str(1), fs_type |-> Str(2), partition |-> Int32(3), read_only |-> Bool(4)]
AWSElasticBlockStoreVolumeSource ==
    [volume_id |-> Str(1), fs_type |-> Str(2), partition |-> Int32(3),
     read_only |-> Bool(4)]
NFSVolumeSource == [server |-> Str(1), path |-> Str(2), read_only |-> Bool(3)]
ISCSIVolumeSource ==
    [target_portal |-> Str(1), iqn |-> Str(2), lun |-> Int32(3), iscsi_interface |-> Str(4),
     fs_type |-> Str(5), read_only |-> Bool(6), portals |-> Strs(7),
     chap_auth_discovery |-> Bool(8), chap_auth_session |-> Bool(9),
     secret_ref |-> Msg(10, "LocalObjectReference"), initiator_name |-> Int32(11)]
LocalObjectReference == [name |-> Str(1)]
CSIVolumeSource ==
    [driver |-> Str(1), volume_handle |-> Str(2), read_only |-> Bool(3), fs_type |-> Str(4),
     volume_attributes |-> Map(5, "StrEntry"),
     controller_publish_secret_ref |-> Msg(6, "SecretReference"),
     node_stage_secret_ref |-> Msg(7, "SecretReference"),
     node_publish_secret_ref |-> Msg(8, "SecretReference"),
     controller_expand_secret_ref |-> Msg(9, "SecretReference")]
SecretReference == [name |-> Str(1), namespace |-> Str(2)]
VolumeNodeAffinity == [required |-> Msg(1, "NodeSelector")]
PersistentVolumeStatus == [phase |-> Str(1), message |-> Str(2), reason |-> Str(3)]
StorageClass ==
    [api_version |-> Str(1), kind |-> Str(2), metadata |-> Msg(3, "ObjectMeta"),
     provisioner |-> Str(4), parameters |-> Map(5, "StrEntry"), reclaim_policy |-> Str(6),
     mount_options |-> Strs(7), allow_volume_expansion |-> Bool(8),
     volume_binding_mode |-> Str(9),
     allowed_topologies |-> Msgs(10, "TopologySpreadConstraint")]
TopologySpreadConstraint ==
    [max_skew |-> Int32(1), topology_key |-> Str(2), when_unsatisfiable |-> Str(3),
     label_selector |-> Msg(4, "LabelSelector")]
ConfigMap ==
    [api_version |-> Str(1), kind |-> Str(2), metadata |-> Msg(3, "ObjectMeta"),
     data |-> Map(4, "StrEntry"), binary_data |-> Map(5, "BytesEntry"),
     immutable |-> Bool(6)]
Secret ==
    [api_version |-> Str(1), kind |-> Str(2), metadata |-> Msg(3, "ObjectMeta"),
     data |-> Map(4, "BytesEntry"), string_data |-> Map(5, "StrEntry"), type_ |-> Str(6),
     immutable |-> Bool(7)]
ServiceAccount ==
    [api_version |-> Str(1), kind |-> Str(2), metadata |-> Msg(3, "ObjectMeta"),
     secrets |-> Msgs(4, "ObjectReference"),
     image_pull_secrets |-> Msgs(5, "LocalObjectReference"),
     automount_service_account_token |-> Bool(6)]
Role ==
    [api_version |-> Str(1), kind |-> Str(2), metadata |-> Msg(3, "ObjectMeta"),
     rules |-> Msgs(4, "PolicyRule")]
ClusterRole ==
    [api_version |-> Str(1), kind |-> Str(2), metadata |-> Msg(3, "ObjectMeta"),
     rules |-> Msgs(4, "PolicyRule"), aggregation_rule |-> Msg(5, "AggregationRule")]
PolicyRule ==
    [verbs |-> Strs(1), api_groups |-> Strs(2), resources |-> Strs(3),
     resource_names |-> Strs(4), non_resource_urls |-> Msgs(5, "NonResourcePolicyRule")]
NonResourcePolicyRule == [verbs |-> Strs(1), non_resource_urls |-> Strs(2)]
AggregationRule == [cluster_role_selectors |-> Msgs(1, "LabelSelector")]
RoleBinding ==
    [api_version |-> Str(1), kind |-> Str(2), metadata |-> Msg(3, "ObjectMeta"),
     subjects |-> Msgs(4, "Subject"), role_ref |-> Msg(5, "RoleRef")]
ClusterRoleBinding ==
    [api_version |-> Str(1), kind |-> Str(2), metadata |-> Msg(3, "ObjectMeta"),
     subjects |-> Msgs(4, "Subject"), role_ref |-> Msg(5, "RoleRef")]
Subject == [kind |-> Str(1), api_group |-> Str(2), name |-> Str(3), namespace |-> Str(4)]
RoleRef == [api_group |-> Str(1), kind |-> Str(2), name |-> Str(3)]

KubernetesNetworkingMessages ==
    [Service |-> Service, ServiceSpec |-> ServiceSpec, ServicePort |-> ServicePort,
     SessionAffinityConfig |-> SessionAffinityConfig, ClientIPConfig |-> ClientIPConfig,
     ServiceStatus |-> ServiceStatus, LoadBalancerStatus |-> LoadBalancerStatus,
     LoadBalancerIngress |-> LoadBalancerIngress, PortStatus |-> PortStatus,
     Endpoints |-> Endpoints, EndpointSubset |-> EndpointSubset,
     EndpointAddress |-> EndpointAddress, EndpointPort |-> EndpointPort,
     Ingress |-> Ingress, IngressSpec |-> IngressSpec, IngressBackend |-> IngressBackend,
     IngressServiceBackend |-> IngressServiceBackend,
     ServiceBackendPort |-> ServiceBackendPort, IngressTLS |-> IngressTLS,
     IngressRule |-> IngressRule, HTTPIngressRuleValue |-> HTTPIngressRuleValue,
     HTTPIngressPath |-> HTTPIngressPath, IngressStatus |-> IngressStatus,
     NetworkPolicy |-> NetworkPolicy, NetworkPolicySpec |-> NetworkPolicySpec,
     NetworkPolicyIngressRule |-> NetworkPolicyIngressRule,
     NetworkPolicyEgressRule |-> NetworkPolicyEgressRule,
     NetworkPolicyPort |-> NetworkPolicyPort, NetworkPolicyPeer |-> NetworkPolicyPeer,
     IPBlock |-> IPBlock, PersistentVolume |-> PersistentVolume,
     PersistentVolumeSpec |-> PersistentVolumeSpec,
     PersistentVolumeSource |-> PersistentVolumeSource,
     GCEPersistentDiskVolumeSource |-> GCEPersistentDiskVolumeSource,
     AWSElasticBlockStoreVolumeSource |-> AWSElasticBlockStoreVolumeSource,
     NFSVolumeSource |-> NFSVolumeSource, ISCSIVolumeSource |-> ISCSIVolumeSource,
     LocalObjectReference |-> LocalObjectReference, CSIVolumeSource |-> CSIVolumeSource,
     SecretReference |-> SecretReference, VolumeNodeAffinity |-> VolumeNodeAffinity,
     PersistentVolumeStatus |-> PersistentVolumeStatus, StorageClass |-> StorageClass,
     TopologySpreadConstraint |-> TopologySpreadConstraint, ConfigMap |-> ConfigMap,
     Secret |-> Secret, ServiceAccount |-> ServiceAccount, Role |-> Role,
     ClusterRole |-> ClusterRole, PolicyRule |-> PolicyRule,
     NonResourcePolicyRule |-> NonResourcePolicyRule, AggregationRule |-> AggregationRule,
     RoleBinding |-> RoleBinding, ClusterRoleBinding |-> ClusterRoleBinding,
     Subject |-> Subject, RoleRef |-> RoleRef]
==============================================================================

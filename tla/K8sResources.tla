---------------------------- MODULE K8sResources ----------------------------
(*****************************************************************************)
(* The lists of the further Kubernetes resources.                            *)
(* src/proto/k8s_resources.rs.                                               *)
(*****************************************************************************)
EXTENDS WireTypes

K8SPersistentVolume ==
    [name |-> Str(1), capacity |-> Str(2), access_modes |-> Str(3),
     reclaim_policy |-> Str(4), status |-> Enum(5), claim |-> Str(6),
     storage_class |-> Str(7), reason |-> Str(8), age |-> Str(9), volume_mode |-> Str(10),
     cluster_name |-> Str(100), key |-> Str(101)]
K8SPersistentVolumeList ==
    [list |-> Msgs(1, "K8SPersistentVolume"), metadata |-> Msg(2, "L8MetaData")]
K8SPersistentVolumeClaim ==
    [namespace |-> Str(1), name |-> Str(2), status |-> Enum(3), volume |-> Str(4),
     capacity |-> Str(5), access_modes |-> Str(6), storage_class |-> Str(7),
     volume_mode |-> Str(8), age |-> Str(9), cluster_name |-> Str(100), key |-> Str(101)]
K8SPersistentVolumeClaimList ==
    [list |-> Msgs(1, "K8SPersistentVolumeClaim"), metadata |-> Msg(2, "L8MetaData")]
K8SStorageClass ==
    [name |-> Str(1), provisioner |-> Str(2), reclaim_policy |-> Str(3),
     volume_binding_mode |-> Str(4), allow_volume_expansion |-> Bool(5), age |-> Str(6),
     cluster_name |-> Str(100), key |-> Str(101)]
K8SStorageClassList ==
    [list |-> Msgs(1, "K8SStorageClass"), metadata |-> Msg(2, "L8MetaData")]
K8SConfigMap ==
    [namespace |-> Str(1), name |-> Str(2), data_count |-> Int32(3), age |-> Str(4),
     cluster_name |-> Str(100), key |-> Str(101)]
K8SConfigMapList == [list |-> Msgs(1, "K8SConfigMap"), metadata |-> Msg(2, "L8MetaData")]
K8SSecret ==
    [namespace |-> Str(1), name |-> Str(2), type_ |-> Str(3), data_count |-> Int32(4),
     age |-> Str(5), cluster_name |-> Str(100), key |-> Str(101)]
K8SSecretList == [list |-> Msgs(1, "K8SSecret"), metadata |-> Msg(2, "L8MetaData")]
K8SResourceQuota ==
    [namespace |-> Str(1), name |-> Str(2), age |-> Str(3), request_cpu |-> Str(4),
     request_memory |-> Str(5), limit_cpu |-> Str(6), limit_memory |-> Str(7),
     used_request_cpu |-> Str(8), used_request_memory |-> Str(9),
     used_limit_cpu |-> Str(10), used_limit_memory |-> Str(11), cluster_name |-> Str(100),
     key |-> Str(101)]
K8SResourceQuotaList ==
    [list |-> Msgs(1, "K8SResourceQuota"), metadata |-> Msg(2, "L8MetaData")]
K8SLimitRange ==
    [namespace |-> Str(1), name |-> Str(2), age |-> Str(3), cluster_name |-> Str(100),
     key |-> Str(101)]
K8SLimitRangeList == [list |-> Msgs(1, "K8SLimitRange"), metadata |-> Msg(2, "L8MetaData")]
K8SPodDisruptionBudget ==
    [namespace |-> Str(1), name |-> Str(2), min_available |-> Str(3),
     max_unavailable |-> Str(4), allowed_disruptions |-> Int32(5), age |-> Str(6),
     cluster_name |-> Str(100), key |-> Str(101)]
K8SPodDisruptionBudgetList ==
    [list |-> Msgs(1, "K8SPodDisruptionBudget"), metadata |-> Msg(2, "L8MetaData")]
K8SServiceAccount ==
    [namespace |-> Str(1), name |-> Str(2), secrets |-> Int32(3), age |-> Str(4),
     cluster_name |-> Str(100), key |-> Str(101)]
K8SServiceAccountList ==
    [list |-> Msgs(1, "K8SServiceAccount"), metadata |-> Msg(2, "L8MetaData")]
K8SRole ==
    [namespace |-> Str(1), name |-> Str(2), age |-> Str(3), cluster_name |-> Str(100),
     key |-> Str(101)]
K8SRoleList == [list |-> Msgs(1, "K8SRole"), metadata |-> Msg(2, "L8MetaData")]
K8SClusterRole ==
    [name |-> Str(1), age |-> Str(2), cluster_name |-> Str(100), key |-> Str(101)]
K8SClusterRoleList ==
    [list |-> Msgs(1, "K8SClusterRole"), metadata |-> Msg(2, "L8MetaData")]
K8SRoleBinding ==
    [namespace |-> Str(1), name |-> Str(2), role_ref |-> Str(3), age |-> Str(4),
     cluster_name |-> Str(100), key |-> Str(101)]
K8SRoleBindingList ==
    [list |-> Msgs(1, "K8SRoleBinding"), metadata |-> Msg(2, "L8MetaData")]
K8SClusterRoleBinding ==
    [name |-> Str(1), role_ref |-> Str(2), age |-> Str(3), cluster_name |-> Str(100),
     key |-> Str(101)]
K8SClusterRoleBindingList ==
    [list |-> Msgs(1, "K8SClusterRoleBinding"), metadata |-> Msg(2, "L8MetaData")]
K8SCRD ==
    [name |-> Str(1), group |-> Str(2), version |-> Str(3), scope |-> Str(4),
     age |-> Str(5), cluster_name |-> Str(100)]
K8SCRDList == [list |-> Msgs(1, "K8SCRD"), metadata |-> Msg(2, "L8MetaData")]
K8SEvent ==
    [namespace |-> Str(1), name |-> Str(2), type_ |-> Str(3), reason |-> Str(4),
     object |-> Str(5), message |-> Str(6), source |-> Str(7), count |-> Int32(8),
     first_seen |-> Str(9), last_seen |-> Str(10), cluster_name |-> Str(100),
     key |-> Str(101)]
K8SEventList == [list |-> Msgs(1, "K8SEvent"), metadata |-> Msg(2, "L8MetaData")]

K8sResourcesMessages ==
    [K8SPersistentVolume |-> K8SPersistentVolume,
     K8SPersistentVolumeList |-> K8SPersistentVolumeList,
     K8SPersistentVolumeClaim |-> K8SPersistentVolumeClaim,
     K8SPersistentVolumeClaimList |-> K8SPersistentVolumeClaimList,
     K8SStorageClass |-> K8SStorageClass, K8SStorageClassList |-> K8SStorageClassList,
     K8SConfigMap |-> K8SConfigMap, K8SConfigMapList |-> K8SConfigMapList,
     K8SSecret |-> K8SSecret, K8SSecretList |-> K8SSecretList,
     K8SResourceQuota |-> K8SResourceQuota, K8SResourceQuotaList |-> K8SResourceQuotaList,
     K8SLimitRange |-> K8SLimitRange, K8SLimitRangeList |-> K8SLimitRangeList,
     K8SPodDisruptionBudget |-> K8SPodDisruptionBudget,
     K8SPodDisruptionBudgetList |-> K8SPodDisruptionBudgetList,
     K8SServiceAccount |-> K8SServiceAccount,
     K8SServiceAccountList |-> K8SServiceAccountList, K8SRole |-> K8SRole,
     K8SRoleList |-> K8SRoleList, K8SClusterRole |-> K8SClusterRole,
     K8SClusterRoleList |-> K8SClusterRoleList, K8SRoleBinding |-> K8SRoleBinding,
     K8SRoleBindingList |-> K8SRoleBindingList,
     K8SClusterRoleBinding |-> K8SClusterRoleBinding,
     K8SClusterRoleBindingList |-> K8SClusterRoleBindingList, K8SCRD |-> K8SCRD,
     K8SCRDList |-> K8SCRDList, K8SEvent |-> K8SEvent, K8SEventList |-> K8SEventList]
==============================================================================

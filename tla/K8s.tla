--------------------------------- MODULE K8s ---------------------------------
(*****************************************************************************)
(* The records of a cluster and of its pods, nodes and other kinds.          *)
(* src/proto/k8s.rs.                                                         *)
(*****************************************************************************)
EXTENDS WireTypes

K8sReadyState == [count |-> Int32(1), outof |-> Int32(2)]
K8sRestartsState == [count |-> Int32(1), ago |-> Str(2)]
K8SCluster ==
    [name |-> Str(1), summary |-> Msg(2, "K8SClusterSummary"), k8s_version |-> Str(3),
     platform |-> Str(4)]
K8SClusterList == [list |-> Msgs(1, "K8SCluster"), metadata |-> Msg(2, "L8MetaData")]
K8SClusterSummary ==
    [total_nodes |-> Int32(1), ready_nodes |-> Int32(2), total_pods |-> Int32(3),
     running_pods |-> Int32(4), failed_pods |-> Int32(5), pending_pods |-> Int32(6),
     total_deployments |-> Int32(7), available_deployments |-> Int32(8),
     total_services |-> Int32(9), total_namespaces |-> Int32(10), total_pvcs |-> Int32(11),
     bound_pvcs |-> Int32(12), total_ingresses |-> Int32(13), total_jobs |-> Int32(14),
     active_jobs |-> Int32(15), istio_installed |-> Bool(16), istio_version |-> Str(17),
     total_vclusters |-> Int32(18), total_crds |-> Int32(19),
     total_statefulsets |-> Int32(20), ready_statefulsets |-> Int32(21),
     total_daemonsets |-> Int32(22), ready_daemonsets |-> Int32(23),
     total_replicasets |-> Int32(24), total_cronjobs |-> Int32(25),
     active_cronjobs |-> Int32(26), total_hpas |-> Int32(27),
     total_networkpolicies |-> Int32(28), total_endpoints |-> Int32(29),
     total_endpointslices |-> Int32(30), total_ingressclasses |-> Int32(31),
     total_persistentvolumes |-> Int32(32), bound_persistentvolumes |-> Int32(33),
     total_storageclasses |-> Int32(34), total_configmaps |-> Int32(35),
     total_secrets |-> Int32(36), total_resourcequotas |-> Int32(37),
     total_limitranges |-> Int32(38), total_poddisruptionbudgets |-> Int32(39),
     total_serviceaccounts |-> Int32(40), total_roles |-> Int32(41),
     total_clusterroles |-> Int32(42), total_rolebindings |-> Int32(43),
     total_clusterrolebindings |-> Int32(44), total_istio_virtualservices |-> Int32(45),
     total_istio_destinationrules |-> Int32(46), total_istio_gateways |-> Int32(47),
     total_istio_serviceentries |-> Int32(48),
     total_istio_peerauthentications |-> Int32(49),
     total_istio_authorizationpolicies |-> Int32(50), total_istio_sidecars |-> Int32(51),
     total_istio_envoyfilters |-> Int32(52), total_events |-> Int32(53),
     warning_events |-> Int32(54)]
K8SPod ==
    [namespace |-> Str(1), name |-> Str(2), ready |-> Msg(3, "K8sReadyState"),
     status |-> Enum(4), restarts |-> Msg(5, "K8sRestartsState"), age |-> Str(6),
     ip |-> Str(7), node |-> Str(8), nominated_node |-> Str(9), readiness_gates |-> Str(10),
     containers_json |-> Str(11), cluster_name |-> Str(100), key |-> Str(101)]
K8SPodList == [list |-> Msgs(1, "K8SPod"), metadata |-> Msg(2, "L8MetaData")]
K8SDeployment ==
    [namespace |-> Str(1), name |-> Str(2), ready |-> Str(3), up_to_date |-> Str(4),
     available |-> Str(5), age |-> Str(6), containers |-> Str(7), images |-> Str(8),
     selector |-> Str(9), cluster_name |-> Str(100), key |-> Str(101)]
K8SDeploymentList == [list |-> Msgs(1, "K8SDeployment"), metadata |-> Msg(2, "L8MetaData")]
K8SStatefulSet ==
    [namespace |-> Str(1), name |-> Str(2), ready |-> Str(3), age |-> Str(4),
     containers |-> Str(5), images |-> Str(6), cluster_name |-> Str(100), key |-> Str(101)]
K8SStatefulSetList ==
    [list |-> Msgs(1, "K8SStatefulSet"), metadata |-> Msg(2, "L8MetaData")]
K8SDaemonSet ==
    [namespace |-> Str(1), name |-> Str(2), desired |-> Str(3), current |-> Str(4),
     ready |-> Str(5), up_to_date |-> Str(6), available |-> Str(7),
     node_selector |-> Str(8), age |-> Str(9), containers |-> Str(10), images |-> Str(11),
     selector |-> Str(12), cluster_name |-> Str(100), key |-> Str(101)]
K8SDaemonSetList == [list |-> Msgs(1, "K8SDaemonSet"), metadata |-> Msg(2, "L8MetaData")]
K8SReplicaSet ==
    [namespace |-> Str(1), name |-> Str(2), desired |-> Str(3), current |-> Str(4),
     ready |-> Str(5), age |-> Str(6), cluster_name |-> Str(100), key |-> Str(101)]
K8SReplicaSetList == [list |-> Msgs(1, "K8SReplicaSet"), metadata |-> Msg(2, "L8MetaData")]
K8SJob ==
    [namespace |-> Str(1), name |-> Str(2), completions |-> Str(3), duration |-> Str(4),
     age |-> Str(5), condition |-> Enum(6), cluster_name |-> Str(100), key |-> Str(101)]
K8SJobList == [list |-> Msgs(1, "K8SJob"), metadata |-> Msg(2, "L8MetaData")]
K8SCronJob ==
    [namespace |-> Str(1), name |-> Str(2), schedule |-> Str(3), last_schedule |-> Str(4),
     suspend |-> Bool(5), active |-> Int32(6), age |-> Str(7), cluster_name |-> Str(100),
     key |-> Str(101)]
K8SCronJobList == [list |-> Msgs(1, "K8SCronJob"), metadata |-> Msg(2, "L8MetaData")]
K8SHPA ==
    [namespace |-> Str(1), name |-> Str(2), reference |-> Str(3), targets |-> Str(4),
     min_replicas |-> Int32(5), max_replicas |-> Int32(6), current_replicas |-> Int32(7),
     age |-> Str(8), cluster_name |-> Str(100), key |-> Str(101)]
K8SHPAList == [list |-> Msgs(1, "K8SHPA"), metadata |-> Msg(2, "L8MetaData")]
K8SService ==
    [namespace |-> Str(1), name |-> Str(2), type_ |-> Str(3), cluster_ip |-> Str(4),
     external_ip |-> Str(5), ports |-> Str(6), age |-> Str(7), selector |-> Str(8),
     cluster_name |-> Str(100), key |-> Str(101)]
K8SServiceList == [list |-> Msgs(1, "K8SService"), metadata |-> Msg(2, "L8MetaData")]
K8SIngress ==
    [namespace |-> Str(1), name |-> Str(2), class_name |-> Str(3), hosts |-> Str(4),
     address |-> Str(5), ports |-> Str(6), age |-> Str(7), cluster_name |-> Str(100),
     key |-> Str(101)]
K8SIngressList == [list |-> Msgs(1, "K8SIngress"), metadata |-> Msg(2, "L8MetaData")]
K8SNetworkPolicy ==
    [namespace |-> Str(1), name |-> Str(2), pod_selector |-> Str(3), age |-> Str(4),
     cluster_name |-> Str(100), key |-> Str(101)]
K8SNetworkPolicyList ==
    [list |-> Msgs(1, "K8SNetworkPolicy"), metadata |-> Msg(2, "L8MetaData")]
K8SEndpoints ==
    [namespace |-> Str(1), name |-> Str(2), endpoints |-> Str(3), age |-> Str(4),
     cluster_name |-> Str(100), key |-> Str(101)]
K8SEndpointsList == [list |-> Msgs(1, "K8SEndpoints"), metadata |-> Msg(2, "L8MetaData")]
K8SEndpointSlice ==
    [namespace |-> Str(1), name |-> Str(2), address_type |-> Str(3), ports |-> Str(4),
     endpoints |-> Str(5), age |-> Str(6), cluster_name |-> Str(100), key |-> Str(101)]
K8SEndpointSliceList ==
    [list |-> Msgs(1, "K8SEndpointSlice"), metadata |-> Msg(2, "L8MetaData")]
K8SIngressClass ==
    [name |-> Str(1), controller |-> Str(2), age |-> Str(3), cluster_name |-> Str(100),
     key |-> Str(101)]
K8SIngressClassList ==
    [list |-> Msgs(1, "K8SIngressClass"), metadata |-> Msg(2, "L8MetaData")]
K8SNode ==
    [name |-> Str(1), status |-> Enum(2), roles |-> Str(3), age |-> Str(4),
     version |-> Str(5), internal_ip |-> Str(6), external_ip |-> Str(7),
     os_image |-> Str(8), kernel_version |-> Str(9), container_runtime |-> Str(10),
     cluster_name |-> Str(100)]
K8SNodeList == [list |-> Msgs(1, "K8SNode"), metadata |-> Msg(2, "L8MetaData")]
K8SNamespace ==
    [name |-> Str(1), status |-> Str(2), age |-> Str(3), cluster_name |-> Str(100)]
K8SNamespaceList == [list |-> Msgs(1, "K8SNamespace"), metadata |-> Msg(2, "L8MetaData")]

K8sMessages ==
    [K8sReadyState |-> K8sReadyState, K8sRestartsState |-> K8sRestartsState,
     K8SCluster |-> K8SCluster, K8SClusterList |-> K8SClusterList,
     K8SClusterSummary |-> K8SClusterSummary, K8SPod |-> K8SPod, K8SPodList |-> K8SPodList,
     K8SDeployment |-> K8SDeployment, K8SDeploymentList |-> K8SDeploymentList,
     K8SStatefulSet |-> K8SStatefulSet, K8SStatefulSetList |-> K8SStatefulSetList,
     K8SDaemonSet |-> K8SDaemonSet, K8SDaemonSetList |-> K8SDaemonSetList,
     K8SReplicaSet |-> K8SReplicaSet, K8SReplicaSetList |-> K8SReplicaSetList,
     K8SJob |-> K8SJob, K8SJobList |-> K8SJobList, K8SCronJob |-> K8SCronJob,
     K8SCronJobList |-> K8SCronJobList, K8SHPA |-> K8SHPA, K8SHPAList |-> K8SHPAList,
     K8SService |-> K8SService, K8SServiceList |-> K8SServiceList,
     K8SIngress |-> K8SIngress, K8SIngressList |-> K8SIngressList,
     K8SNetworkPolicy |-> K8SNetworkPolicy, K8SNetworkPolicyList |-> K8SNetworkPolicyList,
     K8SEndpoints |-> K8SEndpoints, K8SEndpointsList |-> K8SEndpointsList,
     K8SEndpointSlice |-> K8SEndpointSlice, K8SEndpointSliceList |-> K8SEndpointSliceList,
     K8SIngressClass |-> K8SIngressClass, K8SIngressClassList |-> K8SIngressClassList,
     K8SNode |-> K8SNode, K8SNodeList |-> K8SNodeList, K8SNamespace |-> K8SNamespace,
     K8SNamespaceList |-> K8SNamespaceList]
==============================================================================

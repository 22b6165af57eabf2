------------------------- MODULE KubernetesWorkloads -------------------------
(*****************************************************************************)
(* The workloads of Kubernetes.                                              *)
(* src/proto/kubernetes_workloads.rs.                                        *)
(*****************************************************************************)
EXTENDS WireTypes

Namespace ==
    [api_version |-> Str(1), kind |-> Str(2), metadata |-> Msg(3, "ObjectMeta"),
     spec |-> Msg(4, "NamespaceSpec"), status |-> Msg(5, "NamespaceStatus")]
NamespaceSpec == [finalizers |-> Strs(1)]
NamespaceStatus == [phase |-> Str(1), conditions |-> Msgs(2, "KCondition")]
Node ==
    [api_version |-> Str(1), kind |-> Str(2), metadata |-> Msg(3, "ObjectMeta"),
     spec |-> Msg(4, "NodeSpec"), status |-> Msg(5, "NodeStatus")]
NodeSpec ==
    [pod_cidr |-> Str(1), pod_cidrs |-> Strs(2), provider_id |-> Str(3),
     unschedulable |-> Bool(4), taints |-> Msgs(5, "Taint")]
NodeStatus ==
    [capacity_cpu |-> Str(1), capacity_memory |-> Str(2), capacity_storage |-> Str(3),
     capacity_ephemeral_storage |-> Str(4), allocatable_cpu |-> Str(5),
     allocatable_memory |-> Str(6), allocatable_storage |-> Str(7),
     allocatable_ephemeral_storage |-> Str(8), phase |-> Str(9),
     conditions |-> Msgs(10, "KCondition"), addresses |-> Msgs(11, "NodeAddress"),
     images |-> Msgs(12, "ContainerImage"), node_info |-> Msg(13, "NodeSystemInfo")]
NodeAddress == [type_ |-> Str(1), address |-> Str(2)]
ContainerImage == [names |-> Strs(1), size_bytes |-> Int64(2)]
NodeSystemInfo ==
    [machine_id |-> Str(1), system_uuid |-> Str(2), boot_id |-> Str(3),
     kernel_version |-> Str(4), os_image |-> Str(5), container_runtime_version |-> Str(6),
     kubelet_version |-> Str(7), kube_proxy_version |-> Str(8), operating_system |-> Str(9),
     architecture |-> Str(10)]
Taint == [key |-> Str(1), value |-> Str(2), effect |-> Str(3), time_added |-> Str(4)]
Pod ==
    [api_version |-> Str(1), kind |-> Str(2), metadata |-> Msg(3, "ObjectMeta"),
     spec |-> Msg(4, "PodSpec"), status |-> Msg(5, "PodStatus")]
Deployment ==
    [api_version |-> Str(1), kind |-> Str(2), metadata |-> Msg(3, "ObjectMeta"),
     spec |-> Msg(4, "DeploymentSpec"), status |-> Msg(5, "DeploymentStatus")]
DeploymentSpec ==
    [replicas |-> Int32(1), selector |-> Msg(2, "LabelSelector"),
     template |-> Msg(3, "PodTemplateSpec"), strategy |-> Msg(4, "DeploymentStrategy"),
     min_ready_seconds |-> Int32(5), revision_history_limit |-> Int32(6),
     paused |-> Bool(7), progress_deadline_seconds |-> Int32(8)]
DeploymentStrategy ==
    [type_ |-> Str(1), rolling_update |-> Msg(2, "RollingUpdateDeployment")]
RollingUpdateDeployment == [max_unavailable |-> Str(1), max_surge |-> Str(2)]
DeploymentStatus ==
    [observed_generation |-> Int64(1), replicas |-> Int32(2), updated_replicas |-> Int32(3),
     ready_replicas |-> Int32(4), available_replicas |-> Int32(5),
     unavailable_replicas |-> Int32(6), conditions |-> Msgs(7, "KCondition"),
     collision_count |-> Int32(8)]
ReplicaSet ==
    [api_version |-> Str(1), kind |-> Str(2), metadata |-> Msg(3, "ObjectMeta"),
     spec |-> Msg(4, "ReplicaSetSpec"), status |-> Msg(5, "ReplicaSetStatus")]
ReplicaSetSpec ==
    [replicas |-> Int32(1), min_ready_seconds |-> Int32(2),
     selector |-> Msg(3, "LabelSelector"), template |-> Msg(4, "PodTemplateSpec")]
ReplicaSetStatus ==
    [replicas |-> Int32(1), fully_labeled_replicas |-> Int32(2),
     ready_replicas |-> Int32(3), available_replicas |-> Int32(4),
     observed_generation |-> Int64(5), conditions |-> Msgs(6, "KCondition")]
StatefulSet ==
    [api_version |-> Str(1), kind |-> Str(2), metadata |-> Msg(3, "ObjectMeta"),
     spec |-> Msg(4, "StatefulSetSpec"), status |-> Msg(5, "StatefulSetStatus")]
StatefulSetSpec ==
    [replicas |-> Int32(1), selector |-> Msg(2, "LabelSelector"),
     template |-> Msg(3, "PodTemplateSpec"),
     volume_claim_templates |-> Msgs(4, "PersistentVolumeClaim"), service_name |-> Str(5),
     pod_management_policy |-> Str(6),
     update_strategy |-> Msg(7, "StatefulSetUpdateStrategy"),
     revision_history_limit |-> Int32(8)]
StatefulSetUpdateStrategy ==
    [type_ |-> Str(1), rolling_update |-> Msg(2, "RollingUpdateStatefulSetStrategy")]
RollingUpdateStatefulSetStrategy == [partition |-> Str(1)]
StatefulSetStatus ==
    [observed_generation |-> Int64(1), replicas |-> Int32(2), ready_replicas |-> Int32(3),
     current_replicas |-> Int32(4), updated_replicas |-> Int32(5),
     current_revision |-> Str(6), update_revision |-> Str(7), collision_count |-> Int32(8),
     conditions |-> Msgs(9, "KCondition")]
DaemonSet ==
    [api_version |-> Str(1), kind |-> Str(2), metadata |-> Msg(3, "ObjectMeta"),
     spec |-> Msg(4, "DaemonSetSpec"), status |-> Msg(5, "DaemonSetStatus")]
DaemonSetSpec ==
    [selector |-> Msg(1, "LabelSelector"), template |-> Msg(2, "PodTemplateSpec"),
     update_strategy |-> Msg(3, "DaemonSetUpdateStrategy"), min_ready_seconds |-> Int32(4),
     revision_history_limit |-> Int32(5)]
DaemonSetUpdateStrategy ==
    [type_ |-> Str(1), rolling_update |-> Msg(2, "RollingUpdateDaemonSet")]
RollingUpdateDaemonSet == [max_unavailable |-> Str(1)]
DaemonSetStatus ==
    [current_number_scheduled |-> Int32(1), number_misscheduled |-> Int32(2),
     desired_number_scheduled |-> Int32(3), number_ready |-> Int32(4),
     observed_generation |-> Int64(5), updated_number_scheduled |-> Int32(6),
     number_available |-> Int32(7), number_unavailable |-> Int32(8),
     collision_count |-> Int32(9), conditions |-> Msgs(10, "KCondition")]
Job ==
    [api_version |-> Str(1), kind |-> Str(2), metadata |-> Msg(3, "ObjectMeta"),
     spec |-> Msg(4, "JobSpec"), status |-> Msg(5, "JobStatus")]
JobSpec ==
    [parallelism |-> Int32(1), completions |-> Int32(2),
     active_deadline_seconds |-> Int64(3), backoff_limit |-> Int32(4),
     selector |-> Msg(5, "LabelSelector"), manual_selector |-> Bool(6),
     template |-> Msg(7, "PodTemplateSpec"), ttl_seconds_after_finished |-> Int32(8),
     completion_mode |-> Str(9), suspend |-> Bool(10)]
JobStatus ==
    [conditions |-> Msgs(1, "KCondition"), start_time |-> Str(2),
     completion_time |-> Str(3), active |-> Int32(4), succeeded |-> Int32(5),
     failed |-> Int32(6), completed_indexes |-> Int32(7),
     uncounted_terminated_pods |-> Msg(8, "UncountedTerminatedPods")]
UncountedTerminatedPods == [succeeded |-> Strs(1), failed |-> Strs(2)]
CronJob ==
    [api_version |-> Str(1), kind |-> Str(2), metadata |-> Msg(3, "ObjectMeta"),
     spec |-> Msg(4, "CronJobSpec"), status |-> Msg(5, "CronJobStatus")]
CronJobSpec ==
    [schedule |-> Str(1), time_zone |-> Str(2), starting_deadline_seconds |-> Int64(3),
     concurrency_policy |-> Str(4), suspend |-> Bool(5),
     job_template |-> Msg(6, "JobTemplateSpec"), successful_jobs_history_limit |-> Int32(7),
     failed_jobs_history_limit |-> Int32(8)]
JobTemplateSpec == [metadata |-> Msg(1, "ObjectMeta"), spec |-> Msg(2, "JobSpec")]
CronJobStatus ==
    [active |-> Msgs(1, "ObjectReference"), last_schedule_time |-> Str(2),
     last_successful_time |-> Str(3)]
PodSecurityPolicy ==
    [api_version |-> Str(1), kind |-> Str(2), metadata |-> Msg(3, "ObjectMeta"),
     spec |-> Msg(4, "PodSecurityPolicySpec")]
PodSecurityPolicySpec ==
    [privileged |-> Bool(1), allow_privilege_escalation |-> Bool(2),
     required_drop_capabilities |-> Strs(3), allowed_capabilities |-> Strs(4),
     default_add_capabilities |-> Strs(5), allowed_volume_types |-> Strs(6),
     host_network |-> Bool(7), host_ports |-> Msgs(8, "HostPortRange"),
     host_pid |-> Bool(9), host_ipc |-> Bool(10),
     se_linux |-> Msg(11, "SELinuxStrategyOptions"),
     run_as_user |-> Msg(12, "RunAsUserStrategyOptions"),
     run_as_group |-> Msg(13, "RunAsGroupStrategyOptions"),
     fs_group |-> Msg(14, "FSGroupStrategyOptions"), read_only_root_filesystem |-> Bool(15)]
HostPortRange == [min |-> Int32(1), max |-> Int32(2)]
SELinuxStrategyOptions == [rule |-> Str(1), se_linux_options |-> Msg(2, "SELinuxOptions")]
RunAsUserStrategyOptions == [rule |-> Str(1), ranges |-> Msgs(2, "IDRange")]
RunAsGroupStrategyOptions == [rule |-> Str(1), ranges |-> Msgs(2, "IDRange")]
FSGroupStrategyOptions == [rule |-> Str(1), ranges |-> Msgs(2, "IDRange")]
IDRange == [min |-> Int64(1), max |-> Int64(2)]

KubernetesWorkloadsMessages ==
    [Namespace |-> Namespace, NamespaceSpec |-> NamespaceSpec,
     NamespaceStatus |-> NamespaceStatus, Node |-> Node, NodeSpec |-> NodeSpec,
     NodeStatus |-> NodeStatus, NodeAddress |-> NodeAddress,
     ContainerImage |-> ContainerImage, NodeSystemInfo |-> NodeSystemInfo, Taint |-> Taint,
     Pod |-> Pod, Deployment |-> Deployment, DeploymentSpec |-> DeploymentSpec,
     DeploymentStrategy |-> DeploymentStrategy,
     RollingUpdateDeployment |-> RollingUpdateDeployment,
     DeploymentStatus |-> DeploymentStatus, ReplicaSet |-> ReplicaSet,
     ReplicaSetSpec |-> ReplicaSetSpec, ReplicaSetStatus |-> ReplicaSetStatus,
     StatefulSet |-> StatefulSet, StatefulSetSpec |-> StatefulSetSpec,
     StatefulSetUpdateStrategy |-> StatefulSetUpdateStrategy,
     RollingUpdateStatefulSetStrategy |-> RollingUpdateStatefulSetStrategy,
     StatefulSetStatus |-> StatefulSetStatus, DaemonSet |-> DaemonSet,
     DaemonSetSpec |-> DaemonSetSpec, DaemonSetUpdateStrategy |-> DaemonSetUpdateStrategy,
     RollingUpdateDaemonSet |-> RollingUpdateDaemonSet, DaemonSetStatus |-> DaemonSetStatus,
     Job |-> Job, JobSpec |-> JobSpec, JobStatus |-> JobStatus,
     UncountedTerminatedPods |-> UncountedTerminatedPods, CronJob |-> CronJob,
     CronJobSpec |-> CronJobSpec, JobTemplateSpec |-> JobTemplateSpec,
     CronJobStatus |-> CronJobStatus, PodSecurityPolicy |-> PodSecurityPolicy,
     PodSecurityPolicySpec |-> PodSecurityPolicySpec, HostPortRange |-> HostPortRange,
     SELinuxStrategyOptions |-> SELinuxStrategyOptions,
     RunAsUserStrategyOptions |-> RunAsUserStrategyOptions,
     RunAsGroupStrategyOptions |-> RunAsGroupStrategyOptions,
     FSGroupStrategyOptions |-> FSGroupStrategyOptions, IDRange |-> IDRange]
==============================================================================

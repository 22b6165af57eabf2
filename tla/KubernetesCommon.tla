-------------------------- MODULE KubernetesCommon --------------------------
(*****************************************************************************)
(* The parts that Kubernetes resources share.                                *)
(* src/proto/kubernetes_common.rs.                                           *)
(*****************************************************************************)
EXTENDS WireTypes

ObjectMeta ==
    [name |-> Str(1), namespace |-> Str(2), uid |-> Str(3), resource_version |-> Str(4),
     generation |-> Int64(5), creation_timestamp |-> Str(6), deletion_timestamp |-> Str(7),
     deletion_grace_period_seconds |-> Int64(8), labels |-> Map(9, "StrEntry"),
     annotations |-> Map(10, "StrEntry"), owner_references |-> Msgs(11, "OwnerReference"),
     finalizers |-> Strs(12)]
OwnerReference ==
    [api_version |-> Str(1), kind |-> Str(2), name |-> Str(3), uid |-> Str(4),
     controller |-> Bool(5), block_owner_deletion |-> Bool(6)]
ObjectStatus ==
    [conditions |-> Msgs(1, "KCondition"), phase |-> Str(2), message |-> Str(3),
     reason |-> Str(4), observed_generation |-> Int32(5)]
KCondition ==
    [type_ |-> Str(1), status |-> Str(2), last_transition_time |-> Str(3),
     last_update_time |-> Str(4), reason |-> Str(5), message |-> Str(6)]
ObjectReference ==
    [kind |-> Str(1), namespace |-> Str(2), name |-> Str(3), uid |-> Str(4),
     api_version |-> Str(5), resource_version |-> Str(6), field_path |-> Str(7)]
LabelSelector ==
    [match_labels |-> Map(1, "StrEntry"),
     match_expressions |-> Msgs(2, "LabelSelectorRequirement")]
LabelSelectorRequirement == [key |-> Str(1), operator |-> Str(2), values |-> Strs(3)]
TypedLocalObjectReference == [api_group |-> Str(1), kind |-> Str(2), name |-> Str(3)]
ResourceRequirements == [limits |-> Map(1, "StrEntry"), requests |-> Map(2, "StrEntry")]
PodSpec ==
    [containers |-> Msgs(1, "Container"), init_containers |-> Msgs(2, "Container"),
     restart_policy |-> Str(3), termination_grace_period_seconds |-> Int64(4),
     active_deadline_seconds |-> Int64(5), dns_policy |-> Str(6),
     node_selector |-> Map(7, "StrEntry"), service_account_name |-> Str(8),
     node_name |-> Str(9), host_network |-> Bool(10), host_pid |-> Bool(11),
     host_ipc |-> Bool(12), security_context |-> Msg(13, "SecurityContext"),
     volumes |-> Msgs(14, "Volume"), tolerations |-> Msgs(15, "Toleration"),
     affinity |-> Msg(16, "Affinity"), scheduler_name |-> Str(17)]
Container ==
    [name |-> Str(1), image |-> Str(2), image_pull_policy |-> Str(3), command |-> Strs(4),
     args |-> Strs(5), ports |-> Msgs(6, "ContainerPort"), env |-> Msgs(7, "EnvVar"),
     resources |-> Msg(8, "ResourceRequirements"), volume_mounts |-> Msgs(9, "VolumeMount"),
     liveness_probe |-> Msg(10, "Probe"), readiness_probe |-> Msg(11, "Probe"),
     startup_probe |-> Msg(12, "Probe"), security_context |-> Msg(13, "SecurityContext"),
     working_dir |-> Str(14), stdin |-> Bool(15), stdin_once |-> Bool(16), tty |-> Bool(17)]
ContainerPort ==
    [name |-> Str(1), host_port |-> Int32(2), container_port |-> Int32(3),
     protocol |-> Str(4), host_ip |-> Str(5)]
EnvVar == [name |-> Str(1), value |-> Str(2), value_from |-> Msg(3, "EnvVarSource")]
EnvVarSource ==
    [field_ref |-> Msg(1, "FieldRef"), resource_field_ref |-> Msg(2, "ResourceFieldRef"),
     config_map_key_ref |-> Msg(3, "ConfigMapKeyRef"),
     secret_key_ref |-> Msg(4, "SecretKeyRef")]
FieldRef == [api_version |-> Str(1), field_path |-> Str(2)]
ResourceFieldRef == [container_name |-> Str(1), resource |-> Str(2), divisor |-> Str(3)]
ConfigMapKeyRef == [name |-> Str(1), key |-> Str(2), optional |-> Bool(3)]
SecretKeyRef == [name |-> Str(1), key |-> Str(2), optional |-> Bool(3)]
VolumeMount ==
    [name |-> Str(1), read_only |-> Bool(2), mount_path |-> Str(3), sub_path |-> Str(4),
     mount_propagation |-> Str(5), sub_path_expr |-> Str(6)]
Probe ==
    [http_get |-> Msg(1, "HTTPGetAction"), tcp_socket |-> Msg(2, "TCPSocketAction"),
     exec |-> Msg(3, "ExecAction"), initial_delay_seconds |-> Int32(4),
     timeout_seconds |-> Int32(5), period_seconds |-> Int32(6),
     success_threshold |-> Int32(7), failure_threshold |-> Int32(8)]
HTTPGetAction ==
    [path |-> Str(1), port |-> Str(2), host |-> Str(3), scheme |-> Str(4),
     http_headers |-> Msgs(5, "HTTPHeader")]
HTTPHeader == [name |-> Str(1), value |-> Str(2)]
TCPSocketAction == [port |-> Str(1), host |-> Str(2)]
ExecAction == [command |-> Strs(1)]
SecurityContext ==
    [run_as_non_root |-> Bool(1), run_as_user |-> Int64(2), run_as_group |-> Int64(3),
     fs_group |-> Int64(4), fs_group_change_policy |-> Str(5),
     se_linux_options |-> Msg(6, "SELinuxOptions"),
     windows_options |-> Msg(7, "WindowsOptions"), seccomp_profile_type |-> Str(8),
     seccomp_profile_localhost_profile |-> Str(9)]
SELinuxOptions == [user |-> Str(1), role |-> Str(2), type_ |-> Str(3), level |-> Str(4)]
WindowsOptions ==
    [gmsa_credential_spec_name |-> Str(1), gmsa_credential_spec |-> Str(2),
     run_as_user_name |-> Str(3)]
Volume == [name |-> Str(1), volume_source |-> Msg(2, "VolumeSource")]
VolumeSource ==
    [host_path |-> Msg(1, "HostPathVolumeSource"),
     empty_dir |-> Msg(2, "EmptyDirVolumeSource"), secret |-> Msg(3, "SecretVolumeSource"),
     config_map |-> Msg(4, "ConfigMapVolumeSource"),
     persistent_volume_claim |-> Msg(5, "PersistentVolumeClaimVolumeSource"),
     projected |-> Msg(6, "ProjectedVolumeSource")]
HostPathVolumeSource == [path |-> Str(1), type_ |-> Str(2)]
EmptyDirVolumeSource == [medium |-> Str(1), size_limit |-> Str(2)]
SecretVolumeSource ==
    [secret_name |-> Str(1), items |-> Msgs(2, "KeyToPath"), default_mode |-> Int32(3),
     optional |-> Bool(4)]
ConfigMapVolumeSource ==
    [name |-> Str(1), items |-> Msgs(2, "KeyToPath"), default_mode |-> Int32(3),
     optional |-> Bool(4)]
KeyToPath == [key |-> Str(1), path |-> Str(2), mode |-> Int32(3)]
PersistentVolumeClaimVolumeSource == [claim_name |-> Str(1), read_only |-> Bool(2)]
ProjectedVolumeSource ==
    [sources |-> Msgs(1, "VolumeProjection"), default_mode |-> Int32(2)]
VolumeProjection ==
    [secret |-> Msg(1, "SecretProjection"), config_map |-> Msg(2, "ConfigMapProjection"),
     downward_api |-> Msg(3, "DownwardAPIProjection"),
     service_account_token |-> Msg(4, "ServiceAccountTokenProjection")]
SecretProjection == [name |-> Str(1), items |-> Msgs(2, "KeyToPath"), optional |-> Bool(3)]
ConfigMapProjection ==
    [name |-> Str(1), items |-> Msgs(2, "KeyToPath"), optional |-> Bool(3)]
DownwardAPIProjection == [items |-> Msgs(1, "DownwardAPIVolumeFile")]
DownwardAPIVolumeFile ==
    [path |-> Str(1), field_ref |-> Msg(2, "FieldRef"),
     resource_field_ref |-> Msg(3, "ResourceFieldRef"), mode |-> Int32(4)]
ServiceAccountTokenProjection ==
    [audience |-> Str(1), expiration_seconds |-> Int64(2), path |-> Str(3)]
Toleration ==
    [key |-> Str(1), operator |-> Str(2), value |-> Str(3), effect |-> Str(4),
     toleration_seconds |-> Int64(5)]
Affinity ==
    [node_affinity |-> Msg(1, "NodeAffinity"), pod_affinity |-> Msg(2, "PodAffinity"),
     pod_anti_affinity |-> Msg(3, "PodAntiAffinity")]
NodeAffinity ==
    [required_during_scheduling_ignored_during_execution |-> Msg(1, "NodeSelector"),
     preferred_during_scheduling_ignored_during_execution |-> Msgs(2, "PreferredSchedulingTerm")]
NodeSelector == [node_selector_terms |-> Msgs(1, "NodeSelectorTerm")]
NodeSelectorTerm ==
    [match_expressions |-> Msgs(1, "NodeSelectorRequirement"),
     match_fields |-> Msgs(2, "NodeSelectorRequirement")]
NodeSelectorRequirement == [key |-> Str(1), operator |-> Str(2), values |-> Strs(3)]
PreferredSchedulingTerm == [weight |-> Int32(1), preference |-> Msg(2, "NodeSelectorTerm")]
PodAffinity ==
    [required_during_scheduling_ignored_during_execution |-> Msgs(1, "PodAffinityTerm"),
     preferred_during_scheduling_ignored_during_execution |-> Msgs(2, "WeightedPodAffinityTerm")]
PodAntiAffinity ==
    [required_during_scheduling_ignored_during_execution |-> Msgs(1, "PodAffinityTerm"),
     preferred_during_scheduling_ignored_during_execution |-> Msgs(2, "WeightedPodAffinityTerm")]
PodAffinityTerm ==
    [label_selector |-> Msg(1, "LabelSelector"), namespaces |-> Strs(2),
     topology_key |-> Str(3), namespace_selector |-> Msg(4, "LabelSelector")]
WeightedPodAffinityTerm ==
    [weight |-> Int32(1), pod_affinity_term |-> Msg(2, "PodAffinityTerm")]
PodStatus ==
    [phase |-> Str(1), conditions |-> Msgs(2, "KCondition"), message |-> Str(3),
     reason |-> Str(4), nominated_node_name |-> Str(5), host_ip |-> Str(6),
     pod_ip |-> Str(7), pod_ips |-> Strs(8), start_time |-> Str(9),
     init_container_statuses |-> Msgs(10, "ContainerStatus"),
     container_statuses |-> Msgs(11, "ContainerStatus"), qos_class |-> Str(12),
     ephemeral_container_statuses |-> Msgs(13, "ContainerStatus")]
ContainerStatus ==
    [name |-> Str(1), state |-> Msg(2, "ContainerState"),
     last_termination_state |-> Msg(3, "ContainerState"), ready |-> Bool(4),
     restart_count |-> Int32(5), image |-> Str(6), image_id |-> Str(7),
     container_id |-> Str(8), started |-> Bool(9)]
ContainerState ==
    [waiting |-> Msg(1, "ContainerStateWaiting"),
     running |-> Msg(2, "ContainerStateRunning"),
     terminated |-> Msg(3, "ContainerStateTerminated")]
ContainerStateWaiting == [reason |-> Str(1), message |-> Str(2)]
ContainerStateRunning == [started_at |-> Str(1)]
ContainerStateTerminated ==
    [exit_code |-> Int32(1), signal |-> Int32(2), reason |-> Str(3), message |-> Str(4),
     started_at |-> Str(5), finished_at |-> Str(6), container_id |-> Str(7)]
PodTemplateSpec == [metadata |-> Msg(1, "ObjectMeta"), spec |-> Msg(2, "PodSpec")]
PersistentVolumeClaim ==
    [api_version |-> Str(1), kind |-> Str(2), metadata |-> Msg(3, "ObjectMeta"),
     spec |-> Msg(4, "PersistentVolumeClaimSpec"),
     status |-> Msg(5, "PersistentVolumeClaimStatus")]
PersistentVolumeClaimSpec ==
    [access_modes |-> Strs(1), selector |-> Msg(2, "LabelSelector"),
     resources |-> Msg(3, "ResourceRequirements"), volume_name |-> Str(4),
     storage_class_name |-> Str(5), volume_mode |-> Str(6),
     data_source |-> Msg(7, "TypedLocalObjectReference"),
     data_source_ref |-> Msg(8, "TypedLocalObjectReference")]
PersistentVolumeClaimStatus ==
    [phase |-> Str(1), access_modes |-> Strs(2), capacity |-> Map(3, "StrEntry"),
     conditions |-> Msgs(4, "KCondition"), allocated_resources |-> Str(5),
     resize_status |-> Str(6)]

KubernetesCommonMessages ==
    [ObjectMeta |-> ObjectMeta, OwnerReference |-> OwnerReference,
     ObjectStatus |-> ObjectStatus, KCondition |-> KCondition,
     ObjectReference |-> ObjectReference, LabelSelector |-> LabelSelector,
     LabelSelectorRequirement |-> LabelSelectorRequirement,
     TypedLocalObjectReference |-> TypedLocalObjectReference,
     ResourceRequirements |-> ResourceRequirements, PodSpec |-> PodSpec,
     Container |-> Container, ContainerPort |-> ContainerPort, EnvVar |-> EnvVar,
     EnvVarSource |-> EnvVarSource, FieldRef |-> FieldRef,
     ResourceFieldRef |-> ResourceFieldRef, ConfigMapKeyRef |-> ConfigMapKeyRef,
     SecretKeyRef |-> SecretKeyRef, VolumeMount |-> VolumeMount, Probe |-> Probe,
     HTTPGetAction |-> HTTPGetAction, HTTPHeader |-> HTTPHeader,
     TCPSocketAction |-> TCPSocketAction, ExecAction |-> ExecAction,
     SecurityContext |-> SecurityContext, SELinuxOptions |-> SELinuxOptions,
     WindowsOptions |-> WindowsOptions, Volume |-> Volume, VolumeSource |-> VolumeSource,
     HostPathVolumeSource |-> HostPathVolumeSource,
     EmptyDirVolumeSource |-> EmptyDirVolumeSource,
     SecretVolumeSource |-> SecretVolumeSource,
     ConfigMapVolumeSource |-> ConfigMapVolumeSource, KeyToPath |-> KeyToPath,
     PersistentVolumeClaimVolumeSource |-> PersistentVolumeClaimVolumeSource,
     ProjectedVolumeSource |-> ProjectedVolumeSource, VolumeProjection |-> VolumeProjection,
     SecretProjection |-> SecretProjection, ConfigMapProjection |-> ConfigMapProjection,
     DownwardAPIProjection |-> DownwardAPIProjection,
     DownwardAPIVolumeFile |-> DownwardAPIVolumeFile,
     ServiceAccountTokenProjection |-> ServiceAccountTokenProjection,
     Toleration |-> Toleration, Affinity |-> Affinity, NodeAffinity |-> NodeAffinity,
     NodeSelector |-> NodeSelector, NodeSelectorTerm |-> NodeSelectorTerm,
     NodeSelectorRequirement |-> NodeSelectorRequirement,
     PreferredSchedulingTerm |-> PreferredSchedulingTerm, PodAffinity |-> PodAffinity,
     PodAntiAffinity |-> PodAntiAffinity, PodAffinityTerm |-> PodAffinityTerm,
     WeightedPodAffinityTerm |-> WeightedPodAffinityTerm, PodStatus |-> PodStatus,
     ContainerStatus |-> ContainerStatus, ContainerState |-> ContainerState,
     ContainerStateWaiting |-> ContainerStateWaiting,
     ContainerStateRunning |-> ContainerStateRunning,
     ContainerStateTerminated |-> ContainerStateTerminated,
     PodTemplateSpec |-> PodTemplateSpec, PersistentVolumeClaim |-> PersistentVolumeClaim,
     PersistentVolumeClaimSpec |-> PersistentVolumeClaimSpec,
     PersistentVolumeClaimStatus |-> PersistentVolumeClaimStatus]
==============================================================================

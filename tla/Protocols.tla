------------------------------ MODULE Protocols ------------------------------
(*****************************************************************************)
(* Routing, label switching and quality of service of network devices.       *)
(* src/proto/protocols.rs.                                                   *)
(*****************************************************************************)
EXTENDS WireTypes

TrafficEngineeringInfo ==
    [te_enabled |-> Bool(1), max_reservable_bandwidth |-> UInt64(2),
     unreserved_bandwidth |-> UInt64s(3), te_tunnels |-> Msgs(4, "TeTunnel"),
     rsvp_info |-> Msg(5, "RsvpInfo")]
TeTunnel ==
    [tunnel_id |-> Str(1), name |-> Str(2), destination |-> Str(3), source |-> Str(4),
     status |-> Enum(5), setup_priority |-> UInt32(6), hold_priority |-> UInt32(7),
     bandwidth |-> UInt64(8), explicit_path |-> Strs(9), tunnel_type |-> Enum(10),
     lsps |-> Msgs(11, "TeLsp"), metrics |-> Msg(12, "TeMetrics"),
     sr_policies |-> Msgs(13, "SrPolicy")]
TeLsp ==
    [lsp_id |-> Str(1), status |-> Enum(2), path_hops |-> Strs(3), bandwidth |-> UInt64(4),
     metrics |-> Msg(5, "TeMetrics")]
RsvpInfo ==
    [rsvp_enabled |-> Bool(1), hello_interval |-> UInt32(2), hello_missed |-> UInt32(3),
     sessions |-> Msgs(4, "RsvpSession"), reservations |-> Msgs(5, "RsvpReservation")]
RsvpSession ==
    [session_id |-> Str(1), destination |-> Str(2), tunnel_id |-> UInt32(3),
     extended_tunnel_id |-> UInt32(4), status |-> Enum(5)]
RsvpReservation ==
    [reservation_id |-> Str(1), session_id |-> Str(2), bandwidth |-> UInt64(3),
     setup_priority |-> UInt32(4), hold_priority |-> UInt32(5), status |-> Enum(6)]
TeMetrics ==
    [packets_sent |-> UInt64(1), bytes_sent |-> UInt64(2), packets_received |-> UInt64(3),
     bytes_received |-> UInt64(4), setup_time |-> UInt64(5), last_flap_time |-> UInt64(6),
     flap_count |-> UInt32(7)]
QosInfo ==
    [policies |-> Msgs(1, "QosPolicy"), class_maps |-> Msgs(2, "ClassMap"),
     policy_maps |-> Msgs(3, "PolicyMap")]
QosPolicy ==
    [name |-> Str(1), direction |-> Str(2), classes |-> Msgs(3, "QosClass"),
     stats |-> Msg(4, "QosPolicyStats")]
ClassMap == [name |-> Str(1), match_type |-> Str(2), match_criteria |-> Strs(3)]
PolicyMap == [name |-> Str(1), policy_classes |-> Msgs(2, "PolicyClass")]
PolicyClass == [class_name |-> Str(1), actions |-> Msgs(2, "QosAction")]
QosAction == [action_type |-> Enum(1), action_value |-> Str(2)]
QosClass ==
    [class_name |-> Str(1), offered_rate |-> UInt64(2), drop_rate |-> UInt64(3),
     match_packets |-> UInt64(4), match_bytes |-> UInt64(5)]
QosPolicyStats ==
    [total_packets |-> UInt64(1), total_bytes |-> UInt64(2), total_drops |-> UInt64(3),
     class_stats |-> Msgs(4, "QosClass")]
BgpInfo ==
    [bgp_enabled |-> Bool(1), as_number |-> UInt32(2), router_id |-> Str(3),
     peers |-> Msgs(4, "BgpPeer"), routes |-> Msgs(5, "BgpRoute"),
     statistics |-> Msg(6, "BgpStats")]
BgpPeer ==
    [peer_id |-> Str(1), peer_ip |-> Str(2), peer_as |-> UInt32(3), state |-> Enum(4),
     uptime |-> UInt32(5), routes_received |-> UInt32(6), routes_sent |-> UInt32(7),
     peer_type |-> Enum(8)]
BgpRoute ==
    [prefix |-> Str(1), prefix_length |-> UInt32(2), next_hop |-> Str(3),
     local_preference |-> UInt32(4), med |-> UInt32(5), as_path |-> UInt32s(6),
     communities |-> Strs(7), origin |-> Enum(8), best_path |-> Bool(9)]
BgpStats ==
    [total_routes |-> UInt32(1), active_routes |-> UInt32(2), total_peers |-> UInt32(3),
     established_peers |-> UInt32(4), updates_sent |-> UInt64(5),
     updates_received |-> UInt64(6)]
OspfInfo ==
    [ospf_enabled |-> Bool(1), router_id |-> Str(2), process_id |-> UInt32(3),
     area_id |-> Str(4), area_type |-> Enum(5), network_type |-> Enum(6),
     cost |-> UInt32(7), hello_interval |-> UInt32(8), dead_interval |-> UInt32(9),
     retransmit_interval |-> UInt32(10), priority |-> UInt32(11),
     neighbors |-> Msgs(12, "OspfNeighbor"), lsas |-> Msgs(13, "OspfLsa"),
     statistics |-> Msg(14, "OspfStats")]
OspfNeighbor ==
    [neighbor_id |-> Str(1), neighbor_ip |-> Str(2), state |-> Enum(3),
     priority |-> UInt32(4), dead_timer |-> UInt32(5), uptime |-> UInt32(6),
     designated_router |-> Str(7), backup_designated_router |-> Str(8)]
OspfLsa ==
    [lsa_type |-> Enum(1), link_state_id |-> Str(2), advertising_router |-> Str(3),
     sequence_number |-> UInt32(4), age |-> UInt32(5), checksum |-> UInt32(6)]
OspfStats ==
    [total_neighbors |-> UInt32(1), full_neighbors |-> UInt32(2), total_lsas |-> UInt32(3),
     spf_runs |-> UInt32(4), hello_sent |-> UInt64(5), hello_received |-> UInt64(6),
     lsa_sent |-> UInt64(7), lsa_received |-> UInt64(8)]
MplsInfo ==
    [mpls_enabled |-> Bool(1), labels |-> Msgs(2, "MplsLabel"), fecs |-> Msgs(3, "MplsFec"),
     ldp_sessions |-> Msgs(4, "LdpSession"),
     forwarding_table |-> Msg(5, "MplsForwardingTable")]
MplsLabel ==
    [label |-> UInt32(1), label_type |-> Enum(2), fec |-> Str(3), next_hop |-> Str(4),
     outgoing_interface |-> Str(5), incoming_label |-> UInt32(6),
     outgoing_label |-> UInt32(7)]
MplsFec ==
    [fec_id |-> Str(1), prefix |-> Str(2), prefix_length |-> UInt32(3),
     labels |-> Msgs(4, "MplsLabel")]
LdpSession ==
    [session_id |-> Str(1), peer_ip |-> Str(2), state |-> Enum(3), uptime |-> UInt32(4),
     labels_advertised |-> UInt32(5), labels_received |-> UInt32(6)]
MplsForwardingTable ==
    [entries |-> Msgs(1, "MplsLabel"), total_entries |-> UInt32(2),
     active_entries |-> UInt32(3)]
SrPolicy ==
    [policy_id |-> Str(1), name |-> Str(2), endpoint |-> Str(3), color |-> UInt32(4),
     status |-> Enum(5), paths |-> Msgs(6, "SrPath"), metrics |-> Msg(7, "SrPolicyMetrics"),
     preference |-> UInt32(8), binding_sid |-> Str(9)]
SrPath ==
    [path_id |-> Str(1), status |-> Enum(2), weight |-> UInt32(3),
     segments |-> Msgs(4, "SrSegment"), metrics |-> Msg(5, "SrPathMetrics"),
     is_valid |-> Bool(6)]
SrSegment ==
    [segment_type |-> Enum(1), sid |-> UInt32(2), node_id |-> Str(3),
     interface_id |-> Str(4)]
SrPolicyMetrics ==
    [packets_steered |-> UInt64(1), bytes_steered |-> UInt64(2),
     packets_dropped |-> UInt64(3), path_switches |-> UInt32(4)]
SrPathMetrics ==
    [packets_forwarded |-> UInt64(1), bytes_forwarded |-> UInt64(2),
     utilization_percent |-> UInt32(3)]
VrfInstance ==
    [vrf_name |-> Str(1), route_distinguisher |-> Str(2), route_targets_import |-> Strs(3),
     route_targets_export |-> Strs(4), description |-> Str(5), status |-> Enum(6),
     interface_ids |-> Strs(7), bgp_info |-> Msg(8, "BgpInfo"),
     ospf_info |-> Msg(9, "OspfInfo"), routing_table |-> Msgs(10, "VrfRoute"),
     statistics |-> Msg(11, "VrfStats")]
VrfRoute ==
    [prefix |-> Str(1), prefix_length |-> UInt32(2), next_hop |-> Str(3),
     protocol |-> Enum(4), metric |-> UInt32(5), preference |-> UInt32(6),
     active |-> Bool(7), age |-> UInt32(8), outgoing_interface |-> Str(9)]
VrfStats ==
    [total_routes |-> UInt32(1), active_routes |-> UInt32(2),
     total_interfaces |-> UInt32(3), packets_forwarded |-> UInt64(4),
     bytes_forwarded |-> UInt64(5)]

ProtocolsMessages ==
    [TrafficEngineeringInfo |-> TrafficEngineeringInfo, TeTunnel |-> TeTunnel,
     TeLsp |-> TeLsp, RsvpInfo |-> RsvpInfo, RsvpSession |-> RsvpSession,
     RsvpReservation |-> RsvpReservation, TeMetrics |-> TeMetrics, QosInfo |-> QosInfo,
     QosPolicy |-> QosPolicy, ClassMap |-> ClassMap, PolicyMap |-> PolicyMap,
     PolicyClass |-> PolicyClass, QosAction |-> QosAction, QosClass |-> QosClass,
     QosPolicyStats |-> QosPolicyStats, BgpInfo |-> BgpInfo, BgpPeer |-> BgpPeer,
     BgpRoute |-> BgpRoute, BgpStats |-> BgpStats, OspfInfo |-> OspfInfo,
     OspfNeighbor |-> OspfNeighbor, OspfLsa |-> OspfLsa, OspfStats |-> OspfStats,
     MplsInfo |-> MplsInfo, MplsLabel |-> MplsLabel, MplsFec |-> MplsFec,
     LdpSession |-> LdpSession, MplsForwardingTable |-> MplsForwardingTable,
     SrPolicy |-> SrPolicy, SrPath |-> SrPath, SrSegment |-> SrSegment,
     SrPolicyMetrics |-> SrPolicyMetrics, SrPathMetrics |-> SrPathMetrics,
     VrfInstance |-> VrfInstance, VrfRoute |-> VrfRoute, VrfStats |-> VrfStats]
==============================================================================

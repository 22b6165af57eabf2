------------------------------ MODULE Inventory ------------------------------
(*****************************************************************************)
(* The inventory of network devices and its targets.                         *)
(* src/proto/inventory.rs.                                                   *)
(*****************************************************************************)
EXTENDS WireTypes

NetworkDeviceList == [list |-> Msgs(1, "NetworkDevice"), metadata |-> Msg(2, "L8MetaData")]
PhysicalEntry == [key |-> Str(1), value |-> Msg(2, "Physical")]
LogicalEntry == [key |-> Str(1), value |-> Msg(2, "Logical")]
NetworkDevice ==
    [id |-> Str(1), equipmentinfo |-> Msg(2, "EquipmentInfo"),
     physicals |-> Map(3, "PhysicalEntry"), logicals |-> Map(4, "LogicalEntry")]
EquipmentInfo ==
    [vendor |-> Str(1), series |-> Str(2), family |-> Str(3), software |-> Str(4),
     hardware |-> Str(5), version |-> Str(6), sys_name |-> Str(7), sys_oid |-> Str(8),
     model |-> Str(9), serial_number |-> Str(10), firmware_version |-> Str(11),
     ip_address |-> Str(12), device_type |-> Enum(13), location |-> Str(14),
     latitude |-> Double(15), longitude |-> Double(16), device_status |-> Enum(17),
     last_seen |-> Str(18), uptime |-> Str(19), device_id |-> UInt32(20),
     interface_count |-> UInt32(21), vendor_type_oid |-> Str(22),
     physical_alias |-> Str(23), asset_id |-> Str(24), is_fru |-> Bool(25),
     manufacturing_date |-> Str(26), manufacturer_name |-> Str(27),
     identification_uris |-> Str(28)]
Physical ==
    [id |-> Str(1), chassis |-> Msgs(2, "Chassis"), ports |-> Msgs(3, "Port"),
     power_supplies |-> Msgs(4, "PowerSupply"), fans |-> Msgs(5, "Fan"),
     performance |-> Msg(6, "PerformanceMetrics"), physical_index |-> UInt32(7),
     contained_in |-> UInt32(8), parent_rel_pos |-> Int32(9), physical_class |-> Enum(10)]
Logical ==
    [id |-> Str(1), interfaces |-> Msgs(2, "Interface"), vrfs |-> Msgs(3, "VrfInstance")]
Chassis ==
    [id |-> Str(1), serial_number |-> Str(2), model |-> Str(3), description |-> Str(4),
     status |-> Enum(5), slots |-> Msgs(6, "Slot"), ports |-> Msgs(7, "Port"),
     modules |-> Msgs(8, "Module"), power_supplies |-> Msgs(9, "PowerSupply"),
     fans |-> Msgs(10, "Fan"), temperature |-> Msgs(11, "L8TimeSeriesPoint")]
Slot == [id |-> Str(1), module |-> Msg(2, "Module"), ports |-> Msgs(3, "Port")]
Module ==
    [id |-> Str(1), name |-> Str(2), serial_number |-> Str(3), model |-> Str(4),
     description |-> Str(5), module_type |-> Enum(6), status |-> Enum(7),
     ports |-> Msgs(8, "Port"), cpus |-> Msgs(9, "Cpu"),
     memory_modules |-> Msgs(10, "Memory"), temperature |-> Msgs(11, "L8TimeSeriesPoint")]
Port == [id |-> Str(1), interfaces |-> Msgs(2, "Interface")]
Interface ==
    [id |-> Str(1), name |-> Str(2), status |-> Str(3), description |-> Str(4),
     interface_type |-> Enum(5), speed |-> UInt64(6), mac_address |-> Str(7),
     ip_address |-> Str(8), mtu |-> UInt32(9), admin_status |-> Bool(10),
     te_info |-> Msg(11, "TrafficEngineeringInfo"), qos_info |-> Msg(12, "QosInfo"),
     bgp_info |-> Msg(13, "BgpInfo"), mpls_info |-> Msg(14, "MplsInfo"),
     statistics |-> Msg(15, "InterfaceStatistics"), ospf_info |-> Msg(16, "OspfInfo"),
     vrf_name |-> Str(17)]
Cpu ==
    [id |-> Str(1), name |-> Str(2), model |-> Str(3), architecture |-> Str(4),
     cores |-> UInt32(5), frequency_mhz |-> UInt32(6), status |-> Enum(7),
     temperature |-> Msgs(8, "L8TimeSeriesPoint"),
     utilization_percent |-> Msgs(9, "L8TimeSeriesPoint")]
Memory ==
    [id |-> Str(1), name |-> Str(2), type_ |-> Str(3), size_bytes |-> UInt64(4),
     frequency_mhz |-> UInt32(5), status |-> Enum(6),
     utilization_percent |-> Msgs(7, "L8TimeSeriesPoint")]
PowerSupply ==
    [id |-> Str(1), name |-> Str(2), model |-> Str(3), serial_number |-> Str(4),
     wattage |-> UInt32(5), power_type |-> Enum(6), status |-> Enum(7),
     temperature |-> Msgs(8, "L8TimeSeriesPoint"),
     load_percent |-> Msgs(9, "L8TimeSeriesPoint"),
     voltage |-> Msgs(10, "L8TimeSeriesPoint"), current |-> Msgs(11, "L8TimeSeriesPoint")]
Fan ==
    [id |-> Str(1), name |-> Str(2), description |-> Str(3), status |-> Enum(4),
     speed_rpm |-> UInt32(5), max_speed_rpm |-> UInt32(6),
     temperature |-> Msgs(7, "L8TimeSeriesPoint"), variable_speed |-> Bool(8)]
PerformanceMetrics ==
    [cpu_usage_percent |-> Msgs(1, "L8TimeSeriesPoint"),
     memory_usage_percent |-> Msgs(2, "L8TimeSeriesPoint"),
     temperature_celsius |-> Msgs(3, "L8TimeSeriesPoint"), uptime |-> Str(4),
     load_average |-> UInt64(5), processes |-> Msgs(6, "ProcessInfo"),
     active_connections |-> UInt64(7)]
ProcessInfo ==
    [name |-> Str(1), pid |-> UInt32(2), cpu_percent |-> Msgs(3, "L8TimeSeriesPoint"),
     memory_percent |-> Msgs(4, "L8TimeSeriesPoint"), status |-> Str(5)]
InterfaceStatistics ==
    [rx_packets |-> UInt64(1), tx_packets |-> UInt64(2), rx_bytes |-> UInt64(3),
     tx_bytes |-> UInt64(4), rx_errors |-> UInt64(5), tx_errors |-> UInt64(6),
     rx_drops |-> UInt64(7), tx_drops |-> UInt64(8), collisions |-> UInt64(9)]

InventoryMessages ==
    [NetworkDeviceList |-> NetworkDeviceList, PhysicalEntry |-> PhysicalEntry,
     LogicalEntry |-> LogicalEntry, NetworkDevice |-> NetworkDevice,
     EquipmentInfo |-> EquipmentInfo, Physical |-> Physical, Logical |-> Logical,
     Chassis |-> Chassis, Slot |-> Slot, Module |-> Module, Port |-> Port,
     Interface |-> Interface, Cpu |-> Cpu, Memory |-> Memory, PowerSupply |-> PowerSupply,
     Fan |-> Fan, PerformanceMetrics |-> PerformanceMetrics, ProcessInfo |-> ProcessInfo,
     InterfaceStatistics |-> InterfaceStatistics]
==============================================================================

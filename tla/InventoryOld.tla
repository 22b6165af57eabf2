------------------------------- MODULE InventoryOld -------------------------------
(***************************************************************************)
(* Fields of the inventory as src/proto/inventory.proto.old has them, where*)
(* the binding of today gives their number another type, or none.  Readings*)
(* that are one number there are a series of points today.                 *)
(***************************************************************************)
EXTENDS WireTypes

Old_NetworkDeviceList == [stats |-> Map(2, "Int32Entry")]
Old_NetworkDevice ==
    [topology |-> Msg(5, "NetworkTopology"), network_links |-> Msgs(6, "NetworkLink"),
     network_health |-> Msg(7, "NetworkHealth")]
Old_Chassis == [temperature |-> Double(11)]
Old_Module == [temperature |-> Double(11)]
Old_Cpu == [temperature |-> Double(8), utilization_percent |-> Double(9)]
Old_Memory == [utilization_percent |-> Double(7)]
Old_PowerSupply ==
    [temperature |-> Double(8), load_percent |-> Double(9), voltage |-> Double(10),
     current |-> Double(11)]
Old_Fan == [temperature |-> Double(7)]
Old_PerformanceMetrics ==
    [cpu_usage_percent |-> Double(1), memory_usage_percent |-> Double(2),
     temperature_celsius |-> Double(3)]
Old_ProcessInfo == [cpu_percent |-> Double(3), memory_percent |-> Double(4)]

InventoryOldMessages ==
    [NetworkDeviceList |-> Old_NetworkDeviceList, NetworkDevice |-> Old_NetworkDevice,
     Chassis |-> Old_Chassis, Module |-> Old_Module, Cpu |-> Old_Cpu,
     Memory |-> Old_Memory, PowerSupply |-> Old_PowerSupply, Fan |-> Old_Fan,
     PerformanceMetrics |-> Old_PerformanceMetrics, ProcessInfo |-> Old_ProcessInfo]

\* The messages that only the older program has, of which nothing is known here.
Removed == [NetworkTopology |-> External, NetworkLink |-> External, NetworkHealth |-> External]
=============================================================================

--------------------------------- MODULE Gpu ---------------------------------
(*****************************************************************************)
(* GPU devices and what they run.                                            *)
(* src/proto/gpu.rs.                                                         *)
(*****************************************************************************)
EXTENDS WireTypes

GpuDeviceList == [list |-> Msgs(1, "GpuDevice"), metadata |-> Msg(2, "L8MetaData")]
GpuEntry == [key |-> Str(1), value |-> Msg(2, "Gpu")]
GpuDevice ==
    [id |-> Str(1), device_info |-> Msg(2, "GpuDeviceInfo"),
     system |-> Msg(3, "GpuDeviceSystem"), gpus |-> Map(4, "GpuEntry"),
     topology |-> Msg(5, "GpuTopology"), health |-> Msg(6, "GpuDeviceHealth")]
GpuDeviceInfo ==
    [hostname |-> Str(1), vendor |-> Str(2), model |-> Str(3), serial_number |-> Str(4),
     ip_address |-> Str(5), location |-> Str(6), latitude |-> Double(7),
     longitude |-> Double(8), os_version |-> Str(9), kernel_version |-> Str(10),
     driver_version |-> Str(11), cuda_version |-> Str(12), dcgm_version |-> Str(13),
     device_status |-> Enum(14), last_seen |-> Str(15), uptime |-> Str(16),
     gpu_count |-> UInt32(17)]
GpuDeviceSystem ==
    [cpu_model |-> Str(1), cpu_sockets |-> UInt32(2), cpu_cores_total |-> UInt32(3),
     cpu_utilization_percent |-> Msgs(4, "L8TimeSeriesPoint"),
     memory_total_bytes |-> UInt64(5), memory_used_bytes |-> Msgs(6, "L8TimeSeriesPoint"),
     memory_free_bytes |-> Msgs(7, "L8TimeSeriesPoint"), storage_description |-> Str(8),
     storage_total_bytes |-> UInt64(9),
     storage_used_bytes |-> Msgs(10, "L8TimeSeriesPoint"),
     network_interfaces |-> Msgs(11, "GpuNetworkInterface"),
     power_supplies |-> Msgs(12, "PowerSupply"), fans |-> Msgs(13, "Fan")]
GpuNetworkInterface ==
    [name |-> Str(1), interface_type |-> Str(2), speed_bps |-> UInt64(3), status |-> Str(4),
     mac_address |-> Str(5), ip_address |-> Str(6),
     bytes_in |-> Msgs(7, "L8TimeSeriesPoint"), bytes_out |-> Msgs(8, "L8TimeSeriesPoint")]
Gpu ==
    [gpu_index |-> UInt32(1), device_uuid |-> Str(2), device_name |-> Str(3),
     pci_bus_id |-> Str(4), serial_number |-> Str(5), compute_capability |-> Str(6),
     persistence_mode |-> Bool(7), numa_node |-> UInt32(8), vram_total_mib |-> UInt64(9),
     vram_used_mib |-> Msgs(10, "L8TimeSeriesPoint"),
     gpu_utilization_percent |-> Msgs(11, "L8TimeSeriesPoint"),
     memory_utilization_percent |-> Msgs(12, "L8TimeSeriesPoint"),
     encoder_utilization_percent |-> Msgs(13, "L8TimeSeriesPoint"),
     decoder_utilization_percent |-> Msgs(14, "L8TimeSeriesPoint"),
     temperature_celsius |-> Msgs(15, "L8TimeSeriesPoint"),
     memory_temperature_celsius |-> Msgs(16, "L8TimeSeriesPoint"),
     shutdown_temperature |-> UInt32(17), slowdown_temperature |-> UInt32(18),
     power_limit_watts |-> UInt32(19), power_draw_watts |-> Msgs(20, "L8TimeSeriesPoint"),
     fan_speed_percent |-> Msgs(21, "L8TimeSeriesPoint"), sm_clock_base_mhz |-> UInt32(22),
     mem_clock_base_mhz |-> UInt32(23), sm_clock_mhz |-> Msgs(24, "L8TimeSeriesPoint"),
     mem_clock_mhz |-> Msgs(25, "L8TimeSeriesPoint"), ecc_corrected_count |-> UInt64(26),
     ecc_uncorrected_count |-> UInt64(27), health |-> Msg(28, "GpuComponentHealth"),
     processes |-> Msgs(29, "GpuProcess")]
GpuProcess ==
    [pid |-> UInt32(1), name |-> Str(2), used_memory_mib |-> UInt64(3), type_ |-> Str(4)]
GpuTopology ==
    [nvlink_version |-> UInt32(1), nvswitch_count |-> UInt32(2),
     gpu_links |-> Msgs(3, "GpuLink")]
GpuLink ==
    [gpu_src |-> UInt32(1), gpu_dst |-> UInt32(2), link_type |-> Str(3),
     nvlink_count |-> UInt32(4), status |-> Str(5)]
GpuDeviceHealth == [overall_status |-> Enum(1), checks |-> Msgs(2, "GpuHealthCheck")]
GpuHealthCheck == [check_name |-> Str(1), status |-> Enum(2), detail |-> Str(3)]
GpuComponentHealth ==
    [pcie_status |-> Enum(1), memory_status |-> Enum(2), thermal_status |-> Enum(3),
     power_status |-> Enum(4), nvlink_status |-> Enum(5), inforom_status |-> Enum(6)]

GpuMessages ==
    [GpuDeviceList |-> GpuDeviceList, GpuEntry |-> GpuEntry, GpuDevice |-> GpuDevice,
     GpuDeviceInfo |-> GpuDeviceInfo, GpuDeviceSystem |-> GpuDeviceSystem,
     GpuNetworkInterface |-> GpuNetworkInterface, Gpu |-> Gpu, GpuProcess |-> GpuProcess,
     GpuTopology |-> GpuTopology, GpuLink |-> GpuLink, GpuDeviceHealth |-> GpuDeviceHealth,
     GpuHealthCheck |-> GpuHealthCheck, GpuComponentHealth |-> GpuComponentHealth]
==============================================================================

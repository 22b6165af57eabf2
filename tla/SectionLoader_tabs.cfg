SPECIFICATION Spec
CONSTANTS
    Sections = {dashboard, hosts, network}
    dashboard = dashboard
    hosts = hosts
    None = None
    MaxLoads = 4
INVARIANTS TabHasTable
CHECK_DEADLOCK FALSE

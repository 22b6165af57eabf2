SPECIFICATION Spec
CONSTANTS
    Records = {x, y, z}
    GpuRecords = {x, y}
    MaxPopups = 5
    MaxChanges = 5
INVARIANTS TypeOK UnsubscribedOnClose ChangeIsPending
PROPERTIES NoStrangerClosed ChangeReachesPopup
CHECK_DEADLOCK FALSE

SPECIFICATION Spec
CONSTANTS
    Followed = {"K8sClust", "K8sPod", "K8sDeploy", "K8sNetPol", "K8sEvt"}
    MaxStops = 3
    IntLimit = 16
    FieldLimit = 4
    Numbers = {1, 4, 20}
    Agos = {"(2h ago)"}
INVARIANT OwnCache
INVARIANT FieldSaysText
PROPERTY Refilled
CHECK_DEADLOCK FALSE

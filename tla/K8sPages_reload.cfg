SPECIFICATION PagesSpec
CONSTANTS
    Clusters = {x, y}
    None = None
    MaxInputs = 3
    MaxMisses = 2
    Namespaces = {ns}
    Items = {pods, nodes}
    clusterScoped = {nodes}
    Filters = {pending}
    overview = overview
    hint = hint
    MaxRequests = 2
    MaxChanges = 1
    MaxFailures = 1
INVARIANT FilterSurvives
CHECK_DEADLOCK FALSE

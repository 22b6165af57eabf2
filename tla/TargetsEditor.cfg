SPECIFICATION Spec
CONSTANTS
    a = a
    g = g
    h = h
    p = p
    TargetIds = {a}
    HostIds = {g, h}
    Protocols = {p}
    Pages <- MCPages
    NewTarget = NewTarget
    NoValue = NoValue
    Hole = Hole
    Answered = Answered
    MaxSaves = 2
INVARIANTS TypeOK DraftIsShown HostsDistinct NoRefreshOwed
PROPERTY SendsWhatIsShown

SPECIFICATION PortalSpec
CONSTANTS
    Sections = {dashboard, hosts, network}
    dashboard = dashboard
    hosts = hosts
    None = None
    MaxLoads = 3
    Cards = {card1}
    Empty = Empty
    Waiting = Waiting
    MaxChanges = 1
INVARIANTS TypesOK ContentInitialised LastAskedStays CardsSettle CardsFilled
PROPERTIES EveryLoadShown
CHECK_DEADLOCK FALSE

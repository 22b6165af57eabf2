SPECIFICATION Spec
CONSTANTS
    TargetIds = {a, b}
    Types = {t1, t2}
    None = None
    Waiting = Waiting
    MaxClicks = 3
INVARIANTS TypeOK OneRequestPerDialog SettledIsFresh
CHECK_DEADLOCK FALSE

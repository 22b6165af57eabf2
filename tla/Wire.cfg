SPECIFICATION Spec
CONSTANTS
    Schema <- MCSchema
    Earlier <- MCEarlier
    Types <- MCTypes
    Zero = Zero
    a = a
    MaxFields = 2
    MaxErrors = 1
INVARIANTS TypeOK NothingLost RelayReads NeverMore NotMisread Aligned
CHECK_DEADLOCK FALSE

CONSTANTS
    a = a  b = b  c = c  d = d  e = e
    NoEntry = NoEntry
    NP = 3
    Entries = {a, b, c, d, e}
    Kind <- MCFleeting
    MayFail <- MCAllRanks
SPECIFICATION FairSpec
INVARIANTS
    TypeOK
    OneExchange
    ParseNotStranded
    KillNotStranded
    MergeAfterDismissal
    NoStaleRows
    CrashBlocksMerge
PROPERTIES
    PoolImplemented
    MergedInTime
    Termination
\* Termination says where the program may stop
CHECK_DEADLOCK FALSE

CONSTANTS
    a = a  b = b  c = c  d = d
    NoEntry = NoEntry
    NP = 3
    Entries = {a, b, c, d}
    Collections <- MCCollections
SPECIFICATION FairSpec
INVARIANTS
    TypeOK
PROPERTIES
    DetectorImplemented
    Completion
\* A slave that died and an MPI_Send that is never received stop the program
CHECK_DEADLOCK FALSE

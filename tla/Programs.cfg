CONSTANTS
    a = a  b = b  c = c
    NoFile = NoFile
    Files = {a, b, c}
    Collections <- MCCollections
SPECIFICATION Spec
INVARIANTS
    TypeOK
    
    Released
    WalkComplete
\* A program stops when main has returned, or before
CHECK_DEADLOCK FALSE

CONSTANTS
    Documents <- MCDocuments
    Parameters <- MCParameters
    Ascii <- MCAscii
    InitialText = 2
    MaxDnms = 2
    MaxMarks = 2
SPECIFICATION Spec
INVARIANTS
    TypeOK
    PlaintextStable
    OffsetsRight
    MarkedRight
PROPERTIES
    UndoneMark
\* The program stops when it has made its calls
CHECK_DEADLOCK FALSE

CONSTANTS
    Documents <- MCMixedOnly
    Parameters <- MCParameters
    Ascii <- MCAscii
    InitialText = 2
    MaxDnms = 1
    MaxMarks = 0
SPECIFICATION Spec
INVARIANT NodePlaintextRight
\* The program stops when it has made its calls
CHECK_DEADLOCK FALSE

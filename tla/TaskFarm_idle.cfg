CONSTANTS
    a = a  b = b  c = c  d = d  e = e
    NoEntry = NoEntry
    NP = 5
    Entries = {a, b, c}
    Kind <- MCIdle
    MayFail = {}
SPECIFICATION Spec
PROPERTIES
    EveryProcessTasked

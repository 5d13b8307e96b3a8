CONSTANTS
    a1 = a1
    d1 = d1
    Allowed <- MCAllowed
    Denied <- MCDenied
    PING_CNT = 2
    UDP_TOTAL = 2

SPECIFICATION Spec

INVARIANT
    VerdictSound

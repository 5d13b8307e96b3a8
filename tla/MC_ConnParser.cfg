CONSTANTS
    Keys <- MCKeys
    Vals <- MCVals
    Protos <- MCProtos
    NL = NL
    MaxDepth = 1
    MaxWidth = 2
    MaxConns = 1
SPECIFICATION Spec
INVARIANT
    ParsesTable

CONSTANTS
    p1 = p1
    p2 = p2
    dflt = dflt
    n1 = n1
    w1 = w1
    w2 = w2
    s1 = s1
    Procs <- MCProcs
    Creators <- MCNoProcs
    Sessions <- MCSessions
    PNames <- MCPNames
    Default = dflt
    InitNames <- MCPNames
    WrapKeys <- MCWrapKeys
    InitWrap = w1
    Raw = Raw
    MaxPid = 3
    MaxCaches = 5

SPECIFICATION Spec
PROPERTY ExistingProfileResolves
SYMMETRY ProcSymmetry

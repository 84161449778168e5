CONSTANTS
    DD = DD
    Lit = Lit
    LimitKw = LimitKw
    OffsetKw = OffsetKw
    None = None
    MaxLen = 3
    MaxArgs = 2
    ArgValues = {7}
    Offsets = {None, 0, 2}
    Limits = {None, 5}

SPECIFICATION Spec
INVARIANT LimitBindsMatch

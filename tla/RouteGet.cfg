\* Two handles, a destination and the default route, interrupted lookups.
SPECIFICATION Spec
CONSTANTS
    Handle = {h1, h2}
    Dst = {d1}
    Default = Default
    Probe = Probe
    Gw = {g1, g2}
    OnLink = OnLink
    None = None
    MaxSeq = 3
    MaxCuts = 1
SYMMETRY Alike
INVARIANTS TypeOK GetIsTrue FailureIsTrue BacklogIsCuts
CHECK_DEADLOCK FALSE

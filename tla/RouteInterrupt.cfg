\* A lookup after an interrupted one.
SPECIFICATION Spec
CONSTANTS
    Handle = {h1, h2}
    Dst = {d1}
    Default = Default
    Probe = Probe
    Gw = {g1, g2}
    OnLink = OnLink
    None = None
    MaxSeq = 3
    MaxCuts = 1
SYMMETRY Alike
INVARIANTS Recovers
CHECK_DEADLOCK FALSE

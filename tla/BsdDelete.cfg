\* An ARP entry deleted that is not there.
SPECIFICATION Spec
CONSTANTS
    h1 = h1
    h2 = h2
    Handle = {h1, h2}
    Kind <- TwoArp
    Pid <- OwnPids
    Dst = {d1}
    Net = Net
    Ha = {a1}
    Link = Link
    Gw = {g1}
    None = None
    Kernel = Kernel
    QueueMax = 12
    MaxSeq = 3
    MaxNews = 1
    MaxFaults = 0
INVARIANTS OnlyItsEntry
CHECK_DEADLOCK FALSE

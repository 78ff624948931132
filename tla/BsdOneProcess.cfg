\* An ARP and a routing handle in one process.
SPECIFICATION Spec
CONSTANTS
    h1 = h1
    h2 = h2
    Handle = {h1, h2}
    Kind <- ArpAndRoute
    Pid <- OnePid
    Dst = {d1, d2}
    Net = Net
    Ha = {a1}
    Link = Link
    Gw = {g1}
    None = None
    Kernel = Kernel
    QueueMax = 12
    MaxSeq = 3
    MaxNews = 0
    MaxFaults = 0
INVARIANTS GetIsTrue
CHECK_DEADLOCK FALSE

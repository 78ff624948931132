\* Two processes, each with an ARP handle, and a kernel that learns by itself.
SPECIFICATION Spec
CONSTANTS
    h1 = h1
    h2 = h2
    Handle = {h1, h2}
    Kind <- TwoArp
    Pid <- OwnPids
    Dst = {d1}
    Net = Net
    Ha = {a1, a2}
    Link = Link
    Gw = {g1}
    None = None
    Kernel = Kernel
    QueueMax = 12
    MaxSeq = 3
    MaxNews = 1
    MaxFaults = 1
SYMMETRY Handles
INVARIANTS ReplyIsMine GetIsTrue SuccessHappened FailureChangedNothing
CHECK_DEADLOCK FALSE

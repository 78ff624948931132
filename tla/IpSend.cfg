\* Two Ethernet interfaces, a point-to-point one, an attached and a remote host.
SPECIFICATION FairSpec
CONSTANTS
    e0 = e0
    e1 = e1
    ppp = ppp
    near = near
    far = far
    router = router
    Intf <- Interfaces
    Usable = {e0, e1}
    Mtu <- WholeWords
    Host = {near, far, router}
    Via <- Attached
    Gateways <- Tables
    Dgrams = {28, 57}
    Hl = 20
    None = None
    Broadcast = Broadcast
INVARIANTS TypeOK ListIntact NothingLeaks UnicastToNextHop BroadcastIsLastResort SuccessIsDelivery
PROPERTIES SendReturns

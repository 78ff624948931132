\* Interfaces whose MTU leaves no whole number of eight-octet words for the payload.
SPECIFICATION Spec
CONSTANTS
    e0 = e0
    e1 = e1
    ppp = ppp
    near = near
    far = far
    router = router
    Intf <- Interfaces
    Usable = {e0, e1}
    Mtu <- OddWords
    Host = {near, far, router}
    Via <- Attached
    Gateways <- Tables
    Dgrams = {28, 57}
    Hl = 20
    None = None
    Broadcast = Broadcast
INVARIANTS SuccessIsDelivery

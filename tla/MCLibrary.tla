----------------------------- MODULE MCLibrary -----------------------------
(* Values for model-checking the library's parts: Library.cfg and the cfgs beside it. *)
EXTENDS Library

(* Loops: entries of either part of a table, an incomplete one and one of a *)
(* type that no loop hands out, in every loop of the library's builds.      *)
Entry(n, k, p) == [name |-> n, kind |-> k, part |-> p]
SomeEntries == {Entry("a", "plain", 1), Entry("b", "plain", 1), Entry("b", "local", 1), Entry("x", "incomplete", 1),
            Entry("y", "alien", 1), Entry("q", "plain", 2)}
AllLoops == {ArpSysctl, ArpProc, ArpStreams, ArpMib, ArpWin32,
             RouteSysctl, RouteProc, RouteStreams, RouteHpux, RouteWin32, RouteVista,
             RulesIpchains, RulesIpfw, RulesIpf, RulesPf, RulesPipe, IntfProc, IntfIfconf, IntfWin32}
QuietLoops == {ArpStreams, RouteStreams}
LifconfOnly == {IntfLifconf}
ProcRoutes == {RouteProc}

(* Firewalls: ports from 0 to 3, ICMP types and codes. *)
FilterRule(proto, sport, dport) ==
    [op |-> "allow", dir |-> "in", dev |-> "if0", proto |-> proto, src |-> "host", dst |-> "any",
     sport |-> sport, dport |-> dport]
SomeRules == {FilterRule("tcp", <<1, 1>>, <<0, 3>>), FilterRule("tcp", <<0, 2>>, <<2, 2>>), FilterRule("udp", <<0, 0>>, <<1, 2>>),
          FilterRule("icmp", <<2, 3>>, <<0, 0>>), FilterRule("icmp", <<2, 3>>, <<1, 3>>), FilterRule("all", <<0, 0>>, <<0, 0>>)}

(* Interfaces: one with an address and aliases, and tunnels.               *)
InterfaceKinds == [n \in Names |-> IF n = "eth0" THEN "eth" ELSE "tun"]
NoIp == NoneOf(Ip(1))
AskEth(addr, aliases, link, mtu) ==
    [addr |-> addr, dst |-> NoIp, link |-> link, mtu |-> mtu, up |-> TRUE, noarp |-> FALSE,
     aliases |-> [i \in DOMAIN aliases |-> Ip(aliases[i])]]
AskTun(addr, dst) ==
    [addr |-> addr, dst |-> dst, link |-> 0, mtu |-> 2, up |-> TRUE, noarp |-> TRUE, aliases |-> <<>>]
AsksOf == [n \in Names |->
    CASE n = "eth0" -> {AskEth(Ip(1), <<2, 3>>, 2, 2), AskEth(Ip(2), <<1>>, 1, 0), AskEth(NoIp, <<3>>, 0, 0)}
      [] n = "tun0" -> {AskTun(Ip(4), Ip(5)), AskTun(NoIp, NoIp)}
      [] OTHER -> {}]
Unused == [addrs |-> <<>>, dst |-> NoneOf(Ip(0)), link |-> 0, mtu |-> 1, up |-> FALSE, noarp |-> FALSE]
At1(k, ip) == [k EXCEPT !.addrs = <<[label |-> 0, ip |-> ip, own |-> TRUE]>>]
InUse == [At1(Unused, 4) EXCEPT !.dst = Ip(5), !.up = TRUE]
Eth == [At1(Unused, 1) EXCEPT !.link = 1]
Kernel0 == {[n \in Names |-> IF n = "eth0" THEN Eth ELSE Unused]}
Kernels == {[n \in Names |-> CASE n = "eth0" -> Eth [] n = "tun0" -> InUse [] OTHER -> t] : t \in {Unused, InUse}}
KernelSet == {[n \in Names |-> IF n = "eth0" THEN [Eth EXCEPT !.addrs = Append(@, [label |-> 1, ip |-> 3, own |-> TRUE])] ELSE Unused]}
TunDevices == <<"tun0", "tun1", "tun2">>
TunFresh == Unused
ATunnel == {[src |-> 2, dst |-> 5, mtu |-> 2]}

(* Tables: addresses of three bits. *)
Card(name, eth, addr, bits) == [name |-> name, eth |-> eth, addr |-> addr, bits |-> bits]
SomeCards == <<Card("eth0", TRUE, 1, 1), Card("ppp0", FALSE, 5, 3), Card("eth1", TRUE, 6, 2)>>
Dest(addr, bits) == [addr |-> addr, bits |-> bits]
SomeDests == {Dest(2, 3), Dest(7, 3), Dest(4, 2), Dest(4, 1), Dest(0, 0)}
AtFirst == [arp |-> {[pa |-> 2, dev |-> "eth0", ha |-> 1, com |-> FALSE]},
            routes |-> {[net |-> Dest(0, 0), gw |-> 3, local |-> FALSE, dev |-> "eth0"],
                        [net |-> Dest(0, 1), gw |-> 1, local |-> TRUE, dev |-> "eth0"],
                        [net |-> Dest(4, 2), gw |-> 6, local |-> FALSE, dev |-> "eth1"],
                        [net |-> Dest(6, 2), gw |-> 6, local |-> TRUE, dev |-> "eth1"]}]

(* Ethernet and Windows. *)
TwoDevices == <<[name |-> "em0", stem |-> "em0"], [name |-> "em1", stem |-> "em1"]>>
AFrame == {[src |-> 1, dst |-> 2, proto |-> 5]}
FourAdapters == [a \in {"A", "B", "C", "P"} |->
    CASE a = "A" -> "ethernet" [] a = "B" -> "wifi" [] a = "C" -> "ethernet" [] OTHER -> "ppp"]
AStray == {[word |-> "eth", num |-> 3]}

(* Addresses: IPv6 addresses whose words are zeros or ones in all patterns. *)
Mk(type, bits, octets) == [type |-> type, bits |-> bits, data |-> Padded(octets)]
Filling(f) == [i \in 1 .. 16 |-> IF f[(i + 1) \div 2] = 0 THEN 0 ELSE 255]
Ip6s(bits) == {Mk("IP6", bits, Filling(f)) : f \in [1 .. 8 -> {0, 1}]}
RingThree == {Mk("ETH", 48, <<1, 2, 3, 4, 5, 255>>), Mk("IP", 1, <<10, 7, 255, 129>>),
              Mk("IP6", 64, Filling(<<1, 1, 1, 1, 1, 1, 1, 1>>))}
SomeAddrs == RingThree \cup Ip6s(64) \cup Ip6s(128)
    \cup {Mk("IP", b, <<x, y, 255, 129>>) : b \in {0, 9, 24, 31, 32}, x \in {10, 0}, y \in {255, 7}}
DataAddrs == {Mk("IP", 24, <<10, 0, 0, 9>>), Mk("IP", 32, <<10, 0, 0, 9>>), Mk("IP", 24, <<58, 58, 49, 50>>),
              Mk("IP", 30, <<10, 0, 0, 255>>), Mk("IP", 9, <<10, 127, 0, 1>>),
              Mk("IP", 29, <<255, 255, 255, 253>>), Mk("IP", 0, <<0, 0, 0, 1>>), Mk("ETH", 48, <<1, 2, 3, 0, 5, 250>>),
              Mk("IP6", 64, <<254, 128, 0, 0, 0, 0, 0, 0, 0, 0, 0, 0, 0, 0, 0, 1>>)}
DataRules == [device : {"ed0"}, op : {1}, dir : {1}, proto : {0, 6}, src : {NoAddr, Mk("IP", 24, <<10, 0, 0, 9>>)},
              dst : {NoAddr}, sport : {<<0, 0>>, <<0, 80>>}, dport : {<<7, 65535>>, <<0, 65535>>}]
DataIfents == [name : {"ed0"}, type : {6}, flags : {1}, mtu : {0, 1500}, addr : {NoAddr, Mk("IP", 24, <<10, 0, 0, 9>>)},
               dst_addr : {NoAddr}, link_addr : {Mk("ETH", 48, <<1, 2, 3, 0, 5, 250>>)},
               alias_addrs : {<<>>, <<Mk("IP", 24, <<10, 0, 0, 9>>)>>}]

(* Checksums: the last word takes values that make sums carry, and one      *)
(* that makes UDP's come out as 0; Lens are the segments' lengths.          *)
CONSTANTS TcpLens, UdpLens
Segment(proto, n, w, k) == [proto |-> proto, octets |-> [i \in 1 .. n |->
    IF i = n - 1 THEN w \div Base ELSE IF i = n THEN w % Base
    ELSE IF proto = "icmp" /\ i \in {3, 4} THEN 0 ELSE (k * i) % Base]]
SomeSegments ==
    {Segment("tcp", n, w, k) : n \in TcpLens, w \in {0, 17, 200, 255}, k \in {0, 7}}
    \cup {Segment("udp", n, w, k) : n \in UdpLens, w \in 0 .. 255, k \in {0}}
    \cup {Segment(p, n, w, 7) : p \in {"icmp", "icmpv6"}, n \in {3, 8, 35}, w \in {0, 200}}
SomeHosts == {[i \in 1 .. 8 |-> 0], <<10, 0, 0, 1, 15, 15, 15, 15>>}
SomeOptions == {[only |-> TRUE, len |-> 1]} \cup {[only |-> FALSE, len |-> n] : n \in {2, 3, 10}}

SomeSeeds == {<<1>>, <<2, 0, 3>>}
=============================================================================

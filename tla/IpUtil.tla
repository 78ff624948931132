------------------------------- MODULE IpUtil -------------------------------
(***************************************************************************)
(* ip_checksum and ip6_checksum on packets, and ip_add_option.             *)
(*                                                                         *)
(* An octet is 0 .. Base - 1, a word two octets, and an int four: sums     *)
(* wrap around as ints do.  Base is 256, or less for small sums.  The host *)
(* keeps words with either octet first.                                    *)
(***************************************************************************)
EXTENDS Integers, Sequences, SequencesExt, FiniteSets

CONSTANTS
    Base,        \* the number of values of an octet
    Endians,     \* hosts: a subset of {"little", "big"}
    Segments,    \* segments to be summed: [proto, octets]
    Hosts,       \* the eight octets of source and destination
    AnOptions,   \* options to be added: [only, len], only a type or more
    OptRoom,     \* size of the buffer that options are added in
    Payload      \* octets behind the headers in it

WordBase == Base * Base
IntBase == WordBase * WordBase
ASSUME IpUtilAssumption ==
    /\ Base \in {8, 16, 256} /\ Endians \subseteq {"little", "big"}
    /\ Segments \subseteq [proto : {"tcp", "udp", "icmp", "icmpv6"}, octets : Seq(0 .. Base - 1)]
    /\ Hosts \subseteq [1 .. 8 -> 0 .. Base - 1]
    /\ \A o \in AnOptions : o.only \in BOOLEAN /\ o.len \in Nat \ {0}
    /\ OptRoom \in Nat /\ Payload \in Nat

VARIABLES
    suSeg,       \* the segment: [proto, octets]
    suIp,        \* its packet: [version, host, frag, endian]
    suTimes,     \* how often it was summed
    opBuf,       \* the packet that options are added to, octet by octet
    opHl, opOff, \* its IP header's and its TCP header's length, in words of four octets
    opRet        \* what ip_add_option returned last
suVars == <<suSeg, suIp, suTimes>>
opVars == <<opBuf, opHl, opOff, opRet>>

Proto == [tcp |-> 6, udp |-> 17, icmp |-> 1, icmpv6 |-> 58]
HdrLen == [tcp |-> 20, udp |-> 8, icmp |-> 4, icmpv6 |-> 4]
FieldAt == [tcp |-> 17, udp |-> 7, icmp |-> 3, icmpv6 |-> 3]

SumUp(s) == LET upTo[n \in 0 .. Len(s)] == IF n = 0 THEN 0 ELSE upTo[n - 1] + s[n] IN upTo[Len(s)]

(* Words as the host reads them, htons and htonl, and an int's range.      *)
Word(x, y, endian) == IF endian = "little" THEN x + Base * y ELSE Base * x + y
Octets2(w, endian) == IF endian = "little" THEN <<w % Base, w \div Base>> ELSE <<w \div Base, w % Base>>
SuHtons(n, endian) == Word((n \div Base) % Base, n % Base, endian)
SuHtonl(n, endian) == IF endian = "little" THEN WordBase * SuHtons(n, endian) ELSE n
Int32(n) == LET m == n % IntBase IN IF m >= IntBase \div 2 THEN m - IntBase ELSE m

(* Duff's device takes sixteen words at a time but for the first time.     *)
WordsOver(sn) == (sn % 16) + 16 * ((sn \div 16) - (IF sn % 16 = 0 /\ sn > 0 THEN 1 ELSE 0))  \* mutant: no words at first
WordsTaken(sn) ==
    LET n == (sn + 15) \div 16
        first == IF sn % 16 = 0 THEN 16 ELSE sn % 16
    IN first + 16 * (IF n > 1 THEN n - 1 ELSE 0)
AddWord(octets, i, endian) == Word(octets[2 * i - 1], octets[2 * i], endian)
WordSum(octets, endian) ==
    LET len == Len(octets)
    IN SumUp([i \in 1 .. WordsTaken(len \div 2) |-> AddWord(octets, i, endian)])
       + (IF len % 2 = 1 THEN SuHtons(Base * octets[len], endian) ELSE 0)
IpCksumAdd(octets, sum, endian) ==
    IF Len(octets) = 1 THEN SuHtons(Base * octets[1], endian) ELSE Int32(sum + WordSum(octets, endian))
(* ip_cksum_carry; a shift keeps the sign of an int. *)
IpCksumCarry(sum) ==
    LET x == (sum \div WordBase) + (sum % WordBase)
    IN WordBase - 1 - ((x + (x \div WordBase)) % WordBase)

Put(octets, at, w, endian) ==
    LET two == Octets2(w, endian)
    IN [i \in DOMAIN octets |-> IF i = at THEN two[1] ELSE IF i = at + 1 THEN two[2] ELSE octets[i]]
Cleared(seg) == [seg EXCEPT !.octets = Put(@, FieldAt[seg.proto], 0, "big")]
Stored(seg, w, endian) == [seg EXCEPT !.octets = Put(@, FieldAt[seg.proto], w, endian)]
NeverZero(w) == IF w = 0 THEN WordBase - 1 ELSE w

(* tcp_checksum and udp_checksum add protocol and length as one number of  *)
(* four octets; icmp_checksum sums the field as it is.                     *)
PseudoSum(seg, endian) == SuHtonl(Proto[seg.proto] + Len(seg.octets), endian)
TcpSum(seg, ip) ==
    LET data == Cleared(seg)
        sum == Int32(IpCksumAdd(data.octets, 0, ip.endian) + PseudoSum(seg, ip.endian))
    IN IpCksumCarry(IpCksumAdd(ip.host, sum, ip.endian))
UdpChecksum(seg, ip) == Stored(seg, NeverZero(TcpSum(seg, ip)), ip.endian)
TcpChecksum(seg, ip) == Stored(seg, TcpSum(seg, ip), ip.endian)
IcmpChecksum(seg, ip) == Stored(seg, IpCksumCarry(IpCksumAdd(seg.octets, 0, ip.endian)), ip.endian)
IpChecksum(seg, ip) ==
    CASE ip.frag \/ Len(seg.octets) < HdrLen[seg.proto] -> seg
      [] ~ip.frag /\ seg.proto = "tcp" /\ Len(seg.octets) >= 20 -> TcpChecksum(seg, ip)
      [] ~ip.frag /\ seg.proto = "udp" /\ Len(seg.octets) >= 8 -> UdpChecksum(seg, ip)
      [] ~ip.frag /\ seg.proto = "icmp" /\ Len(seg.octets) >= 4 -> IcmpChecksum(seg, ip)
      [] OTHER -> seg

(* ip6_checksum adds the number as a word; it passes over extension        *)
(* headers, which are not part of the segment here.                        *)
Ip6Sum(seg, ip) ==
    LET data == Cleared(seg)
        pseudo == SuHtons(Proto[seg.proto] + Len(seg.octets), ip.endian)
    IN IpCksumCarry(IpCksumAdd(ip.host \o ip.host \o ip.host \o ip.host,
                               Int32(IpCksumAdd(data.octets, 0, ip.endian) + pseudo), ip.endian))
Ip6Checksum(seg, ip) ==
    IF Len(seg.octets) < HdrLen[seg.proto] THEN seg
    ELSE CASE seg.proto \in {"tcp", "icmpv6"} -> Stored(seg, Ip6Sum(seg, ip), ip.endian)
           [] seg.proto = "udp" -> Stored(seg, NeverZero(Ip6Sum(seg, ip)), ip.endian)
           [] seg.proto = "icmp" -> IcmpChecksum(Cleared(seg), ip)

SuInit ==
    /\ suSeg \in Segments /\ suTimes = 0
    /\ suIp \in [version : {4, 6}, host : Hosts, frag : BOOLEAN, endian : Endians]
    /\ suIp.version = 6 => ~suIp.frag
Checksum ==
    /\ suTimes < 2 /\ suTimes' = suTimes + 1 /\ suIp' = suIp
    /\ suSeg' = IF suIp.version = 4 THEN IpChecksum(suSeg, suIp) ELSE Ip6Checksum(suSeg, suIp)
----------------------------------------------------------------------------
(* Options.  The packet is the headers' octets and the payload's, each one *)
(* named; what an option and its padding bring has names of its own.       *)
Named(name, n) == [i \in 1 .. n |-> <<name, i>>]
Nops(n) == [i \in 1 .. n |-> <<"nop", 0>>]
OpInit ==
    /\ opHl = 5 /\ opOff = 5 /\ opRet = 0
    /\ opBuf = Named("ip", 20) \o Named("tcp", 20) \o Named("data", Payload)
PastWord(len) == len % 4                                  \* mutant: what is over a word
Padding(len) == (4 - (len % 4)) % 4
Behind(proto) == IF proto = "ip" THEN 4 * opHl ELSE 4 * opHl + 4 * opOff
IpAddOption(proto, o) ==
    LET hl == IF proto = "ip" THEN 4 * opHl ELSE 4 * opOff
        at == Behind(proto)
        pad == Padding(o.len)
        optlen == IF o.only THEN 1 ELSE o.len
    IN IF hl + o.len + pad > 60 \/ Len(opBuf) + o.len + pad > OptRoom
       THEN opRet' = -1 /\ UNCHANGED <<opBuf, opHl, opOff>>
       ELSE /\ opRet' = optlen + pad
            /\ opBuf' = SubSeq(opBuf, 1, at) \o Nops(pad) \o Named("option", optlen) \o SubSeq(opBuf, at + 1, Len(opBuf))
            /\ opHl' = IF proto = "ip" THEN (hl + pad + optlen) \div 4 ELSE opHl
            /\ opOff' = IF proto = "tcp" THEN (hl + pad + optlen) \div 4 ELSE opOff

SuNext == Checksum
OpNext == \E proto \in {"ip", "tcp"}, o \in AnOptions : IpAddOption(proto, o)
----------------------------------------------------------------------------
SuTypeOK ==
    /\ \A i \in DOMAIN suSeg.octets : suSeg.octets[i] \in 0 .. Base - 1
    /\ suTimes \in 0 .. 2
OpTypeOK == opHl \in 5 .. 15 /\ opOff \in 5 .. 15 /\ Len(opBuf) <= OptRoom

(* What a receiver adds up, with ones' complement: the segment as words of *)
(* the network, and for all but ICMP over IPv4 the pseudo header.          *)
NetSum(octets) == SumUp([i \in DOMAIN octets |-> IF i % 2 = 1 THEN Base * octets[i] ELSE octets[i]])
Receives(seg, ip) ==
    LET hosts == IF ip.version = 4 THEN NetSum(ip.host) ELSE 4 * NetSum(ip.host)
        pseudo == IF seg.proto = "icmp" THEN 0 ELSE hosts + Proto[seg.proto] + Len(seg.octets)
    IN (NetSum(seg.octets) + pseudo) % (WordBase - 1) = 0
(* ip_checksum sets any appropriate transport checksum (dnet.3:665), and   *)
(* ip6_checksum does (dnet.3:681): a receiver's sum comes out right, and a *)
(* UDP checksum is never the zero that stands for none, after one call and *)
(* after a second.  (icmp_checksum does not clear the field first, so an   *)
(* ICMP packet must come with none and be summed once.)                    *)
SumVerifies ==
    /\ suTimes > 0 /\ ~suIp.frag /\ Len(suSeg.octets) >= HdrLen[suSeg.proto]
       /\ (suSeg.proto = "icmp" /\ suIp.version = 4 => suTimes = 1)
       /\ (suSeg.proto = "icmpv6" => suIp.version = 6) => Receives(suSeg, suIp)
    /\ suTimes > 0 /\ suSeg.proto = "udp" /\ ~suIp.frag /\ Len(suSeg.octets) >= 8 =>
          SubSeq(suSeg.octets, 7, 8) # <<0, 0>>

(* Whatever options are added to the IP and the TCP header, in whatever    *)
(* order, the headers' lengths lead to the TCP header and to the payload,  *)
(* nothing of which is lost or moved apart, and no option is behind the    *)
(* payload's first octet (ip-util.c:82-97).                                *)
OptionsIntact ==
    /\ SubSeq(opBuf, 4 * opHl + 1, 4 * opHl + 20) = Named("tcp", 20)
    /\ SubSeq(opBuf, 4 * (opHl + opOff) + 1, Len(opBuf)) = Named("data", Payload)
    /\ \A i \in DOMAIN opBuf : opBuf[i][1] = "option" =>
          \A j \in 1 .. i : opBuf[j] # <<"data", 1>>
=============================================================================

-------------------------------- MODULE Addr --------------------------------
(***************************************************************************)
(* Addresses: masks, networks, order, and the conversions to text and to   *)
(* socket addresses.  addr_ntoa writes all its texts into one buffer, and  *)
(* starts again at the front when little of it is left.                    *)
(*                                                                         *)
(* A text is a sequence of tokens: numbers and separators.  An address     *)
(* keeps its sixteen octets whatever its type, as the union in addr.h.     *)
(***************************************************************************)
EXTENDS Integers, Sequences, SequencesExt, FiniteSets

CONSTANTS
    AdAddrs,     \* addresses that clients convert
    RingAddrs,   \* addresses that they have addr_ntoa print
    RingSize,    \* size of addr_ntoa's buffer, BUFSIZ in the code
    KeepLast,    \* how many texts clients use at a time
    SaLens,      \* whether sockaddrs have a length: a set of Booleans
    MaxAdCalls   \* bound: calls

Octet == 0 .. 255
TypeBits == [NONE |-> 0, ETH |-> 48, IP |-> 32, IP6 |-> 128]
AdTypes == DOMAIN TypeBits
ASSUME AddrAssumption ==
    /\ AdAddrs \subseteq [type : AdTypes, bits : 0 .. 128, data : [1 .. 16 -> Octet]]
    /\ \A a \in AdAddrs : a.bits <= TypeBits[a.type]
    /\ RingAddrs \subseteq AdAddrs
    /\ RingSize \in Nat /\ RingSize > 64 /\ KeepLast \in Nat /\ MaxAdCalls \in Nat
    /\ SaLens \subseteq BOOLEAN

VARIABLES
    adP,         \* addr_ntoa: where the next text goes
    adHanded,    \* texts it returned lately: [at, len, addr]
    adGot,       \* a conversion to and fro: <<from, to>>, or nothing
    adCalls
adVars == <<adP, adHanded, adGot, adCalls>>

Least(m, n) == IF m <= n THEN m ELSE n
(* An octet whose first k bits are ones; x under such a mask; its rest.    *)
Ones(k) == 256 - 2 ^ (8 - k)
Under(x, mask) == x - (x % (256 - mask))
Over(x, mask) == Under(x, mask) + 255 - mask
Part(bits, i) == IF bits <= 8 * (i - 1) THEN 0 ELSE Least(8, bits - 8 * (i - 1))

(* addr_btom fills whole octets and a part of the next one; its caller     *)
(* checks nothing.  addr_mtob counts whole octets, and at most seven bits. *)
Btom(bits, size) == IF bits > 8 * size THEN <<>> ELSE [i \in 1 .. size |-> Ones(Part(bits, i))]
OnesAhead(x) == LET lead == {k \in 1 .. 7 : Under(x, Ones(k)) = Ones(k)} IN Cardinality(lead)
Mtob(mask) ==
    LET whole == {i \in DOMAIN mask : \A j \in 1 .. i : mask[j] = 255}
        n == Cardinality(whole)
    IN 8 * n + (IF n = Len(mask) THEN 0 ELSE OnesAhead(mask[n + 1]))

(* addr_cmp: types, then bits, then the octets under the mask.  The        *)
(* result's sign is kept.                                                  *)
Sign(n) == IF n < 0 THEN -1 ELSE IF n > 0 THEN 1 ELSE 0
Prefixed(a) == [i \in 1 .. 16 |-> Under(a.data[i], Ones(Part(a.bits, i)))]
OctetsCmp(s, t) ==
    IF s = t THEN 0
    ELSE LET i == CHOOSE k \in DOMAIN s : s[k] # t[k] /\ \A j \in 1 .. k - 1 : s[j] = t[j]
         IN Sign(s[i] - t[i])
TypeNum == [NONE |-> 0, ETH |-> 1, IP |-> 2, IP6 |-> 3]
AddrCmp(a, b) ==
    IF a.type # b.type THEN Sign(TypeNum[a.type] - TypeNum[b.type])
    ELSE IF a.bits # b.bits THEN Sign(a.bits - b.bits) ELSE OctetsCmp(Prefixed(a), Prefixed(b))
(* Interfaces' addresses are compared whole. *)
OwnOctets(a) == SubSeq(a.data, 1, TypeBits[a.type] \div 8)
IntfAddrCmp(a, b) ==
    IF a.type # b.type \/ a.bits # b.bits \/ a.type = "NONE" THEN AddrCmp(a, b)
    ELSE OctetsCmp(OwnOctets(a), OwnOctets(b))

NoOctets == [i \in 1 .. 16 |-> 0]
Masked4(a, Op(_, _)) == [i \in 1 .. 16 |-> IF i <= 4 THEN Op(a.data[i], Btom(a.bits, 4)[i]) ELSE 0]
(* addr_net: an Ethernet address is its own network, or its vendor's.      *)
AddrNet(a) ==
    CASE a.type = "IP"  -> [type |-> "IP", bits |-> 32, data |-> Masked4(a, Under)]
      [] a.type = "ETH" -> [a EXCEPT !.bits = 48, !.data = IF @[1] % 2 = 1
                                THEN [i \in 1 .. 16 |-> IF i \in 4 .. 6 THEN 0 ELSE @[i]] ELSE @]
      [] a.type = "IP6" -> [type |-> "IP6", bits |-> 128, data |-> Prefixed(a)]
      [] OTHER -> [a EXCEPT !.type = "NONE"]
AddrBcast(a) ==
    CASE a.type = "IP"  -> [type |-> "IP", bits |-> 32, data |-> Masked4(a, Over)]
      [] a.type = "ETH" -> [type |-> "ETH", bits |-> 48, data |-> [i \in 1 .. 16 |-> IF i <= 6 THEN 255 ELSE 0]]
      [] OTHER -> [a EXCEPT !.type = "NONE"]
----------------------------------------------------------------------------
(* Text. *)
Dot == -1
Colon == -2
Slash == -3
End == -4
At(t, p) == IF p \in DOMAIN t THEN t[p] ELSE End
Apart(octets, sep) == [i \in 1 .. 2 * Len(octets) - 1 |-> IF i % 2 = 1 THEN octets[(i + 1) \div 2] ELSE sep]
(* eth_pton, ip_pton: n numbers of at most an octet, and nothing after.    *)
IsApart(t, n, sep) ==
    /\ Len(t) = 2 * n - 1
    /\ \A i \in DOMAIN t : IF i % 2 = 1 THEN t[i] \in Octet ELSE t[i] = sep
Numbers(t) == SelectSeq(t, LAMBDA x : x >= 0)

(* ip6_ntop: the first of the longest runs of zero words, if longer than   *)
(* one, is left out; what follows ::, or ::ffff:, is an IP address.        *)
Words(octets) == [i \in 1 .. 8 |-> 256 * octets[2 * i - 1] + octets[2 * i]]
OctetsOf(words) == [i \in 1 .. 2 * Len(words) |->
    IF i % 2 = 1 THEN words[(i + 1) \div 2] \div 256 ELSE words[i \div 2] % 256]
BestRun(w) ==
    LET runs == {r \in (1 .. 8) \X (1 .. 8) : r[1] < r[2] /\ \A i \in r[1] .. r[2] : w[i] = 0}
        long(r) == r[2] - r[1]
    IN IF runs = {} THEN <<9, 0>>
       ELSE CHOOSE r \in runs : \A q \in runs : long(q) < long(r) \/ (long(q) = long(r) /\ r[1] <= q[1])
Ip6Text(octets) ==
    LET w == Words(octets)
        run == BestRun(w)
        tail4 == run = <<1, 6>> \/ (run = <<1, 5>> /\ w[6] = 65535)
        word(i) == CASE i = run[1] -> <<Colon>>
                     [] i \in run[1] + 1 .. run[2] -> <<>>
                     [] tail4 /\ i = 7 -> Apart(SubSeq(octets, 13, 16), Dot)
                     [] tail4 /\ i = 8 -> <<>>
                     [] OTHER -> <<w[i], Colon>>
        text == (IF run[1] = 1 THEN <<Colon>> ELSE <<>>) \o FlattenSeq([i \in 1 .. 8 |-> word(i)])
    IN IF run[2] = 8 \/ tail4 THEN text ELSE Front(text)

(* ip6_pton reads at most eight words; z is the place of ::, which takes   *)
(* one of them.                                                            *)
ReadWord(t, s) ==
    LET x == At(t, s.p)
        y == At(t, s.p + 1)
        stop(n) == [s EXCEPT !.n = n, !.ep = End, !.go = FALSE]
        fail == [s EXCEPT !.go = FALSE, !.ep = Colon]
    IN CASE ~s.go -> s
         [] s.go /\ x = Colon /\ s.z = -1 -> [s EXCEPT !.z = s.n, !.p = @ + 1, !.n = @ + 1, !.ep = x]
         [] s.go /\ x = End -> stop(s.n)
         [] s.go /\ x < 0 /\ x # End /\ (x # Colon \/ s.z # -1) -> fail
         [] s.go /\ x >= 0 /\ y = Dot /\ s.n <= 6 ->
              LET rest == SubSeq(t, s.p, Len(t))
              IN IF ~IsApart(rest, 4, Dot) THEN fail
                 ELSE LET o == Numbers(rest)
                      IN [stop(s.n + 2) EXCEPT !.data[s.n + 1] = 256 * o[1] + o[2], !.data[s.n + 2] = 256 * o[3] + o[4]]
         [] s.go /\ x >= 0 /\ ~(y = Dot /\ s.n <= 6) ->
              IF x > 65535 THEN fail
              ELSE IF y = End THEN [stop(s.n + 1) EXCEPT !.data[s.n + 1] = x]
              ELSE IF y # Colon \/ At(t, s.p + 2) = End THEN fail
              ELSE [s EXCEPT !.data[s.n + 1] = x, !.p = @ + 2, !.n = @ + 1, !.ep = Colon]
Ip6Words(t) ==
    LET first == IF At(t, 1) = Colon THEN 2 ELSE 1
        s == FoldLeft(LAMBDA acc, k : ReadWord(t, acc),
                      [p |-> first, n |-> 0, z |-> -1, data |-> [i \in 1 .. 8 |-> 0], ep |-> Colon, go |-> TRUE],
                      [k \in 1 .. 8 |-> k])
        gap == 8 - (s.n - s.z - 1)
    IN IF s.n = 0 \/ s.ep # End \/ (s.z = -1 /\ s.n # 8) THEN <<>>
       ELSE [i \in 1 .. 8 |-> IF i <= s.z THEN s.data[i] ELSE IF i <= gap THEN 0 ELSE s.data[i - gap + s.z + 1]]

(* addr_ntop, with the least sizes it and its helpers ask for. *)
Suffix(a) == IF a.bits # TypeBits[a.type] THEN <<Slash, a.bits>> ELSE <<>>
AddrNtop(a, size) ==
    CASE a.type = "IP" /\ size >= 20 -> Apart(OwnOctets(a), Dot) \o Suffix(a)
      [] a.type = "IP6" /\ size >= 46 -> Ip6Text(OwnOctets(a)) \o Suffix(a)
      [] a.type = "ETH" /\ size >= 18 /\ a.bits = 48 -> Apart(OwnOctets(a), Colon)
      [] OTHER -> <<>>
(* Characters: numbers by a dot or a slash are decimal, others hexadecimal,*)
(* an Ethernet address's always two.                                       *)
Digits(n, base) == CHOOSE k \in 1 .. 4 : n < base ^ k /\ (k > 1 => n >= base ^ (k - 1))
Width(t, i, eth) ==
    IF t[i] < 0 THEN 1
    ELSE IF eth THEN 2
    ELSE IF At(t, i - 1) \in {Dot, Slash} \/ At(t, i + 1) = Dot THEN Digits(t[i], 10) ELSE Digits(t[i], 16)
TextLen(t, eth) == FoldLeft(LAMBDA sum, i : sum + Width(t, i, eth), 0, [i \in DOMAIN t |-> i])

(* addr_pton: what follows a slash is a number of bits or a mask; what is  *)
(* before it is an IP address, an Ethernet address or an IPv6 address.     *)
Padded(octets) == [i \in 1 .. 16 |-> IF i <= Len(octets) THEN octets[i] ELSE 0]
MaskBits(t) ==
    IF Contains(t, Dot) THEN (IF IsApart(t, 4, Dot) THEN Mtob(Numbers(t)) ELSE -1)
    ELSE IF t = <<>> THEN 0 ELSE IF Len(t) = 1 THEN t[1] ELSE -1
Host(t) ==
    CASE IsApart(t, 4, Dot) -> [type |-> "IP", bits |-> 32, data |-> Padded(Numbers(t))]
      [] IsApart(t, 6, Colon) -> [type |-> "ETH", bits |-> 48, data |-> Padded(Numbers(t))]
      [] Ip6Words(t) # <<>> -> [type |-> "IP6", bits |-> 128, data |-> OctetsOf(Ip6Words(t))]
      [] OTHER -> [type |-> "NONE", bits |-> 0, data |-> NoOctets]
WithBits(a, bits) ==
    IF a.type # "NONE" /\ bits \in 0 .. a.bits THEN [a EXCEPT !.bits = bits]
    ELSE [type |-> "NONE", bits |-> 0, data |-> NoOctets]
AddrPton(t) ==
    LET at == SelectInSeq(t, LAMBDA x : x = Slash)
    IN IF at = 0 THEN Host(t) ELSE WithBits(Host(SubSeq(t, 1, at - 1)), MaskBits(SubSeq(t, at + 1, Len(t))))
----------------------------------------------------------------------------
(* Socket addresses.  An Ethernet address goes by the link family, or by   *)
(* none; Linux gives hardware types for families.                          *)
AddrNtos(a, lens) ==
    CASE a.type = "ETH" -> [family |-> IF lens THEN "LINK" ELSE "UNSPEC", data |-> OwnOctets(a)]
      [] a.type = "IP"  -> [family |-> "INET", data |-> OwnOctets(a)]
      [] a.type = "IP6" -> [family |-> "INET6", data |-> OwnOctets(a)]
      [] OTHER -> [family |-> "EINVAL", data |-> <<>>]
AddrSton(sa) ==
    CASE sa.family \in {"LINK", "UNSPEC", "HRD_ETHER"} -> [type |-> "ETH", bits |-> 48, data |-> Padded(sa.data)]
      [] sa.family = "INET" -> [type |-> "IP", bits |-> 32, data |-> Padded(sa.data)]
      [] sa.family = "INET6" -> [type |-> "IP6", bits |-> 128, data |-> Padded(sa.data)]
      [] OTHER -> [type |-> "NONE", bits |-> 0, data |-> NoOctets]
(* addr_btos chooses the family by the number of bits, and a length that   *)
(* counts the bits of the last octet for octets; addr_stob reads no more.  *)
AddrBtos(bits) ==
    IF bits \in 33 .. 128 THEN [family |-> "INET6", data |-> Btom(bits, 16), len |-> 16 + (bits \div 8) + (bits % 8)]
    ELSE IF bits <= 32 THEN [family |-> "INET", data |-> Btom(bits, 4), len |-> 4 + (bits \div 8) + (bits % 8)]
    ELSE [family |-> "EINVAL", data |-> <<>>, len |-> 0]
AddrStob(sa, lens) ==
    LET len == IF sa.family = "INET6" THEN 16 ELSE IF lens THEN Least(4, sa.len - 4) ELSE 4
    IN Mtob(SubSeq(sa.data, 1, len))
----------------------------------------------------------------------------
AdInit == adP = 0 /\ adHanded = <<>> /\ adGot = <<>> /\ adCalls = 0
AdCounted == adCalls < MaxAdCalls /\ adCalls' = adCalls + 1

(* addr_ntoa: 64 characters are room enough for any address.  The text     *)
(* before has its end, a NUL, in front of the next one.                    *)
AtFront(p) == 0                                           \* mutant: one static text
Start(p) == IF p > RingSize - 64 THEN 0 ELSE p
Recent(h) == IF Len(h) > KeepLast THEN Tail(h) ELSE h
Ntoa(a) ==
    /\ AdCounted /\ adGot = <<>> /\ adGot' = adGot
    /\ LET p == Start(adP)
           t == AddrNtop(a, RingSize - p)
           len == TextLen(t, a.type = "ETH")
       IN IF t = <<>> THEN adP' = p /\ adHanded' = adHanded
          ELSE adP' = p + len + 1 /\ adHanded' = Recent(Append(adHanded, [at |-> p, len |-> len, addr |-> a]))

(* Conversions to and fro.  They touch no state of the library; one in a   *)
(* behaviour is enough.                                                    *)
Converts(from, to) == adHanded = <<>> /\ adGot = <<>> /\ adGot' = <<from, to>> /\ UNCHANGED <<adP, adHanded, adCalls>>
NtopPton(a) == Converts(a, AddrPton(AddrNtop(a, 64)))
NtosSton(a, lens) == a.bits = TypeBits[a.type] /\ Converts(a, AddrSton(AddrNtos(a, lens)))
BtosStob(bits, lens) == Converts(bits, AddrStob(AddrBtos(bits), lens))
BtomMtob(bits) == Converts(bits, Mtob(Btom(bits, 16)))

(* The other orders: an address lies between its network and its broadcast *)
(* address, which differ in what addr_cmp does not look at.                *)
Between(a) ==
    LET low == AddrNet(a)
        high == AddrBcast(a)
        whole == [a EXCEPT !.bits = 32]
    IN a.type = "IP" /\ Converts(<<0, 0, a.bits = 32>>,
           <<AddrCmp([low EXCEPT !.bits = a.bits], a), AddrCmp(a, [high EXCEPT !.bits = a.bits]),
             AddrCmp(low, whole) <= 0 /\ AddrCmp(whole, high) <= 0 /\ IntfAddrCmp(low, high) >= 0>>)

AdNext ==
    \/ \E a \in RingAddrs : Ntoa(a)
    \/ \E a \in AdAddrs : NtopPton(a) \/ Between(a) \/ \E lens \in SaLens : NtosSton(a, lens)
    \/ \E bits \in 0 .. 128 : BtomMtob(bits) \/ \E lens \in SaLens : BtosStob(bits, lens)
----------------------------------------------------------------------------
AdTypeOK == adP \in Nat /\ Len(adHanded) <= KeepLast

(* What addr_ntop wrote addr_pton reads as the same address and mask       *)
(* (check_addr.c:150), an address and a mask survive a sockaddr            *)
(* (check_addr.c:189, 233), and an address lies between its network and    *)
(* its broadcast address.  The texts addr_ntoa returned lately lie apart   *)
(* from each other and inside its buffer.                                  *)
AddrConverts ==
    /\ adGot # <<>> => adGot[1] = adGot[2]
    /\ \A i \in DOMAIN adHanded :
         /\ adHanded[i].at + adHanded[i].len < RingSize
         /\ \A j \in 1 .. i - 1 : \/ adHanded[j].at + adHanded[j].len < adHanded[i].at
                                  \/ adHanded[i].at + adHanded[i].len < adHanded[j].at
=============================================================================

------------------------------- MODULE PyData -------------------------------
(***************************************************************************)
(* What python/dnet.c makes of data: addr objects and their iterator, the  *)
(* dictionaries that stand for interfaces and firewall rules, binary       *)
(* strings, and the random permutation of a range.                         *)
(*                                                                         *)
(* A 32-bit number is a pair of 16-bit ones.  Where a Python exception is  *)
(* raised the result is its name.                                          *)
(***************************************************************************)
EXTENDS Addr, Functions

CONSTANTS
    PyAddrs,      \* addresses
    PyBits,       \* numbers of bits that clients set
    PyRules,      \* struct fw_rule, as the library hands them over
    PyIfents,     \* struct intf_entry, likewise
    PyNumbers,    \* numbers that go into the fields of headers
    PySizes,      \* sizes of ranges to be permuted
    PyWide,       \* whether an unsigned long has more than 32 bits
    PyBig         \* whether the host stores the high octet first

ASSUME PyDataAssumption ==
    /\ \A a \in PyAddrs : a.bits <= TypeBits[a.type]
    /\ PyBits \subseteq Nat /\ PyNumbers \subseteq 0 .. 65535 /\ PySizes \subseteq Nat
    /\ PyWide \in BOOLEAN /\ PyBig \in BOOLEAN

VARIABLES
    pdX,       \* an addr object's address
    pdGot,     \* the last conversion to and fro: <<from, to>>
    pdIter,    \* an __addr_ip4_iter: [cur, max, out, done], out what it returned
    pdRange    \* an __rand_xrange: [max, left, right, sbox, cur, enc, out, first]
pdVars == <<pdX, pdGot, pdIter, pdRange>>

NoIter == [cur |-> <<0, 0>>, max |-> <<0, 0>>, out |-> <<>>, done |-> FALSE]
NoRange == [max |-> 0, left |-> 0, right |-> 0, sbox |-> <<>>, cur |-> 0, enc |-> 0, out |-> <<>>, first |-> <<>>]
Nothing == <<>>
PdInit ==
    /\ pdX \in PyAddrs /\ pdGot = Nothing
    /\ pdIter = NoIter /\ pdRange = NoRange
PdIdle == pdGot = Nothing /\ pdIter = NoIter /\ pdRange = NoRange
PdConverts(from, to) == PdIdle /\ pdGot' = <<from, to>> /\ UNCHANGED <<pdX, pdIter, pdRange>>

(* Octets and numbers. *)
Be16(n) == <<(n \div 256) % 256, n % 256>>
Pair(o) == <<256 * o[1] + o[2], 256 * o[3] + o[4]>>
PairLeq(m, n) == m[1] < n[1] \/ (m[1] = n[1] /\ m[2] <= n[2])
Lead(a, n) == SubSeq(a.data, 1, n)
WithFirst(a, octets) == [i \in 1 .. 16 |-> IF i <= Len(octets) THEN octets[i] ELSE a.data[i]]
----------------------------------------------------------------------------
(* addr.  A text makes one, and so do four octets, if they are no text:    *)
(* they are looked at as characters first, up to a 0, so that those of     *)
(* "::12" are an IPv6 address.  What the resolver makes of them, if they   *)
(* could be a host's name, is left out.                                    *)
HexDigit(c) == CASE c \in 48 .. 57 -> c - 48 [] c \in 65 .. 70 -> c - 55 [] c \in 97 .. 102 -> c - 87 [] OTHER -> -1
Mark(c) == CASE c = 46 -> Dot [] c = 47 -> Slash [] c = 58 -> Colon [] OTHER -> -5
Token(t, c) ==
    LET d == HexDigit(c)
    IN IF d = -1 \/ (d > 9 /\ t # <<>> /\ Last(t) = Slash) THEN Append(t, Mark(c))
       ELSE IF t = <<>> \/ Last(t) < 0 THEN Append(t, d) ELSE [t EXCEPT ![Len(t)] = 16 * @ + d]
Spelt(o) == FoldLeft(Token, <<>>, SubSeq(o, 1, SelectInSeq(Append(o, 0), LAMBDA c : c = 0) - 1))
IsRaw(text) == Len(text) = 4 /\ \A i \in 1 .. 4 : text[i] \in Octet
PyAddrOf(a, text) ==
    IF a.type # "NONE" THEN a
    ELSE IF IsRaw(text) THEN [type |-> "IP", bits |-> 32, data |-> Padded(text)] ELSE "ValueError"
PyAddrInit(text) == PyAddrOf(AddrPton(IF IsRaw(text) THEN Spelt(text) ELSE text), text)
Nameable(o) == o[1] \in (48 .. 57) \cup (65 .. 90) \cup (97 .. 122)
Readable(o) == AddrPton(Spelt(o)).type # "NONE" \/ Nameable(o)
PyAddrRepr(a) == AddrNtop(a, RingSize)

(* The setters.  type and bits are stored as they come, if they fit a      *)
(* short; the others set both.  Clients leave no more bits than the type   *)
(* has.  Bound: an object is set once.                                     *)
PySets(a) == PdIdle /\ pdX \in PyAddrs /\ pdX' = a /\ UNCHANGED <<pdGot, pdIter, pdRange>>
PySetType == \E type \in AdTypes : pdX.bits <= TypeBits[type] /\ PySets([pdX EXCEPT !.type = type])
PySetBits == \E bits \in PyBits :
    IF bits > 65535 THEN PySets(pdX) ELSE bits <= TypeBits[pdX.type] /\ PySets([pdX EXCEPT !.bits = bits])
PySetData(type, octets) ==
    IF 8 * Len(octets) # TypeBits[type] THEN PySets(pdX)
    ELSE PySets([type |-> type, bits |-> TypeBits[type], data |-> WithFirst(pdX, octets)])
PyEthOf(a) == IF a.type # "ETH" THEN "ValueError" ELSE Lead(a, 6)
PyIpOf(a) == IF a.type # "IP" THEN "ValueError" ELSE Lead(a, 4)
PyIp6Of(a) == IF a.type # "IP6" THEN "ValueError" ELSE Lead(a, 16)
PyDataOf(a) == CASE a.type = "ETH" -> PyEthOf(a) [] a.type = "IP" -> PyIpOf(a)
                 [] a.type = "IP6" -> PyIp6Of(a) [] OTHER -> "ValueError"
PyEthAssigned == \E a \in PyAddrs : PySetData("ETH", Lead(a, TypeBits[a.type] \div 8))
PyIpAssigned == \E a \in PyAddrs : PySetData("IP", Lead(a, TypeBits[a.type] \div 8))
PyIp6Assigned == \E a \in PyAddrs : PySetData("IP6", Lead(a, TypeBits[a.type] \div 8))

PyNet(a) == AddrNet(a)
PyBcast(a) == AddrBcast(a)
PyCopy(a) == a
PyCmp(a, b) == AddrCmp(a, b)
PyContains(a, b) ==
    /\ {AddrNet(a).type, AddrBcast(a).type, AddrNet(b).type, AddrBcast(b).type} \cap {"NONE"} = {}
    /\ AddrCmp(AddrNet(b), AddrNet(a)) >= 0 /\ AddrCmp(AddrBcast(b), AddrBcast(a)) <= 0
(* __hash__ mixes the type, the bits and all octets of the type. *)
HashesAll(a) == <<a.type, a.bits, a.data>>   \* mutant: octets beyond the type's mixed in
PyHash(a) == <<a.type, a.bits, Lead(a, TypeBits[a.type] \div 8)>>
PyInt(a) == IF a.type # "IP" THEN "NotImplementedError" ELSE Pair(a.data)
PyLong(a) == PyInt(a)
(* __add__: the number is that of the first four octets, whatever the type.*)
PyAdd(a, n) ==
    LET low == Pair(a.data)[2] + n
        high == (Pair(a.data)[1] + (low \div 65536)) % 65536
    IN [PyCopy(a) EXCEPT !.data = WithFirst(a, Be16(high) \o Be16(low % 65536))]

(* __iter__ and the iterator: from the network's number to the broadcast's.*)
PyIter ==
    /\ PdIdle /\ pdX.type = "IP" /\ pdX.bits >= 29
    /\ pdIter' = [NoIter EXCEPT !.cur = Pair(AddrNet(pdX).data), !.max = Pair(AddrBcast(pdX).data)]
    /\ UNCHANGED <<pdX, pdGot, pdRange>>
Next32(n) ==
    LET high == IF n[2] = 65535 THEN n[1] + 1 ELSE n[1]
    IN <<IF PyWide THEN high ELSE high % 65536, IF n[2] = 65535 THEN 0 ELSE n[2] + 1>>
PyIterNext ==
    /\ pdIter # NoIter /\ ~pdIter.done
    /\ pdIter' = IF PairLeq(pdIter.cur, pdIter.max)
                 THEN [pdIter EXCEPT !.out = Append(@, <<pdIter.cur[1] % 65536, pdIter.cur[2]>>), !.cur = Next32(@)]
                 ELSE [pdIter EXCEPT !.done = TRUE]
    /\ UNCHANGED <<pdX, pdGot, pdRange>>
----------------------------------------------------------------------------
(* Binary strings and texts. *)
PyEthNtoa(buf) == IF Len(buf) # 6 THEN "ValueError" ELSE Apart(buf, Colon)
PyEthAton(t) == IF IsApart(t, 6, Colon) THEN Numbers(t) ELSE "ValueError"
PyIpNtoa(buf) == IF Len(buf) # 4 THEN "ValueError" ELSE Apart(buf, Dot)
PyIpNtoaNumber(n) == Apart(Be16(n[1]) \o Be16(n[2]), Dot)
PyIpAton(t) == IF IsApart(t, 4, Dot) THEN Numbers(t) ELSE "ValueError"
PyIp6Ntoa(buf) == IF Len(buf) # 16 THEN "ValueError" ELSE Ip6Text(buf)
PyIp6Aton(t) == IF Ip6Words(t) = <<>> THEN "ValueError" ELSE OctetsOf(Ip6Words(t))

(* Headers.  A word is put together from two halves and stored in the      *)
(* host's order; htons swaps the octets of a half where the host's order   *)
(* is not the network's.  Where nothing is stored there is a 0.            *)
ShortOrder(n) == IF PyBig THEN n ELSE 256 * (n % 256) + (n \div 256)
StoredWord(high, low) ==
    LET o == Be16(high) \o Be16(low)
    IN IF PyBig THEN o ELSE Reverse(o)
PyEthPack(dst, src, type) == dst \o src \o Be16(type)
PyArpPack(op, sha, spa, dha, dpa) == Be16(1) \o Be16(2048) \o <<6, 4>> \o Be16(op) \o sha \o spa \o dha \o dpa
PyIcmpPack(type, code) == <<type % 256, code % 256, 0, 0>>
PyUdpPack(sport, dport, ulen) == Be16(sport) \o Be16(dport) \o Be16(ulen) \o <<0, 0>>
PyTcpPack(sport, dport, seq, ack, flags, win, urp) ==
    StoredWord(ShortOrder(sport), ShortOrder(dport)) \o Be16(seq[1]) \o Be16(seq[2]) \o Be16(ack[1]) \o Be16(ack[2])
    \o StoredWord(256 * 80 + flags, ShortOrder(win)) \o StoredWord(0, ShortOrder(urp))
PyIpPack(tos, len, id, off, ttl, p, src, dst) ==
    StoredWord(256 * 69 + tos, ShortOrder(len)) \o StoredWord(ShortOrder(id), ShortOrder(off)) \o StoredWord(256 * ttl + p, 0)
    \o src \o dst
PyIp6Pack(fc, fl, plen, nxt, hlim, src, dst) ==
    StoredWord(6 * 4096 + 16 * fc + fl[1], fl[2]) \o StoredWord(ShortOrder(plen), 256 * nxt + hlim) \o src \o dst

(* A header's fields as a receiver reads them: the number of octets of     *)
(* each, one or two.                                                       *)
Fields(h, widths) ==
    FoldLeft(LAMBDA acc, w : [at |-> acc.at + w,
                              got |-> Append(acc.got, IF w = 1 THEN h[acc.at] ELSE 256 * h[acc.at] + h[acc.at + 1])],
             [at |-> 1, got |-> <<>>], widths).got
----------------------------------------------------------------------------
(* Dictionaries: functions of the keys that are there.  What goes through  *)
(* a text comes back as PyAddrInit reads it.                               *)
ThroughText(a) == PyAddrInit(PyAddrRepr(a))
NoAddr == [type |-> "NONE", bits |-> 0, data |-> [i \in 1 .. 16 |-> 0]]
FilledIn(r, keys, absent) == {k \in keys : r[k] # absent}
WithType(r, keys) == {k \in keys : r[k].type # "NONE"}
RuleToDict(r) ==
    LET addrs == WithType(r, {"src", "dst"})
    IN [k \in {"device", "op", "dir"} \cup FilledIn(r, {"proto"}, 0) \cup addrs \cup FilledIn(r, {"sport", "dport"}, <<0, 0>>)
        |-> IF k \in addrs THEN ThroughText(r[k]) ELSE r[k]]
DictToRule(d) ==
    LET ports == IF "proto" \in DOMAIN d /\ d.proto \in {6, 17} THEN <<0, 65535>> ELSE <<0, 0>>
        zero == [proto |-> 0, src |-> NoAddr, dst |-> NoAddr, sport |-> ports, dport |-> ports]
    IN IF {"device", "op", "dir"} \subseteq DOMAIN d THEN d @@ zero ELSE "KeyError"
(* An interface's type does not come back; its aliases may be none.        *)
IfentToDict(e) ==
    LET addrs == WithType(e, {"addr", "dst_addr", "link_addr"})
    IN [k \in {"name", "type", "flags", "mtu"} \cup addrs \cup FilledIn(e, {"alias_addrs"}, <<>>)
        |-> IF k \in addrs THEN ThroughText(e[k])
            ELSE IF k = "alias_addrs" THEN [i \in DOMAIN e[k] |-> ThroughText(e[k][i])] ELSE e[k]]
DictToIfent(d) ==
    LET zero == [flags |-> 0, mtu |-> 0, addr |-> NoAddr, dst_addr |-> NoAddr, link_addr |-> NoAddr, alias_addrs |-> <<>>]
    IN IF "name" \notin DOMAIN d THEN "KeyError"
       ELSE [type |-> 0] @@ Restrict(d, {"name", "flags", "mtu", "addr", "dst_addr", "link_addr", "alias_addrs"} \cap DOMAIN d)
            @@ zero
----------------------------------------------------------------------------
(* rand.xrange: numbers of so many bits are encrypted one after the other, *)
(* and those below the size are returned.                                  *)
TeaDelta == 185   \* 0x9e3779b9, of which no more than an octet counts here
TeaRounds == 3      \* 31 in the code; a bound
BitsFor(n) == CHOOSE b \in 0 .. 8 : n <= 2 ^ b /\ (b > 0 => n > 2 ^ (b - 1))
Xor[m, n \in Nat] == IF m = 0 /\ n = 0 THEN 0 ELSE 2 * Xor[m \div 2, n \div 2] + ((m + n) % 2)
TeaRound(r, c, i) ==
    LET m == 2 ^ (r.left + r.right)
        sum == (i * TeaDelta) % m
        c1 == Xor[c, r.sbox[Xor[c, sum] % 2 ^ r.left] * 2 ^ r.left]
        c2 == (c1 + sum) % m
    IN ((c2 * 2 ^ r.left) % m) + (c2 \div 2 ^ r.right)
Tea(r, n) == FoldLeft(LAMBDA c, i : TeaRound(r, c, i), n, [i \in 1 .. TeaRounds |-> i])
PyXrange == \E n \in PySizes :
    LET left == BitsFor(n) \div 2
        right == BitsFor(n) - left
    IN /\ PdIdle
       /\ \E sbox \in [0 .. 2 ^ left - 1 -> 0 .. 2 ^ right - 1] :
             pdRange' = [NoRange EXCEPT !.max = n, !.left = left, !.right = right, !.sbox = sbox]
       /\ UNCHANGED <<pdX, pdGot, pdIter>>
PyXrangeNext ==
    /\ pdRange # NoRange /\ pdRange.cur # pdRange.max
    /\ LET c == CHOOSE k \in pdRange.enc .. 2 ^ (pdRange.left + pdRange.right) - 1 :
                   /\ Tea(pdRange, k) < pdRange.max
                   /\ \A j \in pdRange.enc .. k - 1 : Tea(pdRange, j) >= pdRange.max
       IN pdRange' = [pdRange EXCEPT !.cur = @ + 1, !.enc = c + 1, !.out = Append(@, Tea(pdRange, c))]
    /\ UNCHANGED <<pdX, pdGot, pdIter>>
(* __iter__ rewinds, and permutes nothing again. *)
PyXrangeIter ==
    /\ pdRange # NoRange /\ pdRange.out # <<>> /\ pdRange.first = <<>>
    /\ pdRange' = [pdRange EXCEPT !.cur = 0, !.enc = 0, !.first = pdRange.out, !.out = <<>>]
    /\ UNCHANGED <<pdX, pdGot, pdIter>>
PyXrangeLen == pdRange.max
----------------------------------------------------------------------------
(* To and fro.  An Ethernet address with less than all its bits has no     *)
(* text; a rule for TCP or UDP with no ports comes back with all of them.  *)
HasText(a) == a.type # "NONE" /\ (a.type = "ETH" => a.bits = 48)
PyTexts == HasText(pdX) /\ PdConverts(PyHash(pdX), PyHash(ThroughText(pdX)))
PyOctets ==
    \/ pdX.type = "ETH" /\ PdConverts(PyDataOf(pdX), PyEthAton(PyEthNtoa(PyEthOf(pdX))))
    \/ pdX.type = "IP" /\ PdConverts(PyDataOf(pdX), PyIpAton(PyIpNtoa(PyIpOf(pdX))))
    \/ pdX.type = "IP" /\ PdConverts(PyDataOf(pdX), PyIpAton(PyIpNtoaNumber(PyLong(pdX))))
    \/ /\ pdX.type = "IP" /\ ~Readable(PyIpOf(pdX))
       /\ PdConverts(PyHash([pdX EXCEPT !.bits = 32]), PyHash(PyAddrInit(PyIpOf(pdX))))
    \/ pdX.type = "IP6" /\ PdConverts(PyDataOf(pdX), PyIp6Aton(PyIp6Ntoa(PyIp6Of(pdX))))
Wrapped(n) == <<n[1] % 65536, n[2]>>
Steps32(n, k) == FoldLeft(LAMBDA acc, i : Next32(acc), n, [i \in 1 .. k |-> i])
PySums == \E k \in 0 .. 2 :
    pdX.type = "IP" /\ PdConverts(Wrapped(Steps32(PyInt(pdX), k)), PyInt(PyAdd(pdX, k)))
PyHeaders == \E m, n \in PyNumbers :
    LET mac == Lead(pdX, 6)
        ip == Lead(pdX, 4)
        ip6 == Lead(pdX, 16)
        seq == <<m, n>>
        packs(h, fields, widths) == PdConverts(fields, Fields(h, widths))
        ones(k) == [i \in 1 .. k |-> 1]
    IN \/ packs(PyEthPack(mac, mac, m), mac \o mac \o <<m>>, ones(12) \o <<2>>)
       \/ packs(PyArpPack(m, mac, ip, mac, ip), <<1, 2048, 6, 4, m>> \o mac \o ip \o mac \o ip,
                <<2, 2, 1, 1, 2>> \o ones(20))
       \/ packs(SubSeq(PyIcmpPack(m, n), 1, 2), <<m % 256, n % 256>>, <<1, 1>>)
       \/ packs(SubSeq(PyUdpPack(m, n, n), 1, 6), <<m, n, n>>, <<2, 2, 2>>)
       \/ packs(PyTcpPack(m, n, seq, seq, n % 256, m, n), <<m, n, m, n, m, n, 80, n % 256, m, 0, n>>,
                <<2, 2, 2, 2, 2, 2, 1, 1, 2, 2, 2>>)
       \/ packs(PyIpPack(m % 256, n, m, n, m % 256, n % 256, ip, ip),
                <<69, m % 256, n, m, n, m % 256, n % 256, 0>> \o ip \o ip, <<1, 1, 2, 2, 2, 1, 1, 2>> \o ones(8))
       \/ packs(PyIp6Pack(m % 256, <<n % 16, m>>, n, m % 256, n % 256, ip6, ip6),
                <<6 * 4096 + 16 * (m % 256) + (n % 16), m, n, m % 256, n % 256>> \o ip6 \o ip6,
                <<2, 2, 2, 1, 1>> \o ones(32))
PyRuleDicts == \E r \in PyRules :
    (r.proto \in {6, 17} => <<0, 0>> \notin {r.sport, r.dport}) /\ PdConverts(r, DictToRule(RuleToDict(r)))
PyIfentDicts == \E e \in PyIfents : PdConverts([e EXCEPT !.type = 0], DictToIfent(IfentToDict(e)))
PdNext ==
    \/ PySetType \/ PySetBits \/ PyEthAssigned \/ PyIpAssigned \/ PyIp6Assigned
    \/ PyTexts \/ PyOctets \/ PySums \/ PyHeaders \/ PyRuleDicts \/ PyIfentDicts
    \/ PyIter \/ PyIterNext \/ PyXrange \/ PyXrangeNext \/ PyXrangeIter
----------------------------------------------------------------------------
PdTypeOK ==
    /\ pdX.type \in AdTypes /\ pdX.bits \in 0 .. TypeBits[pdX.type] /\ pdX.data \in [1 .. 16 -> Octet]
    /\ Len(pdIter.out) <= 8 /\ pdRange.cur = Len(pdRange.out)

(* What goes out comes back: addresses through their texts and their       *)
(* octets, header fields through headers, and interfaces and rules         *)
(* through dictionaries (test.py:92-110, 185-200).                         *)
ComesBack == pdGot # Nothing => pdGot[1] = pdGot[2]
(* Addresses with all their bits that compare equal hash alike, whatever   *)
(* they were before they were set.  (Others compare by their prefix and    *)
(* hash by all octets: 10.0.0.1/24 equals 10.0.0.2/24, and hashes          *)
(* otherwise.)  One network contains another if its prefix is the other's. *)
OrderAgrees == PdIdle => \A a \in PyAddrs :
    /\ pdX.bits = TypeBits[pdX.type] /\ PyCmp(pdX, a) = 0 => PyHash(pdX) = PyHash(a)
    /\ PyCmp(PyNet(pdX), PyNet(a)) = -PyCmp(PyNet(a), PyNet(pdX))
    /\ pdX.type = "IP" => (PyContains(pdX, a) <=>
           a.type = "IP" /\ a.bits >= pdX.bits /\ Prefixed([a EXCEPT !.bits = pdX.bits]) = Prefixed(pdX))
(* An iterator gives the addresses from the network to the broadcast       *)
(* address, each once, in order, and ends.                                 *)
IterKeeps == pdIter # NoIter =>
    /\ \A i \in DOMAIN pdIter.out : pdIter.out[i] = Pair(PyAdd(PyNet(pdX), i - 1).data)
    /\ pdIter.done => Len(pdIter.out) = 2 ^ (32 - pdX.bits) /\ Last(pdIter.out) = Pair(PyBcast(pdX).data)
(* A permuted range gives every number below its size once, and the same   *)
(* order again after a rewind.                                             *)
RangeKeeps ==
    /\ IsInjective(pdRange.out) /\ \A n \in ToSet(pdRange.out) : n < PyXrangeLen
    /\ \A i \in DOMAIN pdRange.out \cap DOMAIN pdRange.first : pdRange.out[i] = pdRange.first[i]
PyDataKeeps == ComesBack /\ OrderAgrees /\ IterKeeps /\ RangeKeeps
=============================================================================

-------------------------------- MODULE Intf --------------------------------
(***************************************************************************)
(* intf_get, intf_set and intf_get_src over the ioctls of a kernel         *)
(* (intf.c).  One call of the library is many calls of the kernel, each of *)
(* which may be refused: some refusals end the call, others the library    *)
(* does not look at.  Other processes change interfaces in between.        *)
(*                                                                         *)
(* A kernel keeps an interface's addresses in order, each under a label: 0 *)
(* is the interface's own name, and n is name:n on Linux, where aliases    *)
(* are interfaces of their own.  BSD labels none.                          *)
(***************************************************************************)
EXTENDS Integers, Sequences, SequencesExt

CONSTANTS
    Systems,     \* builds: "linux", "bsd", "solaris"
    Names,       \* interfaces
    Kind,        \* Kind[n]: "eth" or "tun"
    Ips,         \* addresses
    TheirIps,    \* those that other processes set
    Asks,        \* Asks[n]: entries that clients give to intf_set
    Room,        \* aliases that a client's entry has room for
    MaxLabel,    \* the highest number that name:n can hold (IFNAMSIZ)
    Stale,       \* what an address may hold before it is filled in
    Meddled,     \* builds where others change interfaces while a call runs
    MaxIfOthers, MaxIfCalls   \* bounds

ASSUME IntfAssumption ==
    /\ Systems \subseteq {"linux", "bsd", "solaris"} /\ Kind \in [Names -> {"eth", "tun"}]
    /\ Meddled \subseteq Systems /\ Stale \subseteq Ips /\ Stale # {} /\ TheirIps \subseteq Ips
    /\ {Room, MaxLabel, MaxIfOthers, MaxIfCalls} \subseteq Nat

VARIABLES
    ifSys,       \* the build
    ifKern,      \* the kernel's interfaces
    ifConf,      \* the handle's list of addresses, by interface
    ifEntry,     \* the caller's entry
    ifOrig,      \* an entry of the library's: what intf_set found, or intf_loop reads
    ifAt,        \* the call: pc, op, name, what is asked, room, number of the next alias, the address sought,
                 \* the interfaces intf_loop has not come to
    ifRet, ifQuiet,     \* what it returned; others left things alone and nothing read was refused
    ifPast,      \* history: what intf_set passed over: addresses "kept" that it was to delete, now or in an
                 \* earlier call, and an "addr" or "dst" refused because it exists
    ifOthers, ifCalls
ifVars == <<ifSys, ifKern, ifConf, ifEntry, ifOrig, ifAt, ifRet, ifQuiet, ifPast, ifOthers, ifCalls>>

(* struct addr: an address without a type keeps the octets it had. *)
Ip(a) == [type |-> "ip", ip |-> a]
NoneOf(a) == [a EXCEPT !.type = "none"]
IfFields(e) == [addr |-> e.addr, dst |-> e.dst, link |-> e.link, mtu |-> e.mtu, up |-> e.up, noarp |-> e.noarp]

(* The kernel. *)
OwnAt(k) == SelectInSeq(k.addrs, LAMBDA a : a.label = 0)
HasOwn(k) == OwnAt(k) # 0
OwnIp(k) == k.addrs[OwnAt(k)].ip
KConf == [n \in Names |-> [i \in DOMAIN ifKern[n].addrs |-> ifKern[n].addrs[i].ip]]
With(k, label, ip) ==
    LET i == SelectInSeq(k.addrs, LAMBDA a : a.label = label)
        new == [label |-> label, ip |-> ip, own |-> FALSE]
    IN [k EXCEPT !.addrs = IF i = 0 THEN Append(@, new) ELSE [@ EXCEPT ![i] = new]]
Less(s, gone) ==
    LET left[i \in 0 .. Len(s)] ==
          IF i = 0 THEN <<>> ELSE IF i \in gone THEN left[i - 1] ELSE Append(left[i - 1], s[i])
    IN left[Len(s)]
Without(k, P(_)) == [k EXCEPT !.addrs = Less(@, {i \in DOMAIN @ : P(@[i])})]

IfIdle == ifAt.pc = "idle"
NoCall == [pc |-> "idle", op |-> "none", name |-> CHOOSE n \in Names : TRUE, asked |-> <<>>,
           room |-> 0, next |-> 1, sought |-> <<>>, left |-> {}]
Blank(name, ip) == [name |-> name, addr |-> NoneOf(Ip(ip)), dst |-> NoneOf(Ip(ip)), link |-> 0, mtu |-> 0,
                    up |-> FALSE, noarp |-> FALSE, aliases |-> <<>>]
IfInit(kern) ==
    /\ ifSys \in Systems /\ ifKern = kern /\ ifConf = [n \in Names |-> <<>>]
    /\ \E s \in Stale : /\ ifEntry = Blank(NoCall.name, s) /\ ifOrig = Blank(NoCall.name, s)
    /\ ifAt = NoCall /\ ifRet = 0 /\ ifQuiet = TRUE /\ ifPast = {} /\ ifOthers = 0 /\ ifCalls = 0
----------------------------------------------------------------------------
Steps(pc) == ifAt' = [ifAt EXCEPT !.pc = pc]
Still(vars) == UNCHANGED <<ifSys, ifRet, ifQuiet, ifPast, ifOthers, ifCalls, vars>>
Returns(ret) ==
    /\ Steps("idle") /\ ifRet' = ret
    /\ UNCHANGED <<ifSys, ifKern, ifConf, ifEntry, ifOrig, ifQuiet, ifPast, ifOthers, ifCalls>>

IfCall(op, name, asked, room, sought) ==
    /\ IfIdle /\ ifQuiet' = TRUE /\ ifPast' = ifPast \cap {"kept"}
    /\ ifAt' = [pc |-> IF op = "src" THEN "loop" ELSE "flags", op |-> op, name |-> name, asked |-> asked,
                room |-> room, next |-> 1, sought |-> sought, left |-> {}]
    /\ \/ /\ op = "set" /\ ifEntry' = ifEntry
          /\ \E s \in Stale : ifOrig' = Blank(name, s)
       \/ op = "get" /\ ifOrig' = ifOrig /\ ifEntry' = [ifEntry EXCEPT !.name = name]
       \/ op = "src" /\ ifOrig' = ifOrig /\ ifEntry' = [ifEntry EXCEPT !.addr = Ip(sought[1])]
    /\ UNCHANGED <<ifSys, ifKern, ifConf, ifRet, ifOthers>>

Ask == ifAt.asked
Differs == Ask.link # 0 /\ Ask.link # ifOrig.link
More == ifAt.next <= Len(Ask.aliases)
(* Where a call of the kernel is made that must succeed, it may be refused: *)
(* the library's call ends.                                                *)
MayFail ==
    \/ ifAt.pc \in {"flags", "mask", "loop", "netmask", "setflags"}
    \/ ifAt.pc = "other" /\ ifSys = "linux" /\ Kind[ifAt.name] = "eth"
    \/ ifAt.pc = "conf" /\ ifAt.op # "src"
    \/ ifAt.pc = "mtu" /\ Ask.mtu # 0
    \/ ifAt.pc = "setaddr" /\ Ask.addr.type = "ip"
    \/ ifAt.pc = "link" /\ Differs
    \/ ifAt.pc = "dst" /\ Ask.dst.type = "ip"
    \/ ifAt.pc = "alias" /\ More /\ Ask.aliases[ifAt.next].type = "ip" /\ (ifSys = "bsd" \/ ifAt.next <= MaxLabel)
KernelSaysNo ==
    /\ MayFail /\ Steps("idle") /\ ifRet' = -1 /\ ifQuiet' = FALSE
    /\ UNCHANGED <<ifSys, ifKern, ifConf, ifEntry, ifOrig, ifPast, ifOthers, ifCalls>>
(* An own or a peer's address, or BSD's link-level address, that cannot be  *)
(* read is left out.                                                       *)
ReadRefused ==
    /\ \/ ifAt.pc = "addr" /\ Steps("other")
       \/ ifAt.pc = "other" /\ ~MayFail /\ Steps("conf")
    /\ ifQuiet' = FALSE
    /\ UNCHANGED <<ifSys, ifKern, ifConf, ifEntry, ifOrig, ifRet, ifPast, ifOthers, ifCalls>>

(* _intf_get_noalias *)
Filled == IF ifAt.op = "get" THEN ifEntry ELSE ifOrig
Fill(e) == IF ifAt.op = "get" THEN ifEntry' = e /\ ifOrig' = ifOrig ELSE ifOrig' = e /\ ifEntry' = ifEntry
This == ifKern[ifAt.name]
GetFlags ==
    /\ ifAt.pc = "flags" /\ Steps("addr")
    /\ Fill([Filled EXCEPT !.up = This.up, !.noarp = This.noarp, !.mtu = This.mtu, !.link = 0,
                           !.addr = NoneOf(@), !.dst = NoneOf(@)])
    /\ Still(<<ifKern, ifConf>>)
GetAddr ==
    /\ ifAt.pc = "addr"
    /\ \/ ~HasOwn(This) /\ Steps("other") /\ UNCHANGED <<ifEntry, ifOrig>>
       \/ HasOwn(This) /\ Steps("mask") /\ Fill([Filled EXCEPT !.addr = Ip(OwnIp(This))])
    /\ Still(<<ifKern, ifConf>>)
GetMask ==
    /\ ifAt.pc = "mask"
    /\ IF HasOwn(This) THEN Steps("other") /\ Still(<<ifKern, ifConf, ifEntry, ifOrig>>) ELSE Returns(-1)
GetOther ==
    /\ ifAt.pc = "other" /\ Steps("conf")
    /\ CASE Kind[ifAt.name] = "eth" -> Fill([Filled EXCEPT !.link = This.link])
         [] Kind[ifAt.name] = "tun" /\ This.dst.type = "ip" -> Fill([Filled EXCEPT !.dst = This.dst])
         [] OTHER -> UNCHANGED <<ifEntry, ifOrig>>
    /\ Still(<<ifKern, ifConf>>)

(* _intf_get_aliases: of the handle's list, the addresses of this          *)
(* interface, less those that the entry already holds - in an address of   *)
(* any type, so that what was there before hides an alias.  SIOCGIFCONF    *)
(* fills the list, in intf_loop once for all interfaces, but not the one   *)
(* that builds with SIOCGLIFCONF read: theirs is from the last intf_loop.  *)
Fitting(room, s) == [i \in 1 .. (IF Len(s) < room THEN Len(s) ELSE room) |-> s[i]]
Own(e) == {e.addr.ip, e.dst.ip}
AliasesIn(listed, e) == Less(listed, {i \in DOMAIN listed : listed[i] \in Own(e)})
Hides(e, a) == a.type = "none" /\ a.ip \in ToSet(ifConf'[e.name])
ReadConf == IF ifSys = "solaris" \/ ifAt.op = "src" THEN ifConf ELSE KConf
ReadRoom == IF ifAt.op = "get" THEN ifAt.room ELSE 99
Collects(e) ==
    /\ Fill([e EXCEPT !.aliases = Fitting(ReadRoom, AliasesIn(ReadConf[e.name], e))])
    /\ ifPast' = IF ifAt.op = "set" /\ (Hides(e, e.addr) \/ Hides(e, e.dst)) THEN ifPast \cup {"kept"} ELSE ifPast
GetAliases ==
    /\ ifAt.pc = "conf"
    /\ IF \A n \in Names : ReadConf[n] = <<>> THEN Returns(-1)
       ELSE /\ ifConf' = ReadConf /\ Collects(Filled)
            /\ Steps(CASE ifAt.op = "set" -> "delaliases" [] ifAt.op = "get" -> "idle" [] OTHER -> "match")
            /\ ifRet' = (IF ifAt.op = "get" THEN 0 ELSE ifRet)
            /\ UNCHANGED <<ifSys, ifKern, ifQuiet, ifOthers, ifCalls>>

(* intf_set *)
Becomes(k) == ifKern' = [ifKern EXCEPT ![ifAt.name] = k]
IfRest == UNCHANGED <<ifSys, ifConf, ifEntry, ifOrig, ifRet, ifQuiet, ifOthers, ifCalls>>
Kernel(k, pc) == Becomes(k) /\ Steps(pc) /\ IfRest /\ ifPast' = ifPast
NextAlias(k) == Becomes(k) /\ ifAt' = [ifAt EXCEPT !.next = @ + 1] /\ IfRest
PassesOver(what) == ifPast' = ifPast \cup {what}
(* Deleting is not checked for success. *)
Deletes(k) == \/ Becomes(k) /\ ifPast' = ifPast
              \/ k # This /\ Becomes(This) /\ PassesOver("kept")

(* As many aliases as were found are taken down by number; on BSD, by      *)
(* address.                                                                *)
FromZero(i) == i - 1                                      \* mutant: off by one
AliasNumber(i) == i
WithoutAlias(i) ==
    IF ifSys = "bsd" THEN Without(This, LAMBDA a : a.ip = ifOrig.aliases[i])
    ELSE Without(This, LAMBDA a : a.label = AliasNumber(i) /\ a.label <= MaxLabel)
DeleteAlias ==
    /\ ifAt.pc = "delaliases" /\ ifAt.next <= Len(ifOrig.aliases)
    /\ Deletes(WithoutAlias(ifAt.next)) /\ ifAt' = [ifAt EXCEPT !.next = @ + 1] /\ IfRest
AliasesDeleted ==
    /\ ifAt.pc = "delaliases" /\ ifAt.next > Len(ifOrig.aliases)
    /\ ifAt' = [ifAt EXCEPT !.pc = "deladdr", !.next = 1] /\ Becomes(This) /\ IfRest /\ ifPast' = ifPast
(* Linux and Solaris keep an address until another one is set. *)
DeleteAddr ==
    /\ ifAt.pc = "deladdr" /\ Steps("deldst") /\ IfRest
    /\ Deletes(IF ifSys # "bsd" \/ ifOrig.addr.type = "none" THEN This
               ELSE [Without(This, LAMBDA a : a.ip = ifOrig.addr.ip) EXCEPT !.dst = NoneOf(Ip(0))])
DeleteDst ==
    /\ ifAt.pc = "deldst" /\ Steps("mtu") /\ IfRest
    /\ Deletes(IF ifSys # "bsd" \/ ifOrig.dst.type = "none" THEN This
               ELSE Without(This, LAMBDA a : a.ip = ifOrig.dst.ip))
SetMtu ==
    /\ ifAt.pc = "mtu" /\ Kernel([This EXCEPT !.mtu = IF Ask.mtu # 0 THEN Ask.mtu ELSE @], "setaddr")
(* EEXIST is passed over: a kernel refuses an address that is there        *)
(* already, after it has given up the old one, or has set it before.       *)
Has(k, ip) == \E i \in DOMAIN k.addrs : k.addrs[i].ip = ip
Clashes(ip) == \E i \in DOMAIN This.addrs : This.addrs[i].ip = ip /\ i # OwnAt(This)
SetAddr ==
    /\ ifAt.pc = "setaddr"
    /\ \/ Ask.addr.type = "none" /\ Kernel(This, "link")
       \/ Ask.addr.type = "ip" /\ ~Clashes(Ask.addr.ip) /\ Kernel(With(This, 0, Ask.addr.ip), "netmask")
       \/ /\ Ask.addr.type = "ip" /\ Steps("netmask") /\ IfRest /\ PassesOver("addr")
          /\ \/ Becomes(This) \/ Becomes([This EXCEPT !.addrs = Less(@, {OwnAt(This)})])
             \/ ~Clashes(Ask.addr.ip) /\ Becomes(With(This, 0, Ask.addr.ip))
SetNetmask ==
    /\ ifAt.pc = "netmask"
    /\ IF HasOwn(This) THEN Kernel([This EXCEPT !.addrs[OwnAt(This)].own = TRUE], "link") ELSE Returns(-1)
SetLink ==
    /\ ifAt.pc = "link"
    /\ IF ~Differs THEN Kernel(This, "dst")
       ELSE Kind[ifAt.name] = "eth" /\ Kernel([This EXCEPT !.link = Ask.link], "dst")
SetDst ==
    /\ ifAt.pc = "dst"
    /\ \/ Ask.dst.type = "none" /\ Kernel(This, "alias")
       \/ Ask.dst.type = "ip" /\ Kind[ifAt.name] = "tun" /\ Kernel([This EXCEPT !.dst = Ask.dst], "alias")
       \/ Ask.dst.type = "ip" /\ Steps("alias") /\ Becomes(This) /\ IfRest /\ PassesOver("dst")
(* _intf_add_aliases: one after the other, numbered by its place in the    *)
(* entry; addresses of other families keep their number and are left out.  *)
(* BSD passes over an address that the interface has, Linux refuses it.    *)
AddAlias ==
    /\ ifAt.pc = "alias" /\ More /\ ifPast' = ifPast
    /\ LET a == Ask.aliases[ifAt.next]
           there == Has(This, a.ip)
       IN \/ a.type # "ip" /\ NextAlias(This)
          \/ /\ a.type = "ip" /\ ifSys = "bsd"
             /\ NextAlias(IF there THEN This
                          ELSE [This EXCEPT !.addrs = Append(@, [label |-> 0, ip |-> a.ip, own |-> TRUE])])
          \/ a.type = "ip" /\ ifSys # "bsd" /\ ifAt.next > MaxLabel /\ NextAlias(This)
          \/ /\ a.type = "ip" /\ ifSys # "bsd" /\ ifAt.next <= MaxLabel /\ ~there
             /\ NextAlias(With(This, ifAt.next, a.ip))
NoMoreAliases == ifAt.pc = "alias" /\ ~More /\ Kernel(This, "setflags")
SetFlags ==
    /\ ifAt.pc = "setflags" /\ Steps("idle") /\ ifRet' = 0
    /\ ifKern' = [ifKern EXCEPT ![ifAt.name].up = Ask.up, ![ifAt.name].noarp = Ask.noarp]
    /\ UNCHANGED <<ifSys, ifConf, ifEntry, ifOrig, ifQuiet, ifPast, ifOthers, ifCalls>>

(* intf_get_src: intf_loop lists all addresses at once, then reads one     *)
(* interface after the other into an entry of its own, until one has the   *)
(* address as its own or as an alias: it is copied as far as there is      *)
(* room.                                                                   *)
LoopStarts ==
    /\ ifAt.pc = "loop" /\ ifConf' = KConf /\ ifAt' = [ifAt EXCEPT !.pc = "next", !.left = Names]
    /\ Still(<<ifKern, ifEntry, ifOrig>>)
NextInterface ==
    /\ ifAt.pc = "next"
    /\ \/ /\ ifAt.left # {}
          /\ LET n == CHOOSE m \in ifAt.left : TRUE     \* in the kernel's order
             IN /\ ifAt' = [ifAt EXCEPT !.pc = "flags", !.name = n, !.left = @ \ {n}]
                /\ ifOrig' = Blank(n, 0)
          /\ Still(<<ifKern, ifConf, ifEntry>>)
       \/ ifAt.left = {} /\ Returns(-1)
MatchSrc ==
    /\ ifAt.pc = "match"
    /\ IF (ifOrig.addr.type = "ip" /\ ifOrig.addr.ip = ifEntry.addr.ip) \/ ifEntry.addr.ip \in ToSet(ifOrig.aliases)
       THEN /\ ifEntry' = [ifOrig EXCEPT !.aliases = Fitting(ifAt.room, @)]
            /\ Steps("idle") /\ ifRet' = 0
            /\ UNCHANGED <<ifSys, ifKern, ifConf, ifOrig, ifQuiet, ifPast, ifOthers, ifCalls>>
       ELSE Steps("next") /\ Still(<<ifKern, ifConf, ifEntry, ifOrig>>)

(* Others set addresses, the next alias in order on Linux, give up an      *)
(* interface's own, and turn interfaces on and off.                        *)
OthersConfigure ==
    /\ ifOthers < MaxIfOthers /\ ifOthers' = ifOthers + 1 /\ ifQuiet' = FALSE
    /\ IfIdle \/ ifSys \in Meddled
    /\ \E n \in Names :
          LET k == ifKern[n] IN
          \/ \E ip \in TheirIps : /\ \A m \in Names : ~Has(ifKern[m], ip)
                             /\ Len(k.addrs) <= Room
                             /\ ifKern' = [ifKern EXCEPT ![n] = With(k, IF ifSys = "bsd" THEN 0 ELSE Len(k.addrs), ip)]
          \/ ifKern' = [ifKern EXCEPT ![n] = Without(k, LAMBDA a : a.label = 0)]
          \/ ifKern' = [ifKern EXCEPT ![n].up = ~@]
    /\ UNCHANGED <<ifSys, ifConf, ifEntry, ifOrig, ifAt, ifRet, ifPast, ifCalls>>

IfClient ==
    /\ ifCalls < MaxIfCalls /\ ifCalls' = ifCalls + 1
    /\ \/ \E n \in Names : IfCall("get", n, <<>>, Room, <<>>)
       \/ \E n \in Names : \E e \in Asks[n] : IfCall("set", n, e, 99, <<>>)
       \/ \E ip \in Ips : IfCall("src", NoCall.name, <<>>, Room, <<ip>>)
IfSteps ==
    \/ GetFlags \/ GetAddr \/ GetMask \/ GetOther \/ GetAliases
    \/ DeleteAlias \/ AliasesDeleted \/ DeleteAddr \/ DeleteDst
    \/ SetMtu \/ SetAddr \/ SetNetmask \/ SetLink \/ SetDst \/ AddAlias \/ NoMoreAliases \/ SetFlags
    \/ LoopStarts \/ NextInterface \/ MatchSrc \/ KernelSaysNo \/ ReadRefused
IfNext == IfClient \/ IfSteps \/ OthersConfigure
----------------------------------------------------------------------------
IfTypeOK ==
    /\ ifSys \in Systems /\ ifRet \in {-1, 0} /\ DOMAIN ifKern = Names
    /\ \A n \in Names : \A i \in DOMAIN ifKern[n].addrs :
          ifKern[n].addrs[i].ip \in Ips /\ ifKern[n].addrs[i].label \in 0 .. MaxLabel
    /\ ifEntry.name \in Names /\ Len(ifEntry.aliases) <= 99
    /\ ifPast \subseteq {"kept", "addr", "dst"} /\ ifAt.left \subseteq Names

Asked4(e) == {e.aliases[i].ip : i \in {j \in DOMAIN e.aliases : e.aliases[j].type = "ip"}}
AddrsOf(n) == {ifKern[n].addrs[i].ip : i \in DOMAIN ifKern[n].addrs}
Told == IfIdle /\ ifRet = 0 /\ ifQuiet

(* After an intf_set that succeeded the interface is set as asked          *)
(* (dnet.3:628), with every alias that was asked for; with the address and *)
(* the peer's that were asked for, if EEXIST was not passed over; and with *)
(* no other address, if besides every address that was there could be      *)
(* found and deleted.  An intf_get or intf_get_src that succeeded shows    *)
(* the interface as it is, with every alias there is room for.  (What the  *)
(* entry held before can hide an alias: lines 517 and 735.)                *)
IntfSetShows ==
    LET k == This
        n == ifAt.name
    IN /\ Told /\ ifAt.op = "set" =>
            /\ Ask.mtu # 0 => k.mtu = Ask.mtu
            /\ Ask.addr.type = "ip" /\ "addr" \notin ifPast =>
                  HasOwn(k) /\ OwnIp(k) = Ask.addr.ip /\ k.addrs[OwnAt(k)].own
            /\ Ask.link # 0 => k.link = Ask.link
            /\ Ask.dst.type = "ip" /\ "dst" \notin ifPast => k.dst = Ask.dst
            /\ k.up = Ask.up /\ k.noarp = Ask.noarp
            /\ Asked4(Ask) \subseteq AddrsOf(n)
            /\ ifPast = {} =>
                  AddrsOf(n) = Asked4(Ask) \cup (IF Ask.addr.type = "ip" THEN {Ask.addr.ip}
                                                 ELSE IF ifSys # "bsd" /\ HasOwn(k) THEN {OwnIp(k)} ELSE {})
       /\ Told /\ ifAt.op \in {"get", "src"} =>
            LET e == ifEntry
                shown == ToSet(e.aliases) \cup (IF e.addr.type = "ip" THEN {e.addr.ip} ELSE {})
            IN /\ ifAt.op = "src" => ifAt.sought[1] \in AddrsOf(e.name)
               /\ shown \subseteq AddrsOf(e.name)
               /\ HasOwn(ifKern[e.name]) /\ Len(ifKern[e.name].addrs) <= Room /\ e.dst.ip \notin AddrsOf(e.name) =>
                     shown = AddrsOf(e.name)

(* intf.c:309 `Delete any existing aliases`: after an intf_set that         *)
(* succeeded none of those it found is left that was not asked for.        *)
IntfSetIsTrue ==
    Told /\ ifAt.op = "set" =>
        ToSet(ifOrig.aliases) \cap AddrsOf(ifAt.name) \subseteq Asked4(Ask) \cup {Ask.addr.ip}
=============================================================================

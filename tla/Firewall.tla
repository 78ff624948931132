------------------------------ MODULE Firewall ------------------------------
(***************************************************************************)
(* fw_add and fw_delete over five packet filters.  A rule is turned into   *)
(* the filter's own form.  ipchains and ipf find a rule to be deleted by   *)
(* that form; ipfw, pf and the Windows service are asked for their rules,  *)
(* which are turned back and compared.  Other processes change the rules   *)
(* between two calls of the kernel.                                        *)
(*                                                                         *)
(* Ports and ICMP octets are 0 .. Top, with Top in place of 65535 and 255. *)
(***************************************************************************)
EXTENDS Integers, Sequences, SequencesExt

CONSTANTS
    Filters,     \* the filters to be checked
    FwRules,     \* rules that clients add and delete
    Top,         \* the largest port, and an octet of ones
    Contended,   \* filters whose rules others change as well
    MaxRules,    \* bound: rules in the filter
    MaxOthers,   \* bound: changes by others
    MaxFwCalls   \* bound: calls

Rule == [op : {"allow", "block"}, dir : {"in", "out"}, dev : {"any", "if0"},
         proto : {"all", "icmp", "tcp", "udp"}, src : {"none", "any", "host"},
         dst : {"none", "any", "host"}, sport : (0 .. Top) \X (0 .. Top), dport : (0 .. Top) \X (0 .. Top)]

(* What an ICMP rule's second numbers select is all of the type, or none.  *)
ASSUME FirewallAssumption ==
    /\ Filters \subseteq {"ipchains", "ipf", "ipfw", "pf", "pktfilter"}
    /\ Top \in Nat \ {0} /\ FwRules \subseteq Rule
    /\ \A r \in FwRules : r.proto = "icmp" => {r.sport[2], r.dport[2]} \subseteq {0, Top}
    /\ MaxRules \in Nat /\ MaxOthers \in Nat /\ MaxFwCalls \in Nat

VARIABLES
    fwFilter,    \* the filter of this build
    fwRules,     \* its rules, in order: [num, form]
    fwAt,        \* the call: where it is, its operation and its rule
    fwLeft,      \* rules still to be compared, or the number found
    fwRet,       \* what the last call returned
    fwCalls, fwOthers,   \* calls made, changes by others
    fwHeld,      \* history: the rule's form was there when the call began
    fwTook,      \* history: forms this call removed
    fwQuiet      \* history: others have left the rules alone, and the kernel refused nothing
fwHist == <<fwHeld, fwTook, fwQuiet>>
fwVars == <<fwFilter, fwRules, fwAt, fwLeft, fwRet, fwCalls, fwOthers, fwHist>>

Ported(r) == r.proto \in {"tcp", "udp"}
NoPorts == <<0, 0>>

(* An address that is no address is four zero octets and an empty mask to  *)
(* a kernel, and comes back as the network of all addresses.               *)
AnyNet(a) == IF a = "none" THEN "any" ELSE a
Common(r) == [r EXCEPT !.src = AnyNet(@), !.dst = AnyNet(@)]

(* ipchains keeps what it is given. *)
FwcOf(r) == Common(r)
RuleOfFwc(f) == f

(* ipf says how ports compare.  An ICMP type and code share a word, which  *)
(* is put together in the host's order and taken apart in the network's:   *)
(* on a little-endian host the two are exchanged.                          *)
Cmp(p) == IF p[1] # p[2] THEN [cmp |-> "INRANGE", port |-> p[1], top |-> p[2]]
          ELSE [cmp |-> "EQUAL", port |-> p[1], top |-> 0]
IpfOf(r) ==
    [rule |-> [Common(r) EXCEPT !.sport = NoPorts, !.dport = NoPorts],
     scmp |-> IF Ported(r) THEN Cmp(r.sport) ELSE Cmp(NoPorts),
     dcmp |-> IF Ported(r) THEN Cmp(r.dport) ELSE Cmp(NoPorts),
     icmp |-> IF r.proto = "icmp" THEN <<r.sport[1], r.dport[1]>> ELSE NoPorts,
     mask |-> IF r.proto = "icmp" THEN <<r.sport[2], r.dport[2]>> ELSE NoPorts]
Wrap(n) == n % (Top + 1)
PortsToRule(c) ==
    CASE c.cmp = "EQUAL"     -> <<c.port, c.port>>
      [] c.cmp = "NEQUAL"    -> <<Wrap(c.port - 1), Wrap(c.port + 1)>>
      [] c.cmp = "LESST"     -> <<0, Wrap(c.port - 1)>>
      [] c.cmp = "GREATERT"  -> <<Wrap(c.port + 1), Top>>
      [] c.cmp = "LESSTE"    -> <<0, c.port>>
      [] c.cmp = "GREATERTE" -> <<c.port, Top>>
      [] c.cmp \in {"OUTRANGE", "INRANGE"} -> <<c.port, c.top>>
      [] OTHER -> <<0, Top>>
Masked(n, m) == IF m = 0 THEN 0 ELSE n
RuleOfIpf(f) ==
    LET icmp == [i \in 1 .. 2 |-> <<Masked(f.icmp[3 - i], f.mask[3 - i]), f.mask[3 - i]>>]
    IN CASE f.rule.proto = "icmp" -> [f.rule EXCEPT !.sport = icmp[1], !.dport = icmp[2]]
         [] Ported(f.rule) -> [f.rule EXCEPT !.sport = PortsToRule(f.scmp), !.dport = PortsToRule(f.dcmp)]
         [] OTHER -> f.rule

(* ipfw keeps two ports, one, or none in an array that source and          *)
(* destination share, and a set of ICMP types without codes.               *)
GivenPorts(p) == IF p[1] # p[2] THEN p ELSE IF p[1] > 0 THEN <<p[1]>> ELSE <<>>
IpfwOf(r) ==
    [rule |-> [Common(r) EXCEPT !.sport = NoPorts, !.dport = NoPorts],
     pts  |-> IF Ported(r) THEN GivenPorts(r.sport) \o GivenPorts(r.dport) ELSE <<>>,
     nsrc |-> IF Ported(r) THEN Len(GivenPorts(r.sport)) ELSE 0,
     ndst |-> IF Ported(r) THEN Len(GivenPorts(r.dport)) ELSE 0,
     types |-> IF r.proto = "icmp" /\ r.sport[2] # 0 THEN {r.sport[1]} ELSE {}]
Points(pts, at, n) ==
    CASE n = 2 -> <<pts[at + 1], pts[at + 2]>>
      [] n = 1 -> <<pts[at + 1], pts[at + 1]>>
      [] n = 0 -> <<0, Top>>
FromFirst(f) == 0                                         \* mutant: source ports not passed over
DstAt(f) == f.nsrc
RuleOfIpfw(f) ==
    CASE Ported(f.rule) -> [f.rule EXCEPT !.sport = Points(f.pts, 0, f.nsrc),
                                          !.dport = Points(f.pts, DstAt(f), f.ndst)]
      [] f.rule.proto = "icmp" /\ f.types # {} ->
            [f.rule EXCEPT !.sport = <<CHOOSE t \in f.types : \A u \in f.types : t <= u, Top>>]
      [] OTHER -> f.rule

(* pf keeps ports as they are with how they compare, and one more than an  *)
(* ICMP type and code, so that zero is none.                               *)
OneMore(p) == IF p[2] = 0 THEN 0 ELSE Wrap(p[1] + 1)
PrOf(r) ==
    [rule |-> IF Ported(r) THEN Common(r) ELSE [Common(r) EXCEPT !.sport = NoPorts, !.dport = NoPorts],
     type |-> IF r.proto = "icmp" THEN OneMore(r.sport) ELSE 0,
     code |-> IF r.proto = "icmp" THEN OneMore(r.dport) ELSE 0]
LessAlways(n) == <<n - 1, Top>>                           \* mutant: no test for none
OneLess(n) == IF n = 0 THEN NoPorts ELSE <<n - 1, Top>>
RuleOfPr(f) ==
    IF f.rule.proto = "icmp" THEN [f.rule EXCEPT !.sport = OneLess(f.type), !.dport = OneLess(f.code)]
    ELSE f.rule

(* The Windows service is given text and gives text back.  A range is      *)
(* written with the numbers around it.  A rule for all protocols has no    *)
(* word where the parser expects one, and loses its addresses; a code is   *)
(* passed over, because the word before it is compared the wrong way.      *)
Spec1(p) == IF p[1] = p[2] THEN <<"=", p[1]>> ELSE <<p[1] - 1, "><", p[2] + 1>>
TextOf(r) ==
    [rule |-> [Common(r) EXCEPT !.sport = NoPorts, !.dport = NoPorts],
     sport |-> IF Ported(r) THEN Spec1(r.sport) ELSE <<>>, dport |-> IF Ported(r) THEN Spec1(r.dport) ELSE <<>>,
     type |-> IF r.proto = "icmp" /\ r.sport[2] # 0 THEN <<r.sport[1]>> ELSE <<>>,
     code |-> IF r.proto = "icmp" /\ r.sport[2] # 0 /\ r.dport[2] # 0 THEN <<r.dport[1]>> ELSE <<>>]
PortSpec(s) == IF Len(s) = 2 THEN <<s[2], s[2]>> ELSE <<s[1] + 1, s[3] - 1>>
RuleOfText(t) ==
    CASE t.rule.proto = "all" -> [t.rule EXCEPT !.src = "none", !.dst = "none"]
      [] Ported(t.rule) -> [t.rule EXCEPT !.sport = PortSpec(t.sport), !.dport = PortSpec(t.dport)]
      [] t.type # <<>> -> [t.rule EXCEPT !.sport = <<t.type[1], Top>>]
      [] OTHER -> t.rule

Form(r) == CASE fwFilter = "ipchains" -> FwcOf(r) [] fwFilter = "ipf" -> IpfOf(r)
             [] fwFilter = "ipfw" -> IpfwOf(r) [] fwFilter = "pf" -> PrOf(r)
             [] fwFilter = "pktfilter" -> TextOf(r)
Back(f) == CASE fwFilter = "ipchains" -> RuleOfFwc(f) [] fwFilter = "ipf" -> RuleOfIpf(f)
             [] fwFilter = "ipfw" -> RuleOfIpfw(f) [] fwFilter = "pf" -> RuleOfPr(f)
             [] fwFilter = "pktfilter" -> RuleOfText(f)

Forms == {fwRules[i].form : i \in DOMAIN fwRules}

FwInit ==
    /\ fwFilter \in Filters /\ fwRules = <<>>
    /\ fwAt = [pc |-> "idle", op |-> "none", rule |-> CHOOSE r \in FwRules : TRUE]
    /\ fwLeft = 0 /\ fwRet = 0 /\ fwCalls = 0 /\ fwOthers = 0
    /\ fwHeld = FALSE /\ fwTook = <<>> /\ fwQuiet = TRUE

(* The filter (external): a new rule goes to the end, with a number above  *)
(* all others; a rule is removed by its place, its number or its form.     *)
Highest == Max({0} \cup {fwRules[i].num : i \in DOMAIN fwRules})
Appended(r) == Append(fwRules, [num |-> Highest + 1, form |-> Form(r)])
Place(form) == SelectInSeq(fwRules, LAMBDA x : x.form = form)
PlaceOfNum(n) == SelectInSeq(fwRules, LAMBDA x : x.num = n)
----------------------------------------------------------------------------
FwStep(pc, left) ==
    /\ fwAt' = [fwAt EXCEPT !.pc = pc] /\ fwLeft' = left
    /\ UNCHANGED <<fwFilter, fwRules, fwRet, fwCalls, fwOthers, fwHist>>
FwReturn(ret, rules, took, quiet) ==
    /\ fwAt' = [fwAt EXCEPT !.pc = "idle"] /\ fwLeft' = 0 /\ fwRet' = ret
    /\ fwRules' = rules /\ fwTook' = took /\ fwQuiet' = quiet
    /\ UNCHANGED <<fwFilter, fwCalls, fwOthers, fwHeld>>
Fails == FwReturn(-1, fwRules, <<>>, fwQuiet)
KernelRefuses == FwReturn(-1, fwRules, <<>>, FALSE)
AddsIt == Len(fwRules) < MaxRules /\ FwReturn(0, Appended(fwAt.rule), <<>>, fwQuiet)
Removes(i) == FwReturn(0, RemoveAt(fwRules, i), <<fwRules[i].form>>, fwQuiet)

FwCall(op, r) ==
    /\ fwAt.pc = "idle" /\ fwCalls < MaxFwCalls /\ fwCalls' = fwCalls + 1
    /\ fwAt' = [pc |-> "start", op |-> op, rule |-> r]
    /\ fwLeft' = 0 /\ fwRet' = 0
    /\ fwHeld' = (Form(r) \in Forms) /\ fwTook' = <<>> /\ fwQuiet' = TRUE
    /\ UNCHANGED <<fwFilter, fwRules, fwOthers>>

(* One call of the kernel adds a rule, or deletes the first one whose form *)
(* is the same; the Windows service takes a new rule in the same way.      *)
FwAdd ==
    /\ fwAt.pc = "start" /\ fwAt.op = "add" /\ fwFilter # "pf"
    /\ AddsIt \/ KernelRefuses
DeleteByForm ==
    /\ fwAt.pc = "start" /\ fwAt.op = "delete" /\ fwFilter \in {"ipchains", "ipf"}
    /\ LET i == Place(Form(fwAt.rule)) IN IF i = 0 THEN Fails ELSE Removes(i)

(* ipfw's rules are copied; the first that turns back into the rule gives  *)
(* its number.  The service lists its rules with their places.             *)
FindNumber ==
    /\ fwAt.pc = "start" /\ fwAt.op = "delete" /\ fwFilter \in {"ipfw", "pktfilter"}
    /\ LET i == SelectInSeq(fwRules, LAMBDA x : Back(x.form) = fwAt.rule)
       IN \/ i = 0 /\ Fails
          \/ i # 0 /\ FwStep("delete", IF fwFilter = "ipfw" THEN fwRules[i].num ELSE i)
          \/ KernelRefuses
DeleteByNumber ==
    /\ fwAt.pc = "delete" /\ fwFilter \in {"ipfw", "pktfilter"}
    /\ LET i == IF fwFilter = "ipfw" THEN PlaceOfNum(fwLeft) ELSE fwLeft
       IN \/ i \in DOMAIN fwRules /\ Removes(i)
          \/ i \notin DOMAIN fwRules /\ Fails
          \/ KernelRefuses

(* pf is asked how many rules there are, and gives out a ticket.  From the *)
(* last to the first, each one is turned back and compared; once others    *)
(* have changed the rules the ticket is void, and no rule is got.          *)
CountRules ==
    /\ fwAt.pc = "start" /\ fwFilter = "pf"
    /\ FwStep("compare", Len(fwRules)) \/ KernelRefuses
Equal(i) == fwQuiet /\ Back(fwRules[i].form) = fwAt.rule
CompareRule ==
    /\ fwAt.pc = "compare" /\ fwLeft > 0
    /\ IF ~Equal(fwLeft) THEN FwStep("compare", fwLeft - 1)
       ELSE IF fwAt.op = "add" THEN Fails ELSE FwStep("change", 0)
NoneEqual ==
    /\ fwAt.pc = "compare" /\ fwLeft = 0
    /\ IF fwAt.op = "add" THEN FwStep("change", 0) ELSE Fails
(* The change is made under the same ticket. *)
ChangeRules ==
    /\ fwAt.pc = "change" /\ fwFilter = "pf"
    /\ \/ ~fwQuiet /\ Fails
       \/ fwQuiet /\ fwAt.op = "add" /\ AddsIt
       \/ fwQuiet /\ fwAt.op = "delete" /\ Place(Form(fwAt.rule)) # 0 /\ Removes(Place(Form(fwAt.rule)))
       \/ KernelRefuses

(* Other processes add rules that are not there, and delete some. *)
OthersChange ==
    /\ fwFilter \in Contended /\ fwOthers < MaxOthers /\ fwOthers' = fwOthers + 1
    /\ \/ \E r \in FwRules : /\ Form(r) \notin Forms /\ Len(fwRules) < MaxRules
                             /\ fwRules' = Appended(r)
       \/ \E i \in DOMAIN fwRules : fwRules' = RemoveAt(fwRules, i)
    /\ fwQuiet' = (fwQuiet /\ fwAt.pc = "idle")
    /\ UNCHANGED <<fwFilter, fwAt, fwLeft, fwRet, fwCalls, fwHeld, fwTook>>

FwNext ==
    \/ \E op \in {"add", "delete"}, r \in FwRules : FwCall(op, r)
    \/ FwAdd \/ DeleteByForm \/ FindNumber \/ DeleteByNumber
    \/ CountRules \/ CompareRule \/ NoneEqual \/ ChangeRules \/ OthersChange
FwSpec == FwInit /\ [][FwNext]_fwVars
----------------------------------------------------------------------------
(* What a filter can express of a rule: ipfw has no ICMP codes             *)
(* (fw-ipfw.c:106) and takes port 0 for any; pf's type and code are one     *)
(* more than an octet can hold; in the service's text a rule names its     *)
(* protocol, and ipf's ICMP word has another order than this host.         *)
Expressible(r) ==
    /\ r.src # "none" /\ r.dst # "none"
    /\ r.proto = "all" => r.sport = NoPorts /\ r.dport = NoPorts /\ fwFilter # "pktfilter"
    /\ r.proto = "icmp" =>
         /\ r.sport[2] = 0 => r.sport[1] = 0 /\ r.dport = NoPorts
         /\ r.dport[2] = 0 => r.dport[1] = 0
         /\ fwFilter \in {"ipfw", "pktfilter"} => r.dport[2] = 0
         /\ fwFilter = "pf" => r.sport[1] < Top /\ r.dport[1] < Top
         /\ fwFilter # "ipf"
    /\ Ported(r) /\ fwFilter = "ipfw" => r.sport # NoPorts /\ r.dport # NoPorts

FwTypeOK ==
    /\ fwFilter \in Filters
    /\ \A i \in DOMAIN fwRules : fwRules[i].num \in Nat /\ Back(fwRules[i].form) \in Rule
    /\ fwAt.rule \in FwRules /\ fwLeft \in Nat /\ fwRet \in {-1, 0}

Deleted == fwAt.pc = "idle" /\ fwAt.op = "delete"

(* A rule that a filter can express, and that is there, is found: neither  *)
(* fw_delete nor a listing misses it, whatever way it went to and fro.     *)
FindsItsRule ==
    /\ Deleted /\ fwQuiet /\ fwHeld /\ Expressible(fwAt.rule) => fwRet = 0
    /\ \A r \in FwRules : Expressible(r) /\ Form(r) \in Forms =>
          \E i \in DOMAIN fwRules : Back(fwRules[i].form) = r

(* A delete that succeeds has removed one rule, the one it was given        *)
(* (dnet.3:540), though the rules may have changed since they were read:   *)
(* it has the rule's form, or reads as the rule where filters lose part of *)
(* one (a code in the Windows service's list).  A delete that fails has    *)
(* removed none.                                                           *)
DeletesItsRule ==
    /\ Deleted /\ fwRet = 0 /\ fwCalls > 0 =>
          Len(fwTook) = 1 /\ (fwTook[1] = Form(fwAt.rule) \/ Back(fwTook[1]) = fwAt.rule)
    /\ Deleted /\ fwRet = -1 => fwTook = <<>>

(* pf refuses a rule it has: no two processes can both add it.  (A type of *)
(* 255 is kept as 0, no type, and is not found again.)                     *)
NoTwins ==
    fwFilter = "pf" /\ (\A r \in FwRules : Expressible(r)) =>
        \A i, j \in DOMAIN fwRules : fwRules[i].form = fwRules[j].form => i = j
=============================================================================

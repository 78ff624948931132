------------------------------ MODULE Listing ------------------------------
(***************************************************************************)
(* The loops: arp_loop, route_loop, fw_loop and intf_loop hand every entry *)
(* of a kernel table to a client's handler, which may end the loop by      *)
(* returning non-zero.  No system lends its table: each file copies it in  *)
(* its own way, in one piece or bit by bit, while others change it.  A     *)
(* record says how the loop of one file reads (`by'), of how many lists    *)
(* (`parts'), which kinds of entry it passes over (`skips'), whether it    *)
(* asks the kernel again about each entry (`again'), and which entry it    *)
(* takes for one it has handed over already (`twin').                      *)
(***************************************************************************)
EXTENDS Integers, Sequences, SequencesExt

CONSTANTS
    Loops,        \* the loops to be checked, of those defined below
    LsEntry,      \* [name, kind, part]: what a table can hold
    LsRoom,         \* entries in a table of fixed size
    Chunk,        \* entries that one read of a file in /proc returns
    Undisturbed,  \* loops whose handler never stops and that no signal interrupts
    MaxTable,     \* bound: entries of a list when the first call is made
    MaxChange,    \* bound: changes of the table
    MaxCalls      \* bound: calls

Kinds == {"plain", "incomplete", "alien", "down", "local"}
LsParts == {1, 2}

ASSUME ListingAssumption ==
    /\ \A e \in LsEntry : e.kind \in Kinds /\ e.part \in LsParts
    /\ LsRoom \in Nat /\ Chunk \in Nat \ {0}
    /\ MaxTable \in Nat /\ MaxChange \in Nat /\ MaxCalls \in Nat

Loop(by, parts, skips, again, twin) ==
    [by |-> by, parts |-> parts, skips |-> skips, again |-> again, twin |-> twin]

(* arp_loop.  Only /proc and the kernel's memory tell whether an entry has *)
(* been resolved; a BSD has no hardware address to convert if it has not.  *)
ArpSysctl  == Loop("measured", 1, {"incomplete", "alien"}, FALSE, "none")
ArpProc    == Loop("file", 1, {"incomplete", "alien"}, FALSE, "none")
ArpStreams == Loop("streams", 1, {}, FALSE, "none")
ArpMib     == Loop("fixed", 1, {"alien"}, FALSE, "none")
ArpWin32   == Loop("exact", 1, {"alien"}, FALSE, "none")
(* route_loop.  In /proc, and in a streams module, IPv4 and IPv6 routes    *)
(* are two lists.                                                          *)
RouteSysctl  == Loop("measured", 1, {"alien", "local"}, FALSE, "none")
RouteProc    == Loop("file", 2, {"alien", "down"}, FALSE, "none")
RouteStreams == Loop("streams", 2, {"local"}, FALSE, "none")
RouteHpux    == Loop("fixed", 1, {"local"}, FALSE, "none")
RouteWin32   == Loop("exact", 1, {}, FALSE, "none")
RouteVista   == Loop("whole", 1, {}, TRUE, "none")
(* fw_loop.  ipf keeps one chain for each direction; pf numbers its rules  *)
(* and refuses numbers of an older set.                                    *)
RulesIpchains == Loop("file", 1, {"alien"}, FALSE, "none")
RulesIpfw     == Loop("doubled", 1, {}, FALSE, "none")
RulesIpf      == Loop("chain", 2, {}, FALSE, "none")
RulesPf       == Loop("numbered", 1, {"alien"}, FALSE, "none")
RulesPipe     == Loop("whole", 2, {"alien"}, FALSE, "none")
(* intf_loop.  SIOCGIFCONF has an entry for each address, so that a name   *)
(* comes again: the BSD loop compares with the entry before, the one for   *)
(* SIOCGLIFCONF, whose inner loop advances wrongly, with the first of all. *)
IntfProc   == Loop("file", 1, {}, TRUE, "none")
IntfIfconf == Loop("fixed", 1, {}, TRUE, "previous")
IntfLifconf == Loop("fixed", 1, {}, TRUE, "first")
IntfWin32  == Loop("exact", 1, {}, FALSE, "none")

ASSUME LoopsAssumption ==
    Loops \subseteq {ArpSysctl, ArpProc, ArpStreams, ArpMib, ArpWin32,
                     RouteSysctl, RouteProc, RouteStreams, RouteHpux, RouteWin32, RouteVista,
                     RulesIpchains, RulesIpfw, RulesIpf, RulesPf, RulesPipe,
                     IntfProc, IntfIfconf, IntfLifconf, IntfWin32}

VARIABLES
    lsLoop,     \* the loop of this build
    lsTable,    \* the kernel's lists, in its order
    lsStream,   \* messages waiting in the handle's stream
    lsAt,       \* the call: where it is, and in which part
    lsNext,     \* where each chain goes on: an entry, or nowhere
    lsBuf,      \* entries copied and not yet looked at
    lsPos,      \* entries of this part read so far
    lsSize,     \* room or number of entries asked for before
    lsHanded,   \* what the handler was given in this call
    lsRet,      \* what the last call returned
    lsCount,    \* calls made
    lsChanged,  \* changes of the table
    lsSeen,     \* history: entries in a list at some moment of this call
    lsStayed,   \* history: entries in a list throughout
    lsQuiet,    \* history: nothing has changed since the call began
    lsCut       \* history: parts that this call took for read when they were not
lsRead == <<lsNext, lsBuf, lsPos, lsSize>>
lsHist == <<lsSeen, lsStayed, lsQuiet, lsCut>>
lsVars == <<lsLoop, lsTable, lsStream, lsAt, lsRead, lsHanded, lsRet, lsCount,
            lsChanged, lsHist>>

Listed(p)   == lsTable[p]
Slice(s, m, n) == SubSeq(s, m, IF n > Len(s) THEN Len(s) ELSE n)
FirstOf(s)    == Slice(s, 1, 1)
AllListed   == ToSet(lsTable[1]) \cup ToSet(lsTable[2])
Idle        == lsAt.pc = "idle"
Subject(e)  == IF lsLoop.twin = "none" THEN e ELSE e.name
Wanted(e)   == e.part <= lsLoop.parts /\ e.kind \notin lsLoop.skips

(* Lists without repetition; entries of one name are neighbours. *)
Grouped(s) ==
    /\ IsInjective(s)
    /\ \A i, j \in DOMAIN s : i < j /\ s[i].name = s[j].name => s[i + 1].name = s[i].name
Lists(p) == {s \in BoundedSeq({e \in LsEntry : e.part = p}, MaxTable) : Grouped(s)}

LsInit ==
    /\ lsLoop \in Loops
    /\ lsTable \in {<<a, b>> : a \in Lists(1), b \in IF lsLoop.parts = 2 THEN Lists(2) ELSE {<<>>}}
    /\ lsStream = <<>> /\ lsAt = [pc |-> "idle", part |-> 1] /\ lsNext = <<<<>>, <<>>>>
    /\ lsBuf = <<>> /\ lsPos = 0 /\ lsSize = 0
    /\ lsHanded = <<>> /\ lsRet = "none" /\ lsCount = 0 /\ lsChanged = 0
    /\ lsSeen = {} /\ lsStayed = {} /\ lsQuiet = TRUE /\ lsCut = {}

(* Others change the table: an entry goes, or comes at the end. *)
LsChange ==
    /\ lsChanged < MaxChange /\ lsChanged' = lsChanged + 1
    /\ \E p \in 1..lsLoop.parts :
          \/ \E i \in DOMAIN lsTable[p] : lsTable' = [lsTable EXCEPT ![p] = RemoveAt(@, i)]
          \/ \E e \in LsEntry \ AllListed :
                /\ e.part = p /\ Grouped(Append(lsTable[p], e))
                /\ lsTable' = [lsTable EXCEPT ![p] = Append(@, e)]
    /\ IF Idle THEN UNCHANGED lsHist
       ELSE /\ lsSeen' = lsSeen \cup AllListed' /\ lsStayed' = lsStayed \cap AllListed'
            /\ lsQuiet' = FALSE /\ lsCut' = lsCut
    /\ UNCHANGED <<lsLoop, lsStream, lsAt, lsRead, lsHanded, lsRet, lsCount>>

(* Where the reading of a part begins. *)
StartOf(loop) == IF loop.by = "measured" THEN "measure"
                 ELSE IF loop.by = "streams" THEN "ask" ELSE "fetch"

LsCall ==
    /\ Idle /\ lsCount < MaxCalls /\ lsCount' = lsCount + 1
    /\ lsAt' = [pc |-> StartOf(lsLoop), part |-> 1]
    /\ lsBuf' = <<>> /\ lsPos' = 0 /\ lsSize' = IF lsLoop.by = "numbered" THEN Len(Listed(1)) ELSE 0
    /\ lsNext' = IF lsLoop.by = "chain" THEN [p \in LsParts |-> FirstOf(Listed(p))] ELSE <<<<>>, <<>>>>
    /\ lsHanded' = <<>> /\ lsRet' = "none"
    /\ lsSeen' = AllListed /\ lsStayed' = AllListed /\ lsQuiet' = TRUE /\ lsCut' = {}
    /\ UNCHANGED <<lsLoop, lsTable, lsStream, lsChanged>>

LsReturns(ret) ==
    /\ lsAt' = [lsAt EXCEPT !.pc = "idle"] /\ lsRet' = ret
    /\ lsBuf' = <<>> /\ lsPos' = 0 /\ lsSize' = 0 /\ lsNext' = <<<<>>, <<>>>>
    /\ UNCHANGED <<lsLoop, lsTable, lsStream, lsHanded, lsCount, lsChanged, lsHist>>

Reads(pc, buf, pos, size) ==
    /\ lsAt' = [lsAt EXCEPT !.pc = pc]
    /\ lsBuf' = buf /\ lsPos' = pos /\ lsSize' = size
    /\ UNCHANGED <<lsNext, lsLoop, lsTable, lsStream, lsHanded, lsRet, lsCount, lsChanged, lsHist>>

(* The end of a part: the next one, or the end of the call. *)
PartEnds ==
    IF lsAt.part = lsLoop.parts THEN LsReturns("zero")
    ELSE /\ lsAt' = [pc |-> StartOf(lsLoop), part |-> lsAt.part + 1]
         /\ lsBuf' = <<>> /\ lsPos' = 0 /\ lsSize' = 0
         /\ UNCHANGED <<lsNext, lsLoop, lsTable, lsStream, lsHanded, lsRet, lsCount, lsChanged, lsHist>>
----------------------------------------------------------------------------
(* sysctl is asked for the size and then for the data.  An empty table     *)
(* needs no data; one that has grown does not fit, and the loop fails.     *)
Measure ==
    /\ lsAt.pc = "measure"
    /\ \/ Listed(lsAt.part) = <<>> /\ LsReturns("zero")
       \/ Listed(lsAt.part) # <<>> /\ Reads("fetch", <<>>, 0, Len(Listed(lsAt.part)))
Fits(size) == Len(Listed(lsAt.part)) <= size
FetchMeasured ==
    /\ lsAt.pc = "fetch" /\ lsLoop.by = "measured"
    /\ IF Fits(lsSize) THEN Reads("hand", Listed(lsAt.part), 0, 0) ELSE LsReturns("error")

(* Windows says how much room its table needs now; the loop tries until a  *)
(* table fits.  ipfw copies what fits, and the loop doubles its buffer     *)
(* until there is room to spare.                                           *)
FetchExact ==
    /\ lsAt.pc = "fetch" /\ lsLoop.by = "exact"
    /\ IF Fits(lsSize) THEN Reads("hand", Listed(lsAt.part), 0, 0)
       ELSE Reads("fetch", <<>>, 0, Len(Listed(lsAt.part)))
FetchDoubled ==
    /\ lsAt.pc = "fetch" /\ lsLoop.by = "doubled"
    /\ IF Fits(lsSize) THEN Reads("hand", Listed(lsAt.part), 0, 0)
       ELSE Reads("fetch", <<>>, 0, 2 * lsSize + 1)

(* A buffer of fixed size is filled as far as it goes; a copy that the     *)
(* system or the filter's service allocates is whole.                      *)
FetchFixed ==
    /\ lsAt.pc = "fetch" /\ lsLoop.by \in {"fixed", "whole"}
    /\ Reads("hand", IF lsLoop.by = "fixed" THEN Slice(Listed(lsAt.part), 1, LsRoom)
                     ELSE Listed(lsAt.part), 0, 0)

(* A file in /proc is produced a read at a time, from the position that    *)
(* the reads before have reached.                                          *)
FetchLines ==
    /\ lsAt.pc = "fetch" /\ lsLoop.by = "file"
    /\ LET lines == Slice(Listed(lsAt.part), lsPos + 1, lsPos + Chunk)
       IN IF lines = <<>> THEN PartEnds ELSE Reads("hand", lines, lsPos + Len(lines), 0)

(* The kernel refuses a rule's number if rules have changed since it was   *)
(* asked how many there are, when it gave out the ticket.                  *)
FetchNumbered ==
    /\ lsAt.pc = "fetch" /\ lsLoop.by = "numbered"
    /\ IF lsPos = lsSize THEN LsReturns("zero")
       ELSE IF lsQuiet THEN Reads("hand", <<Listed(1)[lsPos + 1]>>, lsPos + 1, lsSize)
       ELSE LsReturns("error")

(* Chained rules are copied from the kernel's memory one by one; a rule    *)
(* says where the next one is, and the heads of both chains are asked for  *)
(* at the start.  A rule removed meanwhile is read from freed memory: it   *)
(* may be there still, with no more to follow, or the copy fails.          *)
FetchChained ==
    /\ lsAt.pc = "fetch" /\ lsLoop.by = "chain"
    /\ LET p == lsAt.part
           e == lsNext[p][1]
           hands(next) == /\ lsBuf' = <<e>> /\ lsNext' = [lsNext EXCEPT ![p] = next]
                          /\ lsAt' = [lsAt EXCEPT !.pc = "hand"]
                          /\ UNCHANGED <<lsLoop, lsTable, lsStream, lsPos, lsSize, lsHanded, lsRet,
                                         lsCount, lsChanged, lsHist>>
       IN \/ lsNext[p] = <<>> /\ PartEnds
          \/ /\ lsNext[p] # <<>>
             /\ IF Contains(Listed(p), e)
                THEN hands(LET i == CHOOSE j \in DOMAIN Listed(p) : Listed(p)[j] = e IN Slice(Listed(p), i + 1, i + 1))
                ELSE hands(<<>>) \/ LsReturns("error")

(* A file that does not open, an allocation or a call that fails: the loop *)
(* fails.  route_loop in /proc never does: a file it cannot open is passed *)
(* over, and what ends its reading ends the file.  ipchains' loop looks    *)
(* no closer once its file is open, and a line it cannot read ends it too. *)
Refused ==
    /\ lsAt.pc \in {"measure", "fetch", "ask"} /\ lsLoop # RouteProc
    /\ ~(lsLoop = RulesIpchains /\ lsPos > 0)
    /\ LsReturns("error")
CutShort ==
    /\ \/ lsAt.pc = "fetch" /\ lsLoop \in {RouteProc, RulesIpchains}
       \/ lsAt.pc = "hand" /\ lsBuf # <<>> /\ lsLoop = RulesIpchains
    /\ lsCut' = lsCut \cup {lsAt.part}
    /\ \/ /\ lsAt.part = lsLoop.parts
          /\ lsAt' = [lsAt EXCEPT !.pc = "idle"] /\ lsRet' = "zero"
       \/ /\ lsAt.part # lsLoop.parts
          /\ lsAt' = [pc |-> "fetch", part |-> lsAt.part + 1] /\ lsRet' = lsRet
    /\ lsBuf' = <<>> /\ lsPos' = 0 /\ lsSize' = 0
    /\ UNCHANGED <<lsLoop, lsTable, lsStream, lsNext, lsHanded, lsCount, lsChanged, lsSeen, lsStayed, lsQuiet>>
----------------------------------------------------------------------------
(* A streams module answers a request for all its tables with one message  *)
(* for each table, its entries in pieces, and an acknowledgement.  All of  *)
(* it waits in the stream.                                                 *)
Pieces(s) == IF s = <<>> THEN <<[kind |-> "piece", of |-> <<>>, more |-> FALSE]>>
             ELSE [i \in DOMAIN s |-> [kind |-> "piece", of |-> <<s[i]>>, more |-> i < Len(s)]]
Table(ours) == [kind |-> "table", ours |-> ours]
Answered(s) == <<Table(TRUE)>> \o Pieces(s) \o <<Table(FALSE)>> \o Pieces(<<>>) \o <<[kind |-> "end"]>>
SendAsk ==
    /\ lsAt.pc = "ask"
    /\ lsAt' = [lsAt EXCEPT !.pc = "control"]
    /\ lsStream' = lsStream \o Answered(Listed(lsAt.part))
    /\ UNCHANGED <<lsLoop, lsTable, lsRead, lsHanded, lsRet, lsCount, lsChanged, lsHist>>

Consumes == lsStream' = Tail(lsStream)

(* A message where a control message is due: the end of an answer, a       *)
(* table, or a left-over piece, which stays where it is.                   *)
ReadControl ==
    /\ lsAt.pc = "control"
    /\ LET m == Head(lsStream) IN
       \/ /\ m.kind = "end" /\ Consumes
          /\ lsAt' = IF lsAt.part = lsLoop.parts THEN [lsAt EXCEPT !.pc = "idle"]
                     ELSE [pc |-> "ask", part |-> lsAt.part + 1]
          /\ lsRet' = IF lsAt.part = lsLoop.parts THEN "zero" ELSE "none"
          /\ UNCHANGED <<lsLoop, lsTable, lsRead, lsHanded, lsCount, lsChanged, lsHist>>
       \/ /\ m.kind = "table" /\ Consumes
          /\ lsAt' = [lsAt EXCEPT !.pc = "data"] /\ lsSize' = IF m.ours THEN 1 ELSE 0
          /\ UNCHANGED <<lsLoop, lsTable, lsNext, lsBuf, lsPos, lsHanded, lsRet, lsCount, lsChanged, lsHist>>
       \/ m.kind = "piece" /\ LsReturns("error")
ReadPiece ==
    /\ lsAt.pc = "data" /\ Consumes
    /\ LET m == Head(lsStream) IN
       /\ lsBuf' = IF lsSize = 1 THEN m.of ELSE <<>>
       /\ lsPos' = IF m.more THEN 1 ELSE 0
       /\ lsAt' = [lsAt EXCEPT !.pc = IF lsSize = 1 THEN "hand" ELSE IF m.more THEN "data" ELSE "control"]
    /\ UNCHANGED <<lsLoop, lsTable, lsNext, lsSize, lsHanded, lsRet, lsCount, lsChanged, lsHist>>
(* A signal ends a getmsg. *)
StreamInterrupted ==
    /\ lsAt.pc \in {"control", "data"} /\ lsLoop \notin Undisturbed
    /\ LsReturns("error")
----------------------------------------------------------------------------
(* The entries copied are looked at in turn. *)
NoTwin(e) == FALSE                                        \* mutant: names not compared
Twin(e) ==
    \/ lsLoop.twin = "previous" /\ lsHanded # <<>> /\ Last(lsHanded).name = e.name
    \/ lsLoop.twin = "first" /\ lsHanded # <<>> /\ Head(lsHanded).name = e.name
NextRead == IF lsLoop.by = "streams" THEN IF lsPos = 1 THEN "data" ELSE "control" ELSE "fetch"
Exhausted ==
    /\ lsAt.pc = "hand" /\ lsBuf = <<>>
    /\ IF lsLoop.by \in {"file", "numbered", "chain", "streams"}
       THEN Reads(NextRead, <<>>, lsPos, lsSize) ELSE PartEnds
Present == lsAt.pc = "hand" /\ lsBuf # <<>>
PassOver ==
    /\ Present /\ (~Wanted(Head(lsBuf)) \/ Twin(Head(lsBuf)))
    /\ Reads("hand", Tail(lsBuf), lsPos, lsSize)
DueAll == Present /\ ~Twin(Head(lsBuf))                   \* mutant: flags and family not looked at
Due == Present /\ Wanted(Head(lsBuf)) /\ ~Twin(Head(lsBuf))
Gone(e) == lsLoop.again /\ \A f \in AllListed : f.name # e.name

(* The kernel no longer knows what it listed. *)
Vanished == Due /\ Gone(Head(lsBuf)) /\ LsReturns("error")

(* The handler gets the entry, and goes on or stops the loop. *)
GoOn ==
    /\ Due /\ ~Gone(Head(lsBuf))
    /\ lsHanded' = Append(lsHanded, Head(lsBuf)) /\ lsBuf' = Tail(lsBuf)
    /\ UNCHANGED <<lsLoop, lsTable, lsStream, lsAt, lsNext, lsPos, lsSize, lsRet, lsCount, lsChanged, lsHist>>
Stop ==
    /\ Due /\ ~Gone(Head(lsBuf)) /\ lsLoop \notin Undisturbed
    /\ lsHanded' = Append(lsHanded, Head(lsBuf)) /\ lsRet' = "handler"
    /\ lsAt' = [lsAt EXCEPT !.pc = "idle"] /\ lsBuf' = <<>> /\ lsPos' = 0 /\ lsSize' = 0
    /\ lsNext' = <<<<>>, <<>>>>
    /\ UNCHANGED <<lsLoop, lsTable, lsStream, lsCount, lsChanged, lsHist>>

LsNext ==
    \/ LsChange \/ LsCall \/ Measure \/ FetchMeasured \/ FetchExact \/ FetchDoubled
    \/ FetchFixed \/ FetchLines \/ FetchNumbered \/ FetchChained
    \/ Refused \/ CutShort \/ SendAsk \/ ReadControl \/ ReadPiece \/ StreamInterrupted
    \/ Exhausted \/ PassOver \/ Vanished \/ GoOn \/ Stop
LsSpec == LsInit /\ [][LsNext]_lsVars
----------------------------------------------------------------------------
LsTypeOK ==
    /\ \A p \in LsParts : lsTable[p] \in Seq(LsEntry)
    /\ lsBuf \in Seq(LsEntry) /\ lsHanded \in Seq(LsEntry)
    /\ lsAt.part \in LsParts /\ lsRet \in {"none", "zero", "handler", "error"}
    /\ lsPos \in Nat /\ lsSize \in Nat /\ lsCut \subseteq LsParts

(* dnet.3:339, 761: a loop iterates over the table, invoking the callback  *)
(* with each entry.  What the handler gets was in the table while the call *)
(* ran, and was meant to be handed over.                                   *)
HandsTheTruth == \A e \in ToSet(lsHanded) : e \in lsSeen /\ Wanted(e)

(* A loop that ends with 0 has handed over every entry that was there all  *)
(* the time, but for lists whose reading it did not see fail.  What comes  *)
(* bit by bit (a file, a chain) gives that much only if nothing changed.   *)
Piecemeal == lsLoop.by \in {"file", "chain"}
Handed(e) == \E f \in ToSet(lsHanded) : Subject(f) = Subject(e)
HandsEverything ==
    Idle /\ lsRet = "zero" /\ (Piecemeal => lsQuiet) =>
        \A e \in lsStayed : Wanted(e) /\ e.part \notin lsCut => Handed(e)

(* dnet.3:548, 761: the loops iterate over the active ruleset and over the *)
(* kernel's routing table.  So a loop that ends with 0 while nothing has   *)
(* changed has handed over all of it.                                      *)
WellEndedIsWhole == Idle /\ lsRet = "zero" /\ lsQuiet => \A e \in lsStayed : Wanted(e) => Handed(e)

(* No entry is handed over twice in a call. *)
HandsOnce ==
    (Piecemeal => lsQuiet) =>
        \A i, j \in DOMAIN lsHanded : Subject(lsHanded[i]) = Subject(lsHanded[j]) => i = j
=============================================================================

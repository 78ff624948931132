------------------------------ MODULE WinNames ------------------------------
(***************************************************************************)
(* Interfaces on Windows (intf-win32.c).  Adapters have no short names:    *)
(* a handle numbers them by type, in tables that every call extends with   *)
(* all the adapters there are, and looks names up in these tables.         *)
(***************************************************************************)
EXTENDS Integers, Sequences, SequencesExt, FiniteSets

CONSTANTS
    Adapters,    \* adapters, a function to their MIB types
    Later,       \* those that are not there at first
    Strays,      \* names that nobody was given
    MaxWnOthers, MaxWnCalls   \* bounds

MibTypes == {"ethernet", "wifi", "token", "ppp", "loopback", "tunnel", "other"}
ASSUME WinNamesAssumption ==
    /\ IsFiniteSet(DOMAIN Adapters) /\ \A a \in DOMAIN Adapters : Adapters[a] \in MibTypes
    /\ Later \subseteq DOMAIN Adapters /\ MaxWnOthers \in Nat /\ MaxWnCalls \in Nat

VARIABLES
    wnThere,     \* the adapters, in the system's order
    wnTable,     \* iftable: the adapters at the last call
    wnCombo,     \* ifcombo: for each type, adapters in order of their numbers
    wnGiven,     \* names the client has been given: [name, adapter]
    wnRet,       \* the adapter that was found, "none" or "nothing yet"
    wnCalls, wnOthers   \* calls, changes
wnVars == <<wnThere, wnTable, wnCombo, wnGiven, wnRet, wnCalls, wnOthers>>

(* Types that have no word of their own are Ethernet's; a name is a word   *)
(* and a number, and the word leads back to the type.                      *)
IfcomboName(mib) ==
    CASE mib = "token" -> "tr" [] mib = "ppp" -> "ppp" [] mib = "loopback" -> "lo"
      [] mib = "tunnel" -> "tun" [] OTHER -> "eth"
IfcomboType(word) ==
    CASE word = "tr" -> "TOKENRING" [] word = "ppp" -> "PPP" [] word = "lo" -> "LOOPBACK"
      [] word = "tun" -> "TUN" [] word = "eth" -> "ETH" [] OTHER -> "OTHER"
IfTypes == {"OTHER", "ETH", "TOKENRING", "PPP", "LOOPBACK", "TUN"}
Canonical(mib) == IfcomboType(IfcomboName(mib))

WnInit ==
    /\ wnThere \in SetToSeqs(DOMAIN Adapters \ Later)
    /\ wnTable = <<>> /\ wnCombo = [t \in IfTypes |-> <<>>] /\ wnGiven = {}
    /\ wnRet = "nothing yet"
    /\ wnCalls = 0 /\ wnOthers = 0
----------------------------------------------------------------------------
(* _refresh_tables: every adapter is added again.  The table before is not *)
(* freed.                                                                  *)
IfcomboAdd(combo, a) == [combo EXCEPT ![Canonical(Adapters[a])] = Append(@, a)]
AllAdded(combo) ==
    LET added[n \in 0 .. Len(wnThere)] == IF n = 0 THEN combo ELSE IfcomboAdd(added[n - 1], wnThere[n])
    IN added[Len(wnThere)]
Renumbered == AllAdded([t \in IfTypes |-> <<>>])          \* mutant: from nothing
Fresher == AllAdded(wnCombo)
Refreshed(combo) ==
    /\ wnTable' = wnThere /\ wnCombo' = combo
    /\ wnCalls < MaxWnCalls /\ wnCalls' = wnCalls + 1 /\ UNCHANGED <<wnThere, wnOthers>>

(* _adapter_address_to_entry: the first number that is the adapter's. *)
NameOf(a, combo) ==
    [word |-> IfcomboName(Adapters[a]), num |-> SelectInSeq(combo[Canonical(Adapters[a])], LAMBDA x : x = a) - 1]
(* _find_adapter_address: what the number stands for, if it is there.  A   *)
(* number past the end is read all the same, and can be anything.          *)
Found(name, combo) ==
    LET mine == combo[IfcomboType(name.word)]
    IN IF name.num < Len(mine) THEN {mine[name.num + 1]} \cap ToSet(wnThere)
       ELSE ToSet(wnThere)

(* intf_loop and intf_get_index give out names, and so does intf_get_src.  *)
WnLoop ==
    /\ Refreshed(Fresher) /\ wnRet' = "nothing yet"
    /\ wnGiven' = wnGiven \cup {[name |-> NameOf(a, Fresher), adapter |-> a] : a \in ToSet(wnThere)}
WnGetIndex(a) ==
    /\ Refreshed(Fresher)
    /\ IF a \in ToSet(wnThere)
       THEN wnRet' = a /\ wnGiven' = wnGiven \cup {[name |-> NameOf(a, Fresher), adapter |-> a]}
       ELSE wnRet' = "none" /\ wnGiven' = wnGiven
WnGet(name) ==
    /\ Refreshed(Fresher) /\ wnGiven' = wnGiven
    /\ \/ \E a \in Found(name, Fresher) : wnRet' = a
       \/ name.num >= Len(Fresher[IfcomboType(name.word)]) /\ wnRet' = "none"
       \/ Found(name, Fresher) = {} /\ wnRet' = "none"

(* Adapters come and go, and come back with the index they had. *)
Plug ==
    /\ wnOthers < MaxWnOthers /\ wnOthers' = wnOthers + 1
    /\ \/ \E a \in DOMAIN Adapters \ ToSet(wnThere) : wnThere' \in {Append(wnThere, a), <<a>> \o wnThere}
       \/ \E i \in DOMAIN wnThere : wnThere' = RemoveAt(wnThere, i)
    /\ UNCHANGED <<wnTable, wnCombo, wnGiven, wnRet, wnCalls>>

WnNext ==
    \/ WnLoop \/ \E a \in DOMAIN Adapters : WnGetIndex(a)
    \/ \E n \in {g.name : g \in wnGiven} \cup Strays : WnGet(n)
    \/ Plug
----------------------------------------------------------------------------
WnTypeOK ==
    /\ ToSet(wnThere) \subseteq DOMAIN Adapters /\ ToSet(wnTable) \subseteq DOMAIN Adapters
    /\ wnRet \in DOMAIN Adapters \cup {"none", "nothing yet"}

(* A name that a handle gave for an adapter finds that adapter as long as  *)
(* the handle is open, or none when the adapter has gone, whatever other   *)
(* adapters came and went in between; and two adapters never have one      *)
(* name.  (intf-win32.c:248: "Map unfriendly win32 interface indices to    *)
(* ours".)                                                                 *)
WinNamesKeep ==
    /\ \A g, h \in wnGiven : (g.name = h.name) = (g.adapter = h.adapter)
    /\ \A g \in wnGiven : Found(g.name, wnCombo) \subseteq {g.adapter}
=============================================================================

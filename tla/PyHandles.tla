------------------------------ MODULE PyHandles ------------------------------
(***************************************************************************)
(* The Python classes over the library's handles (python/dnet.c): opening, *)
(* the methods, the loops with their callbacks, closing.  A method holds   *)
(* the interpreter's lock from its first line to its last, so methods      *)
(* interleave only where a loop calls back.                                *)
(*                                                                         *)
(* A method is told by the function of the library it calls, by what it    *)
(* makes of its result, and by what it does to its object.  Arguments are  *)
(* good, or refused before anything is called.                             *)
(***************************************************************************)
EXTENDS Integers, Sequences, SequencesExt

CONSTANTS
    PyObjects,    \* objects
    PyClasses,    \* their classes
    PyMtus,       \* sizes of packets that tunnels are opened with
    PyAnswers,    \* what callbacks answer: "none", "number", "wide", "text", or they raise: "error"
    PyAgain,      \* whether clients call __init__ again
    MaxPyCalls, MaxPyDepth   \* bounds: calls, loops inside loops

Looping == {"arp", "intf", "route", "fw"}
ASSUME PyHandlesAssumption ==
    /\ PyClasses \subseteq Looping \cup {"eth", "ip", "rand", "tun"}
    /\ PyAnswers \subseteq {"none", "number", "wide", "text", "error"} /\ PyAgain \in BOOLEAN
    /\ PyMtus \subseteq Nat /\ MaxPyCalls \in Nat /\ MaxPyDepth \in Nat

VARIABLES
    pyObj,       \* [class, h, mtu, buf]: h is the library's handle, 0 for NULL
    pyOpen,      \* the library's open handles
    pyLoops,     \* loops under way, the innermost first: [obj, h, iter, inside, raised]
    pyLast,      \* [native, gave]: the last result, and what Python was given for it
    pyWrong,     \* history: handles the library should not have been given
    pyDropped,   \* history: __init__ was called again, or a tunnel was closed
    pyHandles, pyCalls   \* handles opened, calls made
pyVars == <<pyObj, pyOpen, pyLoops, pyLast, pyWrong, pyDropped, pyHandles, pyCalls>>

Unborn == [class |-> "unborn", h |-> 0, mtu |-> 0, buf |-> 0]
PyInit ==
    /\ pyObj = [o \in PyObjects |-> Unborn] /\ pyOpen = {} /\ pyLoops = <<>>
    /\ pyLast = [native |-> 0, gave |-> "value"]
    /\ pyWrong = {} /\ pyDropped = FALSE /\ pyHandles = 0 /\ pyCalls = 0

(* The client runs: outside of all loops, or in a callback of its own.     *)
PyClientRuns == pyLoops # <<>> => (Head(pyLoops).inside /\ ~Head(pyLoops).iter)
PyCounted == PyClientRuns /\ pyCalls < MaxPyCalls /\ pyCalls' = pyCalls + 1
PyIs(o, class) == pyObj[o].class = class
PyGiven(h) == IF h = 0 THEN {"NULL"} ELSE IF h \in pyOpen THEN {} ELSE {"closed"}
PyShows(native, gave) == pyLast' = [native |-> native, gave |-> gave]

(* What methods make of a result. *)
Raises(r) == IF r < 0 THEN "OSError" ELSE "value"
Tells(r) == IF r < 0 THEN "negative" ELSE "value"
Looks(r) == IF r = 0 THEN "value" ELSE "None"
PyRefuses == PyShows(0, "refused") /\ UNCHANGED <<pyObj, pyOpen, pyLoops, pyWrong, pyDropped, pyHandles>>
PyCalled(o, class, results, Makes(_)) ==
    /\ PyIs(o, class) /\ PyCounted
    /\ \E r \in results : PyShows(r, Makes(r))
    /\ pyWrong' = pyWrong \cup PyGiven(pyObj[o].h)
    /\ UNCHANGED <<pyObj, pyOpen, pyLoops, pyDropped, pyHandles>>
PyCall(o, class, Makes(_)) == PyCalled(o, class, {-1, 0}, Makes)
PyAsk(o, class) == PyCalled(o, class, {0}, Tells)
PyBadArgument(o, class) == PyIs(o, class) /\ PyCounted /\ PyRefuses
PyCallWith(o, class, Makes(_)) == PyCall(o, class, Makes) \/ PyBadArgument(o, class)

(* __init__: the handle is the object's before it is looked at.  An object *)
(* whose first __init__ fails is nobody's, and is freed.                   *)
PyInits(o, class) == class \in PyClasses /\ (PyIs(o, "unborn") \/ (PyAgain /\ PyIs(o, class))) /\ PyCounted
PyOpens(o, class, good, bad) ==
    /\ PyInits(o, class)
    /\ pyDropped' = (pyDropped \/ PyIs(o, class))
    /\ \/ /\ pyHandles' = pyHandles + 1 /\ pyOpen' = pyOpen \cup {pyHandles'}
          /\ pyObj' = [pyObj EXCEPT ![o] = [good EXCEPT !.h = pyHandles']]
          /\ PyShows(0, "value")
       \/ /\ pyObj' = [pyObj EXCEPT ![o] = IF PyIs(o, "unborn") THEN Unborn ELSE bad] /\ PyShows(-1, "OSError")
          /\ UNCHANGED <<pyHandles, pyOpen>>
    /\ UNCHANGED <<pyLoops, pyWrong>>
PyHandle(o, class) == LET new == [class |-> class, h |-> 0, mtu |-> 0, buf |-> 0] IN PyOpens(o, class, new, new)

(* __dealloc__, when nothing refers to the object: no loop of its own is   *)
(* under way.                                                              *)
PyUnused(o) == \A i \in DOMAIN pyLoops : pyLoops[i].obj # o
PyFrees(o, class) ==
    /\ PyIs(o, class) /\ PyClientRuns /\ PyUnused(o)
    /\ pyObj' = [pyObj EXCEPT ![o] = Unborn]
    /\ pyOpen' = pyOpen \ {pyObj[o].h}
    /\ pyWrong' = pyWrong \cup (IF pyObj[o].h = 0 THEN {} ELSE PyGiven(pyObj[o].h))
    /\ UNCHANGED <<pyLoops, pyLast, pyDropped, pyHandles, pyCalls>>
----------------------------------------------------------------------------
(* One class after the other. *)
PyEthInit(o) == PyHandle(o, "eth")
PyEthGet(o) == PyCall(o, "eth", Raises)
PyEthSet(o) == PyCallWith(o, "eth", Raises)
PyEthSend(o) == PyCallWith(o, "eth", Tells)
PyEthDealloc(o) == PyFrees(o, "eth")

PyIpInit(o) == PyHandle(o, "ip")
PyIpSend(o) == PyCallWith(o, "ip", Tells)
PyIpDealloc(o) == PyFrees(o, "ip")

PyArpInit(o) == PyHandle(o, "arp")
PyArpAdd(o) == PyCallWith(o, "arp", Raises)
PyArpDelete(o) == PyCallWith(o, "arp", Raises)
PyArpGet(o) == PyCallWith(o, "arp", Looks)
PyArpDealloc(o) == PyFrees(o, "arp")

PyIntfInit(o) == PyHandle(o, "intf")
PyIntfGet(o) == PyCallWith(o, "intf", Raises)
PyIntfGetSrc(o) == PyCallWith(o, "intf", Raises)
PyIntfGetDst(o) == PyCallWith(o, "intf", Raises)
PyIntfSet(o) == PyCallWith(o, "intf", Raises)
PyIntfDealloc(o) == PyFrees(o, "intf")

PyRouteInit(o) == PyHandle(o, "route")
PyRouteAdd(o) == PyCallWith(o, "route", Raises)
PyRouteDelete(o) == PyCallWith(o, "route", Raises)
PyRouteGet(o) == PyCallWith(o, "route", Looks)
PyRouteDealloc(o) == PyFrees(o, "route")

PyFwInit(o) == PyHandle(o, "fw")
PyFwAdd(o) == PyCallWith(o, "fw", Raises)
PyFwDelete(o) == PyCallWith(o, "fw", Raises)
PyFwDealloc(o) == PyFrees(o, "fw")

(* rand: the library's answers to get, set and add are not looked at.      *)
PyRandInit(o) == PyHandle(o, "rand")
PyRandGet(o) == PyAsk(o, "rand") \/ PyBadArgument(o, "rand")
PyRandSet(o) == PyAsk(o, "rand") \/ PyBadArgument(o, "rand")
PyRandAdd(o) == PyAsk(o, "rand") \/ PyBadArgument(o, "rand")
PyRandNumber(o) == PyAsk(o, "rand")
PyRandDealloc(o) == PyFrees(o, "rand")

(* tun: mtu is set before the handle is looked at, and buf after; recv     *)
(* reads as much as mtu into buf.                                          *)
PyTunInit(o) == \E mtu \in PyMtus :
    PyOpens(o, "tun", [class |-> "tun", h |-> 0, mtu |-> mtu, buf |-> mtu],
            [class |-> "tun", h |-> 0, mtu |-> mtu, buf |-> pyObj[o].buf])
PyTunName(o) == PyAsk(o, "tun")
PyTunFd(o) == PyAsk(o, "tun")
PyTunFileno(o) == PyAsk(o, "tun")
PyTunSend(o) == PyCallWith(o, "tun", Tells)
PyTunRecv(o) == PyCall(o, "tun", Raises)
PyTunClose(o) ==
    /\ PyIs(o, "tun") /\ PyCounted /\ PyShows(0, "value")
    /\ pyWrong' = pyWrong \cup PyGiven(pyObj[o].h)
    /\ pyObj' = [pyObj EXCEPT ![o].h = 0] /\ pyOpen' = pyOpen \ {pyObj[o].h}
    /\ pyDropped' = TRUE
    /\ UNCHANGED <<pyLoops, pyHandles>>
PyTunDealloc(o) == PyFrees(o, "tun")
----------------------------------------------------------------------------
(* loop gives the library a callback of its own; __iter__ is a loop whose  *)
(* callback, __iter_append, fills a list.  Both keep the handle they       *)
(* started with.                                                           *)
PyLoop(o, class, iter) ==
    /\ PyIs(o, class) /\ PyCounted /\ Len(pyLoops) < MaxPyDepth
    /\ pyWrong' = pyWrong \cup PyGiven(pyObj[o].h)
    /\ pyLoops' = <<[obj |-> o, h |-> pyObj[o].h, iter |-> iter, inside |-> FALSE, raised |-> FALSE]>> \o pyLoops
    /\ UNCHANGED <<pyObj, pyOpen, pyLast, pyDropped, pyHandles>>
PyArpLoop(o) == PyLoop(o, "arp", FALSE)
PyArpIter(o) == PyLoop(o, "arp", TRUE)
PyIntfLoop(o) == PyLoop(o, "intf", FALSE)
PyIntfIter(o) == PyLoop(o, "intf", TRUE)
PyRouteLoop(o) == PyLoop(o, "route", FALSE)
PyRouteIter(o) == PyLoop(o, "route", TRUE)
PyFwLoop(o) == PyLoop(o, "fw", FALSE)
PyFwIter(o) == PyLoop(o, "fw", TRUE)

(* The library hands over an entry, as long as its handle is good.         *)
PyHandsOver ==
    /\ pyLoops # <<>> /\ ~Head(pyLoops).inside /\ pyCalls < MaxPyCalls /\ pyCalls' = pyCalls + 1
    /\ pyLoops' = [pyLoops EXCEPT ![1].inside = TRUE]
    /\ pyWrong' = pyWrong \cup PyGiven(Head(pyLoops).h)
    /\ UNCHANGED <<pyObj, pyOpen, pyLast, pyDropped, pyHandles>>

(* __arp_callback and its like: what is false is 0, a number is cut to the *)
(* width of an int, and an error, or what is no number, is -1.  Only an    *)
(* answer of 0 goes on.                                                    *)
PyIgnores(answer) == IF answer = "number" THEN 1 ELSE 0   \* mutant: exceptions pass for 0
PyResult(answer) == CASE answer \in {"none", "wide"} -> 0 [] answer = "number" -> 1 [] OTHER -> -1
PyEnds(native) ==
    /\ pyLoops' = Tail(pyLoops)
    /\ PyShows(native, IF Head(pyLoops).iter THEN "list" ELSE Tells(native))
PyCallbackReturns ==
    /\ pyLoops # <<>> /\ Head(pyLoops).inside
    /\ \E answer \in IF Head(pyLoops).iter THEN {"none"} ELSE PyAnswers :
          LET r == PyResult(answer)
          IN IF r # 0 THEN PyEnds(r)
             ELSE /\ pyLoops' = [pyLoops EXCEPT ![1] = [@ EXCEPT !.inside = FALSE, !.raised = answer \in {"error", "text"}]]
                  /\ pyLast' = pyLast
    /\ UNCHANGED <<pyObj, pyOpen, pyWrong, pyDropped, pyHandles, pyCalls>>
(* The table ends, or cannot be read. *)
PyLoopEnds ==
    /\ pyLoops # <<>> /\ ~Head(pyLoops).inside
    /\ \E native \in {-1, 0} : PyEnds(native)
    /\ UNCHANGED <<pyObj, pyOpen, pyWrong, pyDropped, pyHandles, pyCalls>>

PyMethods(o) ==
    \/ PyEthInit(o) \/ PyEthGet(o) \/ PyEthSet(o) \/ PyEthSend(o) \/ PyEthDealloc(o)
    \/ PyIpInit(o) \/ PyIpSend(o) \/ PyIpDealloc(o)
    \/ PyArpInit(o) \/ PyArpAdd(o) \/ PyArpDelete(o) \/ PyArpGet(o) \/ PyArpLoop(o) \/ PyArpIter(o) \/ PyArpDealloc(o)
    \/ PyIntfInit(o) \/ PyIntfGet(o) \/ PyIntfGetSrc(o) \/ PyIntfGetDst(o) \/ PyIntfSet(o)
    \/ PyIntfLoop(o) \/ PyIntfIter(o) \/ PyIntfDealloc(o)
    \/ PyRouteInit(o) \/ PyRouteAdd(o) \/ PyRouteDelete(o) \/ PyRouteGet(o)
    \/ PyRouteLoop(o) \/ PyRouteIter(o) \/ PyRouteDealloc(o)
    \/ PyFwInit(o) \/ PyFwAdd(o) \/ PyFwDelete(o) \/ PyFwLoop(o) \/ PyFwIter(o) \/ PyFwDealloc(o)
    \/ PyRandInit(o) \/ PyRandGet(o) \/ PyRandSet(o) \/ PyRandAdd(o) \/ PyRandNumber(o) \/ PyRandDealloc(o)
    \/ PyTunInit(o) \/ PyTunName(o) \/ PyTunFd(o) \/ PyTunFileno(o) \/ PyTunSend(o) \/ PyTunRecv(o)
    \/ PyTunClose(o) \/ PyTunDealloc(o)
PyNext == (\E o \in PyObjects : PyMethods(o)) \/ PyHandsOver \/ PyCallbackReturns \/ PyLoopEnds
PySpec == PyInit /\ [][PyNext]_pyVars
----------------------------------------------------------------------------
PyTypeOK ==
    /\ \A o \in PyObjects : pyObj[o].h \in 0 .. pyHandles
    /\ pyOpen \subseteq 1 .. pyHandles /\ Len(pyLoops) <= MaxPyDepth

(* However objects, loops and callbacks are interleaved, the library is    *)
(* never given a handle that was closed, nor closes one twice; it is given *)
(* no handle at all only after __init__ was called again or a tunnel was   *)
(* closed; a loop's handle stays open under it.  No open handle is lost,   *)
(* but by another __init__.  No object but a closed tunnel has less room   *)
(* for a packet than it asks for.  A callback that raised is the last of   *)
(* its loop, and a failure is shown as one - except that __iter__ gives a  *)
(* list however its loop ended.                                            *)
PyHandlesSafe ==
    /\ "closed" \notin pyWrong /\ ("NULL" \in pyWrong => pyDropped)
    /\ \A i \in DOMAIN pyLoops : pyLoops[i].h # 0 => pyLoops[i].h \in pyOpen
    /\ \A h \in pyOpen : pyDropped \/ \E o \in PyObjects : pyObj[o].h = h
    /\ \A o, p \in PyObjects : pyObj[o].h = pyObj[p].h /\ pyObj[o].h # 0 => o = p
    /\ \A o \in PyObjects : pyObj[o].h # 0 => pyObj[o].buf = pyObj[o].mtu
    /\ \A i \in DOMAIN pyLoops : ~pyLoops[i].raised
    /\ pyLast.gave # "list" => (pyLast.native < 0 <=> pyLast.gave \in {"OSError", "None", "negative"})
=============================================================================

--------------------------- MODULE OwnStateProofs ---------------------------
(***************************************************************************)
(* What holds of the parts whose state is the library's own: the handles   *)
(* of the Python classes, options put into headers, checksums, Windows'    *)
(* names of interfaces, and random numbers.                                *)
(***************************************************************************)
EXTENDS PyHandles, IpUtil, WinNames, Rand, TableProofs

(* However many objects there are, however often their methods are called, *)
(* and however deep loops lie in loops: what PyHandlesSafe says of the     *)
(* Python classes' handles holds always.                                   *)

PyFailures == {"OSError", "None", "negative"}
PyResultType == [native : Int, gave : PyFailures \cup {"value", "refused", "list"}]
PyShowsTrue(last) == last.gave # "list" => (last.native < 0 <=> last.gave \in PyFailures)
PyObjectType == [class : {"unborn", "tun", "eth", "ip", "rand"} \cup Looping, h : Nat, mtu : Nat, buf : Nat]
PyFrame == [obj : PyObjects, h : Nat, iter : BOOLEAN, inside : BOOLEAN, raised : BOOLEAN]

PyTypes ==
    /\ pyObj \in [PyObjects -> PyObjectType] /\ pyLoops \in Seq(PyFrame)
    /\ pyHandles \in Nat /\ pyOpen \subseteq 1 .. pyHandles /\ pyDropped \in BOOLEAN
    /\ pyLast \in PyResultType

(* An object has its own open handle, or none: then it is unborn, or       *)
(* something was dropped.                                                  *)
PyOwned ==
    /\ \A o \in PyObjects : pyObj[o].h # 0 => pyObj[o].h \in pyOpen
    /\ \A o, p \in PyObjects : pyObj[o].h = pyObj[p].h /\ pyObj[o].h # 0 => o = p
    /\ \A h \in pyOpen : pyDropped \/ \E o \in PyObjects : pyObj[o].h = h
    /\ \A o \in PyObjects : pyObj[o].h = 0 => pyObj[o].class = "unborn" \/ pyDropped
    /\ \A o \in PyObjects : pyObj[o].h # 0 => pyObj[o].class # "unborn" /\ pyObj[o].buf = pyObj[o].mtu

(* A loop's handle is open, and no other object than the loop's has it:    *)
(* who frees or closes another object leaves it open.                      *)
PyWalked ==
    \A i \in DOMAIN pyLoops :
        /\ pyObj[pyLoops[i].obj].class \in Looping /\ ~pyLoops[i].raised
        /\ pyLoops[i].h = 0 => pyDropped
        /\ pyLoops[i].h # 0 =>
              /\ pyLoops[i].h \in pyOpen
              /\ \A o \in PyObjects : pyObj[o].h = pyLoops[i].h => o = pyLoops[i].obj

PyRight == "closed" \notin pyWrong /\ ("NULL" \in pyWrong => pyDropped)

PyInv == PyTypes /\ PyOwned /\ PyWalked /\ PyRight /\ PyShowsTrue(pyLast)
----------------------------------------------------------------------------
(* The forms that methods have. *)
PyReturned == pyLast' \in PyResultType /\ PyShowsTrue(pyLast')
PyMethodAnswers(o) ==
    /\ pyObj[o].class # "unborn" /\ PyReturned
    /\ pyWrong' = pyWrong \cup PyGiven(pyObj[o].h)
    /\ UNCHANGED <<pyObj, pyOpen, pyLoops, pyDropped, pyHandles>>
PyMethodDeclines == PyReturned /\ UNCHANGED <<pyObj, pyOpen, pyLoops, pyWrong, pyDropped, pyHandles>>
PyMethodOpens(o) == \E class \in {"tun", "eth", "ip", "rand"} \cup Looping, mtu \in Nat :
    /\ pyObj[o].class \in {"unborn", class} /\ PyReturned
    /\ pyDropped' = (pyDropped \/ pyObj[o].class = class)
    /\ \/ /\ pyHandles' = pyHandles + 1 /\ pyOpen' = pyOpen \cup {pyHandles'}
          /\ pyObj' = [pyObj EXCEPT ![o] = [class |-> class, h |-> pyHandles', mtu |-> mtu, buf |-> mtu]]
       \/ /\ UNCHANGED <<pyHandles, pyOpen>>
          /\ \E new \in PyObjectType : /\ pyObj' = [pyObj EXCEPT ![o] = new] /\ new.h = 0
                                 /\ new.class = pyObj[o].class
    /\ UNCHANGED <<pyLoops, pyWrong>>
PyMethodFrees(o) == \E class \in {"tun", "eth", "ip", "rand"} \cup Looping : PyFrees(o, class)
PyMethodLoops(o) == \E class \in Looping, iter \in BOOLEAN : PyLoop(o, class, iter)
PyMethod(o) == PyMethodAnswers(o) \/ PyMethodDeclines \/ PyMethodOpens(o) \/ PyMethodFrees(o) \/ PyMethodLoops(o) \/ PyTunClose(o)

LEMMA ShowsReturned ==
    ASSUME NEW n \in Int, NEW g \in PyFailures \cup {"value", "refused", "list"}, PyShows(n, g),
           g # "list" => (n < 0 <=> g \in PyFailures)
    PROVE  PyReturned
<1>1. pyLast' \in PyResultType /\ pyLast'.native = n /\ pyLast'.gave = g
  BY DEF PyShows, PyResultType
<1> QED BY <1>1 DEF PyReturned, PyShowsTrue

LEMMA MakersAgree ==
    ASSUME NEW r \in {-1, 0}
    PROVE  /\ Raises(r) \in {"value", "OSError"} /\ (r < 0 <=> Raises(r) # "value")
           /\ Tells(r) \in {"value", "negative"} /\ (r < 0 <=> Tells(r) # "value")
           /\ Looks(r) \in {"value", "None"} /\ (r < 0 <=> Looks(r) # "value")
BY DEF Raises, Tells, Looks

LEMMA AnswersForm ==
    ASSUME NEW o \in PyObjects, NEW class, class # "unborn",
           PyCall(o, class, Raises) \/ PyCall(o, class, Tells) \/ PyCall(o, class, Looks) \/ PyAsk(o, class)
    PROVE  PyMethodAnswers(o)
<1>1. \/ PyCalled(o, class, {-1, 0}, Raises) \/ PyCalled(o, class, {-1, 0}, Tells)
      \/ PyCalled(o, class, {-1, 0}, Looks) \/ PyCalled(o, class, {0}, Tells)
  BY DEF PyCall, PyAsk
<1>2. /\ \E r \in {-1, 0} : PyShows(r, Raises(r)) \/ PyShows(r, Tells(r)) \/ PyShows(r, Looks(r))
      /\ pyObj[o].class = class /\ pyWrong' = pyWrong \cup PyGiven(pyObj[o].h)
      /\ UNCHANGED <<pyObj, pyOpen, pyLoops, pyDropped, pyHandles>>
  BY <1>1 DEF PyCalled, PyIs
<1>3. PICK r \in {-1, 0} : PyShows(r, Raises(r)) \/ PyShows(r, Tells(r)) \/ PyShows(r, Looks(r))
  BY <1>2
<1>4. ASSUME PyShows(r, Raises(r)) PROVE PyReturned
  BY <1>4, MakersAgree, ShowsReturned DEF PyFailures
<1>5. ASSUME PyShows(r, Tells(r)) PROVE PyReturned
  BY <1>5, MakersAgree, ShowsReturned DEF PyFailures
<1>6. ASSUME PyShows(r, Looks(r)) PROVE PyReturned
  BY <1>6, MakersAgree, ShowsReturned DEF PyFailures
<1> QED BY <1>2, <1>3, <1>4, <1>5, <1>6 DEF PyMethodAnswers

LEMMA DeclinesForm ==
    ASSUME NEW o \in PyObjects, NEW class, PyBadArgument(o, class) PROVE PyMethodDeclines
BY DEF PyBadArgument, PyRefuses, PyShows, PyMethodDeclines, PyReturned, PyResultType, PyShowsTrue, PyFailures

LEMMA OpensForm ==
    ASSUME NEW o \in PyObjects, NEW class \in {"eth", "ip", "rand"} \cup Looping, PyTypes, PyHandle(o, class)
    PROVE  PyMethodOpens(o)
<1> DEFINE new == [class |-> class, h |-> 0, mtu |-> 0, buf |-> 0]
<1>1. PyOpens(o, class, new, new)
  BY DEF PyHandle
<1>2. PyReturned
  BY <1>1 DEF PyOpens, PyShows, PyReturned, PyResultType, PyShowsTrue, PyFailures
<1>3. pyObj[o].class \in {"unborn", class} /\ pyDropped' = (pyDropped \/ pyObj[o].class = class)
      /\ UNCHANGED <<pyLoops, pyWrong>>
  BY <1>1 DEF PyOpens, PyInits, PyIs
<1>4. CASE pyHandles' = pyHandles + 1 /\ pyOpen' = pyOpen \cup {pyHandles'}
           /\ pyObj' = [pyObj EXCEPT ![o] = [new EXCEPT !.h = pyHandles']]
  <2>1. [new EXCEPT !.h = pyHandles'] = [class |-> class, h |-> pyHandles', mtu |-> 0, buf |-> 0]
    OBVIOUS
  <2> QED BY <1>2, <1>3, <1>4, <2>1 DEF PyMethodOpens
<1>5. CASE pyObj' = [pyObj EXCEPT ![o] = IF PyIs(o, "unborn") THEN Unborn ELSE new] /\ UNCHANGED <<pyHandles, pyOpen>>
  <2> DEFINE now == IF PyIs(o, "unborn") THEN Unborn ELSE new
  <2>1. now \in PyObjectType /\ now.h = 0 /\ now.class = pyObj[o].class
    BY <1>3 DEF PyIs, Unborn, PyObjectType
  <2> HIDE DEF now
  <2>2. pyObj' = [pyObj EXCEPT ![o] = now]
    BY <1>5 DEF now
  <2> QED BY <1>2, <1>3, <1>5, <2>1, <2>2 DEF PyMethodOpens
<1> QED BY <1>1, <1>4, <1>5 DEF PyOpens

LEMMA TunForm ==
    ASSUME PyHandlesAssumption, NEW o \in PyObjects, PyTypes, PyTunInit(o) PROVE PyMethodOpens(o)
<1>1. PICK mtu \in PyMtus :
         PyOpens(o, "tun", [class |-> "tun", h |-> 0, mtu |-> mtu, buf |-> mtu],
                 [class |-> "tun", h |-> 0, mtu |-> mtu, buf |-> pyObj[o].buf])
  BY DEF PyTunInit
<1>m. mtu \in Nat
  BY DEF PyHandlesAssumption
<1>2. PyReturned
  BY <1>1 DEF PyOpens, PyShows, PyReturned, PyResultType, PyShowsTrue, PyFailures
<1>3. pyObj[o].class \in {"unborn", "tun"} /\ pyDropped' = (pyDropped \/ pyObj[o].class = "tun")
      /\ UNCHANGED <<pyLoops, pyWrong>>
  BY <1>1 DEF PyOpens, PyInits, PyIs
<1> DEFINE good == [class |-> "tun", h |-> 0, mtu |-> mtu, buf |-> mtu]
           bad == [class |-> "tun", h |-> 0, mtu |-> mtu, buf |-> pyObj[o].buf]
<1>4. CASE pyHandles' = pyHandles + 1 /\ pyOpen' = pyOpen \cup {pyHandles'}
           /\ pyObj' = [pyObj EXCEPT ![o] = [good EXCEPT !.h = pyHandles']]
  <2>1. [good EXCEPT !.h = pyHandles'] = [class |-> "tun", h |-> pyHandles', mtu |-> mtu, buf |-> mtu]
    OBVIOUS
  <2> QED BY <1>2, <1>3, <1>4, <1>m, <2>1 DEF PyMethodOpens
<1>5. CASE pyObj' = [pyObj EXCEPT ![o] = IF PyIs(o, "unborn") THEN Unborn ELSE bad] /\ UNCHANGED <<pyHandles, pyOpen>>
  <2> DEFINE now == IF PyIs(o, "unborn") THEN Unborn ELSE bad
  <2>1. now \in PyObjectType /\ now.h = 0 /\ now.class = pyObj[o].class
    BY <1>3, <1>m DEF PyIs, Unborn, PyObjectType, PyTypes
  <2> HIDE DEF now
  <2>2. pyObj' = [pyObj EXCEPT ![o] = now]
    BY <1>5 DEF now
  <2> QED BY <1>2, <1>3, <1>5, <1>m, <2>1, <2>2 DEF PyMethodOpens
<1> QED BY <1>1, <1>4, <1>5 DEF PyOpens

LEMMA MethodForm ==
    ASSUME PyHandlesAssumption, NEW o \in PyObjects, PyTypes, PyMethods(o) PROVE PyMethod(o)
<1>1. CASE \/ PyEthInit(o) \/ PyIpInit(o) \/ PyArpInit(o) \/ PyIntfInit(o) \/ PyRouteInit(o) \/ PyFwInit(o) \/ PyRandInit(o)
  BY <1>1, OpensForm DEF PyMethod, Looping, PyEthInit, PyIpInit, PyArpInit, PyIntfInit, PyRouteInit, PyFwInit, PyRandInit
<1>2. CASE PyTunInit(o)
  BY <1>2, TunForm DEF PyMethod
<1>3. CASE \/ PyEthGet(o) \/ PyEthSet(o) \/ PyEthSend(o) \/ PyIpSend(o)
           \/ PyArpAdd(o) \/ PyArpDelete(o) \/ PyArpGet(o)
  BY <1>3, AnswersForm, DeclinesForm
     DEF PyMethod, PyEthGet, PyEthSet, PyEthSend, PyIpSend, PyArpAdd, PyArpDelete, PyArpGet, PyCallWith
<1>4. CASE \/ PyIntfGet(o) \/ PyIntfGetSrc(o) \/ PyIntfGetDst(o) \/ PyIntfSet(o)
           \/ PyRouteAdd(o) \/ PyRouteDelete(o) \/ PyRouteGet(o) \/ PyFwAdd(o) \/ PyFwDelete(o)
  BY <1>4, AnswersForm, DeclinesForm
     DEF PyMethod, PyIntfGet, PyIntfGetSrc, PyIntfGetDst, PyIntfSet, PyRouteAdd, PyRouteDelete, PyRouteGet, PyFwAdd,
         PyFwDelete, PyCallWith
<1>5. CASE \/ PyRandGet(o) \/ PyRandSet(o) \/ PyRandAdd(o) \/ PyRandNumber(o)
           \/ PyTunName(o) \/ PyTunFd(o) \/ PyTunFileno(o) \/ PyTunSend(o) \/ PyTunRecv(o)
  BY <1>5, AnswersForm, DeclinesForm
     DEF PyMethod, PyRandGet, PyRandSet, PyRandAdd, PyRandNumber, PyTunName, PyTunFd, PyTunFileno, PyTunSend, PyTunRecv,
         PyCallWith
<1>6. CASE \/ PyEthDealloc(o) \/ PyIpDealloc(o) \/ PyArpDealloc(o) \/ PyIntfDealloc(o) \/ PyRouteDealloc(o)
           \/ PyFwDealloc(o) \/ PyRandDealloc(o) \/ PyTunDealloc(o)
  BY <1>6 DEF PyMethod, PyMethodFrees, Looping, PyEthDealloc, PyIpDealloc, PyArpDealloc, PyIntfDealloc, PyRouteDealloc,
              PyFwDealloc, PyRandDealloc, PyTunDealloc
<1>7. CASE \/ PyArpLoop(o) \/ PyArpIter(o) \/ PyIntfLoop(o) \/ PyIntfIter(o)
           \/ PyRouteLoop(o) \/ PyRouteIter(o) \/ PyFwLoop(o) \/ PyFwIter(o)
  BY <1>7 DEF PyMethod, PyMethodLoops, Looping, PyArpLoop, PyArpIter, PyIntfLoop, PyIntfIter, PyRouteLoop, PyRouteIter,
              PyFwLoop, PyFwIter
<1>8. CASE PyTunClose(o)
  BY <1>8 DEF PyMethod
<1> QED BY <1>1, <1>2, <1>3, <1>4, <1>5, <1>6, <1>7, <1>8 DEF PyMethods
----------------------------------------------------------------------------
(* What the library is given, and that each form keeps the invariant. *)
LEMMA GivenOpen ==
    ASSUME PyInv, NEW h, h # 0 => h \in pyOpen, h = 0 => pyDropped, NEW s, s = pyWrong \cup PyGiven(h)
    PROVE  "closed" \notin s /\ ("NULL" \in s => pyDropped)
BY DEF PyInv, PyRight, PyGiven

LEMMA AnswersSafe == ASSUME PyInv, NEW o \in PyObjects, PyMethodAnswers(o) PROVE PyInv'
<1>1. UNCHANGED <<pyObj, pyOpen, pyLoops, pyDropped, pyHandles>> /\ PyReturned
  BY DEF PyMethodAnswers
<1>2. PyTypes' /\ PyOwned' /\ PyWalked' /\ PyShowsTrue(pyLast)'
  BY <1>1 DEF PyInv, PyTypes, PyOwned, PyWalked, PyReturned, PyShowsTrue
<1>3. (pyObj[o].h # 0 => pyObj[o].h \in pyOpen) /\ (pyObj[o].h = 0 => pyDropped)
  BY DEF PyInv, PyOwned, PyMethodAnswers
<1>4. pyWrong' = pyWrong \cup PyGiven(pyObj[o].h)
  BY DEF PyMethodAnswers
<1>5. PyRight'
  BY <1>1, <1>3, <1>4, GivenOpen DEF PyRight
<1> QED BY <1>2, <1>5 DEF PyInv

LEMMA DeclinesSafe == ASSUME PyInv, PyMethodDeclines PROVE PyInv'
BY DEF PyInv, PyMethodDeclines, PyTypes, PyOwned, PyWalked, PyRight, PyReturned, PyShowsTrue

LEMMA LoopsSafe == ASSUME PyInv, NEW o \in PyObjects, PyMethodLoops(o) PROVE PyInv'
<1>1. PICK class \in Looping, iter \in BOOLEAN : PyLoop(o, class, iter)
  BY DEF PyMethodLoops
<1> DEFINE h == pyObj[o].h
           new == [obj |-> o, h |-> h, iter |-> iter, inside |-> FALSE, raised |-> FALSE]
<1>2. pyObj[o].class = class /\ pyWrong' = pyWrong \cup PyGiven(h) /\ pyLoops' = <<new>> \o pyLoops
      /\ UNCHANGED <<pyObj, pyOpen, pyLast, pyDropped, pyHandles>>
  BY <1>1 DEF PyLoop, PyIs
<1>3. class # "unborn" /\ new \in PyFrame
  BY DEF Looping, PyFrame, PyInv, PyTypes, PyObjectType
<1>4. (h # 0 => h \in pyOpen) /\ (h = 0 => pyDropped)
  BY <1>2, <1>3 DEF PyInv, PyOwned
<1>5. PyRight'
  BY <1>2, <1>4, GivenOpen DEF PyRight
<1>6. PyTypes' /\ PyOwned' /\ PyShowsTrue(pyLast)'
  BY <1>2, <1>3 DEF PyInv, PyTypes, PyOwned, PyShowsTrue
<1>7. PyWalked'
  <2> SUFFICES ASSUME NEW i \in DOMAIN pyLoops' PROVE
         /\ pyObj[pyLoops'[i].obj].class \in Looping /\ ~pyLoops'[i].raised
         /\ pyLoops'[i].h = 0 => pyDropped
         /\ pyLoops'[i].h # 0 => /\ pyLoops'[i].h \in pyOpen
                                 /\ \A p \in PyObjects : pyObj[p].h = pyLoops'[i].h => p = pyLoops'[i].obj
    BY <1>2 DEF PyWalked
  <2>1. CASE i = 1
    <3>1. pyLoops'[i] = new
      BY <1>2, <2>1 DEF PyInv, PyTypes
    <3>2. \A p \in PyObjects : pyObj[p].h = h /\ h # 0 => p = o
      BY DEF PyInv, PyOwned
    <3> QED BY <1>2, <1>4, <3>1, <3>2
  <2>2. CASE i # 1
    <3>1. i - 1 \in DOMAIN pyLoops /\ pyLoops'[i] = pyLoops[i - 1]
      BY <1>2, <2>2 DEF PyInv, PyTypes
    <3> QED BY <3>1 DEF PyInv, PyWalked
  <2> QED BY <2>1, <2>2
<1> QED BY <1>5, <1>6, <1>7 DEF PyInv

(* The handles that go away are the object's own; a loop's is another.     *)
LEMMA GoneSafe ==
    ASSUME PyInv, NEW o \in PyObjects, NEW new \in PyObjectType, new.h = 0,
           pyObj' = [pyObj EXCEPT ![o] = new], pyOpen' = pyOpen \ {pyObj[o].h},
           new.class = "unborn" \/ pyDropped', pyDropped => pyDropped', pyDropped' \in BOOLEAN,
           \A i \in DOMAIN pyLoops : pyLoops[i].obj # o,
           UNCHANGED <<pyLoops, pyHandles>>
    PROVE  PyOwned' /\ PyWalked' /\ pyObj' \in [PyObjects -> PyObjectType] /\ pyOpen' \subseteq 1 .. pyHandles'
<1>1. pyObj' \in [PyObjects -> PyObjectType] /\ pyOpen' \subseteq 1 .. pyHandles'
  BY DEF PyInv, PyTypes
<1>2. pyObj'[o] = new /\ \A p \in PyObjects : p # o => pyObj'[p] = pyObj[p]
  BY DEF PyInv, PyTypes
<1>3. \A p \in PyObjects : p # o /\ pyObj[p].h # 0 => pyObj[p].h # pyObj[o].h
  BY DEF PyInv, PyOwned
<1>4. PyOwned'
  <2>1. \A p \in PyObjects : pyObj'[p].h # 0 => pyObj'[p].h \in pyOpen'
    BY <1>2, <1>3 DEF PyInv, PyOwned
  <2>2. \A p, q \in PyObjects : pyObj'[p].h = pyObj'[q].h /\ pyObj'[p].h # 0 => p = q
    BY <1>2 DEF PyInv, PyOwned
  <2>3. \A h \in pyOpen' : pyDropped' \/ \E p \in PyObjects : pyObj'[p].h = h
    <3> SUFFICES ASSUME NEW h \in pyOpen', ~pyDropped' PROVE \E p \in PyObjects : pyObj'[p].h = h
      OBVIOUS
    <3>1. PICK p \in PyObjects : pyObj[p].h = h
      BY DEF PyInv, PyOwned
    <3>2. p # o
      BY <3>1
    <3> QED BY <1>2, <3>1, <3>2
  <2>4. \A p \in PyObjects : pyObj'[p].h = 0 => pyObj'[p].class = "unborn" \/ pyDropped'
    BY <1>2 DEF PyInv, PyOwned
  <2>5. \A p \in PyObjects : pyObj'[p].h # 0 => pyObj'[p].class # "unborn" /\ pyObj'[p].buf = pyObj'[p].mtu
    BY <1>2 DEF PyInv, PyOwned
  <2> QED BY <2>1, <2>2, <2>3, <2>4, <2>5 DEF PyOwned
<1>5. PyWalked'
  <2> SUFFICES ASSUME NEW i \in DOMAIN pyLoops PROVE
         /\ pyObj'[pyLoops[i].obj].class \in Looping /\ ~pyLoops[i].raised
         /\ pyLoops[i].h = 0 => pyDropped'
         /\ pyLoops[i].h # 0 => /\ pyLoops[i].h \in pyOpen'
                                /\ \A p \in PyObjects : pyObj'[p].h = pyLoops[i].h => p = pyLoops[i].obj
    BY DEF PyWalked
  <2>1. pyLoops[i].obj \in PyObjects /\ pyLoops[i].obj # o
    <3>1. pyLoops[i] \in PyFrame
      BY DEF PyInv, PyTypes
    <3> QED BY <3>1 DEF PyFrame
  <2>2. pyLoops[i].h # 0 => pyLoops[i].h # pyObj[o].h
    BY <2>1 DEF PyInv, PyWalked
  <2> QED BY <1>2, <2>1, <2>2 DEF PyInv, PyWalked
<1> QED BY <1>1, <1>4, <1>5

LEMMA FreesSafe == ASSUME PyInv, NEW o \in PyObjects, PyMethodFrees(o) PROVE PyInv'
<1>1. PICK class \in {"tun", "eth", "ip", "rand"} \cup Looping : PyFrees(o, class)
  BY DEF PyMethodFrees
<1>2. /\ pyObj' = [pyObj EXCEPT ![o] = Unborn] /\ pyOpen' = pyOpen \ {pyObj[o].h}
      /\ pyWrong' = pyWrong \cup (IF pyObj[o].h = 0 THEN {} ELSE PyGiven(pyObj[o].h))
      /\ UNCHANGED <<pyLoops, pyLast, pyDropped, pyHandles>>
      /\ \A i \in DOMAIN pyLoops : pyLoops[i].obj # o
  BY <1>1 DEF PyFrees, PyUnused
<1>3. Unborn \in PyObjectType /\ Unborn.h = 0 /\ Unborn.class = "unborn"
  BY DEF Unborn, PyObjectType
<1>4. PyOwned' /\ PyWalked' /\ pyObj' \in [PyObjects -> PyObjectType] /\ pyOpen' \subseteq 1 .. pyHandles'
  <2>1. pyDropped \in BOOLEAN
    BY DEF PyInv, PyTypes
  <2> QED BY <1>2, <1>3, <2>1, GoneSafe
<1>5. PyRight'
  <2>1. pyObj[o].h # 0 => pyObj[o].h \in pyOpen
    BY DEF PyInv, PyOwned
  <2>2. pyWrong' = pyWrong
    BY <1>2, <2>1 DEF PyGiven
  <2> QED BY <1>2, <2>2 DEF PyInv, PyRight
<1> QED BY <1>2, <1>4, <1>5 DEF PyInv, PyTypes, PyShowsTrue

LEMMA TunCloseSafe == ASSUME PyInv, NEW o \in PyObjects, PyTunClose(o) PROVE PyInv'
<1>1. /\ pyObj[o].class = "tun" /\ PyShows(0, "value") /\ pyWrong' = pyWrong \cup PyGiven(pyObj[o].h)
      /\ pyObj' = [pyObj EXCEPT ![o].h = 0] /\ pyOpen' = pyOpen \ {pyObj[o].h}
      /\ pyDropped' = TRUE /\ UNCHANGED <<pyLoops, pyHandles>>
  BY DEF PyTunClose, PyIs
<1> DEFINE new == [pyObj[o] EXCEPT !.h = 0]
<1>2. new \in PyObjectType /\ new.h = 0 /\ pyObj' = [pyObj EXCEPT ![o] = new]
  BY <1>1 DEF PyInv, PyTypes, PyObjectType
<1>3. \A i \in DOMAIN pyLoops : pyLoops[i].obj # o
  BY <1>1 DEF PyInv, PyWalked, Looping
<1>4. PyOwned' /\ PyWalked' /\ pyObj' \in [PyObjects -> PyObjectType] /\ pyOpen' \subseteq 1 .. pyHandles'
  <2> HIDE DEF new
  <2> QED BY <1>1, <1>2, <1>3, GoneSafe
<1>5. PyRight'
  <2>1. pyObj[o].h # 0 => pyObj[o].h \in pyOpen
    BY DEF PyInv, PyOwned
  <2> QED BY <1>1, <2>1 DEF PyInv, PyRight, PyGiven
<1>6. PyReturned
  BY <1>1, ShowsReturned DEF PyFailures
<1> QED BY <1>1, <1>4, <1>5, <1>6 DEF PyInv, PyTypes, PyReturned, PyShowsTrue

LEMMA OpensSafe == ASSUME PyInv, NEW o \in PyObjects, PyMethodOpens(o) PROVE PyInv'
<1>1. PICK class \in {"tun", "eth", "ip", "rand"} \cup Looping, mtu \in Nat :
    /\ pyObj[o].class \in {"unborn", class} /\ PyReturned
    /\ pyDropped' = (pyDropped \/ pyObj[o].class = class)
    /\ \/ /\ pyHandles' = pyHandles + 1 /\ pyOpen' = pyOpen \cup {pyHandles'}
          /\ pyObj' = [pyObj EXCEPT ![o] = [class |-> class, h |-> pyHandles', mtu |-> mtu, buf |-> mtu]]
       \/ /\ UNCHANGED <<pyHandles, pyOpen>>
          /\ \E new \in PyObjectType : /\ pyObj' = [pyObj EXCEPT ![o] = new] /\ new.h = 0
                                 /\ new.class = pyObj[o].class
    /\ UNCHANGED <<pyLoops, pyWrong>>
  BY DEF PyMethodOpens
<1>2. class # "unborn" /\ pyDropped' \in BOOLEAN /\ (pyDropped => pyDropped')
  BY <1>1 DEF Looping, PyInv, PyTypes
<1>3. PyRight' /\ PyShowsTrue(pyLast)' /\ pyLast' \in PyResultType /\ pyLoops' \in Seq(PyFrame)
  BY <1>1, <1>2 DEF PyInv, PyRight, PyReturned, PyShowsTrue, PyTypes
<1>4. PICK new \in PyObjectType :
         /\ pyObj' = [pyObj EXCEPT ![o] = new]
         /\ new.class = class \/ new.class = pyObj[o].class
         /\ \/ /\ pyHandles' = pyHandles + 1 /\ pyOpen' = pyOpen \cup {pyHandles'}
               /\ new.h = pyHandles' /\ new.class = class /\ new.buf = new.mtu
            \/ /\ UNCHANGED <<pyHandles, pyOpen>> /\ new.h = 0 /\ new.class = pyObj[o].class
  <2>1. CASE UNCHANGED <<pyHandles, pyOpen>>
             /\ \E n \in PyObjectType : /\ pyObj' = [pyObj EXCEPT ![o] = n] /\ n.h = 0 /\ n.class = pyObj[o].class
    BY <2>1
  <2>2. CASE pyHandles' = pyHandles + 1 /\ pyOpen' = pyOpen \cup {pyHandles'}
             /\ pyObj' = [pyObj EXCEPT ![o] = [class |-> class, h |-> pyHandles', mtu |-> mtu, buf |-> mtu]]
    <3> DEFINE n == [class |-> class, h |-> pyHandles', mtu |-> mtu, buf |-> mtu]
    <3>1. n \in PyObjectType /\ n.h = pyHandles' /\ n.class = class /\ n.buf = n.mtu
      BY <2>2 DEF PyInv, PyTypes, PyObjectType
    <3> HIDE DEF n
    <3>2. pyObj' = [pyObj EXCEPT ![o] = n]
      BY <2>2 DEF n
    <3> QED BY <2>2, <3>1, <3>2
  <2> QED BY <1>1, <2>1, <2>2
<1>5. pyObj'[o] = new /\ \A p \in PyObjects : p # o => pyObj'[p] = pyObj[p]
  BY <1>4 DEF PyInv, PyTypes
<1>6. /\ pyObj' \in [PyObjects -> PyObjectType] /\ pyHandles' \in Nat /\ pyOpen' \subseteq 1 .. pyHandles'
      /\ pyOpen \subseteq pyOpen' /\ \A h \in pyOpen : h # pyHandles + 1
  <2>1. pyObj \in [PyObjects -> PyObjectType] /\ pyHandles \in Nat /\ pyOpen \subseteq 1 .. pyHandles
    BY DEF PyInv, PyTypes
  <2>2. pyObj' \in [PyObjects -> PyObjectType]
    BY <1>4, <2>1
  <2>3. pyHandles' \in Nat /\ pyOpen' \subseteq 1 .. pyHandles' /\ pyOpen \subseteq pyOpen'
    <3>1. CASE pyHandles' = pyHandles + 1 /\ pyOpen' = pyOpen \cup {pyHandles'}
      <4>1. \A h \in pyOpen' : h \in 1 .. pyHandles + 1
        BY <2>1, <3>1
      <4> QED BY <2>1, <3>1, <4>1
    <3>2. CASE UNCHANGED <<pyHandles, pyOpen>>
      BY <2>1, <3>2
    <3> QED BY <1>4, <3>1, <3>2
  <2>4. \A h \in pyOpen : h # pyHandles + 1
    BY <2>1
  <2> QED BY <2>2, <2>3, <2>4
<1>7. \A p \in PyObjects : pyObj[p].h # pyHandles + 1
  BY <1>6 DEF PyInv, PyOwned, PyTypes
<1>8. new.h = 0 \/ new.h = pyHandles + 1
  BY <1>4
<1>9. PyOwned'
  <2>1. \A p \in PyObjects : pyObj'[p].h # 0 => pyObj'[p].h \in pyOpen'
    BY <1>4, <1>5, <1>6 DEF PyInv, PyOwned
  <2>2. \A p, q \in PyObjects : pyObj'[p].h = pyObj'[q].h /\ pyObj'[p].h # 0 => p = q
    BY <1>5, <1>7, <1>8 DEF PyInv, PyOwned
  <2>3. \A h \in pyOpen' : pyDropped' \/ \E p \in PyObjects : pyObj'[p].h = h
    <3> SUFFICES ASSUME NEW h \in pyOpen', ~pyDropped' PROVE \E p \in PyObjects : pyObj'[p].h = h
      OBVIOUS
    <3>1. CASE h \in pyOpen
      <4>1. PICK p \in PyObjects : pyObj[p].h = h
        BY <1>2, <3>1 DEF PyInv, PyOwned
      <4>2. pyObj[o].class = "unborn"
        BY <1>1
      <4>3. pyObj[o].h = 0
        BY <4>2 DEF PyInv, PyOwned
      <4>4. h # 0
        BY <3>1 DEF PyInv, PyTypes
      <4> QED BY <1>5, <4>1, <4>3, <4>4
    <3>2. CASE h \notin pyOpen
      BY <1>4, <1>5, <3>2
    <3> QED BY <3>1, <3>2
  <2>4. \A p \in PyObjects : pyObj'[p].h = 0 => pyObj'[p].class = "unborn" \/ pyDropped'
    <3>1. new.h = 0 => new.class = "unborn" \/ pyDropped'
      <4>1. pyHandles + 1 # 0
        BY DEF PyInv, PyTypes
      <4> QED BY <1>1, <1>4, <4>1
    <3> QED BY <1>2, <1>5, <3>1 DEF PyInv, PyOwned
  <2>5. \A p \in PyObjects : pyObj'[p].h # 0 => pyObj'[p].class # "unborn" /\ pyObj'[p].buf = pyObj'[p].mtu
    BY <1>2, <1>4, <1>5 DEF PyInv, PyOwned
  <2> QED BY <2>1, <2>2, <2>3, <2>4, <2>5 DEF PyOwned
<1>10. PyWalked'
  <2> SUFFICES ASSUME NEW i \in DOMAIN pyLoops PROVE
         /\ pyObj'[pyLoops[i].obj].class \in Looping /\ ~pyLoops[i].raised
         /\ pyLoops[i].h = 0 => pyDropped'
         /\ pyLoops[i].h # 0 => /\ pyLoops[i].h \in pyOpen'
                                /\ \A p \in PyObjects : pyObj'[p].h = pyLoops[i].h => p = pyLoops[i].obj
    BY <1>1 DEF PyWalked
  <2>1. pyLoops[i].obj \in PyObjects
    <3>1. pyLoops[i] \in PyFrame
      BY DEF PyInv, PyTypes
    <3> QED BY <3>1 DEF PyFrame
  <2>2. pyObj[pyLoops[i].obj].class \in Looping
    BY DEF PyInv, PyWalked
  <2>3. pyObj'[pyLoops[i].obj].class \in Looping
    <3>1. CASE pyLoops[i].obj = o
      <4>1. pyObj[o].class = class
        BY <1>1, <2>2, <3>1 DEF Looping
      <4> QED BY <1>4, <1>5, <2>2, <3>1, <4>1
    <3> QED BY <1>5, <2>1, <2>2, <3>1
  <2>4. pyLoops[i].h # 0 => pyLoops[i].h # new.h
    BY <1>6, <1>8 DEF PyInv, PyWalked
  <2> QED BY <1>2, <1>5, <1>6, <2>1, <2>3, <2>4 DEF PyInv, PyWalked
<1> QED BY <1>3, <1>6, <1>9, <1>10, <1>2 DEF PyInv, PyTypes

(* Loops: the innermost one is handed an entry, goes on, or ends. *)
LEMMA FirstLoop ==
    ASSUME PyInv, pyLoops # <<>>
    PROVE  /\ 1 \in DOMAIN pyLoops /\ Head(pyLoops) = pyLoops[1] /\ pyLoops[1] \in PyFrame
           /\ Tail(pyLoops) \in Seq(PyFrame)
           /\ \A i \in DOMAIN Tail(pyLoops) : i + 1 \in DOMAIN pyLoops /\ Tail(pyLoops)[i] = pyLoops[i + 1]
BY DEF PyInv, PyTypes

LEMMA SameFirst ==
    ASSUME PyInv, pyLoops # <<>>, NEW new \in PyFrame, new.obj = pyLoops[1].obj, new.h = pyLoops[1].h, ~new.raised,
           pyLoops' = [pyLoops EXCEPT ![1] = new], UNCHANGED <<pyObj, pyOpen, pyDropped>>
    PROVE  pyLoops' \in Seq(PyFrame) /\ PyWalked'
<1>1. pyLoops' \in Seq(PyFrame) /\ DOMAIN pyLoops' = DOMAIN pyLoops
      /\ \A i \in DOMAIN pyLoops : pyLoops'[i] = IF i = 1 THEN new ELSE pyLoops[i]
  BY DEF PyInv, PyTypes
<1>2. \A i \in DOMAIN pyLoops : pyLoops'[i].obj = pyLoops[i].obj /\ pyLoops'[i].h = pyLoops[i].h
  BY <1>1
<1>3. \A i \in DOMAIN pyLoops : ~pyLoops'[i].raised
  BY <1>1 DEF PyInv, PyWalked
<1> QED BY <1>1, <1>2, <1>3 DEF PyInv, PyWalked

LEMMA EndsSafe ==
    ASSUME PyInv, pyLoops # <<>>, NEW native \in {-1, 0, 1}, PyEnds(native),
           UNCHANGED <<pyObj, pyOpen, pyWrong, pyDropped, pyHandles>>
    PROVE  PyInv'
<1>1. pyLoops' = Tail(pyLoops) /\ PyShows(native, IF Head(pyLoops).iter THEN "list" ELSE Tells(native))
  BY DEF PyEnds
<1> DEFINE gave == IF Head(pyLoops).iter THEN "list" ELSE Tells(native)
<1>2. gave \in {"list", "negative", "value"} /\ (gave # "list" => (native < 0 <=> gave = "negative"))
  BY DEF Tells
<1>3. PyReturned
  <2> HIDE DEF gave
  <2>1. PyShows(native, gave)
    BY <1>1 DEF gave
  <2> QED BY <1>2, <2>1, ShowsReturned DEF PyFailures
<1>4. PyWalked'
  BY <1>1, FirstLoop DEF PyInv, PyWalked
<1> QED BY <1>1, <1>3, <1>4, FirstLoop DEF PyInv, PyTypes, PyOwned, PyRight, PyReturned, PyShowsTrue

LEMMA HandsOverSafe == ASSUME PyInv, PyHandsOver PROVE PyInv'
<1>1. /\ pyLoops # <<>> /\ pyLoops' = [pyLoops EXCEPT ![1].inside = TRUE]
      /\ pyWrong' = pyWrong \cup PyGiven(Head(pyLoops).h)
      /\ UNCHANGED <<pyObj, pyOpen, pyLast, pyDropped, pyHandles>>
  BY DEF PyHandsOver
<1>2. pyLoops[1] \in PyFrame /\ Head(pyLoops) = pyLoops[1] /\ 1 \in DOMAIN pyLoops
  BY <1>1, FirstLoop
<1> DEFINE new == [pyLoops[1] EXCEPT !.inside = TRUE]
<1>3. new \in PyFrame /\ new.obj = pyLoops[1].obj /\ new.h = pyLoops[1].h /\ new.raised = pyLoops[1].raised
  BY <1>2 DEF PyFrame
<1>4. pyLoops' = [pyLoops EXCEPT ![1] = new] /\ ~new.raised
  BY <1>1, <1>2, <1>3 DEF PyInv, PyWalked
<1>5. pyLoops' \in Seq(PyFrame) /\ PyWalked'
  <2> HIDE DEF new
  <2> QED BY <1>1, <1>3, <1>4, SameFirst
<1>6. PyRight'
  <2>1. (pyLoops[1].h # 0 => pyLoops[1].h \in pyOpen) /\ (pyLoops[1].h = 0 => pyDropped)
    BY <1>2 DEF PyInv, PyWalked
  <2> QED BY <1>1, <1>2, <2>1, GivenOpen DEF PyRight
<1> QED BY <1>1, <1>5, <1>6 DEF PyInv, PyTypes, PyOwned, PyShowsTrue

LEMMA CallbackSafe == ASSUME PyHandlesAssumption, PyInv, PyCallbackReturns PROVE PyInv'
<1>1. PICK answer \in IF Head(pyLoops).iter THEN {"none"} ELSE PyAnswers :
         IF PyResult(answer) # 0 THEN PyEnds(PyResult(answer))
         ELSE /\ pyLoops' = [pyLoops EXCEPT ![1] = [@ EXCEPT !.inside = FALSE, !.raised = answer \in {"error", "text"}]]
              /\ pyLast' = pyLast
  BY DEF PyCallbackReturns
<1>2. pyLoops # <<>> /\ UNCHANGED <<pyObj, pyOpen, pyWrong, pyDropped, pyHandles>>
  BY DEF PyCallbackReturns
<1>3. answer \in {"none", "number", "wide", "text", "error"}
  BY DEF PyHandlesAssumption
<1>4. PyResult(answer) \in {-1, 0, 1} /\ (PyResult(answer) = 0 => answer \notin {"error", "text"})
  BY <1>3 DEF PyResult
<1>5. CASE PyResult(answer) # 0
  BY <1>1, <1>2, <1>4, <1>5, EndsSafe
<1>6. CASE PyResult(answer) = 0
  <2> DEFINE new == [pyLoops[1] EXCEPT !.inside = FALSE, !.raised = FALSE]
  <2>1. pyLoops[1] \in PyFrame
    BY <1>2, FirstLoop
  <2>2. new \in PyFrame /\ new.obj = pyLoops[1].obj /\ new.h = pyLoops[1].h /\ ~new.raised
    BY <2>1 DEF PyFrame
  <2>3. pyLoops' = [pyLoops EXCEPT ![1] = new] /\ pyLast' = pyLast
    <3>1. (answer \in {"error", "text"}) = FALSE
      BY <1>4, <1>6
    <3> QED BY <1>1, <1>6, <3>1
  <2>4. pyLoops' \in Seq(PyFrame) /\ PyWalked'
    <3> HIDE DEF new
    <3> QED BY <1>2, <2>2, <2>3, SameFirst
  <2> QED BY <1>2, <2>3, <2>4 DEF PyInv, PyTypes, PyOwned, PyRight, PyShowsTrue
<1> QED BY <1>5, <1>6

LEMMA LoopEndsSafe == ASSUME PyInv, PyLoopEnds PROVE PyInv'
BY EndsSafe DEF PyLoopEnds
----------------------------------------------------------------------------
LEMMA InitSafe == PyInit => PyInv
<1> SUFFICES ASSUME PyInit PROVE PyInv
  OBVIOUS
<1>1. PyTypes
  <2>1. Unborn \in PyObjectType /\ pyObj = [o \in PyObjects |-> Unborn]
    BY DEF PyInit, PyObjectType, Unborn
  <2>2. pyObj \in [PyObjects -> PyObjectType]
    BY <2>1
  <2>3. pyLast \in PyResultType
    BY DEF PyInit, PyResultType
  <2>4. pyHandles \in Nat /\ pyOpen \subseteq 1 .. pyHandles /\ pyDropped \in BOOLEAN
    BY DEF PyInit
  <2>5. pyLoops \in Seq(PyFrame)
    BY DEF PyInit
  <2> QED BY <2>2, <2>3, <2>4, <2>5 DEF PyTypes
<1>2. PyOwned
  BY DEF PyInit, PyOwned, Unborn
<1>3. PyWalked /\ PyRight /\ PyShowsTrue(pyLast)
  BY DEF PyInit, PyWalked, PyRight, PyShowsTrue, PyFailures
<1> QED BY <1>1, <1>2, <1>3 DEF PyInv

LEMMA StepSafe == ASSUME PyHandlesAssumption, PyInv, [PyNext]_pyVars PROVE PyInv'
<1>1. ASSUME NEW o \in PyObjects, PyMethods(o) PROVE PyInv'
  <2>1. PyMethod(o)
    BY <1>1, MethodForm DEF PyInv
  <2> QED BY <2>1, AnswersSafe, DeclinesSafe, OpensSafe, FreesSafe, LoopsSafe, TunCloseSafe DEF PyMethod
<1>2. ASSUME UNCHANGED pyVars PROVE PyInv'
  BY <1>2 DEF pyVars, PyInv, PyTypes, PyOwned, PyWalked, PyRight, PyShowsTrue
<1> QED BY <1>1, <1>2, HandsOverSafe, CallbackSafe, LoopEndsSafe DEF PyNext

LEMMA InvSafe == PyInv => PyHandlesSafe
BY DEF PyInv, PyOwned, PyWalked, PyRight, PyShowsTrue, PyFailures, PyHandlesSafe

(* For every number of objects and calls, whatever callbacks answer, and   *)
(* whether or not __init__ is called again (python/dnet.c:509-6184): no    *)
(* closed handle is used, none is lost but by dropping it, a loop's handle *)
(* stays open under it, and a failure is shown as one.                     *)
THEOREM HandlesStaySafe == PySpec => []PyHandlesSafe
<1>1. PyInv /\ [PyNext]_pyVars => PyInv'
  BY StepSafe, PyHandlesAssumption
<1> QED BY InitSafe, <1>1, InvSafe, PTL DEF PySpec
----------------------------------------------------------------------------
(* Options of a header. *)

(* An option that is only a type has one octet. *)
OneOctet == \A o \in AnOptions : o.only => o.len = 1

OpOctet == {"ip", "tcp", "data", "nop", "option"} \X Nat
OpInv ==
    /\ opHl \in Nat /\ opOff \in Nat /\ opHl >= 5 /\ opOff >= 5
    /\ opBuf \in Seq(OpOctet) /\ Len(opBuf) = 4 * opHl + 4 * opOff + Payload
    /\ \A i \in 1 .. 20 : opBuf[4 * opHl + i] = <<"tcp", i>>
    /\ \A i \in 1 .. Payload : opBuf[4 * opHl + 4 * opOff + i] = <<"data", i>>
    /\ \A i \in 1 .. 4 * opHl + 4 * opOff : opBuf[i][1] # "data"

LEMMA NamedHolds ==
    ASSUME NEW name \in {"ip", "tcp", "data", "option"}, NEW n \in Nat
    PROVE  /\ Named(name, n) \in Seq(OpOctet) /\ Len(Named(name, n)) = n
           /\ \A i \in 1 .. n : Named(name, n)[i] = <<name, i>>
<1>1. \A i \in 1 .. n : <<name, i>> \in OpOctet
  BY DEF OpOctet
<1>2. Named(name, n) \in [1 .. n -> OpOctet]
  BY <1>1 DEF Named
<1> QED  BY <1>2 DEF Named

LEMMA NopsHold ==
    ASSUME NEW n \in Nat
    PROVE  /\ Nops(n) \in Seq(OpOctet) /\ Len(Nops(n)) = n
           /\ \A i \in 1 .. n : Nops(n)[i] = <<"nop", 0>>
<1>1. <<"nop", 0>> \in OpOctet
  BY DEF OpOctet
<1>2. Nops(n) \in [1 .. n -> OpOctet]
  BY <1>1 DEF Nops
<1> QED  BY <1>2 DEF Nops

(* Two sequences in a row, place by place. *)
LEMMA InARow ==
    ASSUME NEW S, NEW s \in Seq(S), NEW t \in Seq(S)
    PROVE  /\ s \o t \in Seq(S) /\ Len(s \o t) = Len(s) + Len(t)
           /\ \A i \in 1 .. Len(s) : (s \o t)[i] = s[i]
           /\ \A i \in 1 .. Len(t) : (s \o t)[Len(s) + i] = t[i]
<1>1. s \o t \in Seq(S) /\ Len(s \o t) = Len(s) + Len(t)
  OBVIOUS
<1>2. ASSUME NEW i \in 1 .. Len(s) PROVE (s \o t)[i] = s[i]
  OBVIOUS
<1>3. ASSUME NEW i \in 1 .. Len(t) PROVE (s \o t)[Len(s) + i] = t[i]
  OBVIOUS
<1> QED  BY <1>1, <1>2, <1>3

LEMMA FourInARow ==
    ASSUME NEW S, NEW a \in Seq(S), NEW p \in Seq(S), NEW o \in Seq(S), NEW z \in Seq(S)
    PROVE  /\ a \o p \o o \o z \in Seq(S) /\ Len(a \o p \o o \o z) = Len(a) + Len(p) + Len(o) + Len(z)
           /\ \A i \in 1 .. Len(a) : (a \o p \o o \o z)[i] = a[i]
           /\ \A i \in 1 .. Len(p) : (a \o p \o o \o z)[Len(a) + i] = p[i]
           /\ \A i \in 1 .. Len(o) : (a \o p \o o \o z)[Len(a) + Len(p) + i] = o[i]
           /\ \A i \in 1 .. Len(z) : (a \o p \o o \o z)[Len(a) + Len(p) + Len(o) + i] = z[i]
<1> DEFINE b == a \o p
           c == b \o o
           t == c \o z
<1>1. /\ b \in Seq(S) /\ Len(b) = Len(a) + Len(p)
      /\ \A i \in 1 .. Len(a) : b[i] = a[i]
      /\ \A i \in 1 .. Len(p) : b[Len(a) + i] = p[i]
  BY InARow
<1> HIDE DEF b
<1>b. b \in Seq(S) /\ o \in Seq(S)
  BY <1>1
<1>2. /\ c \in Seq(S) /\ Len(c) = Len(b) + Len(o)
      /\ \A i \in 1 .. Len(b) : c[i] = b[i]
      /\ \A i \in 1 .. Len(o) : c[Len(b) + i] = o[i]
  BY <1>b, InARow
<1> HIDE DEF c
<1>c. c \in Seq(S) /\ z \in Seq(S)
  BY <1>2
<1>3. /\ t \in Seq(S) /\ Len(t) = Len(c) + Len(z)
      /\ \A i \in 1 .. Len(c) : t[i] = c[i]
      /\ \A i \in 1 .. Len(z) : t[Len(c) + i] = z[i]
  BY <1>c, InARow
<1> HIDE DEF t
<1>0. Len(a) \in Nat /\ Len(p) \in Nat /\ Len(o) \in Nat /\ Len(z) \in Nat
  OBVIOUS
<1>4. ASSUME NEW i \in 1 .. Len(a) PROVE t[i] = a[i]
  <2>1. i \in 1 .. Len(b) /\ i \in 1 .. Len(c)
    BY <1>0, <1>1, <1>2
  <2> QED  BY <1>1, <1>2, <1>3, <2>1
<1>5. ASSUME NEW i \in 1 .. Len(p) PROVE t[Len(a) + i] = p[i]
  <2>1. Len(a) + i \in 1 .. Len(b) /\ Len(a) + i \in 1 .. Len(c)
    BY <1>0, <1>1, <1>2
  <2> QED  BY <1>1, <1>2, <1>3, <2>1
<1>6. ASSUME NEW i \in 1 .. Len(o) PROVE t[Len(a) + Len(p) + i] = o[i]
  <2>1. Len(b) + i \in 1 .. Len(c) /\ Len(b) + i = Len(a) + Len(p) + i
    BY <1>0, <1>1, <1>2
  <2> QED  BY <1>2, <1>3, <2>1
<1>7. Len(c) = Len(a) + Len(p) + Len(o)
  BY <1>1, <1>2
<1>8. ASSUME NEW i \in 1 .. Len(z) PROVE t[Len(a) + Len(p) + Len(o) + i] = z[i]
  BY <1>3, <1>7
<1> QED  BY <1>3, <1>4, <1>5, <1>6, <1>7, <1>8 DEF t, c, b
LEMMA SplitHolds ==
    ASSUME NEW S, NEW s \in Seq(S), NEW at \in 0 .. Len(s)
    PROVE  /\ SubSeq(s, 1, at) \in Seq(S) /\ Len(SubSeq(s, 1, at)) = at
           /\ \A i \in 1 .. at : SubSeq(s, 1, at)[i] = s[i]
           /\ SubSeq(s, at + 1, Len(s)) \in Seq(S) /\ Len(SubSeq(s, at + 1, Len(s))) = Len(s) - at
           /\ \A i \in 1 .. Len(s) - at : SubSeq(s, at + 1, Len(s))[i] = s[at + i]
<1>1. at \in Nat /\ Len(s) \in Nat /\ at <= Len(s)
  OBVIOUS
<1>2. SubSeq(s, 1, at) \in Seq(S) /\ Len(SubSeq(s, 1, at)) = at
  BY <1>1
<1>3. \A i \in 1 .. at : SubSeq(s, 1, at)[i] = s[i]
  BY <1>1
<1>4. SubSeq(s, at + 1, Len(s)) \in Seq(S) /\ Len(SubSeq(s, at + 1, Len(s))) = Len(s) - at
  BY <1>1
<1>5. ASSUME NEW i \in 1 .. Len(s) - at PROVE SubSeq(s, at + 1, Len(s))[i] = s[at + i]
  BY <1>1
<1> QED  BY <1>2, <1>3, <1>4, <1>5

(* Octets put into a packet leave what was before them, and move the rest. *)
LEMMA InsertHolds ==
    ASSUME NEW s \in Seq(OpOctet), NEW at \in 0 .. Len(s), NEW pad \in Nat, NEW n \in Nat
    PROVE  LET t == SubSeq(s, 1, at) \o Nops(pad) \o Named("option", n) \o SubSeq(s, at + 1, Len(s)) IN
           /\ t \in Seq(OpOctet) /\ Len(t) = Len(s) + pad + n
           /\ \A i \in 1 .. at : t[i] = s[i]
           /\ \A i \in at + 1 .. at + pad + n : t[i][1] \in {"nop", "option"}
           /\ \A i \in at + 1 .. Len(s) : t[i + pad + n] = s[i]
<1> DEFINE a == SubSeq(s, 1, at)
           z == SubSeq(s, at + 1, Len(s))
           p == Nops(pad)
           o == Named("option", n)
           t == a \o p \o o \o z
<1>1. /\ a \in Seq(OpOctet) /\ Len(a) = at /\ (\A i \in 1 .. at : a[i] = s[i])
      /\ z \in Seq(OpOctet) /\ Len(z) = Len(s) - at /\ \A i \in 1 .. Len(s) - at : z[i] = s[at + i]
  BY SplitHolds
<1>2. /\ p \in Seq(OpOctet) /\ Len(p) = pad /\ \A i \in 1 .. pad : p[i] = <<"nop", 0>>
  BY NopsHold
<1>3. /\ o \in Seq(OpOctet) /\ Len(o) = n /\ \A i \in 1 .. n : o[i] = <<"option", i>>
  BY NamedHolds
<1> HIDE DEF a, z, p, o
<1>4. a \in Seq(OpOctet) /\ p \in Seq(OpOctet) /\ o \in Seq(OpOctet) /\ z \in Seq(OpOctet)
  BY <1>1, <1>2, <1>3
<1>5. /\ t \in Seq(OpOctet) /\ Len(t) = Len(a) + Len(p) + Len(o) + Len(z)
      /\ \A i \in 1 .. Len(a) : t[i] = a[i]
      /\ \A i \in 1 .. Len(p) : t[Len(a) + i] = p[i]
      /\ \A i \in 1 .. Len(o) : t[Len(a) + Len(p) + i] = o[i]
      /\ \A i \in 1 .. Len(z) : t[Len(a) + Len(p) + Len(o) + i] = z[i]
  <2> HIDE DEF OpOctet
  <2>1. t \in Seq(OpOctet)
    BY ONLY <1>4, FourInARow
  <2>2. Len(t) = Len(a) + Len(p) + Len(o) + Len(z)
    BY ONLY <1>4, FourInARow
  <2>3. \A i \in 1 .. Len(a) : t[i] = a[i]
    BY ONLY <1>4, FourInARow
  <2>4. \A i \in 1 .. Len(p) : t[Len(a) + i] = p[i]
    <3> DEFINE b == a \o p
    <3>1. b \in Seq(OpOctet) /\ Len(b) = Len(a) + Len(p) /\ \A i \in 1 .. Len(p) : b[Len(a) + i] = p[i]
      BY ONLY <1>4, InARow
    <3>2. b \o o \in Seq(OpOctet) /\ Len(b \o o) = Len(b) + Len(o) /\ \A i \in 1 .. Len(b) : (b \o o)[i] = b[i]
      <4>1. b \in Seq(OpOctet) /\ o \in Seq(OpOctet)
        BY <1>4, <3>1
      <4> HIDE DEF b
      <4> QED  BY ONLY <4>1, InARow
    <3>3. \A i \in 1 .. Len(b \o o) : t[i] = (b \o o)[i]
      <4> DEFINE c == b \o o
      <4>1. c \in Seq(OpOctet)
        BY <3>2
      <4> HIDE DEF c
      <4> QED  BY ONLY <1>4, <4>1, InARow DEF c
    <3> HIDE DEF b, t
    <3>4. ASSUME NEW i \in 1 .. Len(p) PROVE t[Len(a) + i] = p[i]
      <4>1. Len(a) + i \in 1 .. Len(b) /\ Len(a) + i \in 1 .. Len(b \o o)
        BY <1>4, <3>1, <3>2
      <4> QED  BY <3>1, <3>2, <3>3, <4>1
    <3> QED  BY <3>4
  <2>5. ASSUME NEW i \in 1 .. Len(o) PROVE t[Len(a) + Len(p) + i] = o[i]
    BY <1>4, FourInARow
  <2>6. \A i \in 1 .. Len(z) : t[Len(a) + Len(p) + Len(o) + i] = z[i]
    BY ONLY <1>4, FourInARow
  <2> QED  BY <2>1, <2>2, <2>3, <2>4, <2>5, <2>6
<1> HIDE DEF t
<1>7. /\ \A i \in 1 .. at : t[i] = a[i]
      /\ \A i \in 1 .. pad : t[at + i] = p[i]
      /\ \A i \in 1 .. n : t[at + pad + i] = o[i]
      /\ \A i \in 1 .. Len(s) - at : t[at + pad + n + i] = z[i]
  BY <1>1, <1>2, <1>3, <1>5
<1>8. at \in Nat /\ Len(s) \in Nat /\ at <= Len(s)
  OBVIOUS
<1>9. ASSUME NEW i \in 1 .. at PROVE t[i] = s[i]
  BY <1>1, <1>7
<1>10. ASSUME NEW i \in at + 1 .. at + pad + n PROVE t[i][1] \in {"nop", "option"}
  <2>1. CASE i <= at + pad
    <3> DEFINE k == i - at
    <3>1. k \in 1 .. pad /\ at + k = i
      BY <1>8, <2>1
    <3> HIDE DEF k
    <3>2. t[at + k] = p[k] /\ p[k] = <<"nop", 0>>
      BY <1>2, <1>7, <3>1
    <3> QED  BY <3>1, <3>2
  <2>2. CASE i > at + pad
    <3> DEFINE k == i - at - pad
    <3>1. k \in 1 .. n /\ at + pad + k = i
      BY <1>8, <2>2
    <3> HIDE DEF k
    <3>2. t[at + pad + k] = o[k] /\ o[k] = <<"option", k>>
      BY <1>3, <1>7, <3>1
    <3> QED  BY <3>1, <3>2
  <2>3. i \in Int /\ at + pad \in Int
    BY <1>8
  <2> QED  BY <2>1, <2>2, <2>3
<1>11. ASSUME NEW i \in at + 1 .. Len(s) PROVE t[i + pad + n] = s[i]
  <2> DEFINE k == i - at
  <2>1. k \in 1 .. Len(s) - at /\ at + pad + n + k = i + pad + n /\ at + k = i
    BY <1>8
  <2> HIDE DEF k
  <2>2. t[at + pad + n + k] = z[k] /\ z[k] = s[at + k]
    BY <1>1, <1>7, <2>1
  <2> QED  BY <2>1, <2>2
<1>12. Len(t) = Len(s) + pad + n
  BY <1>1, <1>2, <1>3, <1>5, <1>8
<1> QED  BY <1>5, <1>9, <1>10, <1>11, <1>12 DEF t, a, z, p, o

LEMMA PaddingHolds ==
    ASSUME NEW len \in Nat PROVE Padding(len) \in Nat /\ \E w \in Nat : Padding(len) + len = 4 * w
<1>1. Padding(len) = (4 - (len % 4)) % 4
  BY DEF Padding
<1>2. PICK q \in Nat, r \in 0 .. 3 : len = 4 * q + r /\ len % 4 = r
  <2>1. len % 4 \in 0 .. 3
    OBVIOUS
  <2>2. len \div 4 \in Nat
    OBVIOUS
  <2>3. len = 4 * (len \div 4) + (len % 4)
    OBVIOUS
  <2> QED  BY <2>1, <2>2, <2>3
<1>3. CASE r = 0
  BY <1>1, <1>2, <1>3
<1>4. CASE r # 0
  <2>1. Padding(len) = 4 - r
    BY <1>1, <1>2, <1>4
  <2>2. Padding(len) + len = 4 * (q + 1) /\ q + 1 \in Nat
    BY <1>2, <2>1
  <2>3. 4 - r \in Nat
    BY <1>2
  <2> QED  BY <2>1, <2>2, <2>3
<1> QED  BY <1>3, <1>4

LEMMA OpInitHolds == OpInit => OpInv
<1> SUFFICES ASSUME OpInit PROVE OpInv
  OBVIOUS
<1> DEFINE a == Named("ip", 20)
           b == Named("tcp", 20)
           d == Named("data", Payload)
           c == a \o b
<1>0. Payload \in Nat
  BY IpUtilAssumption
<1>1. /\ a \in Seq(OpOctet) /\ Len(a) = 20 /\ \A i \in 1 .. 20 : a[i] = <<"ip", i>>
  BY NamedHolds
<1>2. /\ b \in Seq(OpOctet) /\ Len(b) = 20 /\ \A i \in 1 .. 20 : b[i] = <<"tcp", i>>
  BY NamedHolds
<1>3. /\ d \in Seq(OpOctet) /\ Len(d) = Payload /\ \A i \in 1 .. Payload : d[i] = <<"data", i>>
  BY <1>0, NamedHolds
<1>4. opBuf = c \o d /\ opHl = 5 /\ opOff = 5
  BY DEF OpInit
<1> HIDE DEF a, b, c, d
<1>b. a \in Seq(OpOctet) /\ b \in Seq(OpOctet)
  BY <1>1, <1>2
<1>5. /\ c \in Seq(OpOctet) /\ Len(c) = Len(a) + Len(b)
      /\ \A i \in 1 .. Len(a) : c[i] = a[i]
      /\ \A i \in 1 .. Len(b) : c[Len(a) + i] = b[i]
  BY <1>b, InARow DEF c
<1>c. c \in Seq(OpOctet) /\ d \in Seq(OpOctet)
  BY <1>3, <1>5
<1>6. /\ c \o d \in Seq(OpOctet) /\ Len(c \o d) = Len(c) + Len(d)
      /\ \A i \in 1 .. Len(c) : (c \o d)[i] = c[i]
      /\ \A i \in 1 .. Len(d) : (c \o d)[Len(c) + i] = d[i]
  BY <1>c, InARow
<1>d. /\ Len(c) = 40 /\ (\A i \in 1 .. 20 : c[i] = a[i]) /\ \A i \in 1 .. 20 : c[20 + i] = b[i]
  BY <1>1, <1>2, <1>5
<1>e. /\ opBuf \in Seq(OpOctet) /\ Len(opBuf) = 40 + Payload
      /\ (\A i \in 1 .. 40 : opBuf[i] = c[i])
      /\ \A i \in 1 .. Payload : opBuf[40 + i] = d[i]
  BY <1>3, <1>4, <1>6, <1>d
<1>7. ASSUME NEW i \in 1 .. 20 PROVE opBuf[20 + i] = <<"tcp", i>>
  <2>1. 20 + i \in 1 .. 40 /\ 20 + i \in Nat
    OBVIOUS
  <2>2. opBuf[20 + i] = c[20 + i]
    BY <1>e, <2>1
  <2>3. c[20 + i] = b[i] /\ b[i] = <<"tcp", i>>
    BY <1>2, <1>d
  <2> QED  BY <2>2, <2>3
<1>8. \A i \in 1 .. 40 : opBuf[i][1] # "data"
  <2> SUFFICES ASSUME NEW i \in 1 .. 40 PROVE opBuf[i][1] # "data"
    OBVIOUS
  <2>1. CASE i <= 20
    <3>1. i \in 1 .. 20
      BY <2>1
    <3>2. opBuf[i] = c[i]
      BY <1>e
    <3>3. c[i] = a[i] /\ a[i] = <<"ip", i>>
      BY <1>1, <1>d, <3>1
    <3> QED  BY <3>2, <3>3
  <2>2. CASE i > 20
    <3>1. i - 20 \in 1 .. 20 /\ 20 + (i - 20) = i
      BY <2>2
    <3> QED  BY <1>7, <3>1
  <2> QED  BY <2>1, <2>2
<1>9. \A i \in 1 .. Payload : opBuf[40 + i] = <<"data", i>>
  BY <1>3, <1>e
<1>10. /\ opHl \in Nat /\ opOff \in Nat /\ opHl >= 5 /\ opOff >= 5
       /\ 4 * opHl = 20 /\ 4 * opHl + 4 * opOff = 40
  BY <1>4
<1>11. \A i \in 1 .. 20 : opBuf[4 * opHl + i] = <<"tcp", i>>
  BY <1>7, <1>10
<1>12. \A i \in 1 .. Payload : opBuf[4 * opHl + 4 * opOff + i] = <<"data", i>>
  BY <1>9, <1>10
<1>13. \A i \in 1 .. 4 * opHl + 4 * opOff : opBuf[i][1] # "data"
  BY <1>8, <1>10
<1>14. Len(opBuf) = 4 * opHl + 4 * opOff + Payload
  BY <1>10, <1>e
<1> QED  BY <1>10, <1>11, <1>12, <1>13, <1>14, <1>e DEF OpInv

LEMMA OpAddHolds == ASSUME OneOctet, OpInv, NEW proto \in {"ip", "tcp"}, NEW o \in AnOptions, IpAddOption(proto, o) PROVE OpInv'
<1> DEFINE at == Behind(proto)
           pad == Padding(o.len)
           n == IF o.only THEN 1 ELSE o.len
<1>1. o.len \in Nat /\ Payload \in Nat /\ n = o.len
  BY IpUtilAssumption DEF OneOctet
<1>2. pad \in Nat
  BY <1>1, PaddingHolds
<1>3. PICK w \in Nat : pad + n = 4 * w
  BY <1>1, PaddingHolds
<1>4. CASE UNCHANGED <<opBuf, opHl, opOff>>
  BY <1>4 DEF OpInv
<1>5. CASE /\ opBuf' = SubSeq(opBuf, 1, at) \o Nops(pad) \o Named("option", n) \o SubSeq(opBuf, at + 1, Len(opBuf))
           /\ opHl' = IF proto = "ip" THEN (4 * opHl + pad + n) \div 4 ELSE opHl
           /\ opOff' = IF proto = "tcp" THEN (4 * opOff + pad + n) \div 4 ELSE opOff
  <2> DEFINE h == 4 * opHl
             f == 4 * opOff
             t == SubSeq(opBuf, 1, at) \o Nops(pad) \o Named("option", n) \o SubSeq(opBuf, at + 1, Len(opBuf))
  <2>1. /\ opHl \in Nat /\ opOff \in Nat /\ opHl >= 5 /\ opOff >= 5
        /\ h \in Nat /\ f \in Nat /\ h >= 20 /\ f >= 20
    BY DEF OpInv
  <2>2. opBuf \in Seq(OpOctet) /\ Len(opBuf) = h + f + Payload
    BY DEF OpInv
  <2>3. at = IF proto = "ip" THEN h ELSE h + f
    BY DEF Behind
  <2>4. /\ \A i \in 1 .. 20 : opBuf[h + i] = <<"tcp", i>>
        /\ \A i \in 1 .. Payload : opBuf[h + f + i] = <<"data", i>>
        /\ \A i \in 1 .. h + f : opBuf[i][1] # "data"
    BY DEF OpInv
  <2>5. (h + pad + n) \div 4 = opHl + w /\ (f + pad + n) \div 4 = opOff + w
    <3>1. h + pad + n = 4 * (opHl + w) /\ f + pad + n = 4 * (opOff + w)
      BY <1>1, <1>2, <1>3, <2>1
    <3>2. ASSUME NEW q \in Nat PROVE (4 * q) \div 4 = q
      OBVIOUS
    <3> QED  BY <2>1, <3>1, <3>2
  <2>6. /\ opHl' = IF proto = "ip" THEN opHl + w ELSE opHl
        /\ opOff' = IF proto = "tcp" THEN opOff + w ELSE opOff
    BY <1>5, <2>5
  <2>7. /\ opHl' \in Nat /\ opOff' \in Nat /\ opHl' >= 5 /\ opOff' >= 5
        /\ h' = IF proto = "ip" THEN h + pad + n ELSE h
        /\ f' = IF proto = "tcp" THEN f + pad + n ELSE f
    BY <1>1, <1>2, <1>3, <2>1, <2>6
  <2>8. t = opBuf' /\ n \in Nat
    BY <1>1, <1>5
  <2> DEFINE hh == h'
             ff == f'
  <2> HIDE DEF h, f, at, pad, n, t, hh, ff
  <2>9. at \in 0 .. Len(opBuf)
    BY <1>1, <2>1, <2>2, <2>3
  <2>10. /\ opBuf' \in Seq(OpOctet) /\ Len(opBuf') = Len(opBuf) + pad + n
         /\ \A i \in 1 .. at : opBuf'[i] = opBuf[i]
         /\ \A i \in at + 1 .. at + pad + n : opBuf'[i][1] \in {"nop", "option"}
         /\ \A i \in at + 1 .. Len(opBuf) : opBuf'[i + pad + n] = opBuf[i]
    <3>1. /\ t \in Seq(OpOctet) /\ Len(t) = Len(opBuf) + pad + n
          /\ \A i \in 1 .. at : t[i] = opBuf[i]
          /\ \A i \in at + 1 .. at + pad + n : t[i][1] \in {"nop", "option"}
          /\ \A i \in at + 1 .. Len(opBuf) : t[i + pad + n] = opBuf[i]
      <4>1. opBuf \in Seq(OpOctet) /\ at \in 0 .. Len(opBuf) /\ pad \in Nat /\ n \in Nat
        BY <1>2, <2>2, <2>8, <2>9
      <4> QED  BY ONLY <4>1, InsertHolds DEF t
    <3> QED  BY <2>8, <3>1
  <2>11. hh \in Nat /\ ff \in Nat /\ hh + ff = h + f + pad + n /\ hh + ff + Payload = h + f + Payload + pad + n
    BY <1>1, <1>2, <2>1, <2>7, <2>8 DEF hh, ff
  <2>12. ASSUME NEW i \in 1 .. 20 PROVE opBuf'[hh + i] = <<"tcp", i>>
    <3>1. CASE proto = "ip"
      <4>1. h + i \in at + 1 .. Len(opBuf) /\ h + i + pad + n = hh + i
        BY <1>1, <1>2, <2>1, <2>2, <2>3, <2>7, <2>8, <3>1 DEF hh
      <4> QED  BY <2>4, <2>10, <4>1
    <3>2. CASE proto = "tcp"
      <4>1. h + i \in 1 .. at /\ hh = h
        BY <2>1, <2>3, <2>7, <3>2 DEF hh
      <4> QED  BY <2>4, <2>10, <4>1
    <3> QED  BY <3>1, <3>2
  <2>13. ASSUME NEW i \in 1 .. Payload PROVE opBuf'[hh + ff + i] = <<"data", i>>
    <3>1. h + f + i \in at + 1 .. Len(opBuf)
      BY <1>1, <2>1, <2>2, <2>3
    <3>2. h + f + i + pad + n = hh + ff + i
      BY <1>1, <1>2, <2>1, <2>8, <2>11
    <3> QED  BY <2>4, <2>10, <3>1, <3>2
  <2>14. ASSUME NEW i \in 1 .. hh + ff PROVE opBuf'[i][1] # "data"
    <3>1. at \in Nat /\ pad \in Nat /\ n \in Nat /\ i \in Nat /\ at <= h + f
      BY <1>2, <2>1, <2>3, <2>8, <2>11
    <3>2. CASE i <= at
      <4>1. i \in 1 .. at /\ i \in 1 .. h + f
        BY <2>1, <3>1, <3>2
      <4> QED  BY <2>4, <2>10, <4>1
    <3>3. CASE i > at /\ i <= at + pad + n
      <4>1. i \in at + 1 .. at + pad + n
        BY <3>1, <3>3
      <4> QED  BY <2>10, <4>1
    <3>4. CASE i > at + pad + n
      <4> DEFINE k == i - pad - n
      <4>1. k \in at + 1 .. Len(opBuf) /\ k \in 1 .. h + f /\ k + pad + n = i
        BY <1>1, <2>1, <2>2, <2>11, <3>1, <3>4
      <4> HIDE DEF k
      <4> QED  BY <2>4, <2>10, <4>1
    <3> QED  BY <3>1, <3>2, <3>3, <3>4
  <2>15. Len(opBuf') = hh + ff + Payload
    BY <2>2, <2>10, <2>11
  <2> QED  BY <2>7, <2>10, <2>12, <2>13, <2>14, <2>15 DEF OpInv, hh, ff, h, f
<1>6. UNCHANGED <<opBuf, opHl, opOff>> \/
      /\ opBuf' = SubSeq(opBuf, 1, at) \o Nops(pad) \o Named("option", n) \o SubSeq(opBuf, at + 1, Len(opBuf))
      /\ opHl' = IF proto = "ip" THEN (4 * opHl + pad + n) \div 4 ELSE opHl
      /\ opOff' = IF proto = "tcp" THEN (4 * opOff + pad + n) \div 4 ELSE opOff
  BY DEF IpAddOption
<1> QED  BY <1>4, <1>5, <1>6

LEMMA OpStepHolds == ASSUME OneOctet, OpInv, [OpNext]_opVars PROVE OpInv'
<1>1. CASE UNCHANGED opVars
  BY <1>1 DEF opVars, OpInv
<1> QED  BY <1>1, OpAddHolds DEF OpNext

LEMMA OpInvKeeps == OpInv => OptionsIntact
<1> SUFFICES ASSUME OpInv PROVE OptionsIntact
  OBVIOUS
<1>1. /\ opHl \in Nat /\ opOff \in Nat /\ opBuf \in Seq(OpOctet) /\ opHl >= 5 /\ opOff >= 5
      /\ Len(opBuf) = 4 * opHl + 4 * opOff + Payload /\ Payload \in Nat
  BY IpUtilAssumption DEF OpInv
<1>2. SubSeq(opBuf, 4 * opHl + 1, 4 * opHl + 20) = Named("tcp", 20)
  <2> DEFINE m == 4 * opHl
  <2>1. m \in Nat /\ m + 20 <= Len(opBuf) /\ Len(opBuf) \in Nat
    BY <1>1
  <2>2. \A i \in 1 .. 20 : opBuf[m + i] = <<"tcp", i>>
    BY DEF OpInv
  <2> HIDE DEF m
  <2>3. SubSeq(opBuf, m + 1, m + 20) = [i \in 1 .. 20 |-> opBuf[m + i]]
    BY <1>1, <2>1
  <2> QED  BY <2>2, <2>3 DEF Named, m
<1>3. SubSeq(opBuf, 4 * (opHl + opOff) + 1, Len(opBuf)) = Named("data", Payload)
  <2> DEFINE m == 4 * opHl + 4 * opOff
  <2>1. m \in Nat /\ Len(opBuf) = m + Payload /\ 4 * (opHl + opOff) = m
    BY <1>1
  <2>2. \A i \in 1 .. Payload : opBuf[m + i] = <<"data", i>>
    BY DEF OpInv
  <2> HIDE DEF m
  <2>3. SubSeq(opBuf, m + 1, m + Payload) = [i \in 1 .. Payload |-> opBuf[m + i]]
    BY <1>1, <2>1
  <2> QED  BY <2>1, <2>2, <2>3 DEF Named
<1>4. ASSUME NEW i \in DOMAIN opBuf, opBuf[i][1] = "option", NEW j \in 1 .. i PROVE opBuf[j] # <<"data", 1>>
  <2>1. i \in 1 .. 4 * opHl + 4 * opOff + Payload
    BY <1>1
  <2>2. i <= 4 * opHl + 4 * opOff
    <3> SUFFICES ASSUME i > 4 * opHl + 4 * opOff PROVE FALSE
      BY <1>1, <2>1
    <3>1. i - (4 * opHl + 4 * opOff) \in 1 .. Payload /\ 4 * opHl + 4 * opOff + (i - (4 * opHl + 4 * opOff)) = i
      BY <1>1, <2>1
    <3>2. opBuf[i] = <<"data", i - (4 * opHl + 4 * opOff)>>
      BY <3>1 DEF OpInv
    <3> QED  BY <1>4, <3>2
  <2>3. j \in 1 .. 4 * opHl + 4 * opOff
    BY <1>1, <2>1, <2>2
  <2>4. opBuf[j][1] # "data"
    BY <2>3 DEF OpInv
  <2> QED  BY <2>4
<1> QED  BY <1>2, <1>3, <1>4 DEF OptionsIntact
----------------------------------------------------------------------------
(* Sums. *)
(* The number that a checksum is made from, unless an int is too small for *)
(* it: the segment's words, its field cleared, and the pseudo header's.    *)
PseudoOf(seg, ip) ==
    IF seg.proto = "icmp" THEN 0
    ELSE IF ip.version = 4 THEN WordSum(ip.host, ip.endian) + PseudoSum(seg, ip.endian)
    ELSE WordSum(ip.host \o ip.host \o ip.host \o ip.host, ip.endian)
         + SuHtons(Proto[seg.proto] + Len(seg.octets), ip.endian)
WholeSum(seg, ip) == WordSum(Cleared(seg).octets, ip.endian) + PseudoOf(seg, ip)
Packets == [version : {4, 6}, host : Hosts, frag : BOOLEAN, endian : Endians]
IsSummed(seg, ip) ==
    ~ip.frag /\ Len(seg.octets) >= HdrLen[seg.proto] /\ (seg.proto = "icmpv6" => ip.version = 6)

(* Lengths fit a word, as those in headers do, no int overflows            *)
(* (ip-util.c:106), and an ICMP packet comes with no checksum.             *)
SumsFit == \A s \in Segments : \A ip \in Packets : IsSummed(s, ip) =>
    /\ Len(s.octets) + 58 < WordBase /\ WholeSum(s, ip) < IntBase \div 2
    /\ s.proto = "icmp" /\ ip.version = 4 => Cleared(s) = s

SuShape(s, ip) ==
    /\ s \in [proto : {"tcp", "udp", "icmp", "icmpv6"}, octets : Seq(0 .. Base - 1)] /\ ip \in Packets
    /\ ip.version = 6 => ~ip.frag
    /\ IsSummed(s, ip) => Len(s.octets) + 58 < WordBase /\ WholeSum(s, ip) < IntBase \div 2
SuInv ==
    /\ SuShape(suSeg, suIp) /\ suTimes \in 0 .. 2
    /\ suTimes = 0 /\ suSeg.proto = "icmp" /\ suIp.version = 4 /\ IsSummed(suSeg, suIp) => Cleared(suSeg) = suSeg
    /\ SumVerifies

(* A sum, step by step. *)
Upwards(s, g) == g \in [0 .. Len(s) -> Int] /\ g[0] = 0 /\ \A n \in 1 .. Len(s) : g[n] = g[n - 1] + s[n]

LEMMA SumsUp == ASSUME NEW s \in Seq(Int) PROVE \E g : Upwards(s, g) /\ SumUp(s) = g[Len(s)]
<1> DEFINE M == Len(s)
           step == [n \in 1 .. M |-> [v \in Int |-> v + s[n]]]
           Right(g) == g = [n \in 0 .. M |-> IF n = 0 THEN 0 ELSE g[n - 1] + s[n]]
           up == CHOOSE g : Right(g)
<1>1. M \in Nat /\ 0 \in Int /\ \A n \in 1 .. M : s[n] \in Int
  OBVIOUS
<1>2. step \in [1 .. M -> [Int -> Int]]
  BY <1>1
<1>3. PICK g : RunsTo(g, Int, 0, M, step)
  <2> HIDE DEF M, step
  <2> QED  BY <1>1, <1>2, Recursion
<1>4. g \in [0 .. M -> Int] /\ g[0] = 0 /\ \A n \in 1 .. M : g[n] = step[n][g[n - 1]]
  BY <1>3 DEF RunsTo
<1>5. ASSUME NEW n \in 1 .. M PROVE g[n] = g[n - 1] + s[n]
  <2>1. n - 1 \in 0 .. M
    BY <1>1
  <2>2. g[n - 1] \in Int
    BY <1>4, <2>1
  <2> QED  BY <1>4, <2>2
<1>6. Right(g)
  <2>1. \A n \in 0 .. M : g[n] = IF n = 0 THEN 0 ELSE g[n - 1] + s[n]
    BY <1>1, <1>4, <1>5
  <2> HIDE DEF M
  <2> QED  BY <1>4, <2>1
<1>7. Right(up)
  <2> HIDE DEF Right
  <2> QED  BY <1>6
<1>8. up \in [0 .. M -> Int] /\ up[0] = 0 /\ \A n \in 1 .. M : up[n] = up[n - 1] + s[n]
  <2> HIDE DEF up
  <2>1. up = [n \in 0 .. M |-> IF n = 0 THEN 0 ELSE up[n - 1] + s[n]]
    BY <1>7
  <2>2. up[0] = 0
    BY <1>1, <2>1
  <2>3. \A n \in 1 .. M : up[n] = up[n - 1] + s[n]
    BY <1>1, <2>1
  <2> DEFINE T == {n \in 0 .. M : up[n] \in Int}
  <2>4. 0 \in T
    BY <1>1, <2>2
  <2>5. ASSUME NEW n \in 1 .. M, n - 1 \in T PROVE n \in T
    BY <1>1, <2>3, <2>5
  <2>6. 0 .. M \subseteq T
    <3> HIDE DEF T, M
    <3> QED  BY <1>1, <2>4, <2>5, UpTo
  <2>7. \A n \in 0 .. M : up[n] \in Int
    BY <2>6
  <2>8. up \in [0 .. M -> Int]
    <3> HIDE DEF M
    <3> QED  BY <2>1, <2>7
  <2> QED  BY <2>2, <2>3, <2>8
<1>9. SumUp(s) = up[Len(s)]
  BY DEF SumUp
<1> HIDE DEF up
<1> QED  BY <1>8, <1>9 DEF Upwards

LEMMA Bases == \/ Base = 8 /\ WordBase = 64
               \/ Base = 16 /\ WordBase = 256
               \/ Base = 256 /\ WordBase = 65536
BY IpUtilAssumption DEF WordBase

LEMMA WordsAreTaken == ASSUME NEW n \in Nat, n >= 1 PROVE WordsTaken(n) = n
BY DEF WordsTaken

(* A sum of words as the host reads them, and as the network does: the     *)
(* same, or Base times as much but for multiples of WordBase - 1.          *)
Alike(host, net, endian) ==
    IF endian = "big" THEN host = net ELSE \E q \in Int : Base * host = net + (WordBase - 1) * q

LEMMA AlikeAdds ==
    ASSUME NEW endian \in {"little", "big"}, NEW a \in Int, NEW b \in Int, NEW m \in Int, NEW n \in Int,
           Alike(a, m, endian), Alike(b, n, endian)
    PROVE  Alike(a + b, m + n, endian)
<1>1. CASE endian = "big"
  BY <1>1 DEF Alike
<1>2. CASE endian = "little"
  <2>1. PICK q \in Int : Base * a = m + (WordBase - 1) * q
    BY <1>2 DEF Alike
  <2>2. PICK r \in Int : Base * b = n + (WordBase - 1) * r
    BY <1>2 DEF Alike
  <2>3. Base * (a + b) = (m + n) + (WordBase - 1) * (q + r)
    <3>1. CASE Base = 8 /\ WordBase = 64
      BY <2>1, <2>2, <3>1
    <3>2. CASE Base = 16 /\ WordBase = 256
      BY <2>1, <2>2, <3>2
    <3>3. CASE Base = 256 /\ WordBase = 65536
      BY <2>1, <2>2, <3>3
    <3> QED  BY Bases, <3>1, <3>2, <3>3
  <2>4. q + r \in Int
    OBVIOUS
  <2> QED  BY <1>2, <2>3, <2>4 DEF Alike
<1> QED  BY <1>1, <1>2

LEMMA WordAlike ==
    ASSUME NEW endian \in {"little", "big"}, NEW x \in 0 .. Base - 1, NEW y \in 0 .. Base - 1
    PROVE  /\ Word(x, y, endian) \in Nat /\ Base * x + y \in Nat
           /\ Alike(Word(x, y, endian), Base * x + y, endian)
<1>0. y \in Int /\ x \in Int /\ x >= 0 /\ y >= 0
  BY Bases
<1>1. CASE endian = "big"
  BY <1>0, <1>1, Bases DEF Alike, Word
<1>2. CASE endian = "little"
  <2>1. Base * (x + Base * y) = (Base * x + y) + (WordBase - 1) * y /\ x + Base * y \in Nat /\ Base * x + y \in Nat
    <3>1. CASE Base = 8 /\ WordBase = 64
      BY <1>0, <3>1
    <3>2. CASE Base = 16 /\ WordBase = 256
      BY <1>0, <3>2
    <3>3. CASE Base = 256 /\ WordBase = 65536
      BY <1>0, <3>3
    <3> QED  BY Bases, <3>1, <3>2, <3>3
  <2>2. Word(x, y, endian) = x + Base * y
    BY <1>2 DEF Word
  <2> QED  BY <1>0, <1>2, <2>1, <2>2 DEF Alike
<1> QED  BY <1>1, <1>2

(* The last of an odd number of octets. *)
LEMMA LastAlike ==
    ASSUME NEW endian \in {"little", "big"}, NEW x \in 0 .. Base - 1
    PROVE  SuHtons(Base * x, endian) = Word(x, 0, endian)
<1>1. CASE Base = 8
  BY <1>1 DEF SuHtons
<1>2. CASE Base = 16
  BY <1>2 DEF SuHtons
<1>3. CASE Base = 256
  BY <1>3 DEF SuHtons
<1> QED  BY Bases, <1>1, <1>2, <1>3

LEMMA EachIn == ASSUME NEW S, NEW s \in Seq(S) PROVE \A i \in 1 .. Len(s) : s[i] \in S
OBVIOUS

NetSeq(octets) == [i \in DOMAIN octets |-> IF i % 2 = 1 THEN Base * octets[i] ELSE octets[i]]
LEMMA NetSeqHolds ==
    ASSUME NEW octets \in Seq(0 .. Base - 1)
    PROVE  /\ NetSeq(octets) \in Seq(Int) /\ Len(NetSeq(octets)) = Len(octets)
           /\ \A i \in 1 .. Len(octets) : NetSeq(octets)[i] = IF i % 2 = 1 THEN Base * octets[i] ELSE octets[i]
           /\ NetSum(octets) = SumUp(NetSeq(octets))
<1>1. \A i \in 1 .. Len(octets) : octets[i] \in 0 .. Base - 1
  BY EachIn
<1>2. Base \in Nat
  BY Bases
<1>3. \A i \in 1 .. Len(octets) : octets[i] \in Int /\ Base * octets[i] \in Int
  BY <1>1, <1>2
<1>4. NetSeq(octets) \in [1 .. Len(octets) -> Int]
  BY <1>3 DEF NetSeq
<1> QED  BY <1>4 DEF NetSeq, NetSum

(* The words' sum, as the host reads them and as the network does. *)
LEMMA HostSums ==
    ASSUME NEW octets \in Seq(0 .. Base - 1), Len(octets) >= 2, NEW endian \in {"little", "big"}
    PROVE  WordSum(octets, endian) \in Nat /\ NetSum(octets) \in Nat /\ Alike(WordSum(octets, endian), NetSum(octets), endian)
<1> DEFINE len == Len(octets)
           k == len \div 2
           words == [i \in 1 .. k |-> AddWord(octets, i, endian)]
           net == NetSeq(octets)
<1>1. len \in Nat /\ k \in Nat /\ k >= 1 /\ (len = 2 * k \/ len = 2 * k + 1) /\ (len % 2 = 1 <=> len = 2 * k + 1)
  OBVIOUS
<1>2. /\ net \in Seq(Int) /\ Len(net) = len
      /\ \A i \in 1 .. len : net[i] = IF i % 2 = 1 THEN Base * octets[i] ELSE octets[i]
      /\ NetSum(octets) = SumUp(net)
  BY NetSeqHolds
<1>3. \A i \in 1 .. len : octets[i] \in 0 .. Base - 1
  BY EachIn
<1>4. ASSUME NEW i \in 1 .. k
      PROVE  /\ AddWord(octets, i, endian) \in Nat /\ net[2 * i - 1] + net[2 * i] \in Nat
             /\ Alike(AddWord(octets, i, endian), net[2 * i - 1] + net[2 * i], endian)
  <2>1. 2 * i - 1 \in 1 .. len /\ 2 * i \in 1 .. len /\ (2 * i - 1) % 2 = 1 /\ (2 * i) % 2 = 0
    BY <1>1
  <2>2. octets[2 * i - 1] \in 0 .. Base - 1 /\ octets[2 * i] \in 0 .. Base - 1
    BY <1>3, <2>1
  <2> HIDE DEF net
  <2>3. net[2 * i - 1] = Base * octets[2 * i - 1] /\ net[2 * i] = octets[2 * i]
    <3>1. ASSUME NEW j \in 1 .. len, j % 2 = 1 PROVE net[j] = Base * octets[j]
      BY <1>2, <3>1
    <3>2. ASSUME NEW j \in 1 .. len, j % 2 = 0 PROVE net[j] = octets[j]
      BY <1>2, <3>2
    <3> HIDE DEF len
    <3> QED  BY <2>1, <3>1, <3>2
  <2> QED  BY <2>2, <2>3, WordAlike DEF AddWord
<1>5. words \in Seq(Int) /\ Len(words) = k
  BY <1>1, <1>4
<1>6. PICK g : Upwards(words, g) /\ SumUp(words) = g[k]
  BY <1>5, SumsUp
<1>7. PICK h : Upwards(net, h) /\ SumUp(net) = h[len]
  BY <1>2, SumsUp
<1> HIDE DEF net
<1> DEFINE T == {n \in 0 .. k : g[n] \in Nat /\ h[2 * n] \in Nat /\ Alike(g[n], h[2 * n], endian)}
<1>8. 0 \in T
  <2>1. g[0] = 0 /\ h[0] = 0 /\ 2 * 0 = 0
    BY <1>6, <1>7 DEF Upwards
  <2>2. Alike(0, 0, endian)
    <3>1. Base * 0 = 0 + (WordBase - 1) * 0
      BY Bases
    <3> QED  BY <3>1 DEF Alike
  <2> QED  BY <1>1, <2>1, <2>2
<1>9. ASSUME NEW n \in 1 .. k, n - 1 \in T PROVE n \in T
  <2>1. g[n - 1] \in Nat /\ h[2 * (n - 1)] \in Nat /\ Alike(g[n - 1], h[2 * (n - 1)], endian)
    BY <1>9
  <2>2. g[n] = g[n - 1] + AddWord(octets, n, endian)
    BY <1>5, <1>6 DEF Upwards
  <2>3. h[2 * n] = h[2 * (n - 1)] + (net[2 * n - 1] + net[2 * n])
    <3>1. 2 * n - 1 \in 1 .. len /\ 2 * n \in 1 .. len /\ 2 * n - 1 - 1 = 2 * (n - 1)
      BY <1>1
    <3>2. h[2 * n - 1] = h[2 * (n - 1)] + net[2 * n - 1] /\ h[2 * n] = h[2 * n - 1] + net[2 * n]
      BY <1>2, <1>7, <3>1 DEF Upwards
    <3>3. net[2 * n - 1] \in Int /\ net[2 * n] \in Int
      BY <1>2, <3>1, EachIn
    <3> QED  BY <2>1, <3>2, <3>3
  <2>4. /\ AddWord(octets, n, endian) \in Nat /\ net[2 * n - 1] + net[2 * n] \in Nat
        /\ Alike(AddWord(octets, n, endian), net[2 * n - 1] + net[2 * n], endian)
    BY <1>4
  <2>a. g[n - 1] \in Int /\ h[2 * (n - 1)] \in Int /\ AddWord(octets, n, endian) \in Int /\ net[2 * n - 1] + net[2 * n] \in Int
    BY <2>1, <2>4
  <2>5. Alike(g[n], h[2 * n], endian)
    BY <2>a, <2>1, <2>2, <2>3, <2>4, AlikeAdds, Zenon
  <2>6. g[n] \in Nat /\ h[2 * n] \in Nat
    BY <2>1, <2>2, <2>3, <2>4
  <2> QED  BY <2>5, <2>6
<1>10. g[k] \in Nat /\ h[2 * k] \in Nat /\ Alike(g[k], h[2 * k], endian)
  <2> HIDE DEF T, k
  <2>1. 0 .. k \subseteq T
    BY <1>1, <1>8, <1>9, UpTo
  <2> QED  BY <1>1, <2>1 DEF T
<1>11. WordSum(octets, endian) = g[k] + (IF len % 2 = 1 THEN SuHtons(Base * octets[len], endian) ELSE 0)
  <2>1. WordsTaken(len \div 2) = k
    BY <1>1, WordsAreTaken
  <2> QED  BY <1>6, <2>1 DEF WordSum
<1>12. CASE len = 2 * k
  <2> HIDE DEF k, len
  <2>1. WordSum(octets, endian) = g[k] /\ NetSum(octets) = h[2 * k]
    BY <1>1, <1>2, <1>7, <1>10, <1>11, <1>12
  <2> QED  BY <1>10, <2>1
<1>13. CASE len = 2 * k + 1
  <2> DEFINE x == octets[len]
  <2>1. len \in 1 .. len /\ len % 2 = 1 /\ len - 1 = 2 * k
    BY <1>1, <1>13
  <2>2. x \in 0 .. Base - 1
    BY <1>3, <2>1
  <2>3. h[len] = h[2 * k] + net[len] /\ net[len] = Base * x
    BY <1>2, <1>7, <2>1 DEF Upwards
  <2>4. 0 \in 0 .. Base - 1 /\ Base * x \in Int /\ Base * x + 0 = Base * x
    BY <2>2, Bases
  <2>5. Word(x, 0, endian) \in Nat /\ Base * x \in Nat /\ Alike(Word(x, 0, endian), Base * x, endian)
    BY <2>2, <2>4, WordAlike
  <2>6. WordSum(octets, endian) = g[k] + Word(x, 0, endian)
    BY <1>11, <2>1, <2>2, LastAlike
  <2> HIDE DEF x, k, len
  <2>a. g[k] \in Int /\ h[2 * k] \in Int /\ Word(x, 0, endian) \in Int /\ Base * x \in Int
    BY <1>10, <2>5
  <2>7. Alike(g[k] + Word(x, 0, endian), h[2 * k] + Base * x, endian)
    BY <1>10, <2>a, <2>5, AlikeAdds, Zenon
  <2> QED  BY <1>2, <1>7, <1>10, <2>3, <2>5, <2>6, <2>7
<1> QED  BY <1>1, <1>12, <1>13

(* Sums of two sequences in a row. *)
LEMMA SumOfTwo ==
    ASSUME NEW a \in Seq(Int), NEW b \in Seq(Int) PROVE SumUp(a \o b) = SumUp(a) + SumUp(b)
<1> DEFINE c == a \o b
           m == Len(a)
           n == Len(b)
<1>1. c \in Seq(Int) /\ Len(c) = m + n /\ m \in Nat /\ n \in Nat
  BY InARow
<1>2. (\A i \in 1 .. m : c[i] = a[i]) /\ (\A i \in 1 .. n : c[m + i] = b[i])
  BY InARow
<1>3. PICK f : Upwards(a, f) /\ SumUp(a) = f[m]
  BY SumsUp
<1>4. PICK g : Upwards(b, g) /\ SumUp(b) = g[n]
  BY SumsUp
<1>5. PICK h : Upwards(c, h) /\ SumUp(c) = h[m + n]
  BY <1>1, SumsUp
<1> DEFINE S == {i \in 0 .. m : h[i] = f[i]}
           T == {i \in 0 .. n : h[m + i] = f[m] + g[i]}
<1>6. 0 \in S
  BY <1>1, <1>3, <1>5 DEF Upwards
<1>7. ASSUME NEW i \in 1 .. m, i - 1 \in S PROVE i \in S
  <2>1. i \in 1 .. Len(c) /\ c[i] = a[i]
    BY <1>1, <1>2
  <2> HIDE DEF c
  <2>2. h[i] = h[i - 1] + a[i] /\ f[i] = f[i - 1] + a[i]
    BY <1>3, <1>5, <2>1 DEF Upwards
  <2> QED  BY <1>7, <2>2
<1>8. m \in S
  <2> HIDE DEF S, m
  <2>1. 0 .. m \subseteq S
    BY <1>1, <1>6, <1>7, UpTo
  <2> QED  BY <1>1, <2>1
<1>9. 0 \in T
  <2>1. f[m] \in Int
    BY <1>1, <1>3 DEF Upwards
  <2>2. h[m] = f[m] /\ g[0] = 0 /\ m + 0 = m
    BY <1>1, <1>4, <1>8 DEF Upwards
  <2> HIDE DEF m, n
  <2> QED  BY <1>1, <2>1, <2>2
<1>10. ASSUME NEW i \in 1 .. n, i - 1 \in T PROVE i \in T
  <2>1. m + i \in 1 .. Len(c) /\ c[m + i] = b[i] /\ m + i - 1 = m + (i - 1)
    BY <1>1, <1>2
  <2> HIDE DEF c
  <2>2. h[m + i] = h[m + (i - 1)] + b[i] /\ g[i] = g[i - 1] + b[i]
    BY <1>4, <1>5, <2>1 DEF Upwards
  <2>3. f[m] \in Int /\ g[i - 1] \in Int /\ b[i] \in Int
    <3>1. m \in 0 .. Len(a) /\ i - 1 \in 0 .. Len(b)
      BY <1>1
    <3>2. b[i] \in Int
      BY EachIn
    <3> QED  BY <1>3, <1>4, <3>1, <3>2 DEF Upwards
  <2>4. h[m + (i - 1)] = f[m] + g[i - 1]
    BY <1>10
  <2>5. h[m + i] = f[m] + g[i]
    BY <2>2, <2>3, <2>4
  <2> QED  BY <2>5
<1>11. n \in T
  <2> HIDE DEF T, n, m
  <2>1. 0 .. n \subseteq T
    BY <1>1, <1>9, <1>10, UpTo
  <2> QED  BY <1>1, <2>1
<1> QED  BY <1>3, <1>4, <1>5, <1>11

LEMMA NetSumOfTwo ==
    ASSUME NEW s \in Seq(0 .. Base - 1), NEW t \in Seq(0 .. Base - 1), Len(s) % 2 = 0
    PROVE  /\ s \o t \in Seq(0 .. Base - 1) /\ Len(s \o t) = Len(s) + Len(t)
           /\ NetSum(s \o t) = NetSum(s) + NetSum(t)
<1> DEFINE u == s \o t
           two == NetSeq(s) \o NetSeq(t)
<1>1. /\ u \in Seq(0 .. Base - 1) /\ Len(u) = Len(s) + Len(t)
      /\ \A i \in 1 .. Len(s) : u[i] = s[i]
      /\ \A i \in 1 .. Len(t) : u[Len(s) + i] = t[i]
  BY InARow
<1>2. /\ NetSeq(s) \in Seq(Int) /\ Len(NetSeq(s)) = Len(s) /\ NetSum(s) = SumUp(NetSeq(s))
      /\ \A i \in 1 .. Len(s) : NetSeq(s)[i] = IF i % 2 = 1 THEN Base * s[i] ELSE s[i]
  BY NetSeqHolds
<1>3. /\ NetSeq(t) \in Seq(Int) /\ Len(NetSeq(t)) = Len(t) /\ NetSum(t) = SumUp(NetSeq(t))
      /\ \A i \in 1 .. Len(t) : NetSeq(t)[i] = IF i % 2 = 1 THEN Base * t[i] ELSE t[i]
  BY NetSeqHolds
<1>4. /\ NetSeq(u) \in Seq(Int) /\ Len(NetSeq(u)) = Len(u) /\ NetSum(u) = SumUp(NetSeq(u))
      /\ \A i \in 1 .. Len(u) : NetSeq(u)[i] = IF i % 2 = 1 THEN Base * u[i] ELSE u[i]
  <2> HIDE DEF u
  <2> QED  BY <1>1, NetSeqHolds
<1>5. /\ two \in Seq(Int) /\ Len(two) = Len(s) + Len(t)
      /\ \A i \in 1 .. Len(s) : two[i] = NetSeq(s)[i]
      /\ \A i \in 1 .. Len(t) : two[Len(s) + i] = NetSeq(t)[i]
  <2>1. NetSeq(s) \in Seq(Int) /\ NetSeq(t) \in Seq(Int)
    BY <1>2, <1>3
  <2>2. /\ two \in Seq(Int) /\ Len(two) = Len(NetSeq(s)) + Len(NetSeq(t))
        /\ \A i \in 1 .. Len(NetSeq(s)) : two[i] = NetSeq(s)[i]
        /\ \A i \in 1 .. Len(NetSeq(t)) : two[Len(NetSeq(s)) + i] = NetSeq(t)[i]
    BY ONLY <2>1, InARow
  <2> HIDE DEF two
  <2> QED  BY <1>2, <1>3, <2>2
<1> HIDE DEF u, two
<1>6. ASSUME NEW i \in 1 .. Len(s) + Len(t) PROVE NetSeq(u)[i] = two[i]
  <2>1. CASE i \in 1 .. Len(s)
    BY <1>1, <1>2, <1>4, <1>5, <2>1
  <2>2. CASE i \notin 1 .. Len(s)
    <3>1. PICK j \in 1 .. Len(t) : i = Len(s) + j
      <4>1. i - Len(s) \in 1 .. Len(t) /\ i = Len(s) + (i - Len(s))
        BY <2>2
      <4> QED  BY <4>1
    <3>2. i % 2 = j % 2
      BY <3>1
    <3>3. NetSeq(u)[i] = IF j % 2 = 1 THEN Base * t[j] ELSE t[j]
      BY <1>1, <1>4, <3>1, <3>2
    <3> QED  BY <1>3, <1>5, <3>1, <3>3
  <2> QED  BY <2>1, <2>2
<1>7. NetSeq(u) = two
  BY <1>1, <1>4, <1>5, <1>6
<1>8. SumUp(two) = SumUp(NetSeq(s)) + SumUp(NetSeq(t))
  BY <1>2, <1>3, SumOfTwo DEF two
<1>9. NetSum(u) = NetSum(s) + NetSum(t)
  BY <1>2, <1>3, <1>4, <1>7, <1>8
<1> QED  BY <1>1, <1>9 DEF u

(* Sums that differ in two places that are zero in one of them. *)
LEMMA SumDiffers ==
    ASSUME NEW a \in Seq(Int), NEW b \in Seq(Int), Len(a) = Len(b), NEW at \in 1 .. Len(a) - 1,
           \A i \in 1 .. Len(a) : i # at /\ i # at + 1 => a[i] = b[i], b[at] = 0, b[at + 1] = 0
    PROVE  SumUp(a) = SumUp(b) + a[at] + a[at + 1]
<1> DEFINE n == Len(a)
           x == a[at]
           y == a[at + 1]
           more(i) == IF i < at THEN 0 ELSE IF i = at THEN x ELSE x + y
<1>1. n \in Nat /\ at \in 1 .. n /\ at + 1 \in 1 .. n
  OBVIOUS
<1>2. x \in Int /\ y \in Int
  BY <1>1, EachIn
<1>3. PICK f : Upwards(a, f) /\ SumUp(a) = f[n]
  BY SumsUp
<1>4. PICK g : Upwards(b, g) /\ SumUp(b) = g[n]
  BY SumsUp
<1> DEFINE T == {i \in 0 .. n : f[i] = g[i] + more(i)}
<1>5. 0 \in T
  BY <1>1, <1>3, <1>4 DEF Upwards
<1>6. ASSUME NEW i \in 1 .. n, i - 1 \in T PROVE i \in T
  <2>1. f[i] = f[i - 1] + a[i] /\ g[i] = g[i - 1] + b[i]
    BY <1>3, <1>4 DEF Upwards
  <2>2. g[i - 1] \in Int /\ a[i] \in Int
    <3>1. i - 1 \in 0 .. Len(b)
      BY <1>1
    <3>2. a[i] \in Int
      BY EachIn
    <3> QED  BY <1>4, <3>1, <3>2 DEF Upwards
  <2>3. f[i - 1] = g[i - 1] + more(i - 1)
    BY <1>6
  <2> HIDE DEF n
  <2>4. CASE i = at
    <3>1. a[i] = x /\ b[i] = 0 /\ more(i) = x /\ more(i - 1) = 0
      BY <2>4
    <3> HIDE DEF more, x, y
    <3>2. f[i] = g[i] + more(i)
      BY <1>2, <2>1, <2>2, <2>3, <3>1
    <3> QED  BY <3>2
  <2>5. CASE i = at + 1
    <3>1. a[i] = y /\ b[i] = 0 /\ more(i) = x + y /\ more(i - 1) = x
      BY <2>5
    <3> HIDE DEF more, x, y
    <3>2. f[i - 1] = g[i - 1] + x /\ f[i] = f[i - 1] + y /\ g[i] = g[i - 1]
      BY <2>1, <2>2, <2>3, <3>1
    <3>3. f[i] = g[i] + (x + y)
      BY <1>2, <2>2, <3>2
    <3> QED  BY <3>1, <3>3
  <2>6. CASE i # at /\ i # at + 1
    <3>1. a[i] = b[i] /\ more(i) = more(i - 1)
      BY <1>1, <2>6 DEF n
    <3>2. more(i) \in Int
      BY <1>2
    <3> HIDE DEF more, x, y
    <3>3. f[i] = g[i] + more(i)
      BY <2>1, <2>2, <2>3, <3>1, <3>2
    <3> QED  BY <3>3
  <2> QED  BY <2>4, <2>5, <2>6
<1>7. n \in T
  <2> HIDE DEF T, n
  <2>1. 0 .. n \subseteq T
    BY <1>1, <1>5, <1>6, UpTo
  <2> QED  BY <1>1, <2>1
<1>8. g[n] \in Int
  BY <1>1, <1>4 DEF Upwards
<1>9. f[n] = g[n] + (x + y)
  BY <1>1, <1>7
<1> HIDE DEF x, y, n
<1>10. f[n] = g[n] + x + y
  BY <1>2, <1>8, <1>9
<1> QED  BY <1>3, <1>4, <1>10 DEF x, y, n

(* The two octets of a word, where they are put. *)
LEMMA TwoOctets ==
    ASSUME NEW w \in 0 .. WordBase - 1, NEW endian \in {"little", "big"}
    PROVE  /\ Octets2(w, endian)[1] \in 0 .. Base - 1 /\ Octets2(w, endian)[2] \in 0 .. Base - 1
           /\ w # 0 => Octets2(w, endian)[1] # 0 \/ Octets2(w, endian)[2] # 0
           /\ Alike(w, Base * Octets2(w, endian)[1] + Octets2(w, endian)[2], endian)
<1> DEFINE lo == w % Base
           hi == w \div Base
<1>1. /\ lo \in 0 .. Base - 1 /\ hi \in 0 .. Base - 1 /\ w = Base * hi + lo
      /\ Base * w = Base * lo + hi + (WordBase - 1) * hi
  <2>1. CASE Base = 8 /\ WordBase = 64
    BY <2>1
  <2>2. CASE Base = 16 /\ WordBase = 256
    BY <2>2
  <2>3. CASE Base = 256 /\ WordBase = 65536
    BY <2>3
  <2> QED  BY Bases, <2>1, <2>2, <2>3
<1>2. w # 0 => hi # 0 \/ lo # 0
  <2> HIDE DEF lo, hi
  <2> QED  BY <1>1, Bases
<1>3. hi \in Int
  BY <1>1, Bases
<1>4. CASE endian = "little"
  <2>1. Octets2(w, endian) = <<lo, hi>>
    BY <1>4 DEF Octets2
  <2> HIDE DEF lo, hi
  <2>2. Octets2(w, endian)[1] = lo /\ Octets2(w, endian)[2] = hi
    BY <2>1
  <2>3. Alike(w, Base * lo + hi, endian)
    BY <1>1, <1>3, <1>4 DEF Alike
  <2> QED  BY <1>1, <1>2, <2>2, <2>3
<1>5. CASE endian = "big"
  <2>1. Octets2(w, endian) = <<hi, lo>>
    BY <1>5 DEF Octets2
  <2> HIDE DEF lo, hi
  <2>2. Octets2(w, endian)[1] = hi /\ Octets2(w, endian)[2] = lo
    BY <2>1
  <2>3. Alike(w, Base * hi + lo, endian)
    BY <1>1, <1>5 DEF Alike
  <2> QED  BY <1>1, <1>2, <2>2, <2>3
<1> QED  BY <1>4, <1>5

LEMMA Counted == ASSUME NEW S, NEW n \in Nat, NEW f \in [1 .. n -> S] PROVE f \in Seq(S) /\ Len(f) = n
OBVIOUS

LEMMA Puts ==
    ASSUME NEW octets \in Seq(0 .. Base - 1), NEW at \in 1 .. Len(octets) - 1,
           NEW w \in 0 .. WordBase - 1, NEW endian \in {"little", "big"}
    PROVE  /\ Put(octets, at, w, endian) \in Seq(0 .. Base - 1)
           /\ Len(Put(octets, at, w, endian)) = Len(octets)
           /\ Put(octets, at, w, endian)[at] = Octets2(w, endian)[1]
           /\ Put(octets, at, w, endian)[at + 1] = Octets2(w, endian)[2]
           /\ \A i \in 1 .. Len(octets) : i # at /\ i # at + 1 => Put(octets, at, w, endian)[i] = octets[i]
<1> DEFINE put == Put(octets, at, w, endian)
           n == Len(octets)
<1>1. Octets2(w, endian)[1] \in 0 .. Base - 1 /\ Octets2(w, endian)[2] \in 0 .. Base - 1
  BY TwoOctets
<1>2. \A i \in 1 .. n : octets[i] \in 0 .. Base - 1
  BY EachIn
<1>3. put = [i \in 1 .. n |-> IF i = at THEN Octets2(w, endian)[1]
                              ELSE IF i = at + 1 THEN Octets2(w, endian)[2] ELSE octets[i]]
  BY DEF Put
<1>4. n \in Nat /\ at \in 1 .. n /\ at + 1 \in 1 .. n /\ at + 1 # at
  OBVIOUS
<1> HIDE DEF put, n
<1>5. put \in [1 .. n -> 0 .. Base - 1]
  BY <1>1, <1>2, <1>3
<1>6. put \in Seq(0 .. Base - 1) /\ Len(put) = n
  BY <1>4, <1>5, Counted
<1>7. put[at] = Octets2(w, endian)[1] /\ put[at + 1] = Octets2(w, endian)[2]
  BY <1>3, <1>4
<1>8. \A i \in 1 .. n : i # at /\ i # at + 1 => put[i] = octets[i]
  BY <1>3
<1> QED  BY <1>6, <1>7, <1>8 DEF put, n

LEMMA NetSumPut ==
    ASSUME NEW octets \in Seq(0 .. Base - 1), NEW at \in 1 .. Len(octets) - 1, at % 2 = 1,
           NEW w \in 0 .. WordBase - 1, NEW endian \in {"little", "big"}
    PROVE  /\ Put(Put(octets, at, w, endian), at, 0, "big") = Put(octets, at, 0, "big")
           /\ NetSum(Put(octets, at, w, endian)) =
                 NetSum(Put(octets, at, 0, "big")) + (Base * Octets2(w, endian)[1] + Octets2(w, endian)[2])
<1> DEFINE n == Len(octets)
           put == Put(octets, at, w, endian)
           clear == Put(octets, at, 0, "big")
           twice == Put(put, at, 0, "big")
           one == Octets2(w, endian)[1]
           two == Octets2(w, endian)[2]
<1>1. Octets2(0, "big")[1] = 0 /\ Octets2(0, "big")[2] = 0 /\ 0 \in 0 .. WordBase - 1
  <2>1. 0 \div Base = 0 /\ 0 % Base = 0
    BY Bases
  <2> QED  BY <2>1, Bases DEF Octets2
<1>2. /\ put \in Seq(0 .. Base - 1) /\ Len(put) = n /\ put[at] = one /\ put[at + 1] = two
      /\ \A i \in 1 .. n : i # at /\ i # at + 1 => put[i] = octets[i]
  BY Puts
<1>3. /\ clear \in Seq(0 .. Base - 1) /\ Len(clear) = n /\ clear[at] = 0 /\ clear[at + 1] = 0
      /\ \A i \in 1 .. n : i # at /\ i # at + 1 => clear[i] = octets[i]
  <2>1. "big" \in {"little", "big"}
    OBVIOUS
  <2>2. /\ clear \in Seq(0 .. Base - 1) /\ Len(clear) = n
        /\ clear[at] = Octets2(0, "big")[1] /\ clear[at + 1] = Octets2(0, "big")[2]
        /\ \A i \in 1 .. n : i # at /\ i # at + 1 => clear[i] = octets[i]
    BY <1>1, <2>1, Puts
  <2> HIDE DEF clear
  <2> QED  BY <1>1, <2>2
<1> HIDE DEF put
<1>4. /\ twice \in Seq(0 .. Base - 1) /\ Len(twice) = n /\ twice[at] = 0 /\ twice[at + 1] = 0
      /\ \A i \in 1 .. n : i # at /\ i # at + 1 => twice[i] = put[i]
  <2>1. "big" \in {"little", "big"} /\ at \in 1 .. Len(put) - 1
    BY <1>2
  <2>2. /\ twice \in Seq(0 .. Base - 1) /\ Len(twice) = Len(put)
        /\ twice[at] = Octets2(0, "big")[1] /\ twice[at + 1] = Octets2(0, "big")[2]
        /\ \A i \in 1 .. Len(put) : i # at /\ i # at + 1 => twice[i] = put[i]
    BY <1>1, <1>2, <2>1, Puts
  <2> HIDE DEF twice
  <2> QED  BY <1>1, <1>2, <2>2
<1> HIDE DEF clear, twice
<1>5. twice = clear
  <2>1. ASSUME NEW i \in 1 .. n PROVE twice[i] = clear[i]
    BY <1>2, <1>3, <1>4
  <2> HIDE DEF n
  <2> QED  BY <1>3, <1>4, <2>1
<1>6. /\ NetSeq(put) \in Seq(Int) /\ Len(NetSeq(put)) = n /\ NetSum(put) = SumUp(NetSeq(put))
      /\ \A i \in 1 .. n : NetSeq(put)[i] = IF i % 2 = 1 THEN Base * put[i] ELSE put[i]
  BY <1>2, NetSeqHolds
<1>7. /\ NetSeq(clear) \in Seq(Int) /\ Len(NetSeq(clear)) = n /\ NetSum(clear) = SumUp(NetSeq(clear))
      /\ \A i \in 1 .. n : NetSeq(clear)[i] = IF i % 2 = 1 THEN Base * clear[i] ELSE clear[i]
  BY <1>3, NetSeqHolds
<1>8. at \in 1 .. n /\ at + 1 \in 1 .. n /\ (at + 1) % 2 # 1
  OBVIOUS
<1>9. \A i \in 1 .. n : i # at /\ i # at + 1 => NetSeq(put)[i] = NetSeq(clear)[i]
  <2> SUFFICES ASSUME NEW i \in 1 .. n, i # at, i # at + 1 PROVE NetSeq(put)[i] = NetSeq(clear)[i]
    OBVIOUS
  <2>1. put[i] = clear[i]
    BY <1>2, <1>3
  <2> HIDE DEF n
  <2> QED  BY <1>6, <1>7, <2>1
<1>10. NetSeq(clear)[at] = 0 /\ NetSeq(clear)[at + 1] = 0
  <2>1. Base * 0 = 0
    BY Bases
  <2> HIDE DEF n
  <2> QED  BY <1>3, <1>7, <1>8, <2>1
<1>11. NetSeq(put)[at] = Base * one /\ NetSeq(put)[at + 1] = two
  BY <1>2, <1>6, <1>8
<1>12. SumUp(NetSeq(put)) = SumUp(NetSeq(clear)) + NetSeq(put)[at] + NetSeq(put)[at + 1]
  <2>1. Len(NetSeq(put)) = Len(NetSeq(clear)) /\ at \in 1 .. Len(NetSeq(put)) - 1
    BY <1>6, <1>7
  <2>2. \A i \in 1 .. Len(NetSeq(put)) : i # at /\ i # at + 1 => NetSeq(put)[i] = NetSeq(clear)[i]
    BY <1>6, <1>9
  <2> QED  BY <1>6, <1>7, <1>10, <2>1, <2>2, SumDiffers
<1>13. NetSum(clear) \in Int /\ Base * one \in Int /\ two \in Int
  <2>1. NetSum(clear) \in Int
    <3>1. PICK g : Upwards(NetSeq(clear), g) /\ SumUp(NetSeq(clear)) = g[Len(NetSeq(clear))]
      BY <1>7, SumsUp
    <3>2. Len(NetSeq(clear)) \in 0 .. Len(NetSeq(clear))
      BY <1>7
    <3> QED  BY <1>7, <3>1, <3>2 DEF Upwards
  <2>2. one \in 0 .. Base - 1 /\ two \in 0 .. Base - 1
    BY TwoOctets
  <2> HIDE DEF one, two
  <2> QED  BY <2>1, <2>2, Bases
<1>14. NetSum(put) = NetSum(clear) + (Base * one + two)
  <2> HIDE DEF one, two
  <2> QED  BY <1>6, <1>7, <1>11, <1>12, <1>13
<1> QED  BY <1>5, <1>14 DEF put, clear, twice

(* Arithmetic: quotients and remainders, whatever the divisor.             *)
LEMMA Divided ==
    ASSUME NEW n \in Int, NEW d \in Int, d > 0
    PROVE  n \div d \in Int /\ n % d \in 0 .. d - 1 /\ n = d * (n \div d) + (n % d)
BY SMT

LEMMA NextMultiple == ASSUME NEW d \in Int, d > 0, NEW x \in Int, NEW y \in Int, x < y PROVE d * y >= d * x + d
<1>1. y - x - 1 >= 0 /\ y - x - 1 \in Int
  BY SMT
<1>2. d * (y - x - 1) >= 0
  BY <1>1, SMT
<1>3. d * (y - x - 1) = d * y - d * x - d
  BY SMT
<1> QED  BY <1>2, <1>3, SMT

LEMMA OneQuotient ==
    ASSUME NEW d \in Int, d > 0, NEW q \in Int, NEW r \in 0 .. d - 1
    PROVE  (d * q + r) \div d = q /\ (d * q + r) % d = r
<1> DEFINE n == d * q + r
           p == n \div d
           s == n % d
<1>1. n \in Int
  BY SMT
<1>2. p \in Int /\ s \in 0 .. d - 1 /\ n = d * p + s
  <2> HIDE DEF n
  <2> QED  BY <1>1, Divided, SMT
<1>3. d * q + r = d * p + s
  BY <1>2, SMT
<1> HIDE DEF p, s, n
<1>4. ~(q < p)
  BY <1>2, <1>3, NextMultiple, SMT
<1>5. ~(p < q)
  BY <1>2, <1>3, NextMultiple, SMT
<1>6. q = p
  BY <1>2, <1>4, <1>5, SMT
<1>7. r = s
  BY <1>2, <1>3, <1>6, SMT
<1> QED  BY <1>6, <1>7 DEF p, s, n

LEMMA BaseIs == Base \in Int /\ Base >= 2 /\ WordBase = Base * Base /\ WordBase \in Int /\ WordBase >= 4
<1>1. Base \in Int /\ Base >= 2 /\ WordBase = Base * Base
  BY IpUtilAssumption DEF WordBase
<1>2. WordBase \in Int /\ WordBase >= 4
  BY Bases
<1> QED  BY <1>1, <1>2

LEMMA IntBaseIs ==
    IntBase \in Int /\ IntBase = WordBase * WordBase /\ IntBase >= 4 /\ IntBase \div 2 \in Int /\ IntBase \div 2 < IntBase
<1>1. WordBase \in Int /\ WordBase >= 4
  BY BaseIs
<1>2. WordBase * WordBase \in Int /\ WordBase * WordBase >= 4
  BY ONLY <1>1, SMT
<1>3. IntBase \in Int /\ IntBase >= 4
  BY ONLY <1>2, SMT DEF IntBase
<1>4. IntBase \div 2 \in Int /\ IntBase \div 2 < IntBase
  BY ONLY <1>3, SMT
<1> QED  BY <1>3, <1>4 DEF IntBase

(* An int keeps a sum that is not too great; its carries are added, and    *)
(* what comes out makes it a multiple of WordBase - 1.                     *)
LEMMA IntKeeps == ASSUME NEW t \in Nat, t < IntBase \div 2 PROVE Int32(t) = t
<1>1. IntBase \in Int /\ IntBase >= 4 /\ t \in Int /\ t >= 0 /\ IntBase \div 2 \in Int /\ IntBase \div 2 < IntBase
  BY IntBaseIs
<1>2. t \in 0 .. IntBase - 1 /\ t = IntBase * 0 + t /\ 0 \in Int /\ IntBase > 0
  BY ONLY <1>1, t < IntBase \div 2, SMT
<1>3. (IntBase * 0 + t) % IntBase = t
  BY ONLY <1>1, <1>2, OneQuotient, Zenon
<1>4. t % IntBase = t
  BY ONLY <1>2, <1>3
<1>5. ~(t >= IntBase \div 2)
  BY ONLY <1>1, t < IntBase \div 2, SMT
<1> QED  BY ONLY <1>4, <1>5 DEF Int32

LEMMA Halves ==
    ASSUME NEW W \in Int, W >= 4, NEW a \in Int, NEW b \in 0 .. W - 1, W * a + b >= 0, W * a + b < (W * W) \div 2
    PROVE  a >= 0 /\ a < W
<1>1. (W * W) \div 2 <= W * W /\ (W * W) \div 2 \in Int
  <2>1. W * W \in Int /\ W * W >= 0
    BY SMT
  <2>2. \A n \in Int : n >= 0 => n \div 2 <= n /\ n \div 2 \in Int
    BY SMT
  <2> QED  BY <2>1, <2>2
<1>2. ~(a < 0)
  <2> SUFFICES ASSUME a < 0 PROVE FALSE
    OBVIOUS
  <2>1. W * 0 >= W * a + W
    BY NextMultiple, SMT
  <2> QED  BY <2>1, SMT
<1>3. ~(a > W - 1)
  <2> SUFFICES ASSUME W - 1 < a PROVE FALSE
    BY SMT
  <2>1. W * a >= W * (W - 1) + W
    BY NextMultiple, SMT
  <2>2. W * (W - 1) + W = W * W /\ W * a \in Int /\ W * W \in Int
    BY SMT
  <2> QED  BY <1>1, <2>1, <2>2, SMT
<1> QED  BY <1>2, <1>3, SMT

LEMMA CarryIn == ASSUME NEW W \in Int, NEW a \in Int, NEW b \in Int PROVE W * a + b + (W - 1 - (a + b)) = (W - 1) * (a + 1)
BY SMT
LEMMA CarryOn == ASSUME NEW W \in Int, NEW a \in Int, NEW b \in Int PROVE W * a + b + (W - 1 - (a + b + 1 - W)) = (W - 1) * (a + 2)
BY SMT

LEMMA Carried ==
    ASSUME NEW t \in Nat, t < IntBase \div 2
    PROVE  IpCksumCarry(t) \in 0 .. WordBase - 1 /\ \E k \in Int : t + IpCksumCarry(t) = (WordBase - 1) * k
<1> DEFINE W == WordBase
           a == t \div W
           b == t % W
           c == IpCksumCarry(t)
<1>1. W \in Int /\ W >= 4 /\ W > 0 /\ t \in Int /\ t >= 0
  BY BaseIs
<1>2. a \in Int /\ b \in 0 .. W - 1 /\ t = W * a + b
  <2> HIDE DEF W
  <2> QED  BY <1>1, Divided
<1>3. c = W - 1 - ((a + b + ((a + b) \div W)) % W)
  BY DEF IpCksumCarry
<1>4. t < (W * W) \div 2
  BY DEF IntBase
<1> HIDE DEF W, a, b, c
<1>5. a >= 0 /\ a < W
  BY ONLY <1>1, <1>2, <1>4, Halves
<1>6. CASE a + b < W
  <2>1. a + b \in 0 .. W - 1 /\ W * 0 + (a + b) = a + b /\ a + b + 0 = a + b /\ 0 \in Int
    BY ONLY <1>1, <1>2, <1>5, <1>6, SMT
  <2>2. (a + b) \div W = 0 /\ (a + b) % W = a + b
    BY ONLY <1>1, <2>1, OneQuotient
  <2>3. c = W - 1 - (a + b)
    BY ONLY <1>3, <2>1, <2>2
  <2>4. t + c = (W - 1) * (a + 1) /\ a + 1 \in Int
    BY ONLY <1>1, <1>2, <2>3, CarryIn
  <2>5. c \in 0 .. W - 1
    BY ONLY <1>1, <2>1, <2>3, SMT
  <2> QED  BY <2>4, <2>5 DEF W, c
<1>7. CASE a + b >= W
  <2>1. a + b - W \in 0 .. W - 1 /\ W * 1 + (a + b - W) = a + b /\ 1 \in Int
    BY ONLY <1>1, <1>2, <1>5, <1>7, SMT
  <2>2. (a + b) \div W = 1
    BY ONLY <1>1, <2>1, OneQuotient
  <2>3. a + b + 1 - W \in 0 .. W - 1 /\ W * 1 + (a + b + 1 - W) = a + b + 1
    BY ONLY <1>1, <1>2, <1>5, <1>7, SMT
  <2>4. (a + b + 1) % W = a + b + 1 - W
    BY ONLY <1>1, <2>1, <2>3, OneQuotient
  <2>5. c = W - 1 - (a + b + 1 - W)
    BY ONLY <1>3, <2>2, <2>4
  <2>6. t + c = (W - 1) * (a + 2) /\ a + 2 \in Int
    BY ONLY <1>1, <1>2, <2>5, CarryOn
  <2>7. c \in 0 .. W - 1
    BY ONLY <1>1, <1>2, <1>5, <2>3, <2>5, SMT
  <2> QED  BY <2>6, <2>7 DEF W, c
<1> QED  BY <1>1, <1>2, <1>6, <1>7, SMT

LEMMA SwapOnce == ASSUME NEW B \in Int, NEW hi \in Int, NEW lo \in Int PROVE B * (hi + B * lo) = (B * hi + lo) + (B * B - 1) * lo
BY SMT
LEMMA SwapTwice ==
    ASSUME NEW B \in Int, NEW hi \in Int, NEW lo \in Int
    PROVE  B * ((B * B) * (hi + B * lo)) = (B * hi + lo) + (B * B - 1) * (B * hi + (B * B + 1) * lo)
BY SMT
LEMMA Times == ASSUME NEW a \in Nat, NEW b \in Nat PROVE a * b \in Nat
BY SMT

(* The length and the protocol, as one number of two octets or of four.    *)
LEMMA NumberAlike ==
    ASSUME NEW n \in 0 .. WordBase - 1, NEW endian \in {"little", "big"}
    PROVE  /\ SuHtons(n, endian) \in Nat /\ Alike(SuHtons(n, endian), n, endian)
           /\ SuHtonl(n, endian) \in Nat /\ Alike(SuHtonl(n, endian), n, endian)
<1> DEFINE B == Base
           W == WordBase
           lo == n % B
           hi == n \div B
<1>1. B \in Int /\ B >= 2 /\ B > 0 /\ W = B * B /\ W \in Int /\ W >= 4 /\ n \in Int /\ n >= 0 /\ n < W
  BY BaseIs
<1> HIDE DEF B, W
<1>2. lo \in 0 .. B - 1 /\ hi \in Int /\ n = B * hi + lo
  BY <1>1, Divided
<1> HIDE DEF lo, hi
<1>3. hi \in 0 .. B - 1
  <2>1. ~(hi < 0)
    <3> SUFFICES ASSUME hi < 0 PROVE FALSE
      OBVIOUS
    <3>1. B * 0 >= B * hi + B
      BY <1>1, <1>2, NextMultiple, SMT
    <3> QED  BY <1>1, <1>2, <3>1, SMT
  <2>2. ~(B - 1 < hi)
    <3> SUFFICES ASSUME B - 1 < hi PROVE FALSE
      OBVIOUS
    <3>1. B * hi >= B * (B - 1) + B
      BY ONLY <1>1, <1>2, B - 1 < hi, NextMultiple, SMT
    <3>2. B * (B - 1) + B = W
      BY <1>1, SMT
    <3> QED  BY ONLY <1>1, <1>2, <3>1, <3>2, SMT
  <2> QED  BY <1>1, <1>2, <2>1, <2>2, SMT
<1>4. hi % B = hi
  <2>1. hi = B * 0 + hi /\ 0 \in Int
    BY <1>1, <1>3, SMT
  <2> QED  BY ONLY <1>1, <1>3, <2>1, OneQuotient
<1>5. hi \in Nat /\ lo \in Nat /\ B \in Nat /\ W \in Nat
  BY <1>1, <1>2, <1>3, SMT
<1>6. B * lo \in Nat /\ B * hi \in Nat
  BY ONLY <1>5, Times
<1>7. hi + B * lo \in Nat
  BY ONLY <1>5, <1>6, SMT
<1>8. W * (hi + B * lo) \in Nat
  BY ONLY <1>5, <1>7, Times
<1>9. B * (hi + B * lo) = n + (W - 1) * lo /\ lo \in Int
  <2>1. hi \in Int /\ lo \in Int
    BY ONLY <1>5, SMT
  <2> QED  BY ONLY <1>1, <1>2, <2>1, SwapOnce
<1>10. B * (W * (hi + B * lo)) = n + (W - 1) * (B * hi + (W + 1) * lo) /\ B * hi + (W + 1) * lo \in Int
  <2>1. hi \in Int /\ lo \in Int
    BY ONLY <1>5, SMT
  <2>2. B * hi + (W + 1) * lo \in Int
    BY ONLY <1>1, <2>1, SMT
  <2> QED  BY ONLY <1>1, <1>2, <2>1, <2>2, SwapTwice
<1>11. SuHtons(n, endian) = Word(hi, lo, endian)
  BY <1>4 DEF SuHtons, hi, lo, B
<1>12. CASE endian = "big"
  <2>1. SuHtons(n, endian) = n /\ SuHtonl(n, endian) = n
    BY <1>2, <1>11, <1>12 DEF SuHtonl, Word, B
  <2>2. n \in Nat
    BY <1>1, SMT
  <2> QED  BY <1>12, <2>1, <2>2 DEF Alike
<1>13. CASE endian = "little"
  <2>1. SuHtons(n, endian) = hi + B * lo
    BY <1>11, <1>13 DEF Word, B
  <2>2. SuHtonl(n, endian) = W * (hi + B * lo)
    BY <1>13, <2>1 DEF SuHtonl, W
  <2>3. Alike(SuHtons(n, endian), n, endian)
    BY ONLY <1>9, <1>13, <2>1 DEF Alike, B, W
  <2>4. Alike(SuHtonl(n, endian), n, endian)
    BY ONLY <1>10, <1>13, <2>2 DEF Alike, B, W
  <2> QED  BY <1>7, <1>8, <2>1, <2>2, <2>3, <2>4
<1> QED  BY <1>12, <1>13

LEMMA MultipleOf ==
    ASSUME NEW B \in Int, NEW V \in Int, NEW s \in Int, NEW u \in Int, NEW k \in Int, NEW q \in Int,
           s = V * k, B * s = u + V * q
    PROVE  u = V * (B * k - q) /\ B * k - q \in Int
<1>1. B * (V * k) = V * (B * k)
  BY SMT
<1> QED  BY <1>1, SMT

(* A sum that the checksum c completes for the host is complete for the    *)
(* network.                                                                *)
LEMMA Completes ==
    ASSUME NEW endian \in {"little", "big"}, NEW t \in Int, NEW net \in Int, NEW c \in Int, NEW v \in Int,
           Alike(t, net, endian), Alike(c, v, endian), \E k \in Int : t + c = (WordBase - 1) * k
    PROVE  (net + v) % (WordBase - 1) = 0
<1>0. Base \in Int /\ WordBase - 1 \in Int /\ WordBase - 1 > 0 /\ net + v \in Int /\ t + c \in Int
  BY BaseIs
<1>1. PICK k \in Int : t + c = (WordBase - 1) * k
  OBVIOUS
<1>2. Alike(t + c, net + v, endian)
  BY AlikeAdds, Zenon
<1>3. \E j \in Int : net + v = (WordBase - 1) * j
  <2>1. CASE endian = "big"
    BY <1>1, <1>2, <2>1 DEF Alike
  <2>2. CASE endian = "little"
    <3>1. PICK q \in Int : Base * (t + c) = net + v + (WordBase - 1) * q
      BY <1>2, <2>2 DEF Alike
    <3>2. net + v = (WordBase - 1) * (Base * k - q) /\ Base * k - q \in Int
      <4> DEFINE V == WordBase - 1
                 s == t + c
                 u == net + v
      <4>1. V \in Int /\ s \in Int /\ u \in Int /\ s = V * k /\ Base * s = u + V * q
        BY <1>0, <1>1, <3>1
      <4> HIDE DEF V, s, u
      <4>2. u = V * (Base * k - q) /\ Base * k - q \in Int
        <5>1. Base \in Int /\ k \in Int /\ q \in Int
          BY <1>0
        <5> QED  BY ONLY <4>1, <5>1, MultipleOf, SMT
      <4> QED  BY <4>2 DEF V, u
    <3> QED  BY <3>2
  <2> QED  BY <2>1, <2>2
<1>4. PICK j \in Int : net + v = (WordBase - 1) * j
  BY <1>3
<1>5. 0 \in 0 .. (WordBase - 1) - 1 /\ (WordBase - 1) * j + 0 = (WordBase - 1) * j
  BY <1>0, SMT
<1>6. ((WordBase - 1) * j + 0) % (WordBase - 1) = 0
  BY ONLY <1>0, <1>5, j \in Int, OneQuotient
<1> QED  BY <1>4, <1>5, <1>6

(* ip_cksum_add, while ints suffice. *)
LEMMA AddsUp ==
    ASSUME NEW octets \in Seq(0 .. Base - 1), Len(octets) >= 2, NEW endian \in {"little", "big"},
           NEW sum \in Nat, sum + WordSum(octets, endian) < IntBase \div 2
    PROVE  IpCksumAdd(octets, sum, endian) = sum + WordSum(octets, endian) /\ sum + WordSum(octets, endian) \in Nat
<1>1. WordSum(octets, endian) \in Nat
  BY HostSums
<1>2. sum + WordSum(octets, endian) \in Nat
  BY <1>1
<1>3. Int32(sum + WordSum(octets, endian)) = sum + WordSum(octets, endian)
  BY <1>2, IntKeeps
<1>4. Len(octets) # 1
  <2>1. Len(octets) \in Nat /\ Len(octets) >= 2
    OBVIOUS
  <2>2. \A n \in Nat : n >= 2 => n # 1
    BY SMT
  <2> QED  BY <2>1, <2>2
<1> QED  BY <1>2, <1>3, <1>4 DEF IpCksumAdd

(* What clearing or storing a field leaves alone. *)
LEMMA FieldFits ==
    ASSUME NEW seg \in [proto : {"tcp", "udp", "icmp", "icmpv6"}, octets : Seq(0 .. Base - 1)],
           Len(seg.octets) >= HdrLen[seg.proto]
    PROVE  /\ FieldAt[seg.proto] \in 1 .. Len(seg.octets) - 1 /\ FieldAt[seg.proto] % 2 = 1
           /\ Len(seg.octets) \in Nat /\ Len(seg.octets) >= 4 /\ seg.octets \in Seq(0 .. Base - 1)
           /\ seg.proto \in {"tcp", "udp", "icmp", "icmpv6"}
<1>1. seg.octets \in Seq(0 .. Base - 1) /\ Len(seg.octets) \in Nat
  OBVIOUS
<1>2. CASE seg.proto = "tcp"
  BY <1>1, <1>2 DEF HdrLen, FieldAt
<1>3. CASE seg.proto = "udp"
  BY <1>1, <1>3 DEF HdrLen, FieldAt
<1>4. CASE seg.proto \in {"icmp", "icmpv6"}
  BY <1>1, <1>4 DEF HdrLen, FieldAt
<1> QED  BY <1>1, <1>2, <1>3, <1>4

LEMMA StoredKeeps ==
    ASSUME NEW seg \in [proto : {"tcp", "udp", "icmp", "icmpv6"}, octets : Seq(0 .. Base - 1)],
           Len(seg.octets) >= HdrLen[seg.proto], NEW w \in 0 .. WordBase - 1, NEW endian \in {"little", "big"}
    PROVE  /\ Stored(seg, w, endian) \in [proto : {"tcp", "udp", "icmp", "icmpv6"}, octets : Seq(0 .. Base - 1)]
           /\ Stored(seg, w, endian).proto = seg.proto /\ Len(Stored(seg, w, endian).octets) = Len(seg.octets)
           /\ Cleared(Stored(seg, w, endian)) = Cleared(seg)
           /\ NetSum(Stored(seg, w, endian).octets) =
                 NetSum(Cleared(seg).octets) + (Base * Octets2(w, endian)[1] + Octets2(w, endian)[2])
<1> DEFINE at == FieldAt[seg.proto]
           put == Put(seg.octets, at, w, endian)
           clear == Put(seg.octets, at, 0, "big")
<1>1. at \in 1 .. Len(seg.octets) - 1 /\ at % 2 = 1 /\ seg.octets \in Seq(0 .. Base - 1)
  BY FieldFits
<1>2. put \in Seq(0 .. Base - 1) /\ Len(put) = Len(seg.octets)
  <2> HIDE DEF at
  <2>1. at \in 1 .. Len(seg.octets) - 1 /\ seg.octets \in Seq(0 .. Base - 1)
    BY <1>1
  <2> QED  BY ONLY <2>1, w \in 0 .. WordBase - 1, endian \in {"little", "big"}, Puts
<1>3. Put(put, at, 0, "big") = clear /\ NetSum(put) = NetSum(clear) + (Base * Octets2(w, endian)[1] + Octets2(w, endian)[2])
  <2> HIDE DEF at
  <2>1. at \in 1 .. Len(seg.octets) - 1 /\ at % 2 = 1 /\ seg.octets \in Seq(0 .. Base - 1)
    BY <1>1
  <2> QED  BY ONLY <2>1, w \in 0 .. WordBase - 1, endian \in {"little", "big"}, NetSumPut
<1> HIDE DEF put, clear
<1>4. Stored(seg, w, endian) = [seg EXCEPT !.octets = put] /\ Cleared(seg) = [seg EXCEPT !.octets = clear]
  BY DEF Stored, Cleared, put, clear
<1>5. Stored(seg, w, endian).proto = seg.proto /\ Stored(seg, w, endian).octets = put /\ Cleared(seg).octets = clear
  BY <1>4
<1>6. Cleared(Stored(seg, w, endian)) = [Stored(seg, w, endian) EXCEPT !.octets = clear]
  BY <1>3, <1>5 DEF Cleared
<1>7. Cleared(Stored(seg, w, endian)) = Cleared(seg)
  BY <1>4, <1>6
<1>8. Stored(seg, w, endian) \in [proto : {"tcp", "udp", "icmp", "icmpv6"}, octets : Seq(0 .. Base - 1)]
  BY <1>2, <1>4
<1> QED  BY <1>2, <1>3, <1>5, <1>7, <1>8

LEMMA ClearIsStored == ASSUME NEW seg PROVE Cleared(seg) = Stored(seg, 0, "big")
BY DEF Cleared, Stored

LEMMA ClearKeeps ==
    ASSUME NEW seg \in [proto : {"tcp", "udp", "icmp", "icmpv6"}, octets : Seq(0 .. Base - 1)],
           Len(seg.octets) >= HdrLen[seg.proto]
    PROVE  /\ Cleared(seg) \in [proto : {"tcp", "udp", "icmp", "icmpv6"}, octets : Seq(0 .. Base - 1)]
           /\ Cleared(seg).proto = seg.proto /\ Len(Cleared(seg).octets) = Len(seg.octets)
           /\ Cleared(Cleared(seg)) = Cleared(seg)
<1>1. 0 \in 0 .. WordBase - 1 /\ "big" \in {"little", "big"}
  BY Bases
<1> QED  BY <1>1, StoredKeeps, ClearIsStored, Zenon

(* A checksum stored: of a sum t that is the network's but for its order   *)
(* of octets.                                                              *)
LEMMA Sealed ==
    ASSUME NEW seg \in [proto : {"tcp", "udp", "icmp", "icmpv6"}, octets : Seq(0 .. Base - 1)],
           Len(seg.octets) >= HdrLen[seg.proto], NEW endian \in {"little", "big"}, NEW t \in Nat, t < IntBase \div 2,
           NEW p \in Int, NetSum(Cleared(seg).octets) \in Int, Alike(t, NetSum(Cleared(seg).octets) + p, endian),
           NEW w, w = IpCksumCarry(t) \/ w = NeverZero(IpCksumCarry(t))
    PROVE  /\ w \in 0 .. WordBase - 1
           /\ (NetSum(Stored(seg, w, endian).octets) + p) % (WordBase - 1) = 0
<1> DEFINE c == IpCksumCarry(t)
           W == WordBase
           net == NetSum(Cleared(seg).octets)
<1>1. c \in 0 .. W - 1 /\ \E k \in Int : t + c = (W - 1) * k
  BY Carried
<1>2. W \in Int /\ W >= 4 /\ t \in Int
  BY BaseIs
<1>3. PICK k \in Int : t + c = (W - 1) * k
  BY <1>1
<1>4. w = c \/ (c = 0 /\ w = W - 1)
  BY DEF NeverZero
<1> HIDE DEF c, W
<1>5. w \in 0 .. W - 1 /\ w \in Int
  BY <1>1, <1>2, <1>4, SMT
<1>6. \E j \in Int : t + w = (W - 1) * j
  <2>1. CASE w = c
    BY <1>1, <2>1
  <2>2. CASE c = 0 /\ w = W - 1
    <3>1. (W - 1) * k + (W - 1) = (W - 1) * (k + 1) /\ k + 1 \in Int
      BY <1>2, SMT
    <3>2. t = (W - 1) * k
      BY <1>2, <1>3, <2>2, SMT
    <3> QED  BY <2>2, <3>1, <3>2
  <2> QED  BY <1>4, <2>1, <2>2
<1> DEFINE v == Base * Octets2(w, endian)[1] + Octets2(w, endian)[2]
<1>7. /\ Octets2(w, endian)[1] \in 0 .. Base - 1 /\ Octets2(w, endian)[2] \in 0 .. Base - 1
      /\ Alike(w, v, endian)
  BY <1>5, TwoOctets DEF W
<1>8. v \in Int
  BY <1>7, BaseIs
<1> HIDE DEF v
<1>9. NetSum(Stored(seg, w, endian).octets) = net + v
  BY <1>5, StoredKeeps DEF v, W
<1> HIDE DEF net
<1>10. net \in Int /\ net + p \in Int /\ net + p + v = net + v + p
  <2>1. net \in Int
    BY DEF net
  <2> QED  BY <1>8, <2>1
<1>11. Alike(t, net + p, endian)
  BY DEF net
<1>12. (net + p + v) % (W - 1) = 0
  <2> DEFINE u == net + p
  <2>1. u \in Int /\ Alike(t, u, endian) /\ Alike(w, v, endian) /\ \E j \in Int : t + w = (WordBase - 1) * j
    BY <1>6, <1>7, <1>10, <1>11 DEF W
  <2> HIDE DEF u
  <2>2. (u + v) % (WordBase - 1) = 0
    BY ONLY endian \in {"little", "big"}, <1>2, <1>5, <1>8, <2>1, Completes
  <2> QED  BY <2>2 DEF u, W
<1> QED  BY <1>5, <1>9, <1>10, <1>12 DEF W

(* What the pseudo header adds for a receiver, as in Receives. *)
PseudoNet(seg, ip) ==
    IF seg.proto = "icmp" THEN 0
    ELSE (IF ip.version = 4 THEN NetSum(ip.host) ELSE 4 * NetSum(ip.host)) + Proto[seg.proto] + Len(seg.octets)

LEMMA LessOf ==
    ASSUME NEW d \in Nat, NEW h \in Nat, NEW p \in Nat, NEW m \in Int, d + (h + p) < m
    PROVE  d < m /\ d + p \in Nat /\ d + p < m /\ d + p + h = d + (h + p) /\ d + p + h < m
OBVIOUS

(* The octets of source and destination, once and four times. *)
LEMMA HostHolds ==
    ASSUME NEW ip \in Packets
    PROVE  /\ ip.endian \in {"little", "big"} /\ ip.host \in Seq(0 .. Base - 1) /\ Len(ip.host) = 8
           /\ ip.host \o ip.host \o ip.host \o ip.host \in Seq(0 .. Base - 1)
           /\ Len(ip.host \o ip.host \o ip.host \o ip.host) = 32
           /\ NetSum(ip.host) \in Nat /\ NetSum(ip.host \o ip.host \o ip.host \o ip.host) = 4 * NetSum(ip.host)
<1> DEFINE S == 0 .. Base - 1
           h == ip.host
<1>1. ip.endian \in {"little", "big"} /\ h \in [1 .. 8 -> S] /\ ip.version \in {4, 6}
  BY IpUtilAssumption DEF Packets
<1>2. h \in Seq(S) /\ Len(h) = 8
  <2> DEFINE n == 8
  <2>1. n \in Nat /\ h \in [1 .. n -> S]
    BY <1>1
  <2> HIDE DEF h, S, n
  <2>2. h \in Seq(S) /\ Len(h) = n
    BY ONLY <2>1, Counted
  <2> QED  BY <2>2 DEF n
<1> HIDE DEF h
<1>a. 8 % 2 = 0 /\ 16 % 2 = 0 /\ 24 % 2 = 0 /\ 8 + 8 = 16 /\ 16 + 8 = 24 /\ 24 + 8 = 32
  OBVIOUS
<1>3. h \o h \in Seq(S) /\ Len(h \o h) = 16 /\ NetSum(h \o h) = NetSum(h) + NetSum(h)
  BY <1>2, <1>a, NetSumOfTwo
<1>4. h \o h \o h \in Seq(S) /\ Len(h \o h \o h) = 24 /\ NetSum(h \o h \o h) = NetSum(h) + NetSum(h) + NetSum(h)
  BY <1>2, <1>3, <1>a, NetSumOfTwo
<1>5. /\ h \o h \o h \o h \in Seq(S) /\ Len(h \o h \o h \o h) = 32
      /\ NetSum(h \o h \o h \o h) = NetSum(h) + NetSum(h) + NetSum(h) + NetSum(h)
  BY <1>2, <1>4, <1>a, NetSumOfTwo
<1>6. NetSum(h) \in Nat
  <2>1. Len(h) >= 2
    BY <1>2
  <2> QED  BY <1>1, <1>2, <2>1, HostSums
<1>7. NetSum(h) + NetSum(h) + NetSum(h) + NetSum(h) = 4 * NetSum(h)
  BY <1>6
<1> QED  BY <1>1, <1>2, <1>5, <1>6, <1>7 DEF h

(* The whole sum is the network's but for its order of octets; the three   *)
(* ways in which the code adds it up all come to it.                       *)
LEMMA Totals ==
    ASSUME NEW seg, NEW ip, SuShape(seg, ip), IsSummed(seg, ip)
    PROVE  /\ WholeSum(seg, ip) \in Nat /\ WholeSum(seg, ip) < IntBase \div 2
           /\ NetSum(Cleared(seg).octets) \in Int /\ PseudoNet(seg, ip) \in Int
           /\ Alike(WholeSum(seg, ip), NetSum(Cleared(seg).octets) + PseudoNet(seg, ip), ip.endian)
           /\ seg.proto = "icmp" => IpCksumAdd(Cleared(seg).octets, 0, ip.endian) = WholeSum(seg, ip)
           /\ seg.proto # "icmp" /\ ip.version = 4 => TcpSum(seg, ip) = IpCksumCarry(WholeSum(seg, ip))
           /\ seg.proto # "icmp" /\ ip.version = 6 => Ip6Sum(seg, ip) = IpCksumCarry(WholeSum(seg, ip))
<1> DEFINE e == ip.endian
           data == Cleared(seg).octets
           D == WordSum(data, e)
           net == NetSum(data)
           n == Proto[seg.proto] + Len(seg.octets)
           half == IntBase \div 2
<1>1. /\ seg \in [proto : {"tcp", "udp", "icmp", "icmpv6"}, octets : Seq(0 .. Base - 1)] /\ ip \in Packets
      /\ Len(seg.octets) >= HdrLen[seg.proto] /\ Len(seg.octets) + 58 < WordBase
      /\ WholeSum(seg, ip) < half
  BY DEF SuShape, IsSummed
<1>2. e \in {"little", "big"} /\ half \in Int /\ ip.version \in {4, 6}
  <2>1. ip.version \in {4, 6}
    BY <1>1 DEF Packets
  <2> QED  BY <1>1, <2>1, HostHolds, IntBaseIs
<1>3. Len(seg.octets) \in Nat /\ Len(seg.octets) >= 4 /\ seg.proto \in {"tcp", "udp", "icmp", "icmpv6"}
  BY <1>1, FieldFits
<1>4. data \in Seq(0 .. Base - 1) /\ Len(data) = Len(seg.octets)
  BY <1>1, ClearKeeps
<1> HIDE DEF data, half
<1>5. Len(data) >= 2
  BY <1>3, <1>4
<1>6. D \in Nat /\ net \in Nat /\ Alike(D, net, e)
  BY <1>2, <1>4, <1>5, HostSums
<1> HIDE DEF net
<1>7. n \in 0 .. WordBase - 1 /\ Proto[seg.proto] \in Nat
  <2>1. Proto[seg.proto] \in 0 .. 58
    <3>1. CASE seg.proto = "tcp"
      BY <3>1 DEF Proto
    <3>2. CASE seg.proto = "udp"
      BY <3>2 DEF Proto
    <3>3. CASE seg.proto = "icmp"
      BY <3>3 DEF Proto
    <3>4. CASE seg.proto = "icmpv6"
      BY <3>4 DEF Proto
    <3> QED  BY <1>3, <3>1, <3>2, <3>3, <3>4
  <2>2. \A i \in Nat, j \in 0 .. 58, w \in Int : i + 58 < w => j + i \in 0 .. w - 1 /\ j \in Nat
    OBVIOUS
  <2>3. WordBase \in Int
    BY BaseIs
  <2> QED  BY <1>1, <1>3, <2>1, <2>2, <2>3
<1>8. WholeSum(seg, ip) = D + PseudoOf(seg, ip)
  BY DEF WholeSum, data
<1>9. ASSUME D < half PROVE IpCksumAdd(data, 0, e) = D
  <2>1. 0 + D = D /\ 0 \in Nat
    BY <1>6
  <2>2. 0 + WordSum(data, e) < half
    BY <1>9, <2>1
  <2>3. IpCksumAdd(data, 0, e) = 0 + WordSum(data, e)
    BY <1>2, <1>4, <1>5, <2>1, <2>2, AddsUp DEF half
  <2> QED  BY <2>1, <2>3
<1> HIDE DEF D
<1>10. CASE seg.proto = "icmp"
  <2>1. PseudoOf(seg, ip) = 0 /\ PseudoNet(seg, ip) = 0
    BY <1>10 DEF PseudoOf, PseudoNet
  <2>2. WholeSum(seg, ip) = D /\ net + PseudoNet(seg, ip) = net
    BY <1>6, <1>8, <2>1
  <2>3. IpCksumAdd(data, 0, e) = D
    BY <1>1, <1>9, <2>2
  <2> QED  BY <1>1, <1>6, <1>10, <2>1, <2>2, <2>3 DEF half, data, net
<1>11. CASE seg.proto # "icmp" /\ ip.version = 4
  <2> DEFINE H == WordSum(ip.host, e)
             P == PseudoSum(seg, e)
  <2>1. ip.host \in Seq(0 .. Base - 1) /\ Len(ip.host) >= 2
    BY <1>1, HostHolds
  <2>2. H \in Nat /\ NetSum(ip.host) \in Nat /\ Alike(H, NetSum(ip.host), e)
    BY <1>2, <2>1, HostSums
  <2>3. P \in Nat /\ Alike(P, n, e)
    BY <1>2, <1>7, NumberAlike DEF PseudoSum
  <2>4. PseudoOf(seg, ip) = H + P /\ PseudoNet(seg, ip) = NetSum(ip.host) + Proto[seg.proto] + Len(seg.octets)
    BY <1>11 DEF PseudoOf, PseudoNet
  <2> HIDE DEF P
  <2>5. WholeSum(seg, ip) = D + (H + P) /\ WholeSum(seg, ip) \in Nat
    BY <1>6, <1>8, <2>2, <2>3, <2>4
  <2>6. D < half /\ D + P \in Nat /\ D + P < half /\ D + P + H = D + (H + P) /\ D + P + H < half
    <3>1. D + (H + P) < half
      BY <1>1, <2>5
    <3> HIDE DEF H
    <3> QED  BY ONLY <1>2, <1>6, <2>2, <2>3, <3>1, LessOf
  <2>7. Int32(IpCksumAdd(data, 0, e) + P) = D + P
    BY <1>9, <2>6, IntKeeps DEF half
  <2>8. IpCksumAdd(ip.host, D + P, e) = D + P + H
    BY <1>2, <2>1, <2>6, AddsUp DEF half
  <2>9. TcpSum(seg, ip) = IpCksumCarry(WholeSum(seg, ip))
    BY <2>5, <2>6, <2>7, <2>8 DEF TcpSum, data, P
  <2>10. Alike(WholeSum(seg, ip), net + PseudoNet(seg, ip), e) /\ PseudoNet(seg, ip) \in Int
    <3> HIDE DEF H, n, e
    <3>1. n \in Int /\ H \in Int /\ P \in Int /\ D \in Int /\ net \in Int /\ NetSum(ip.host) \in Int
      BY <1>6, <1>7, <2>2, <2>3, BaseIs
    <3>2. Alike(H + P, NetSum(ip.host) + n, e) /\ H + P \in Int /\ NetSum(ip.host) + n \in Int
      <4>1. Alike(H + P, NetSum(ip.host) + n, e)
        BY ONLY <1>2, <2>2, <2>3, <3>1, AlikeAdds, Zenon
      <4> QED  BY <3>1, <4>1
    <3>3. Alike(D + (H + P), net + (NetSum(ip.host) + n), e)
      BY ONLY <1>2, <1>6, <3>1, <3>2, AlikeAdds, Zenon
    <3>4. PseudoNet(seg, ip) = NetSum(ip.host) + n
      BY <1>3, <1>7, <2>2, <2>4 DEF n
    <3> QED  BY <2>5, <3>2, <3>3, <3>4
  <2> QED  BY <1>1, <1>6, <1>11, <2>5, <2>9, <2>10 DEF half, data, net
<1>12. CASE seg.proto # "icmp" /\ ip.version = 6
  <2> DEFINE all == ip.host \o ip.host \o ip.host \o ip.host
             H == WordSum(all, e)
             P == SuHtons(n, e)
  <2>1. all \in Seq(0 .. Base - 1) /\ Len(all) >= 2 /\ NetSum(all) = 4 * NetSum(ip.host) /\ NetSum(ip.host) \in Nat
    BY <1>1, HostHolds
  <2> HIDE DEF all
  <2>2. H \in Nat /\ NetSum(all) \in Nat /\ Alike(H, NetSum(all), e)
    BY <1>2, <2>1, HostSums
  <2>3. P \in Nat /\ Alike(P, n, e)
    BY <1>2, <1>7, NumberAlike
  <2>4. PseudoOf(seg, ip) = H + P /\ PseudoNet(seg, ip) = NetSum(all) + Proto[seg.proto] + Len(seg.octets)
    BY <1>12, <2>1 DEF PseudoOf, PseudoNet, all
  <2> HIDE DEF P
  <2>5. WholeSum(seg, ip) = D + (H + P) /\ WholeSum(seg, ip) \in Nat
    BY <1>6, <1>8, <2>2, <2>3, <2>4
  <2>6. D < half /\ D + P \in Nat /\ D + P < half /\ D + P + H = D + (H + P) /\ D + P + H < half
    <3>1. D + (H + P) < half
      BY <1>1, <2>5
    <3> HIDE DEF H
    <3> QED  BY ONLY <1>2, <1>6, <2>2, <2>3, <3>1, LessOf
  <2>7. Int32(IpCksumAdd(data, 0, e) + P) = D + P
    BY <1>9, <2>6, IntKeeps DEF half
  <2>8. IpCksumAdd(all, D + P, e) = D + P + H
    BY <1>2, <2>1, <2>6, AddsUp DEF half
  <2>9. Ip6Sum(seg, ip) = IpCksumCarry(WholeSum(seg, ip))
    BY <2>5, <2>6, <2>7, <2>8 DEF Ip6Sum, data, P, all
  <2>10. Alike(WholeSum(seg, ip), net + PseudoNet(seg, ip), e) /\ PseudoNet(seg, ip) \in Int
    <3> HIDE DEF H, n, e
    <3>1. n \in Int /\ H \in Int /\ P \in Int /\ D \in Int /\ net \in Int /\ NetSum(all) \in Int
      BY <1>6, <1>7, <2>2, <2>3, BaseIs
    <3>2. Alike(H + P, NetSum(all) + n, e) /\ H + P \in Int /\ NetSum(all) + n \in Int
      <4>1. Alike(H + P, NetSum(all) + n, e)
        BY ONLY <1>2, <2>2, <2>3, <3>1, AlikeAdds, Zenon
      <4> QED  BY <3>1, <4>1
    <3>3. Alike(D + (H + P), net + (NetSum(all) + n), e)
      BY ONLY <1>2, <1>6, <3>1, <3>2, AlikeAdds, Zenon
    <3>4. PseudoNet(seg, ip) = NetSum(all) + n
      BY <1>3, <1>7, <2>2, <2>4 DEF n
    <3> QED  BY <2>5, <3>2, <3>3, <3>4
  <2> QED  BY <1>1, <1>6, <1>12, <2>5, <2>9, <2>10 DEF half, data, net
<1> QED  BY <1>2, <1>10, <1>11, <1>12

LEMMA CarryFits == ASSUME NEW s \in Int PROVE IpCksumCarry(s) \in 0 .. WordBase - 1
<1> DEFINE W == WordBase
           x == (s \div W) + (s % W)
           y == x + (x \div W)
<1>1. W \in Int /\ W > 0
  BY BaseIs
<1>2. IpCksumCarry(s) = W - 1 - (y % W)
  BY DEF IpCksumCarry
<1> HIDE DEF W
<1>3. s \div W \in Int /\ s % W \in 0 .. W - 1
  BY <1>1, Divided
<1>4. x \in Int
  BY <1>1, <1>3
<1> HIDE DEF x
<1>5. y \in Int
  <2>1. x \div W \in Int
    BY <1>1, <1>4, Divided
  <2> QED  BY <1>4, <2>1
<1> HIDE DEF y
<1>6. y % W \in 0 .. W - 1
  BY <1>1, <1>5, Divided
<1>7. W - 1 - (y % W) \in 0 .. W - 1
  BY <1>1, <1>6, SMT
<1> QED  BY <1>2, <1>7 DEF W

(* Lengths and the whole sum stay when a checksum is stored. *)
LEMMA ShapeStays ==
    ASSUME NEW seg, NEW ip, SuShape(seg, ip), IsSummed(seg, ip), NEW w \in 0 .. WordBase - 1
    PROVE  LET new == Stored(seg, w, ip.endian)
           IN /\ SuShape(new, ip) /\ IsSummed(new, ip) /\ Cleared(new) = Cleared(seg)
              /\ new.proto = seg.proto /\ Len(new.octets) = Len(seg.octets)
<1> DEFINE new == Stored(seg, w, ip.endian)
<1>1. /\ seg \in [proto : {"tcp", "udp", "icmp", "icmpv6"}, octets : Seq(0 .. Base - 1)] /\ ip \in Packets
      /\ ip.version = 6 => ~ip.frag
      /\ Len(seg.octets) >= HdrLen[seg.proto] /\ Len(seg.octets) + 58 < WordBase /\ WholeSum(seg, ip) < IntBase \div 2
  BY DEF SuShape, IsSummed
<1>2. ip.endian \in {"little", "big"}
  BY <1>1, HostHolds
<1>3. /\ new \in [proto : {"tcp", "udp", "icmp", "icmpv6"}, octets : Seq(0 .. Base - 1)]
      /\ new.proto = seg.proto /\ Len(new.octets) = Len(seg.octets) /\ Cleared(new) = Cleared(seg)
  BY <1>1, <1>2, StoredKeeps
<1> HIDE DEF new
<1>4. WholeSum(new, ip) = WholeSum(seg, ip)
  BY <1>3 DEF WholeSum, PseudoOf, PseudoSum
<1>5. IsSummed(new, ip)
  BY <1>3 DEF IsSummed
<1>6. SuShape(new, ip)
  BY <1>1, <1>3, <1>4 DEF SuShape
<1> QED  BY <1>3, <1>5, <1>6 DEF new

LEMMA ShapeCleared ==
    ASSUME NEW seg, NEW ip, SuShape(seg, ip), IsSummed(seg, ip)
    PROVE  LET new == Cleared(seg)
           IN /\ SuShape(new, ip) /\ IsSummed(new, ip) /\ Cleared(new) = new
              /\ new.proto = seg.proto /\ Len(new.octets) = Len(seg.octets)
<1> DEFINE new == Cleared(seg)
<1>1. /\ seg \in [proto : {"tcp", "udp", "icmp", "icmpv6"}, octets : Seq(0 .. Base - 1)] /\ ip \in Packets
      /\ ip.version = 6 => ~ip.frag
      /\ Len(seg.octets) >= HdrLen[seg.proto] /\ Len(seg.octets) + 58 < WordBase /\ WholeSum(seg, ip) < IntBase \div 2
  BY DEF SuShape, IsSummed
<1>3. /\ new \in [proto : {"tcp", "udp", "icmp", "icmpv6"}, octets : Seq(0 .. Base - 1)]
      /\ new.proto = seg.proto /\ Len(new.octets) = Len(seg.octets) /\ Cleared(new) = Cleared(seg)
  BY <1>1, ClearKeeps
<1>4. WholeSum(new, ip) = WholeSum(seg, ip)
  <2> HIDE DEF new
  <2> QED  BY <1>3 DEF WholeSum, PseudoOf, PseudoSum
<1>5. IsSummed(new, ip)
  <2> HIDE DEF new
  <2> QED  BY <1>3 DEF IsSummed
<1>6. SuShape(new, ip)
  <2> HIDE DEF new
  <2> QED  BY <1>1, <1>3, <1>4 DEF SuShape
<1> QED  BY <1>3, <1>5, <1>6

(* Storing what the whole sum leaves makes the packet verify. *)
LEMMA Reaches ==
    ASSUME NEW seg, NEW ip, SuShape(seg, ip), IsSummed(seg, ip), NEW w,
           w = IpCksumCarry(WholeSum(seg, ip)) \/ w = NeverZero(IpCksumCarry(WholeSum(seg, ip)))
    PROVE  w \in 0 .. WordBase - 1 /\ Receives(Stored(seg, w, ip.endian), ip)
<1> DEFINE t == WholeSum(seg, ip)
           p == PseudoNet(seg, ip)
           e == ip.endian
           new == Stored(seg, w, e)
<1>1. /\ t \in Nat /\ t < IntBase \div 2 /\ NetSum(Cleared(seg).octets) \in Int /\ p \in Int
      /\ Alike(t, NetSum(Cleared(seg).octets) + p, e)
  BY Totals
<1>2. /\ seg \in [proto : {"tcp", "udp", "icmp", "icmpv6"}, octets : Seq(0 .. Base - 1)]
      /\ Len(seg.octets) >= HdrLen[seg.proto] /\ e \in {"little", "big"}
  BY HostHolds DEF SuShape, IsSummed
<1>3. w = IpCksumCarry(t) \/ w = NeverZero(IpCksumCarry(t))
  OBVIOUS
<1> HIDE DEF t, p, e
<1>4. w \in 0 .. WordBase - 1 /\ (NetSum(new.octets) + p) % (WordBase - 1) = 0
  BY ONLY <1>1, <1>2, <1>3, Sealed
<1>5. new.proto = seg.proto /\ Len(new.octets) = Len(seg.octets)
  BY <1>4, ShapeStays DEF e
<1> HIDE DEF new
<1>6. p = IF new.proto = "icmp" THEN 0
          ELSE (IF ip.version = 4 THEN NetSum(ip.host) ELSE 4 * NetSum(ip.host)) + Proto[new.proto] + Len(new.octets)
  BY <1>5 DEF PseudoNet, p
<1>7. Receives(new, ip)
  BY <1>4, <1>6 DEF Receives
<1> QED  BY <1>4, <1>7 DEF new, e

(* A UDP checksum that is not zero shows. *)
LEMMA NotBothZero ==
    ASSUME NEW seg, NEW ip, SuShape(seg, ip), IsSummed(seg, ip), seg.proto = "udp", NEW w \in 0 .. WordBase - 1, w # 0
    PROVE  SubSeq(Stored(seg, w, ip.endian).octets, 7, 8) # <<0, 0>>
<1> DEFINE e == ip.endian
           put == Put(seg.octets, 7, w, e)
<1>1. /\ seg \in [proto : {"tcp", "udp", "icmp", "icmpv6"}, octets : Seq(0 .. Base - 1)]
      /\ Len(seg.octets) >= HdrLen[seg.proto] /\ e \in {"little", "big"}
  BY HostHolds DEF SuShape, IsSummed
<1>2. FieldAt["udp"] = 7 /\ HdrLen["udp"] = 8
  BY DEF FieldAt, HdrLen
<1>3. 7 \in 1 .. Len(seg.octets) - 1 /\ seg.octets \in Seq(0 .. Base - 1) /\ 7 + 1 = 8
  BY <1>1, <1>2, FieldFits
<1>4. /\ put \in Seq(0 .. Base - 1) /\ Len(put) = Len(seg.octets)
      /\ put[7] = Octets2(w, e)[1] /\ put[8] = Octets2(w, e)[2]
  BY <1>1, <1>3, Puts
<1>5. Stored(seg, w, e).octets = put
  <2> HIDE DEF put
  <2>1. Stored(seg, w, e) = [seg EXCEPT !.octets = put]
    BY <1>2 DEF Stored, put
  <2> QED  BY <1>1, <2>1
<1>6. put[7] # 0 \/ put[8] # 0
  BY <1>1, <1>4, TwoOctets
<1> HIDE DEF put
<1>7. SubSeq(put, 7, 8)[1] = put[7] /\ SubSeq(put, 7, 8)[2] = put[8]
  BY <1>3, <1>4
<1>8. SubSeq(put, 7, 8) # <<0, 0>>
  <2> SUFFICES ASSUME SubSeq(put, 7, 8) = <<0, 0>> PROVE FALSE
    OBVIOUS
  <2>1. <<0, 0>>[1] = 0 /\ <<0, 0>>[2] = 0
    OBVIOUS
  <2>2. put[7] = <<0, 0>>[1] /\ put[8] = <<0, 0>>[2]
    BY <1>7
  <2> QED  BY <1>6, <2>1, <2>2
<1> QED  BY <1>5, <1>8

SumOf(seg, ip) == IF ip.version = 4 THEN IpChecksum(seg, ip) ELSE Ip6Checksum(seg, ip)

(* Packets that are left as they are, and what each other one gets. *)
LEMMA LeftAlone ==
    ASSUME NEW seg, NEW ip, SuShape(seg, ip), ~IsSummed(seg, ip) PROVE SumOf(seg, ip) = seg
<1>1. /\ seg \in [proto : {"tcp", "udp", "icmp", "icmpv6"}, octets : Seq(0 .. Base - 1)] /\ ip \in Packets
      /\ ip.version = 6 => ~ip.frag
  BY DEF SuShape
<1>2. ip.version \in {4, 6} /\ ip.frag \in BOOLEAN /\ seg.proto \in {"tcp", "udp", "icmp", "icmpv6"}
  BY <1>1 DEF Packets
<1>3. CASE ip.frag \/ ~(Len(seg.octets) >= HdrLen[seg.proto])
  <2>1. ~(Len(seg.octets) >= HdrLen[seg.proto]) => Len(seg.octets) < HdrLen[seg.proto]
    <3>1. Len(seg.octets) \in Nat /\ HdrLen[seg.proto] \in Nat
      BY <1>1, <1>2 DEF HdrLen
    <3> QED  BY <3>1
  <2>2. CASE ip.version = 4
    <3>1. HdrLen["tcp"] = 20 /\ HdrLen["udp"] = 8 /\ HdrLen["icmp"] = 4 /\ Len(seg.octets) \in Nat
      BY <1>1 DEF HdrLen
    <3>2. /\ ~(~ip.frag /\ seg.proto = "tcp" /\ Len(seg.octets) >= 20)
          /\ ~(~ip.frag /\ seg.proto = "udp" /\ Len(seg.octets) >= 8)
          /\ ~(~ip.frag /\ seg.proto = "icmp" /\ Len(seg.octets) >= 4)
      BY <1>3, <3>1
    <3>3. ip.frag \/ Len(seg.octets) < HdrLen[seg.proto]
      BY <1>3, <2>1
    <3>4. IpChecksum(seg, ip) = seg
      BY ONLY <3>2, <3>3 DEF IpChecksum
    <3> QED  BY <2>2, <3>4 DEF SumOf
  <2>3. CASE ip.version = 6
    BY <1>1, <1>3, <2>1, <2>3 DEF SumOf, Ip6Checksum
  <2> QED  BY <1>2, <2>2, <2>3
<1>4. CASE seg.proto = "icmpv6" /\ ip.version = 4
  BY <1>4 DEF SumOf, IpChecksum
<1> QED  BY <1>2, <1>3, <1>4 DEF IsSummed

LEMMA SumOfTcp4 ==
    ASSUME NEW seg, NEW ip, SuShape(seg, ip), IsSummed(seg, ip), ip.version = 4
    PROVE  /\ seg.proto = "tcp" => SumOf(seg, ip) = Stored(seg, TcpSum(seg, ip), ip.endian)
           /\ seg.proto = "udp" => SumOf(seg, ip) = Stored(seg, NeverZero(TcpSum(seg, ip)), ip.endian)
           /\ seg.proto = "icmp" =>
                 SumOf(seg, ip) = Stored(seg, IpCksumCarry(IpCksumAdd(seg.octets, 0, ip.endian)), ip.endian)
<1>1. SumOf(seg, ip) = IpChecksum(seg, ip)
  BY DEF SumOf
<1>2. ~ip.frag /\ Len(seg.octets) >= HdrLen[seg.proto] /\ Len(seg.octets) \in Nat
  BY FieldFits DEF IsSummed, SuShape
<1>3. HdrLen["tcp"] = 20 /\ HdrLen["udp"] = 8 /\ HdrLen["icmp"] = 4
  BY DEF HdrLen
<1>4. CASE seg.proto = "tcp"
  <2>1. Len(seg.octets) >= 20 /\ ~(Len(seg.octets) < HdrLen[seg.proto])
    BY <1>2, <1>3, <1>4
  <2> QED  BY <1>1, <1>2, <1>4, <2>1 DEF IpChecksum, TcpChecksum
<1>5. CASE seg.proto = "udp"
  <2>1. Len(seg.octets) >= 8 /\ ~(Len(seg.octets) < HdrLen[seg.proto])
    BY <1>2, <1>3, <1>5
  <2> QED  BY <1>1, <1>2, <1>5, <2>1 DEF IpChecksum, UdpChecksum
<1>6. CASE seg.proto = "icmp"
  <2>1. Len(seg.octets) >= 4 /\ ~(Len(seg.octets) < HdrLen[seg.proto])
    BY <1>2, <1>3, <1>6
  <2> QED  BY <1>1, <1>2, <1>6, <2>1 DEF IpChecksum, IcmpChecksum
<1> QED  BY <1>4, <1>5, <1>6

LEMMA SumOfSix ==
    ASSUME NEW seg, NEW ip, SuShape(seg, ip), IsSummed(seg, ip), ip.version = 6
    PROVE  /\ seg.proto \in {"tcp", "icmpv6"} => SumOf(seg, ip) = Stored(seg, Ip6Sum(seg, ip), ip.endian)
           /\ seg.proto = "udp" => SumOf(seg, ip) = Stored(seg, NeverZero(Ip6Sum(seg, ip)), ip.endian)
           /\ seg.proto = "icmp" =>
                 SumOf(seg, ip) = Stored(Cleared(seg), IpCksumCarry(IpCksumAdd(Cleared(seg).octets, 0, ip.endian)), ip.endian)
<1>1. SumOf(seg, ip) = Ip6Checksum(seg, ip)
  BY DEF SumOf
<1>2. Len(seg.octets) >= HdrLen[seg.proto] /\ Len(seg.octets) \in Nat /\ seg.proto \in {"tcp", "udp", "icmp", "icmpv6"}
  BY FieldFits DEF IsSummed, SuShape
<1>3. HdrLen[seg.proto] \in Nat
  BY <1>2 DEF HdrLen
<1>4. ~(Len(seg.octets) < HdrLen[seg.proto])
  BY <1>2, <1>3
<1>5. CASE seg.proto \in {"tcp", "icmpv6"}
  BY <1>1, <1>4, <1>5 DEF Ip6Checksum
<1>6. CASE seg.proto = "udp"
  BY <1>1, <1>4, <1>6 DEF Ip6Checksum
<1>7. CASE seg.proto = "icmp"
  BY <1>1, <1>4, <1>7 DEF Ip6Checksum, IcmpChecksum
<1> QED  BY <1>5, <1>6, <1>7

(* One call on a packet that is summed. *)
LEMMA OneSum ==
    ASSUME NEW seg, NEW ip, SuShape(seg, ip), IsSummed(seg, ip)
    PROVE  /\ SuShape(SumOf(seg, ip), ip) /\ IsSummed(SumOf(seg, ip), ip)
           /\ SumOf(seg, ip).proto = seg.proto
           /\ (seg.proto = "icmp" /\ ip.version = 4 => Cleared(seg) = seg) => Receives(SumOf(seg, ip), ip)
           /\ seg.proto = "udp" => SubSeq(SumOf(seg, ip).octets, 7, 8) # <<0, 0>>
<1> DEFINE c == IpCksumCarry(WholeSum(seg, ip))
           S(from, w) == Stored(from, w, ip.endian)
<1>1. ip.version \in {4, 6} /\ seg.proto \in {"tcp", "udp", "icmp", "icmpv6"}
  <2>1. ip \in Packets /\ seg \in [proto : {"tcp", "udp", "icmp", "icmpv6"}, octets : Seq(0 .. Base - 1)]
    BY DEF SuShape
  <2> QED  BY <2>1 DEF Packets
<1>2. CASE seg.proto \in {"tcp", "icmpv6"}
  <2>1. SumOf(seg, ip) = S(seg, c)
    <3>1. CASE ip.version = 4
      <4>1. seg.proto = "tcp"
        BY <1>2, <3>1 DEF IsSummed
      <4>2. TcpSum(seg, ip) = c
        BY <3>1, <4>1, Totals
      <4> QED  BY <3>1, <4>1, <4>2, SumOfTcp4
    <3>2. CASE ip.version = 6
      <4>1. Ip6Sum(seg, ip) = c
        BY <1>2, <3>2, Totals
      <4> QED  BY <1>2, <3>2, <4>1, SumOfSix
    <3> QED  BY <1>1, <3>1, <3>2
  <2>2. c \in 0 .. WordBase - 1 /\ Receives(S(seg, c), ip)
    BY Reaches
  <2>3. SuShape(S(seg, c), ip) /\ IsSummed(S(seg, c), ip) /\ S(seg, c).proto = seg.proto
    BY <2>2, ShapeStays
  <2> HIDE DEF c, S
  <2> QED  BY <1>2, <2>1, <2>2, <2>3
<1>3. CASE seg.proto = "udp"
  <2> DEFINE w == NeverZero(c)
  <2>1. SumOf(seg, ip) = S(seg, w)
    <3>1. CASE ip.version = 4
      <4>1. TcpSum(seg, ip) = c
        BY <1>3, <3>1, Totals
      <4> QED  BY <1>3, <3>1, <4>1, SumOfTcp4
    <3>2. CASE ip.version = 6
      <4>1. Ip6Sum(seg, ip) = c
        BY <1>3, <3>2, Totals
      <4> QED  BY <1>3, <3>2, <4>1, SumOfSix
    <3> QED  BY <1>1, <3>1, <3>2
  <2>2. w \in 0 .. WordBase - 1 /\ Receives(S(seg, w), ip)
    BY Reaches
  <2>3. w # 0
    BY BaseIs DEF NeverZero
  <2> HIDE DEF w
  <2>4. SuShape(S(seg, w), ip) /\ IsSummed(S(seg, w), ip) /\ S(seg, w).proto = seg.proto
    BY <2>2, ShapeStays
  <2>5. SubSeq(S(seg, w).octets, 7, 8) # <<0, 0>>
    BY <1>3, <2>2, <2>3, NotBothZero
  <2> HIDE DEF c, S
  <2> QED  BY <2>1, <2>2, <2>4, <2>5
<1>4. CASE seg.proto = "icmp" /\ ip.version = 6
  <2> DEFINE from == Cleared(seg)
  <2>1. SuShape(from, ip) /\ IsSummed(from, ip) /\ Cleared(from) = from /\ from.proto = seg.proto
    BY ShapeCleared
  <2>2. SumOf(seg, ip) = S(from, IpCksumCarry(IpCksumAdd(from.octets, 0, ip.endian)))
    BY <1>4, SumOfSix
  <2> HIDE DEF from, S
  <2>3. IpCksumAdd(from.octets, 0, ip.endian) = WholeSum(from, ip)
    BY <1>4, <2>1, Totals
  <2> DEFINE w == IpCksumCarry(WholeSum(from, ip))
  <2>4. w \in 0 .. WordBase - 1 /\ Receives(S(from, w), ip)
    BY <2>1, Reaches DEF S
  <2>5. SumOf(seg, ip) = S(from, w)
    BY <2>2, <2>3
  <2> HIDE DEF w
  <2>6. SuShape(S(from, w), ip) /\ IsSummed(S(from, w), ip) /\ S(from, w).proto = seg.proto
    BY <2>1, <2>4, ShapeStays DEF S
  <2> QED  BY <1>4, <2>4, <2>5, <2>6
<1>5. CASE seg.proto = "icmp" /\ ip.version = 4
  <2> DEFINE w == IpCksumCarry(IpCksumAdd(seg.octets, 0, ip.endian))
  <2>1. SumOf(seg, ip) = S(seg, w)
    BY <1>5, SumOfTcp4
  <2>2. w \in 0 .. WordBase - 1
    <3>1. seg.octets \in Seq(0 .. Base - 1) /\ Len(seg.octets) >= 4 /\ Len(seg.octets) \in Nat /\ ip.endian \in {"little", "big"}
      BY HostHolds, FieldFits DEF SuShape, IsSummed
    <3>2. WordSum(seg.octets, ip.endian) \in Nat
      BY <3>1, HostSums
    <3>3. Len(seg.octets) # 1
      <4>1. \A n \in Nat : n >= 4 => n # 1
        BY SMT
      <4> QED  BY <3>1, <4>1
    <3>4. IpCksumAdd(seg.octets, 0, ip.endian) = Int32(0 + WordSum(seg.octets, ip.endian))
      BY <3>3 DEF IpCksumAdd
    <3>5. Int32(0 + WordSum(seg.octets, ip.endian)) \in Int
      <4> DEFINE n == 0 + WordSum(seg.octets, ip.endian)
                 m == n % IntBase
      <4>1. n \in Int /\ IntBase \in Int /\ IntBase > 0
        BY <3>2, IntBaseIs
      <4>2. m \in Int /\ m - IntBase \in Int
        <5> HIDE DEF n
        <5>1. m \in 0 .. IntBase - 1
          BY <4>1, Divided
        <5> QED  BY <4>1, <5>1
      <4>3. Int32(n) = m \/ Int32(n) = m - IntBase
        <5> HIDE DEF n
        <5> QED  BY DEF Int32
      <4> QED  BY <4>2, <4>3
    <3> QED  BY <3>4, <3>5, CarryFits
  <2>3. Cleared(seg) = seg => Receives(S(seg, w), ip)
    <3> SUFFICES ASSUME Cleared(seg) = seg PROVE Receives(S(seg, w), ip)
      OBVIOUS
    <3>1. IpCksumAdd(seg.octets, 0, ip.endian) = WholeSum(seg, ip)
      BY <1>5, Totals
    <3>2. w = c
      BY <3>1
    <3> HIDE DEF w
    <3> QED  BY <3>2, Reaches
  <2> HIDE DEF w
  <2>4. SuShape(S(seg, w), ip) /\ IsSummed(S(seg, w), ip) /\ S(seg, w).proto = seg.proto
    BY <2>2, ShapeStays
  <2> HIDE DEF c, S
  <2> QED  BY <1>5, <2>1, <2>3, <2>4
<1> QED  BY <1>1, <1>2, <1>3, <1>4, <1>5

(* What the invariant keeps: the packet's shape, the whole sum, and what   *)
(* SumVerifies says.                                                       *)
LEMMA SuInitHolds == SumsFit /\ SuInit => SuInv
<1> SUFFICES ASSUME SumsFit, SuInit PROVE SuInv
  OBVIOUS
<1>1. suSeg \in Segments /\ suTimes = 0 /\ suIp \in Packets /\ (suIp.version = 6 => ~suIp.frag)
  BY IpUtilAssumption DEF SuInit, Packets
<1>2. suSeg \in [proto : {"tcp", "udp", "icmp", "icmpv6"}, octets : Seq(0 .. Base - 1)]
  BY <1>1, IpUtilAssumption
<1>3. IsSummed(suSeg, suIp) =>
         /\ Len(suSeg.octets) + 58 < WordBase /\ WholeSum(suSeg, suIp) < IntBase \div 2
         /\ suSeg.proto = "icmp" /\ suIp.version = 4 => Cleared(suSeg) = suSeg
  BY <1>1 DEF SumsFit
<1>4. SuShape(suSeg, suIp)
  BY <1>1, <1>2, <1>3 DEF SuShape
<1>5. SumVerifies
  BY <1>1 DEF SumVerifies
<1> QED  BY <1>1, <1>3, <1>4, <1>5 DEF SuInv

LEMMA SuStepHolds == SuInv /\ [SuNext]_suVars => SuInv'
<1> SUFFICES ASSUME SuInv, [SuNext]_suVars PROVE SuInv'
  OBVIOUS
<1>1. CASE Checksum
  <2>1. SuShape(suSeg, suIp) /\ suTimes \in 0 .. 1 /\ suTimes' = suTimes + 1 /\ suIp' = suIp /\ suSeg' = SumOf(suSeg, suIp)
    BY <1>1 DEF SuInv, Checksum, SumOf
  <2>2. suTimes' \in 1 .. 2 /\ suTimes' # 0
    BY <2>1
  <2>3. CASE ~IsSummed(suSeg, suIp)
    <3>1. suSeg' = suSeg
      BY <2>1, <2>3, LeftAlone
    <3>2. SumVerifies'
      <4>1. ~(suSeg.proto = "udp" /\ ~suIp.frag /\ Len(suSeg.octets) >= 8)
        <5>1. HdrLen["udp"] = 8
          BY DEF HdrLen
        <5> QED  BY <2>3, <5>1 DEF IsSummed
      <4> QED  BY <2>1, <2>3, <3>1, <4>1 DEF SumVerifies, IsSummed
    <3>3. SuShape(suSeg', suIp')
      BY <2>1, <3>1
    <3> QED  BY <2>2, <3>2, <3>3 DEF SuInv
  <2>4. CASE IsSummed(suSeg, suIp)
    <3>1. /\ SuShape(suSeg', suIp') /\ IsSummed(suSeg', suIp') /\ suSeg'.proto = suSeg.proto
          /\ (suSeg.proto = "icmp" /\ suIp.version = 4 => Cleared(suSeg) = suSeg) => Receives(suSeg', suIp')
          /\ suSeg.proto = "udp" => SubSeq(suSeg'.octets, 7, 8) # <<0, 0>>
      BY <2>1, <2>4, OneSum
    <3>2. suTimes' = 1 => (suSeg.proto = "icmp" /\ suIp.version = 4 => Cleared(suSeg) = suSeg)
      BY <2>1, <2>4 DEF SuInv
    <3>3. SumVerifies'
      <4>1. (suSeg'.proto = "icmp" /\ suIp'.version = 4 => suTimes' = 1) => Receives(suSeg', suIp')
        BY <2>1, <3>1, <3>2
      <4> QED  BY <3>1, <4>1 DEF SumVerifies
    <3> QED  BY <2>2, <3>1, <3>3 DEF SuInv
  <2> QED  BY <2>3, <2>4
<1>2. CASE UNCHANGED suVars
  BY <1>2 DEF SuInv, suVars, SumVerifies
<1> QED  BY <1>1, <1>2 DEF SuNext

----------------------------------------------------------------------------
(* Interfaces on Windows. *)
WnAdapters == DOMAIN Adapters
WnCombos == [IfTypes -> Seq(WnAdapters)]
WnHas(g, combo) ==
    /\ g.name.word = IfcomboName(Adapters[g.adapter])
    /\ g.name.num + 1 \in 1 .. Len(combo[Canonical(Adapters[g.adapter])])
    /\ combo[Canonical(Adapters[g.adapter])][g.name.num + 1] = g.adapter
    /\ \A j \in 1 .. g.name.num : combo[Canonical(Adapters[g.adapter])][j] # g.adapter
WnInv ==
    /\ wnThere \in Seq(WnAdapters) /\ wnCombo \in WnCombos
    /\ \A g \in wnGiven :
          /\ g = [name |-> [word |-> g.name.word, num |-> g.name.num], adapter |-> g.adapter]
          /\ g.adapter \in WnAdapters /\ g.name.num \in Nat /\ WnHas(g, wnCombo)

(* Adding adapters leaves those that are in a combo where they are, and    *)
(* every adapter that is added is somewhere.                               *)
Longer(s, t) == Len(s) <= Len(t) /\ \A i \in 1 .. Len(s) : t[i] = s[i]

LEMMA CanonicalIs == ASSUME NEW a PROVE Canonical(Adapters[a]) \in IfTypes
BY DEF Canonical, IfcomboType, IfTypes

LEMMA WnAddHolds ==
    ASSUME NEW combo \in WnCombos, NEW a \in WnAdapters
    PROVE  LET new == IfcomboAdd(combo, a) t == Canonical(Adapters[a]) IN
           /\ new \in WnCombos /\ \A k \in IfTypes : Longer(combo[k], new[k])
           /\ Len(new[t]) \in 1 .. Len(new[t]) /\ new[t][Len(new[t])] = a
<1> DEFINE t == Canonical(Adapters[a])
           new == IfcomboAdd(combo, a)
<1>1. t \in IfTypes
  BY CanonicalIs
<1>2. combo[t] \in Seq(WnAdapters)
  BY <1>1 DEF WnCombos
<1>3. new = [combo EXCEPT ![t] = Append(combo[t], a)]
  BY DEF IfcomboAdd
<1> HIDE DEF t, new
<1>4. Append(combo[t], a) \in Seq(WnAdapters) /\ Longer(combo[t], Append(combo[t], a))
      /\ Len(Append(combo[t], a)) = Len(combo[t]) + 1 /\ Append(combo[t], a)[Len(combo[t]) + 1] = a
  BY <1>2 DEF Longer
<1>5. new[t] = Append(combo[t], a) /\ \A k \in IfTypes : k # t => new[k] = combo[k]
  BY <1>1, <1>3 DEF WnCombos
<1>6. new \in WnCombos
  BY <1>1, <1>3, <1>4 DEF WnCombos
<1>7. ASSUME NEW k \in IfTypes PROVE Longer(combo[k], new[k])
  <2>1. CASE k = t
    BY <1>4, <1>5, <2>1
  <2>2. CASE k # t
    <3>1. new[k] = combo[k] /\ combo[k] \in Seq(WnAdapters)
      BY <1>5, <2>2 DEF WnCombos
    <3> QED  BY <3>1 DEF Longer
  <2> QED  BY <2>1, <2>2
<1>8. Len(new[t]) \in 1 .. Len(new[t]) /\ new[t][Len(new[t])] = a
  BY <1>2, <1>4, <1>5
<1> QED  BY <1>6, <1>7, <1>8 DEF t, new

LEMMA AllAddedHolds ==
    ASSUME NEW combo \in WnCombos, wnThere \in Seq(WnAdapters)
    PROVE  /\ AllAdded(combo) \in WnCombos
           /\ \A k \in IfTypes : Longer(combo[k], AllAdded(combo)[k])
           /\ \A a \in ToSet(wnThere) : \E i \in 1 .. Len(AllAdded(combo)[Canonical(Adapters[a])]) :
                 AllAdded(combo)[Canonical(Adapters[a])][i] = a
<1> DEFINE M == Len(wnThere)
           Has(c, n) == \A j \in 1 .. n : \E i \in 1 .. Len(c[Canonical(Adapters[wnThere[j]])]) :
                           c[Canonical(Adapters[wnThere[j]])][i] = wnThere[j]
<1>1. M \in Nat /\ \A n \in 1 .. M : wnThere[n] \in WnAdapters
  OBVIOUS
<1>2. PICK f : /\ f = [n \in 0 .. M |-> IF n = 0 THEN combo ELSE IfcomboAdd(f[n - 1], wnThere[n])]
               /\ AllAdded(combo) = f[M]
  <2> DEFINE step == [n \in 1 .. M |-> [c \in WnCombos |-> IfcomboAdd(c, wnThere[n])]]
  <2>1. step \in [1 .. M -> [WnCombos -> WnCombos]]
    <3> SUFFICES ASSUME NEW n \in 1 .. M, NEW c \in WnCombos PROVE IfcomboAdd(c, wnThere[n]) \in WnCombos
      OBVIOUS
    <3> QED  BY <1>1, WnAddHolds
  <2> HIDE DEF M
  <2>2. PICK g \in [0 .. M -> WnCombos] : g[0] = combo /\ \A n \in 1 .. M : g[n] = step[n][g[n - 1]]
    <3> HIDE DEF step
    <3>1. \E g : RunsTo(g, WnCombos, combo, M, step)
      BY <1>1, <2>1, Recursion
    <3> QED  BY <3>1 DEF RunsTo
  <2>3. ASSUME NEW n \in 1 .. M PROVE step[n][g[n - 1]] = IfcomboAdd(g[n - 1], wnThere[n])
    <3>1. n - 1 \in 0 .. M /\ g[n - 1] \in WnCombos
      BY <1>1
    <3> QED  BY <3>1
  <2> HIDE DEF step
  <2>4. g = [n \in 0 .. M |-> IF n = 0 THEN combo ELSE IfcomboAdd(g[n - 1], wnThere[n])]
    <3>1. ASSUME NEW n \in 0 .. M PROVE g[n] = IF n = 0 THEN combo ELSE IfcomboAdd(g[n - 1], wnThere[n])
      <4>1. CASE n = 0
        BY <2>2, <4>1
      <4>2. CASE n # 0
        <5>1. n \in 1 .. M
          BY <1>1, <4>2
        <5> QED  BY <2>2, <2>3, <4>2, <5>1
      <4> QED  BY <4>1, <4>2
    <3> QED  BY <3>1
  <2> QED  BY <2>4 DEF AllAdded, M
<1> HIDE DEF M
<1> DEFINE T == {n \in 0 .. M : f[n] \in WnCombos /\ (\A k \in IfTypes : Longer(combo[k], f[n][k])) /\ Has(f[n], n)}
<1>3. 0 \in T
  <2>1. f[0] = combo
    BY <1>1, <1>2
  <2>2. ASSUME NEW k \in IfTypes PROVE Longer(combo[k], combo[k])
    <3>1. combo[k] \in Seq(WnAdapters)
      BY DEF WnCombos
    <3> QED  BY <3>1 DEF Longer
  <2> QED  BY <1>1, <2>1, <2>2
<1>4. ASSUME NEW n \in 1 .. M, n - 1 \in T PROVE n \in T
  <2> DEFINE c == f[n - 1]
             a == wnThere[n]
             new == f[n]
  <2>1. n - 1 \in 0 .. M /\ n \in 0 .. M /\ n # 0
    BY <1>1
  <2>2. c \in WnCombos /\ (\A k \in IfTypes : Longer(combo[k], c[k])) /\ Has(c, n - 1)
    BY <1>4
  <2>3. a \in WnAdapters /\ new = IfcomboAdd(c, a)
    BY <1>1, <1>2, <2>1
  <2> HIDE DEF c, a, new
  <2>4. /\ new \in WnCombos /\ (\A k \in IfTypes : Longer(c[k], new[k]))
        /\ Len(new[Canonical(Adapters[a])]) \in 1 .. Len(new[Canonical(Adapters[a])])
        /\ new[Canonical(Adapters[a])][Len(new[Canonical(Adapters[a])])] = a
    BY <2>2, <2>3, WnAddHolds
  <2>5. ASSUME NEW k \in IfTypes PROVE Longer(combo[k], new[k])
    <3>1. combo[k] \in Seq(WnAdapters) /\ c[k] \in Seq(WnAdapters) /\ new[k] \in Seq(WnAdapters)
      BY <2>2, <2>4 DEF WnCombos
    <3>2. Longer(combo[k], c[k]) /\ Longer(c[k], new[k])
      BY <2>2, <2>4
    <3> QED  BY <3>1, <3>2 DEF Longer
  <2>6. ASSUME NEW j \in 1 .. n
        PROVE  \E i \in 1 .. Len(new[Canonical(Adapters[wnThere[j]])]) : new[Canonical(Adapters[wnThere[j]])][i] = wnThere[j]
    <3> DEFINE k == Canonical(Adapters[wnThere[j]])
    <3>1. CASE j = n
      BY <2>4, <3>1 DEF a
    <3>2. CASE j # n
      <4>1. j \in 1 .. n - 1
        BY <3>2, <2>1
      <4>2. PICK i \in 1 .. Len(c[k]) : c[k][i] = wnThere[j]
        BY <2>2, <4>1
      <4>3. k \in IfTypes
        BY CanonicalIs
      <4> HIDE DEF k
      <4>4. Longer(c[k], new[k]) /\ c[k] \in Seq(WnAdapters) /\ new[k] \in Seq(WnAdapters)
        BY <2>2, <2>4, <4>3 DEF WnCombos
      <4>5. i \in 1 .. Len(new[k]) /\ new[k][i] = c[k][i]
        BY <4>4 DEF Longer
      <4> QED  BY <4>2, <4>5 DEF k
    <3> QED  BY <3>1, <3>2
  <2> QED  BY <2>1, <2>4, <2>5, <2>6 DEF new
<1>5. M \in T
  <2> HIDE DEF T
  <2>1. 0 .. M \subseteq T
    BY <1>1, <1>3, <1>4, UpTo
  <2> QED  BY <1>1, <2>1
<1>6. f[M] \in WnCombos /\ (\A k \in IfTypes : Longer(combo[k], f[M][k])) /\ Has(f[M], M)
  BY <1>5
<1>7. ASSUME NEW a \in ToSet(wnThere)
      PROVE  \E i \in 1 .. Len(f[M][Canonical(Adapters[a])]) : f[M][Canonical(Adapters[a])][i] = a
  <2>1. PICK j \in 1 .. M : a = wnThere[j]
    BY DEF ToSet, M
  <2> QED  BY <1>6, <2>1
<1> QED  BY <1>2, <1>6, <1>7

(* The number that an adapter's name has is its first place. *)
LEMMA NameHolds ==
    ASSUME NEW combo \in WnCombos, NEW a \in WnAdapters,
           \E i \in 1 .. Len(combo[Canonical(Adapters[a])]) : combo[Canonical(Adapters[a])][i] = a
    PROVE  LET g == [name |-> NameOf(a, combo), adapter |-> a] IN
           /\ g = [name |-> [word |-> g.name.word, num |-> g.name.num], adapter |-> g.adapter]
           /\ g.adapter \in WnAdapters /\ g.name.num \in Nat /\ WnHas(g, combo)
<1> DEFINE s == combo[Canonical(Adapters[a])]
           T == {i \in 1 .. Len(s) : s[i] = a}
           g == [name |-> NameOf(a, combo), adapter |-> a]
<1>1. s \in Seq(WnAdapters)
  BY CanonicalIs DEF WnCombos
<1>2. T # {} /\ NameOf(a, combo) = [word |-> IfcomboName(Adapters[a]), num |-> (IF T # {} THEN Min(T) ELSE 0) - 1]
  BY DEF NameOf, SelectInSeq
<1>3. g.name = [word |-> IfcomboName(Adapters[a]), num |-> Min(T) - 1] /\ g.adapter = a
  BY <1>2
<1> HIDE DEF s
<1>4. T \in SUBSET Nat /\ T # {}
  BY <1>1 DEF s
<1>5. Min(T) \in T /\ \A n \in T : Min(T) <= n
  BY <1>4, MinHolds
<1> DEFINE m == Min(T)
<1>6. m \in 1 .. Len(s) /\ s[m] = a /\ \A j \in 1 .. m - 1 : s[j] # a
  <2>1. m \in 1 .. Len(s) /\ s[m] = a /\ Len(s) \in Nat
    BY <1>1, <1>5
  <2>2. ASSUME NEW j \in 1 .. m - 1 PROVE s[j] # a
    <3>1. j \in 1 .. Len(s) /\ ~(m <= j)
      BY <2>1
    <3> QED  BY <1>5, <3>1
  <2> QED  BY <2>1, <2>2
<1> HIDE DEF m, T
<1>7. g.name = [word |-> IfcomboName(Adapters[a]), num |-> m - 1] /\ g.adapter = a
  BY <1>3 DEF m
<1>8. m - 1 \in Nat /\ (m - 1) + 1 = m
  BY <1>1, <1>6
<1> HIDE DEF g
<1>9. g = [name |-> g.name, adapter |-> g.adapter]
  BY DEF g
<1>10. WnHas(g, combo)
  BY <1>6, <1>7, <1>8 DEF WnHas, s
<1> QED  BY <1>7, <1>8, <1>9, <1>10 DEF g

(* A name that was given stays one when more adapters are added. *)
LEMMA GivenHolds ==
    ASSUME NEW c \in WnCombos, NEW d \in WnCombos, \A k \in IfTypes : Longer(c[k], d[k]),
           NEW g, g.name.num \in Nat, WnHas(g, c)
    PROVE  WnHas(g, d)
<1> DEFINE k == Canonical(Adapters[g.adapter])
           n == g.name.num
<1>1. k \in IfTypes
  BY CanonicalIs
<1>2. c[k] \in Seq(WnAdapters) /\ d[k] \in Seq(WnAdapters) /\ Longer(c[k], d[k])
  BY <1>1 DEF WnCombos
<1>3. /\ g.name.word = IfcomboName(Adapters[g.adapter]) /\ n \in Nat
      /\ n + 1 \in 1 .. Len(c[k]) /\ c[k][n + 1] = g.adapter /\ \A j \in 1 .. n : c[k][j] # g.adapter
  BY DEF WnHas
<1> HIDE DEF k, n
<1>4. n + 1 \in 1 .. Len(d[k]) /\ d[k][n + 1] = g.adapter
  BY <1>2, <1>3 DEF Longer
<1>5. ASSUME NEW j \in 1 .. n PROVE d[k][j] # g.adapter
  <2>1. j \in 1 .. Len(c[k])
    BY <1>2, <1>3
  <2> QED  BY <1>2, <1>3, <2>1 DEF Longer
<1> QED  BY <1>3, <1>4, <1>5 DEF WnHas, k, n

LEMMA WnInitHolds == WnInit => WnInv
<1> SUFFICES ASSUME WnInit PROVE WnInv
  OBVIOUS
<1> DEFINE S == DOMAIN Adapters \ Later
<1>1. Cardinality(S) \in Nat
  BY WinNamesAssumption, FS_Subset, FS_CardinalityType
<1>2. wnThere \in [1 .. Cardinality(S) -> S]
  BY DEF WnInit, SetToSeqs
<1>3. wnThere \in Seq(WnAdapters)
  <2> DEFINE c == Cardinality(S)
  <2> HIDE DEF c
  <2>1. c \in Nat /\ wnThere \in [1 .. c -> S] /\ S \subseteq WnAdapters
    BY <1>1, <1>2 DEF c, WnAdapters
  <2>2. wnThere \in [1 .. c -> WnAdapters]
    BY <2>1
  <2> QED  BY <2>1, <2>2
<1>4. wnCombo \in WnCombos /\ wnGiven = {}
  <2>1. <<>> \in Seq(WnAdapters)
    OBVIOUS
  <2>2. wnCombo = [t \in IfTypes |-> <<>>] /\ wnGiven = {}
    BY DEF WnInit
  <2> QED  BY <2>1, <2>2 DEF WnCombos
<1> QED  BY <1>3, <1>4 DEF WnInv

LEMMA WnCallKeeps ==
    ASSUME WnInv, Refreshed(Fresher), NEW G \in SUBSET ToSet(wnThere),
           wnGiven' = wnGiven \cup {[name |-> NameOf(a, Fresher), adapter |-> a] : a \in G}
    PROVE  WnInv'
<1> DEFINE d == Fresher
<1>1. /\ wnThere \in Seq(WnAdapters) /\ wnCombo \in WnCombos /\ wnThere' = wnThere /\ wnCombo' = d
  BY DEF WnInv, Refreshed
<1>2. /\ d \in WnCombos /\ (\A k \in IfTypes : Longer(wnCombo[k], d[k]))
      /\ \A a \in ToSet(wnThere) : \E i \in 1 .. Len(d[Canonical(Adapters[a])]) : d[Canonical(Adapters[a])][i] = a
  BY <1>1, AllAddedHolds DEF Fresher
<1> HIDE DEF d
<1>3. ASSUME NEW g \in wnGiven
      PROVE  /\ g = [name |-> [word |-> g.name.word, num |-> g.name.num], adapter |-> g.adapter]
             /\ g.adapter \in WnAdapters /\ g.name.num \in Nat /\ WnHas(g, d)
  BY <1>1, <1>2, GivenHolds DEF WnInv
<1>4. ASSUME NEW a \in G
      PROVE  LET g == [name |-> NameOf(a, d), adapter |-> a] IN
             /\ g = [name |-> [word |-> g.name.word, num |-> g.name.num], adapter |-> g.adapter]
             /\ g.adapter \in WnAdapters /\ g.name.num \in Nat /\ WnHas(g, d)
  <2>1. a \in ToSet(wnThere) /\ a \in WnAdapters
    BY <1>1 DEF ToSet
  <2> QED  BY <1>2, <2>1, NameHolds
<1>5. ASSUME NEW g \in wnGiven'
      PROVE  /\ g = [name |-> [word |-> g.name.word, num |-> g.name.num], adapter |-> g.adapter]
             /\ g.adapter \in WnAdapters /\ g.name.num \in Nat /\ WnHas(g, d)
  <2>1. g \in wnGiven \/ \E a \in G : g = [name |-> NameOf(a, d), adapter |-> a]
    BY DEF d
  <2> QED  BY <1>3, <1>4, <2>1
<1> QED  BY <1>1, <1>2, <1>5 DEF WnInv, WnHas

LEMMA WnStepHolds == ASSUME WnInv, [WnNext]_wnVars PROVE WnInv'
<1>1. CASE UNCHANGED wnVars
  BY <1>1 DEF wnVars, WnInv, WnHas
<1>2. CASE WnLoop
  BY <1>2, WnCallKeeps DEF WnLoop
<1>3. ASSUME NEW a \in DOMAIN Adapters, WnGetIndex(a) PROVE WnInv'
  <2>1. CASE a \in ToSet(wnThere)
    <3>1. Refreshed(Fresher) /\ wnGiven' = wnGiven \cup {[name |-> NameOf(x, Fresher), adapter |-> x] : x \in {a}}
      BY <1>3, <2>1 DEF WnGetIndex
    <3>2. {a} \in SUBSET ToSet(wnThere)
      BY <2>1
    <3> QED  BY <3>1, <3>2, WnCallKeeps
  <2>2. CASE a \notin ToSet(wnThere)
    <3>1. Refreshed(Fresher) /\ wnGiven' = wnGiven \cup {[name |-> NameOf(x, Fresher), adapter |-> x] : x \in {}}
      BY <1>3, <2>2 DEF WnGetIndex
    <3>2. {} \in SUBSET ToSet(wnThere)
      OBVIOUS
    <3> QED  BY <3>1, <3>2, WnCallKeeps
  <2> QED  BY <2>1, <2>2
<1>4. ASSUME NEW n, WnGet(n) PROVE WnInv'
  <2>1. Refreshed(Fresher) /\ wnGiven' = wnGiven \cup {[name |-> NameOf(x, Fresher), adapter |-> x] : x \in {}}
    BY <1>4 DEF WnGet
  <2>2. {} \in SUBSET ToSet(wnThere)
    OBVIOUS
  <2> QED  BY <2>1, <2>2, WnCallKeeps
<1>5. CASE Plug
  <2>1. wnThere \in Seq(WnAdapters) /\ wnCombo' = wnCombo /\ wnGiven' = wnGiven
    BY <1>5 DEF Plug, WnInv
  <2>2. ASSUME NEW a \in WnAdapters PROVE Append(wnThere, a) \in Seq(WnAdapters) /\ <<a>> \o wnThere \in Seq(WnAdapters)
    BY <2>1
  <2>3. ASSUME NEW i \in DOMAIN wnThere PROVE RemoveAt(wnThere, i) \in Seq(WnAdapters)
    <3>1. i \in Nat /\ Len(wnThere) \in Nat /\ i \in 1 .. Len(wnThere)
      BY <2>1
    <3>2. SubSeq(wnThere, 1, i - 1) \in Seq(WnAdapters) /\ SubSeq(wnThere, i + 1, Len(wnThere)) \in Seq(WnAdapters)
      BY <2>1, <3>1
    <3> QED  BY <3>2 DEF RemoveAt
  <2>4. wnThere' \in Seq(WnAdapters)
    BY <1>5, <2>2, <2>3 DEF Plug, WnAdapters
  <2> QED  BY <2>1, <2>4 DEF WnInv, WnHas
<1> QED  BY <1>1, <1>2, <1>3, <1>4, <1>5 DEF WnNext

LEMMA WnInvKeeps == WnInv => WinNamesKeep
<1> SUFFICES ASSUME WnInv PROVE WinNamesKeep
  OBVIOUS
<1>1. ASSUME NEW g \in wnGiven, NEW h \in wnGiven, g.name = h.name PROVE g.adapter = h.adapter
  BY <1>1 DEF WnInv, WnHas, Canonical
<1>2. ASSUME NEW g \in wnGiven, NEW h \in wnGiven, g.adapter = h.adapter PROVE g.name = h.name
  <2> DEFINE s == wnCombo[Canonical(Adapters[g.adapter])]
             m == g.name.num
             n == h.name.num
  <2>1. /\ m \in Nat /\ s[m + 1] = g.adapter /\ (\A j \in 1 .. m : s[j] # g.adapter)
        /\ n \in Nat /\ s[n + 1] = g.adapter /\ \A j \in 1 .. n : s[j] # g.adapter
    BY <1>2 DEF WnInv, WnHas
  <2> HIDE DEF s, m, n
  <2>2. m = n
    <3>1. ~(m < n)
      <4>1. m < n => m + 1 \in 1 .. n
        BY <2>1
      <4> QED  BY <2>1, <4>1
    <3>2. ~(n < m)
      <4>1. n < m => n + 1 \in 1 .. m
        BY <2>1
      <4> QED  BY <2>1, <4>1
    <3> QED  BY <2>1, <3>1, <3>2
  <2>3. g.name.word = h.name.word /\ g.name = [word |-> g.name.word, num |-> m] /\ h.name = [word |-> h.name.word, num |-> n]
    <3>1. g = [name |-> [word |-> g.name.word, num |-> m], adapter |-> g.adapter]
      BY DEF WnInv, m
    <3>2. h = [name |-> [word |-> h.name.word, num |-> n], adapter |-> h.adapter]
      BY DEF WnInv, n
    <3>3. g.name.word = h.name.word
      BY <1>2 DEF WnInv, WnHas
    <3> QED  BY <3>1, <3>2, <3>3
  <2> QED  BY <2>2, <2>3
<1>3. ASSUME NEW g \in wnGiven PROVE Found(g.name, wnCombo) \subseteq {g.adapter}
  <2> DEFINE k == IfcomboType(g.name.word)
             s == wnCombo[k]
  <2>1. k = Canonical(Adapters[g.adapter])
    BY DEF WnInv, WnHas, Canonical
  <2>2. g.name.num \in Nat /\ g.name.num + 1 \in 1 .. Len(s) /\ s[g.name.num + 1] = g.adapter
    BY <2>1 DEF WnInv, WnHas
  <2>3. s \in Seq(WnAdapters)
    BY <2>1, CanonicalIs DEF WnInv, WnCombos
  <2>4. g.name.num < Len(s)
    BY <2>2, <2>3
  <2> QED  BY <2>2, <2>4 DEF Found
<1> QED  BY <1>1, <1>2, <1>3 DEF WinNamesKeep
----------------------------------------------------------------------------
(* Random numbers. *)

(* A generator: its bytes are a permutation. *)
Onto(s, D) == s \in [D -> D] /\ \A x \in D : \E y \in D : s[y] = x
RnGens == {g \in [i : Byte, j : Byte, s : [Byte -> Byte]] : Onto(g.s, Byte)}

LEMMA SwapHolds ==
    ASSUME NEW D, NEW s, Onto(s, D), NEW i \in D, NEW j \in D PROVE Onto(Swapped(s, i, j), D)
<1> DEFINE t == Swapped(s, i, j)
<1>1. s \in [D -> D] /\ \A x \in D : \E y \in D : s[y] = x
  BY DEF Onto
<1>2. t \in [D -> D] /\ \A y \in D : t[y] = IF y = j THEN s[i] ELSE IF y = i THEN s[j] ELSE s[y]
  BY <1>1 DEF Swapped
<1> HIDE DEF t
<1>3. ASSUME NEW x \in D PROVE \E y \in D : t[y] = x
  <2>1. PICK y \in D : s[y] = x
    BY <1>1
  <2>2. CASE y = i
    BY <1>2, <2>1, <2>2
  <2>3. CASE y # i /\ y = j
    BY <1>2, <2>1, <2>3
  <2>4. CASE y # i /\ y # j
    BY <1>2, <2>1, <2>4
  <2> QED  BY <2>2, <2>3, <2>4
<1> QED  BY <1>2, <1>3 DEF Onto, t

LEMMA ModHolds == ASSUME NEW x \in Int, NEW d \in Nat, d > 0 PROVE x % d \in 0 .. d - 1
OBVIOUS

LEMMA PlusHolds == ASSUME NEW m \in Int, NEW n \in Int PROVE Plus(m, n) \in Byte
<1>1. RnSize \in Nat /\ RnSize > 0
  BY RandAssumption
<1>2. m + n \in Int
  OBVIOUS
<1> QED  BY <1>1, <1>2, ModHolds DEF Plus, Byte

LEMMA GenHas == ASSUME NEW g \in RnGens
    PROVE  /\ g.i \in Byte /\ g.j \in Byte /\ g.s \in [Byte -> Byte] /\ Onto(g.s, Byte) /\ Byte \subseteq Int
           /\ g = [i |-> g.i, j |-> g.j, s |-> g.s]
BY RandAssumption DEF RnGens, Byte

LEMMA GenIs == ASSUME NEW i \in Byte, NEW j \in Byte, NEW s, Onto(s, Byte) PROVE [i |-> i, j |-> j, s |-> s] \in RnGens
BY DEF RnGens, Onto

LEMMA StirHolds == ASSUME NEW g \in RnGens, NEW x \in Int PROVE Stirs(g, x) \in RnGens
<1> DEFINE i == Plus(g.i, 1)
           j == Plus(g.j, g.s[i] + x)
<1>1. i \in Byte
  BY GenHas, PlusHolds
<1>2. g.s[i] \in Byte /\ g.s[i] + x \in Int
  BY <1>1, GenHas
<1>3. j \in Byte
  BY <1>2, GenHas, PlusHolds
<1>4. Onto(Swapped(g.s, i, j), Byte)
  BY <1>1, <1>3, GenHas, SwapHolds
<1>5. Stirs(g, x) = [i |-> i, j |-> j, s |-> Swapped(g.s, i, j)]
  BY DEF Stirs
<1> HIDE DEF i, j
<1> QED  BY <1>1, <1>3, <1>4, <1>5, GenIs

LEMMA AddrandomHolds ==
    ASSUME NEW g \in RnGens, NEW buf \in Seq(Byte) \ {<<>>} PROVE RandAddrandom(g, buf) \in RnGens
<1> DEFINE v == [g EXCEPT !.i = Plus(g.i, RnSize - 1)]
           x(n) == buf[((n - 1) % Len(buf)) + 1]
           step == [n \in 1 .. RnSize |-> [c \in RnGens |-> Stirs(c, x(n))]]
<1>1. RnSize \in Nat
  BY RandAssumption
<1>2. ASSUME NEW n \in 1 .. RnSize PROVE x(n) \in Int
  <2>1. Len(buf) \in Nat /\ Len(buf) > 0 /\ n - 1 \in Int
    BY <1>1
  <2>3. (n - 1) % Len(buf) \in 0 .. Len(buf) - 1
    BY <2>1, ModHolds
  <2>4. ((n - 1) % Len(buf)) + 1 \in 1 .. Len(buf)
    BY <2>1, <2>3
  <2>5. x(n) \in Byte
    BY <2>4
  <2> QED  BY <1>1, <2>5 DEF Byte
<1> HIDE DEF x
<1>3. step \in [1 .. RnSize -> [RnGens -> RnGens]]
  BY <1>2, StirHolds
<1>4. v \in RnGens
  <2>1. Plus(g.i, RnSize - 1) \in Byte
    <3>1. g.i \in Int /\ RnSize - 1 \in Int
      BY <1>1, GenHas
    <3> QED  BY <3>1, PlusHolds
  <2>2. v = [i |-> Plus(g.i, RnSize - 1), j |-> g.j, s |-> g.s]
    BY GenHas
  <2> HIDE DEF v
  <2> QED  BY <2>1, <2>2, GenHas, GenIs
<1> HIDE DEF v
<1>5. PICK f : RunsTo(f, RnGens, v, RnSize, step)
  <2> HIDE DEF step
  <2> QED  BY <1>1, <1>3, <1>4, Recursion
<1>6. f = [n \in 0 .. RnSize |-> IF n = 0 THEN v ELSE Stirs(f[n - 1], x(n))]
  <2>1. f \in [0 .. RnSize -> RnGens] /\ f[0] = v
    BY <1>5 DEF RunsTo
  <2>2. ASSUME NEW n \in 1 .. RnSize PROVE f[n] = Stirs(f[n - 1], x(n))
    <3>1. n - 1 \in 0 .. RnSize /\ f[n - 1] \in RnGens
      BY <1>1, <2>1
    <3> QED  BY <1>5, <3>1 DEF RunsTo
  <2>3. ASSUME NEW n \in 0 .. RnSize PROVE f[n] = IF n = 0 THEN v ELSE Stirs(f[n - 1], x(n))
    <3>1. n # 0 => n \in 1 .. RnSize
      BY <1>1
    <3> QED  BY <2>1, <2>2, <3>1
  <2> HIDE DEF step
  <2> QED  BY <2>1, <2>3
<1>7. \E h : /\ h = [n \in 0 .. RnSize |-> IF n = 0 THEN v ELSE Stirs(h[n - 1], x(n))]
             /\ RandAddrandom(g, buf) = [h[RnSize] EXCEPT !.j = h[RnSize].i]
  BY <1>6 DEF RandAddrandom, v, x
<1>8. PICK h : /\ h = [n \in 0 .. RnSize |-> IF n = 0 THEN v ELSE Stirs(h[n - 1], x(n))]
               /\ RandAddrandom(g, buf) = [h[RnSize] EXCEPT !.j = h[RnSize].i]
  BY <1>7
<1>9. RunsTo(h, RnGens, v, RnSize, step)
  <2>1. 0 \in 0 .. RnSize /\ h[0] = v
    BY <1>1, <1>8
  <2>2. ASSUME NEW n \in 1 .. RnSize, h[n - 1] \in RnGens PROVE h[n] = step[n][h[n - 1]]
    <3>1. n \in 0 .. RnSize /\ n # 0
      BY <1>1
    <3>2. h[n] = Stirs(h[n - 1], x(n))
      BY <1>8, <3>1
    <3> QED  BY <2>2, <3>2
  <2> HIDE DEF step
  <2>3. h = [n \in 0 .. RnSize |-> h[n]]
    BY <1>8
  <2> QED  BY <1>1, <1>3, <1>4, <2>1, <2>2, <2>3, Follows
<1>10. h[RnSize] \in RnGens
  BY <1>1, <1>9 DEF RunsTo
<1> HIDE DEF step
<1> DEFINE e == h[RnSize]
<1>11. e = [i |-> e.i, j |-> e.j, s |-> e.s] /\ e.i \in Byte /\ Onto(e.s, Byte)
  BY <1>10, GenHas
<1>12. RandAddrandom(g, buf) = [e EXCEPT !.j = e.i]
  BY <1>8
<1> HIDE DEF e
<1>13. RandAddrandom(g, buf) = [i |-> e.i, j |-> e.i, s |-> e.s]
  BY <1>11, <1>12
<1> QED  BY <1>11, <1>13, GenIs

LEMMA DrawsHold == ASSUME NEW g \in RnGens, NEW n \in Nat PROVE Draws(g, n) \in RnGens /\ Draws(g, 0) = g
<1>1. ASSUME NEW M \in Nat
      PROVE  \E h : RunsTo(h, RnGens, g, M, [k \in 1 .. M |-> [c \in RnGens |-> RandGetbyte(c)]]) /\ Draws(g, M) = h[M]
  <2> DEFINE step == [k \in 1 .. M |-> [c \in RnGens |-> RandGetbyte(c)]]
  <2>1. step \in [1 .. M -> [RnGens -> RnGens]]
    BY StirHolds DEF RandGetbyte
  <2>2. PICK f : RunsTo(f, RnGens, g, M, step)
    <3> HIDE DEF step
    <3> QED  BY <2>1, Recursion
  <2>3. f = [k \in 0 .. M |-> IF k = 0 THEN g ELSE RandGetbyte(f[k - 1])]
    <3>1. f \in [0 .. M -> RnGens] /\ f[0] = g
      BY <2>2 DEF RunsTo
    <3>2. ASSUME NEW k \in 1 .. M PROVE f[k] = RandGetbyte(f[k - 1])
      <4>1. k - 1 \in 0 .. M /\ f[k - 1] \in RnGens
        BY <3>1
      <4> QED  BY <2>2, <4>1 DEF RunsTo
    <3>3. ASSUME NEW k \in 0 .. M PROVE f[k] = IF k = 0 THEN g ELSE RandGetbyte(f[k - 1])
      <4>1. k # 0 => k \in 1 .. M
        OBVIOUS
      <4> QED  BY <3>1, <3>2, <4>1
    <3> HIDE DEF step
    <3> QED  BY <3>1, <3>3
  <2>4. \E h : h = [k \in 0 .. M |-> IF k = 0 THEN g ELSE RandGetbyte(h[k - 1])] /\ Draws(g, M) = h[M]
    BY <2>3 DEF Draws
  <2>5. PICK h : h = [k \in 0 .. M |-> IF k = 0 THEN g ELSE RandGetbyte(h[k - 1])] /\ Draws(g, M) = h[M]
    BY <2>4
  <2>6. RunsTo(h, RnGens, g, M, step)
    <3>1. h[0] = g /\ h = [k \in 0 .. M |-> h[k]]
      BY <2>5
    <3>2. ASSUME NEW k \in 1 .. M, h[k - 1] \in RnGens PROVE h[k] = step[k][h[k - 1]]
      <4>1. k \in 0 .. M /\ k # 0
        OBVIOUS
      <4>2. h[k] = RandGetbyte(h[k - 1])
        BY <2>5, <4>1
      <4> QED  BY <3>2, <4>2
    <3> HIDE DEF step
    <3> QED  BY <2>1, <3>1, <3>2, Follows
  <2> QED  BY <2>5, <2>6
<1>2. Draws(g, n) \in RnGens
  BY <1>1 DEF RunsTo
<1>3. Draws(g, 0) = g
  BY <1>1 DEF RunsTo
<1> QED  BY <1>2, <1>3

LEMMA PartnerHolds == ASSUME NEW g \in RnGens, NEW n \in Nat, n >= 2 PROVE Partner(g, n) \in 1 .. n
<1> DEFINE b == Bytes(g, 4)
<1>1. ASSUME NEW k \in 1 .. 4 PROVE b[k] \in Int
  <2>1. Draws(g, k) \in RnGens
    BY DrawsHold
  <2>2. ASSUME NEW c \in RnGens PROVE OutOf(c) \in Int
    <3>1. c.s[c.i] \in Int /\ c.s[c.j] \in Int
      BY GenHas
    <3>2. Plus(c.s[c.i], c.s[c.j]) \in Byte
      BY <3>1, PlusHolds
    <3> QED  BY <3>2, GenHas DEF OutOf
  <2> QED  BY <2>1, <2>2 DEF Bytes
<1>2. b[1] \in Int /\ b[2] \in Int /\ b[3] \in Int /\ b[4] \in Int /\ RnSize \in Int
  BY <1>1, RandAssumption
<1> HIDE DEF b
<1> DEFINE m == Number(b)
<1>3. m \in Int
  <2>1. ASSUME NEW x \in Int, NEW y \in Int, NEW z \in Int PROVE x * y + z \in Int
    OBVIOUS
  <2> QED  BY <1>2, <2>1 DEF Number
<1> HIDE DEF m
<1>4. m % (n - 1) \in 0 .. (n - 1) - 1
  <2>1. n - 1 \in Nat /\ n - 1 > 0
    OBVIOUS
  <2> QED  BY <1>3, <2>1, ModHolds
<1>5. (m % (n - 1)) + 1 \in 1 .. n
  BY <1>4
<1> QED  BY <1>5 DEF Partner, m, b

LEMMA ShuffledHolds == ASSUME NEW g \in RnGens, NEW n \in Nat, n >= 2 PROVE Onto(Shuffled(g, n), 1 .. n)
<1> DEFINE D == 1 .. n
           P == {a \in [D -> D] : Onto(a, D)}
           v == [k \in D |-> k]
           p(i) == Partner(Draws(g, 4 * (i - 1)), n)
           step == [i \in 1 .. n |-> [a \in P |-> Swapped(a, i, p(i))]]
<1>1. ASSUME NEW i \in 1 .. n PROVE p(i) \in D
  <2>1. 4 * (i - 1) \in Nat
    OBVIOUS
  <2> QED  BY <2>1, DrawsHold, PartnerHolds
<1>2. v \in P
  <2>1. v \in [D -> D] /\ \A x \in D : v[x] = x
    OBVIOUS
  <2> HIDE DEF v
  <2> QED  BY <2>1 DEF Onto
<1> HIDE DEF p, v
<1>3. step \in [1 .. n -> [P -> P]]
  <2> SUFFICES ASSUME NEW i \in 1 .. n, NEW a \in P PROVE Swapped(a, i, p(i)) \in P
    OBVIOUS
  <2>1. Onto(a, D) /\ i \in D /\ p(i) \in D
    BY <1>1
  <2>2. Onto(Swapped(a, i, p(i)), D)
    <3> HIDE DEF D
    <3> QED  BY <2>1, SwapHolds
  <2> QED  BY <2>2 DEF Onto
<1> HIDE DEF P
<1>4. PICK f : RunsTo(f, P, v, n, step)
  <2> HIDE DEF step
  <2> QED  BY <1>2, <1>3, Recursion
<1>5. f = [i \in 0 .. n |-> IF i = 0 THEN v ELSE Swapped(f[i - 1], i, p(i))]
  <2>1. f \in [0 .. n -> P] /\ f[0] = v
    BY <1>4 DEF RunsTo
  <2>2. ASSUME NEW i \in 1 .. n PROVE f[i] = Swapped(f[i - 1], i, p(i))
    <3>1. i - 1 \in 0 .. n /\ f[i - 1] \in P
      BY <2>1
    <3> QED  BY <1>4, <3>1 DEF RunsTo
  <2>3. ASSUME NEW i \in 0 .. n PROVE f[i] = IF i = 0 THEN v ELSE Swapped(f[i - 1], i, p(i))
    <3>1. i # 0 => i \in 1 .. n
      OBVIOUS
    <3> QED  BY <2>1, <2>2, <3>1
  <2> HIDE DEF step
  <2> QED  BY <2>1, <2>3
<1>6. \E h : h = [i \in 0 .. n |-> IF i = 0 THEN v ELSE Swapped(h[i - 1], i, p(i))] /\ Shuffled(g, n) = h[n]
  BY <1>5 DEF Shuffled, v, p
<1>7. PICK h : h = [i \in 0 .. n |-> IF i = 0 THEN v ELSE Swapped(h[i - 1], i, p(i))] /\ Shuffled(g, n) = h[n]
  BY <1>6
<1>8. RunsTo(h, P, v, n, step)
  <2>1. h[0] = v /\ h = [i \in 0 .. n |-> h[i]]
    BY <1>7
  <2>2. ASSUME NEW i \in 1 .. n, h[i - 1] \in P PROVE h[i] = step[i][h[i - 1]]
    <3>1. i \in 0 .. n /\ i # 0
      OBVIOUS
    <3>2. h[i] = Swapped(h[i - 1], i, p(i))
      BY <1>7, <3>1
    <3> QED  BY <2>2, <3>2
  <2> HIDE DEF step
  <2> QED  BY <1>2, <1>3, <2>1, <2>2, Follows
<1>9. h[n] \in P
  BY <1>8 DEF RunsTo
<1> QED  BY <1>7, <1>9 DEF P

(* What was done with a handle since rand_set, done again. *)
RnWhats == {"open", "set", "add", "get", "shuffle"} \X (RnHandles \cup RnSeeds \cup Nat)
RnAfter(g, what) ==
    CASE what[1] = "add" -> RandAddrandom(g, what[2])
      [] what[1] = "get" -> Draws(g, what[2])
      [] OTHER -> Draws(g, 4 * what[2])
RnReplays(since, gen) == \E f :
    /\ f[Len(since)] = gen
    /\ since[1][1] = "set" => f[1] = SetGen(RandInit, since[1][2])
    /\ \A k \in 2 .. Len(since) : f[k] = RnAfter(f[k - 1], since[k])
RnHandle(h, since, gen) ==
    /\ gen \in RnGens
    /\ since \in Seq(RnWhats) /\ Len(since) >= 1
    /\ since[1] = <<"open", h>> \/ since[1][1] = "set"
    /\ RnReplays(since, gen)
RnInv ==
    /\ rnGen = [h \in RnHandles |-> rnGen[h]] /\ rnSince = [h \in RnHandles |-> rnSince[h]]
    /\ \A h \in RnHandles : RnHandle(h, rnSince[h], rnGen[h])
    /\ \E n \in Nat : Onto(rnArray, 1 .. n)

LEMMA ReplaysAlike ==
    ASSUME NEW since \in Seq(RnWhats), Len(since) >= 1, since[1][1] = "set", NEW a, NEW b,
           RnReplays(since, a), RnReplays(since, b)
    PROVE  a = b
<1> DEFINE M == Len(since)
<1>1. PICK f : /\ f[M] = a /\ f[1] = SetGen(RandInit, since[1][2])
               /\ \A k \in 2 .. M : f[k] = RnAfter(f[k - 1], since[k])
  BY DEF RnReplays
<1>2. PICK g : /\ g[M] = b /\ g[1] = SetGen(RandInit, since[1][2])
               /\ \A k \in 2 .. M : g[k] = RnAfter(g[k - 1], since[k])
  BY DEF RnReplays
<1>3. M \in Nat /\ M >= 1
  OBVIOUS
<1> HIDE DEF M
<1> DEFINE T == {n \in 0 .. M : n # 0 => f[n] = g[n]}
<1>4. 0 \in T
  BY <1>3
<1>5. ASSUME NEW n \in 1 .. M, n - 1 \in T PROVE n \in T
  <2>1. CASE n = 1
    BY <1>1, <1>2, <1>3, <2>1
  <2>2. CASE n # 1
    <3>1. n \in 2 .. M /\ n - 1 # 0 /\ n \in 0 .. M
      BY <1>3, <2>2
    <3>2. f[n - 1] = g[n - 1]
      BY <1>5, <3>1
    <3>3. f[n] = RnAfter(f[n - 1], since[n]) /\ g[n] = RnAfter(g[n - 1], since[n])
      BY <1>1, <1>2, <3>1
    <3> QED  BY <3>1, <3>2, <3>3
  <2> QED  BY <2>1, <2>2
<1> HIDE DEF T
<1>6. 0 .. M \subseteq T
  BY <1>3, <1>4, <1>5, UpTo
<1>7. M \in T /\ M # 0
  BY <1>3, <1>6
<1> QED  BY <1>1, <1>2, <1>7 DEF T

LEMMA ReplaysOn ==
    ASSUME NEW since \in Seq(RnWhats), Len(since) >= 1, NEW gen, RnReplays(since, gen), NEW what \in RnWhats
    PROVE  RnReplays(Append(since, what), RnAfter(gen, what))
<1> DEFINE M == Len(since)
           new == Append(since, what)
<1>1. PICK f : /\ f[M] = gen /\ (since[1][1] = "set" => f[1] = SetGen(RandInit, since[1][2]))
               /\ \A k \in 2 .. M : f[k] = RnAfter(f[k - 1], since[k])
  BY DEF RnReplays
<1>2. M \in Nat /\ M >= 1 /\ Len(new) = M + 1 /\ new[M + 1] = what /\ \A k \in 1 .. M : new[k] = since[k]
  OBVIOUS
<1> HIDE DEF M, new
<1> DEFINE h == [k \in 1 .. M + 1 |-> IF k = M + 1 THEN RnAfter(gen, what) ELSE f[k]]
<1>3. h[M + 1] = RnAfter(gen, what) /\ \A k \in 1 .. M : h[k] = f[k]
  BY <1>2
<1> HIDE DEF h
<1>4. new[1][1] = "set" => h[1] = SetGen(RandInit, new[1][2])
  <2>1. 1 \in 1 .. M
    BY <1>2
  <2> QED  BY <1>1, <1>2, <1>3, <2>1
<1>5. ASSUME NEW k \in 2 .. M + 1 PROVE h[k] = RnAfter(h[k - 1], new[k])
  <2>1. k - 1 \in 1 .. M /\ h[k - 1] = f[k - 1]
    BY <1>2, <1>3
  <2>2. CASE k = M + 1
    <3>1. k - 1 = M
      BY <1>2, <2>2
    <3>2. h[k - 1] = gen /\ h[k] = RnAfter(gen, what) /\ new[k] = what
      BY <1>1, <1>2, <1>3, <2>1, <2>2, <3>1
    <3> QED  BY <3>2
  <2>3. CASE k # M + 1
    <3>1. k \in 2 .. M /\ k \in 1 .. M
      BY <1>2, <2>3
    <3> QED  BY <1>1, <1>2, <1>3, <2>1, <3>1
  <2> QED  BY <2>2, <2>3
<1>6. h[Len(new)] = RnAfter(gen, what)
  BY <1>2, <1>3
<1>7. \A k \in 2 .. Len(new) : h[k] = RnAfter(h[k - 1], new[k])
  BY <1>2, <1>5
<1> QED  BY <1>4, <1>6, <1>7 DEF RnReplays, new

LEMMA RandInitIs == RandInit \in RnGens
<1>1. 0 \in Byte
  BY RandAssumption DEF Byte
<1> DEFINE s == [b \in Byte |-> b]
<1>2. s \in [Byte -> Byte] /\ \A x \in Byte : s[x] = x
  OBVIOUS
<1>3. RandInit = [i |-> 0, j |-> 0, s |-> s]
  BY DEF RandInit
<1> HIDE DEF s
<1>4. Onto(s, Byte)
  BY <1>2 DEF Onto
<1> QED  BY <1>1, <1>3, <1>4, GenIs

LEMMA RnInitHolds == RnInit => RnInv
<1> SUFFICES ASSUME RnInit PROVE RnInv
  OBVIOUS
<1>1. PICK seeds \in [RnHandles -> RnSeeds] : rnGen = [h \in RnHandles |-> Seeded(seeds[h])]
  BY DEF RnInit
<1>2. rnSince = [h \in RnHandles |-> <<<<"open", h>>>>] /\ rnArray = <<>>
  BY DEF RnInit
<1>3. ASSUME NEW seed \in Seq(Byte) \ {<<>>} PROVE Seeded(seed) \in RnGens
  <2>1. Reverse(seed) \in Seq(Byte) \ {<<>>}
    <3> DEFINE M == Len(seed)
    <3>1. M \in Nat /\ M # 0
      OBVIOUS
    <3>2. ASSUME NEW i \in 1 .. M PROVE seed[(M - i) + 1] \in Byte
      OBVIOUS
    <3>3. Reverse(seed) = [i \in 1 .. M |-> seed[(M - i) + 1]]
      BY DEF Reverse
    <3> HIDE DEF M
    <3>4. Reverse(seed) \in [1 .. M -> Byte]
      BY <3>2, <3>3
    <3>5. Reverse(seed) \in Seq(Byte) /\ Len(Reverse(seed)) = M
      BY <3>1, <3>4
    <3> QED  BY <3>1, <3>5
  <2>2. RandAddrandom(RandInit, seed) \in RnGens
    BY RandInitIs, AddrandomHolds
  <2> QED  BY <2>1, <2>2, AddrandomHolds DEF Seeded
<1>4. ASSUME NEW h \in RnHandles PROVE RnHandle(h, rnSince[h], rnGen[h])
  <2> DEFINE since == <<<<"open", h>>>>
  <2>1. rnGen[h] \in RnGens
    BY <1>1, <1>3, RandAssumption
  <2>2. <<"open", h>> \in RnWhats
    BY DEF RnWhats
  <2>3. since \in Seq(RnWhats) /\ Len(since) = 1 /\ since[1] = <<"open", h>>
    BY <2>2
  <2> HIDE DEF since
  <2>4. RnReplays(since, rnGen[h])
    <3> DEFINE f == [k \in 1 .. 1 |-> rnGen[h]]
    <3>1. f[1] = rnGen[h]
      OBVIOUS
    <3> HIDE DEF f
    <3>2. f[Len(since)] = rnGen[h] /\ since[1][1] # "set" /\ \A k \in 2 .. Len(since) : f[k] = RnAfter(f[k - 1], since[k])
      BY <2>3, <3>1
    <3> QED  BY <3>2 DEF RnReplays
  <2>5. rnSince[h] = since
    BY <1>2 DEF since
  <2>6. RnHandle(h, since, rnGen[h])
    BY <2>1, <2>3, <2>4 DEF RnHandle
  <2> QED  BY <2>5, <2>6
<1>5. Onto(rnArray, 1 .. 0)
  BY <1>2 DEF Onto
<1> QED  BY <1>1, <1>2, <1>4, <1>5 DEF RnInv

LEMMA RnCallKeeps ==
    ASSUME RnInv, NEW h \in RnHandles, NEW gen, NEW what, RnCall(h, gen, what),
           RnHandle(h, IF what[1] = "set" THEN <<what>> ELSE Append(rnSince[h], what), gen),
           \E n \in Nat : Onto(rnArray', 1 .. n)
    PROVE  RnInv'
<1>1. rnGen = [k \in RnHandles |-> rnGen[k]] /\ rnSince = [k \in RnHandles |-> rnSince[k]]
  BY DEF RnInv
<1> DEFINE new == IF what[1] = "set" THEN <<what>> ELSE Append(rnSince[h], what)
<1>2. rnGen' = [rnGen EXCEPT ![h] = gen] /\ rnSince' = [rnSince EXCEPT ![h] = new]
  BY DEF RnCall
<1>3. RnHandle(h, new, gen)
  OBVIOUS
<1> HIDE DEF new
<1>4. rnGen' = [k \in RnHandles |-> rnGen'[k]] /\ rnSince' = [k \in RnHandles |-> rnSince'[k]]
  BY <1>1, <1>2
<1>5. ASSUME NEW k \in RnHandles PROVE RnHandle(k, rnSince'[k], rnGen'[k])
  <2>1. CASE k = h
    <3>1. rnGen'[k] = gen /\ rnSince'[k] = new
      BY <1>1, <1>2, <2>1
    <3> QED  BY <1>3, <2>1, <3>1
  <2>2. CASE k # h
    <3>1. rnGen'[k] = rnGen[k] /\ rnSince'[k] = rnSince[k]
      BY <1>1, <1>2, <2>2
    <3> QED  BY <3>1 DEF RnInv
  <2> QED  BY <2>1, <2>2
<1> QED  BY <1>4, <1>5 DEF RnInv, RnHandle, RnReplays

LEMMA RnGoesOn ==
    ASSUME RnInv, NEW h \in RnHandles, NEW what \in RnWhats, what[1] # "set", RnAfter(rnGen[h], what) \in RnGens
    PROVE  RnHandle(h, Append(rnSince[h], what), RnAfter(rnGen[h], what))
<1> DEFINE since == rnSince[h]
           new == Append(since, what)
<1>1. since \in Seq(RnWhats) /\ Len(since) >= 1 /\ (since[1] = <<"open", h>> \/ since[1][1] = "set") /\ RnReplays(since, rnGen[h])
  BY DEF RnInv, RnHandle
<1> HIDE DEF since
<1>2. RnReplays(new, RnAfter(rnGen[h], what))
  BY <1>1, ReplaysOn
<1>3. new \in Seq(RnWhats) /\ Len(new) >= 1 /\ new[1] = since[1]
  BY <1>1
<1> HIDE DEF new
<1>4. RnHandle(h, new, RnAfter(rnGen[h], what))
  BY <1>1, <1>2, <1>3 DEF RnHandle
<1> QED  BY <1>4 DEF new, since

LEMMA RnStepHolds == ASSUME RnInv, [RnNext]_rnVars PROVE RnInv'
<1>1. CASE UNCHANGED rnVars
  BY <1>1 DEF rnVars, RnInv, RnHandle, RnReplays
<1>2. ASSUME NEW h \in RnHandles, NEW seed \in RnSeeds, RandSet(h, seed) PROVE RnInv'
  <2> DEFINE what == <<"set", seed>>
             gen == SetGen(rnGen[h], seed)
  <2>1. seed \in Seq(Byte) \ {<<>>}
    BY RandAssumption
  <2>2. gen \in RnGens /\ gen = SetGen(RandInit, seed)
    BY <2>1, RandInitIs, AddrandomHolds DEF SetGen
  <2>3. what \in RnWhats /\ what[1] = "set" /\ what[2] = seed
    BY DEF RnWhats
  <2>4. RnCall(h, gen, what) /\ rnArray' = rnArray
    BY <1>2 DEF RandSet
  <2> HIDE DEF what, gen
  <2>5. RnHandle(h, <<what>>, gen)
    <3> DEFINE since == <<what>>
               f == [k \in 1 .. 1 |-> gen]
    <3>1. since \in Seq(RnWhats) /\ Len(since) = 1 /\ since[1] = what /\ f[1] = gen
      BY <2>3
    <3> HIDE DEF since, f
    <3>2. f[Len(since)] = gen /\ f[1] = SetGen(RandInit, since[1][2])
          /\ \A k \in 2 .. Len(since) : f[k] = RnAfter(f[k - 1], since[k])
      BY <2>2, <2>3, <3>1
    <3>3. RnHandle(h, since, gen)
      BY <2>2, <2>3, <3>1, <3>2 DEF RnHandle, RnReplays
    <3> QED  BY <3>3 DEF since
  <2>6. \E n \in Nat : Onto(rnArray', 1 .. n)
    BY <2>4 DEF RnInv, Onto
  <2> QED  BY <2>3, <2>4, <2>5, <2>6, RnCallKeeps
<1>3. ASSUME NEW h \in RnHandles, NEW what \in RnWhats, what[1] # "set", RnAfter(rnGen[h], what) \in RnGens,
             RnCall(h, RnAfter(rnGen[h], what), what), \E n \in Nat : Onto(rnArray', 1 .. n)
      PROVE  RnInv'
  BY <1>3, RnGoesOn, RnCallKeeps
<1>4. ASSUME NEW h \in RnHandles, NEW seed \in RnSeeds, RandAdd(h, seed) PROVE RnInv'
  <2> DEFINE what == <<"add", seed>>
  <2>1. seed \in Seq(Byte) \ {<<>>} /\ rnGen[h] \in RnGens
    BY RandAssumption DEF RnInv, RnHandle
  <2>2. what \in RnWhats /\ what[1] # "set" /\ RnAfter(rnGen[h], what) = RandAddrandom(rnGen[h], seed)
    BY DEF RnWhats, RnAfter
  <2>3. RnCall(h, RnAfter(rnGen[h], what), what) /\ rnArray' = rnArray
    BY <1>4, <2>2 DEF RandAdd
  <2>4. RnAfter(rnGen[h], what) \in RnGens
    BY <2>1, <2>2, AddrandomHolds
  <2>5. \E n \in Nat : Onto(rnArray', 1 .. n)
    BY <2>3 DEF RnInv, Onto
  <2> HIDE DEF what
  <2> QED  BY <1>3, <2>2, <2>3, <2>4, <2>5
<1>5. ASSUME NEW h \in RnHandles, NEW n \in Nat, NEW tag \in {"get", "shuffle"},
             RnCall(h, Draws(rnGen[h], IF tag = "get" THEN n ELSE 4 * n), <<tag, n>>), \E k \in Nat : Onto(rnArray', 1 .. k)
      PROVE  RnInv'
  <2> DEFINE what == <<tag, n>>
  <2>1. rnGen[h] \in RnGens
    BY DEF RnInv, RnHandle
  <2>2. what \in RnWhats /\ what[1] # "set" /\ RnAfter(rnGen[h], what) = Draws(rnGen[h], IF tag = "get" THEN n ELSE 4 * n)
    BY DEF RnWhats, RnAfter
  <2>3. RnCall(h, RnAfter(rnGen[h], what), what)
    BY <1>5, <2>2
  <2>4. RnAfter(rnGen[h], what) \in RnGens
    <3>1. (IF tag = "get" THEN n ELSE 4 * n) \in Nat
      OBVIOUS
    <3> QED  BY <2>1, <2>2, <3>1, DrawsHold
  <2> HIDE DEF what
  <2> QED  BY <1>3, <1>5, <2>2, <2>3, <2>4
<1>6. ASSUME NEW h \in RnHandles, NEW n \in RnCounts, RandGet(h, n) PROVE RnInv'
  <2>1. n \in Nat
    BY RandAssumption
  <2>2. RnCall(h, Draws(rnGen[h], n), <<"get", n>>) /\ rnArray' = rnArray
    BY <1>6 DEF RandGet
  <2>3. \E k \in Nat : Onto(rnArray', 1 .. k)
    BY <2>2 DEF RnInv, Onto
  <2> QED  BY <1>5, <2>1, <2>2, <2>3
<1>7. ASSUME NEW h \in RnHandles, NEW n \in RnCounts, RandShuffle(h, n) PROVE RnInv'
  <2>1. n \in Nat /\ rnGen[h] \in RnGens
    BY RandAssumption DEF RnInv, RnHandle
  <2>2. CASE n < 2
    <3>1. RnCall(h, rnGen[h], <<"get", 0>>) /\ rnArray' = [k \in 1 .. n |-> k]
      BY <1>7, <2>2 DEF RandShuffle
    <3>2. Draws(rnGen[h], 0) = rnGen[h]
      BY <2>1, DrawsHold
    <3>3. Onto(rnArray', 1 .. n)
      <4> DEFINE a == [k \in 1 .. n |-> k]
      <4>1. a \in [1 .. n -> 1 .. n] /\ \A x \in 1 .. n : a[x] = x
        OBVIOUS
      <4>2. rnArray' = a
        BY <3>1
      <4> HIDE DEF a
      <4> QED  BY <4>1, <4>2 DEF Onto
    <3> QED  BY <1>5, <2>1, <3>1, <3>2, <3>3
  <2>3. CASE n >= 2
    <3>1. RnCall(h, Draws(rnGen[h], 4 * n), <<"shuffle", n>>) /\ rnArray' = Shuffled(rnGen[h], n)
      BY <1>7, <2>1, <2>3 DEF RandShuffle
    <3>2. Onto(rnArray', 1 .. n)
      BY <2>1, <2>3, <3>1, ShuffledHolds
    <3> QED  BY <1>5, <2>1, <3>1, <3>2
  <2> QED  BY <2>1, <2>2, <2>3
<1> QED  BY <1>1, <1>2, <1>4, <1>6, <1>7 DEF RnNext

LEMMA RnInvRepeats == RnInv => RandRepeats
<1> SUFFICES ASSUME RnInv PROVE RandRepeats
  OBVIOUS
<1>1. ASSUME NEW g \in RnHandles, NEW h \in RnHandles, rnSince[g] = rnSince[h] PROVE rnGen[g] = rnGen[h]
  <2> DEFINE since == rnSince[g]
  <2>1. /\ since \in Seq(RnWhats) /\ Len(since) >= 1
        /\ since[1] = <<"open", g>> \/ since[1][1] = "set"
        /\ since[1] = <<"open", h>> \/ since[1][1] = "set"
        /\ RnReplays(since, rnGen[g]) /\ RnReplays(since, rnGen[h])
    BY <1>1 DEF RnInv, RnHandle
  <2> HIDE DEF since
  <2>2. CASE since[1][1] = "set"
    BY <2>1, <2>2, ReplaysAlike
  <2>3. CASE since[1][1] # "set"
    <3>1. since[1] = <<"open", g>> /\ since[1] = <<"open", h>>
      BY <2>1, <2>3
    <3>2. g = h
      BY <3>1
    <3> QED  BY <3>2
  <2> QED  BY <2>2, <2>3
<1>2. ASSUME NEW h \in RnHandles PROVE ToSet([b \in 1 .. RnSize |-> rnGen[h].s[b - 1]]) = Byte
  <2> DEFINE s == rnGen[h].s
             t == [b \in 1 .. RnSize |-> s[b - 1]]
  <2>1. rnGen[h] \in RnGens
    BY DEF RnInv, RnHandle
  <2>2. Onto(s, Byte) /\ RnSize \in Nat
    BY <2>1, GenHas, RandAssumption
  <2> HIDE DEF s
  <2>3. ASSUME NEW b \in 1 .. RnSize PROVE t[b] \in Byte
    <3>1. b - 1 \in Byte
      BY <2>2 DEF Byte
    <3> QED  BY <2>2, <3>1 DEF Onto
  <2>4. ASSUME NEW x \in Byte PROVE \E b \in 1 .. RnSize : t[b] = x
    <3>1. PICK y \in Byte : s[y] = x
      BY <2>2 DEF Onto
    <3>2. y + 1 \in 1 .. RnSize /\ (y + 1) - 1 = y
      BY <2>2 DEF Byte
    <3>3. t[y + 1] = s[(y + 1) - 1]
      BY <3>2
    <3> QED  BY <3>1, <3>2, <3>3
  <2>5. ToSet(t) = {t[b] : b \in 1 .. RnSize}
    BY DEF ToSet
  <2> HIDE DEF t
  <2>6. ToSet(t) = Byte
    BY <2>3, <2>4, <2>5
  <2> QED  BY <2>6 DEF t, s
<1>3. ToSet(rnArray) = DOMAIN rnArray
  <2>1. PICK n \in Nat : Onto(rnArray, 1 .. n)
    BY DEF RnInv
  <2>2. DOMAIN rnArray = 1 .. n
    BY <2>1 DEF Onto
  <2> QED  BY <2>1, <2>2 DEF ToSet, Onto
<1> QED  BY <1>1, <1>2, <1>3 DEF RandRepeats
=============================================================================

# A TLA+ model of libdnet

libdnet is a C library that gives one interface to the low-level networking of
many systems: addresses, ARP caches, routing tables, interfaces, firewalls,
raw IP and Ethernet transmission, binary buffers and random numbers.  Each
facility is a small handle type with open / operate / close functions and one
source file per operating-system mechanism; `configure` picks one file per
facility.  This directory holds TLA+ modules for all facilities and for the
Python binding, the TLC configurations that check them, and TLAPS proofs about
most of them.

Paths are relative to the repository; `file.c:n` without a directory is in
`src/`, `dnet.3` is `man/dnet.3`.

## 1. Inventory

How the parts interact: the library has no threads and no callbacks of its own
except the `*_loop` functions, which call a client's handler once per entry.
Handles call downwards only:

    ip-cooked.c --> arp_get, route_get, intf_loop, eth_open/eth_send
    tun-bsd.c   --> intf_get/intf_set, route_add
    arp-ioctl.c --> intf_loop (to find the attached interface)
    everything  --> addr.c conversions to and from socket addresses
    python/dnet.c --> everything; its loops call back into Python

Concurrency comes from outside: the kernel changes its tables by itself, other
processes use the same tables, routing sockets deliver everyone's replies to
everyone, and a signal may interrupt a blocking call.

| Component | State | Operations | Hard behaviour | Correct when |
|---|---|---|---|---|
| blob.c | `base`, `off`, `end`, `size`, global `bl_size` | new, free, read, write, insert, delete, seek, index, rindex, pack, unpack, register_alloc | growth, fixed buffers, formats that fail halfway, cursor past the end | no access outside the allocation; what is packed is unpacked; a failed call leaves the text alone |
| arp-bsd.c, route-bsd.c | socket, `seq`, kernel table | add, delete, get, loop | foreign and left-over messages, two-request operations, retry of a request already done, dropped replies | a handle takes only its own replies; results tell the truth |
| route-linux.c | two sockets, static `seq` | add, delete, get, loop | interrupted lookups leave answers behind | a lookup delivers its own answer |
| arp-ioctl.c | socket, cached interface | add, delete, get, loop | search for the attached interface | the request names the right device |
| ip-cooked.c | ARP, interface, routing handles, a socket, list of interfaces with Ethernet handles | open, send, close | ARP resolution with retries while tables change, fragmentation, partly opened handles | frames reach a next hop; success means the datagram can be reassembled; nothing leaks |
| ip-util.c, ip6.c | none | add_option, checksum, cksum_add | padding, odd lengths, options of TCP in IP | checksums verify; headers stay consistent |
| addr.c, addr-util.c | none but the ring of `addr_ntoa` | cmp, net, bcast, ntop, pton, ntoa, aton, ntos, ston, btos, stob, btom, mtob | masks, family conversions, buffers reused | conversions are inverses; networks contain their addresses |
| intf.c | sockets, a buffer of interface requests | get, get_src, get_dst, set, loop | `intf_set` is a dozen ioctls and may stop halfway; alias capacity; entry lengths | after success the interface is as asked |
| fw-*.c | descriptor | add, delete, loop | rules lose parts in conversion; delete looks a rule up by its converted form | a rule added can be listed and deleted |
| eth-*.c, ip.c, ip-win32.c | descriptor | open, send, get, set, close | a chain of calls that may fail; the DLPI dialogue | a call gets its own answer; a failed open leaves no descriptor; a frame goes where it should |
| tun-*.c | descriptor, interface handle, saved configuration | open, send, recv, close | failure halfway, restoring the interface | close undoes open |
| rand.c | RC4 state | open, get, set, add, uint8/16/32, shuffle | index arithmetic, sizes 0 and 1 | shuffle is a permutation |
| arp-win32.c, route-win32.c, route-hpux.c | none | add, delete, get, loop | tables that are copied, searched and written back | as for the other systems |
| intf-win32.c | table of adapters, numbers per type | get, get_index, loop | names are places in a list that is built again by every call | a name keeps its meaning |
| python/dnet.c | objects, each with a handle | every function as a method; addr, iterators, dictionaries | callbacks that raise or change objects under a loop; `__init__` again | no closed handle is used; data come back as they went |
| stubs, compat functions, `test/dnet`, `windows`, `mac`, `page` | - | - | - | - |

## 2. Plan

Steps 1 to 7 are done.

1. `Blob`, with the abstract specification `BlobAbs`; `BlobProofs` (safety) and
   `BlobTextProofs` (the refinement, fixed blobs).
2. `BsdRouting` (arp-bsd.c and route-bsd.c share one mechanism), `BsdRoutingProofs`.
3. `RouteLinux`, `RouteLinuxProofs`.
4. `IpCooked`, which uses ARP and routing handles as 2 and 3 promise, `IpCookedProofs`.
5. Over the kernel's calls: `Listing`, `Intf`, `Tun` (which extends `Intf`), `Tables`,
   `Firewall`, `Ethernet`, `WinNames`.
6. Algorithms and data: `Addr`, `IpUtil`, `Rand`; the Python binding: `PyHandles`,
   `PyData` (which extends `Addr`).  `Library` puts the modules of 5 and 6 side by side.
7. Proofs about the parts of `Library`: `TableProofs` (loops, firewalls, tables),
   `OwnStateProofs` (Python handles, options, Windows' names, random numbers) and
   `LibraryProofs`, which puts them together and adds Ethernet.
8. An abstract table `TableAbs` (add, delete, get as single steps, each with a
   moment at which it takes effect) that `BsdRouting`, `RouteLinux` and `Tables` are
   shown to implement for calls that do not repeat a request.
9. Proofs left: `TunsUndone` and `IntfShows`; `AddrsConvert` family by family.

## 3. The modules

### Blob (blob.c)

The four fields of `struct blob` are four variables with the same names;
`blob_reserve`'s growth rule, the fixed blob (`size = 0`) and the global
`bl_size` are as in the code.  Each library function is one action.  A format of
`blob_pack` or `blob_unpack` is a sequence of directives and is interpreted one
directive a step (`PackLiteral`, `PackConversion`, `UnpackLiteral`,
`UnpackConversion`, `UnpackString`), because `blob_fmt` returns at the first that
fails and what went before stays done.  Where the code leaves its objects the
model sets `fault` and stops.

`Spec` is any client.  `CarefulSpec` is a client that inserts only where twice
the inserted length is spare and unpacks literals and strings only where they
are: for it the code keeps its promises, and `BlobAbs` states them as a text with
a position.  There a call has its whole effect or none, but for a format: each of its
directives is a step of its own, and one that fails leaves what the directives before it
did (blob.c:172).  The refinement mapping
is `Text == Bytes(base, 0, end)` and `pos == off`.

### BsdRouting (arp-bsd.c, route-bsd.c)

Each handle has a socket queue, a sequence number and a call in progress; the
kernel's table maps host destinations to a link-level address or a gateway, and
`Net` is the network that covers them.  `Send` is write(2) on the routing socket:
the kernel carries the request out at once and appends its reply to EVERY
handle's queue.  `ReadReply` and `ReadOther` are the read loop of `arp_msg` /
`route_msg`, which discards messages by process id and sequence number (and, in
arp-bsd.c, repeats the request after every second foreign message: `Repeat`).
`Asks` goes to an operation's second request.  `News` is the kernel changing its
table by itself.  Up to `MaxFaults` system calls fail for reasons of their own: `WriteFails`
before the kernel looks at the request; `ReadFails` when a signal interrupts read(2), which
arp_msg reports, though the kernel may have carried the request out, while route_msg leaves
its loop and goes on with the buffer as it stands; `NameFails` when the interface of a
route that was found has no name.  `seen`, `wrote`, `repeated` and `fault` are history.

### RouteLinux (route-linux.c)

`RouteAdd` and `RouteDelete` are single ioctls.  `route_get` is `SendLookup` followed by
`ReadAnswer`, or by `Interrupt` when a signal ends recvmsg.  The sequence number is
the static variable, shared by the handles of the process; there is one thread,
so `pc` is one variable.  0.0.0.0 is asked for as 6.6.6.6 (`Asks`).  Destinations
are keys: prefix lengths are not modelled.

### IpCooked (ip-cooked.c)

`ip_open` is `Acquire` (four handles in order), `AddIntf` (one per interface of
`intf_loop`) and `Opened`; `Close` may come after any of them.  `ip_send` is `Lookup`
(connect, getsockname, the list moved to front, eth_open on first use), the
loop `ArpGet`, `RouteGet`, `ArpGetGateway`, `RequestArp`, `Wake`, and `SendFrame`, one
per fragment.  `Learn`, `Forget` and `Move` change the kernel's ARP cache and routing
table between any two steps.  A frame records its destination, the offset
written into the header, where its octets come from, and the more-fragments bit,
so that `Received` can put the datagram together as a receiver would.

### Listing (every `*_loop`)

A loop is a record `Loop` that says how its table is read - in one measured piece,
line by line, in numbered pieces, as a chain of pointers, in messages of a stream -
and which entries it passes over; the nineteen loops of the library are
`ArpSysctl` to `IntfWin32`.  Measuring, fetching and handing out an entry are steps,
and the kernel's table changes between them.  A callback may stop the loop.  `Refused` is a
read that fails and is reported; `CutShort` one that the loop takes for the table's end, as
route-linux.c and fw-ipchains.c do, and `lsCut` remembers where.
What was in the table throughout (`lsStayed`) and what was there at some time
(`lsSeen`) is history.

### Intf and Tun (intf.c, tun-*.c)

One ioctl is one step, but for the pairs that read a value and write it back: a netmask
is read with the alias it belongs to, and flags are read and set in one step.  `intf_set` is, after the steps of the
`intf_get` it begins with, `DeleteAlias` for each alias it found (by number on Linux), `AliasesDeleted`,
`DeleteAddr`, `DeleteDst`, `SetMtu`, `SetAddr`, `SetNetmask`, `SetLink`, `SetDst`, `AddAlias` for each alias asked for,
`NoMoreAliases` and `SetFlags`.  What the code makes of a refusal differs: `KernelSaysNo` ends the
call where its result is looked at (`MayFail`); a deletion's is ignored and the call
goes on with the address still there (`Deletes`); SIOCSIFADDR and SIOCSIFDSTADDR may say EEXIST, which is
passed over whatever became of the old address (`SetAddr`, `SetDst`); and an address that cannot be
read is left out of the entry (`ReadRefused`).  `ifPast` is history: which of these were passed over.
`intf_get_src` is intf_loop, which lists all addresses (`LoopStarts`), reads one interface after the
other with the steps of `intf_get` (`NextInterface`) and hands it to the comparison (`MatchSrc`);
`intf_get_dst` is the same once connect has said which address is its own.
The kernel has an interface's
addresses in order, each under a label (0 for its own name, n for name:n on Linux).  Others
configure interfaces between calls, and during one where `Meddled` says so.

`Tun` makes the same steps on behalf of `tun_open` and `tun_close`.  Linux opens its descriptor
(`OpenFd`), an interface handle (`IntfOpen`) and attaches an interface to the descriptor (`Attach`),
with which it goes; BSD opens the handle first, takes the first device that can be
opened (`OpenDevice`, `NoDevice`) and saves and restores its interface; Solaris links streams.  Each of them may
fail with what went before it open.  A device is opened once at a time (`Taken`), so that one whose
descriptor leaked is lost to the process.  Linux and BSD close a descriptor only if it
is greater than 0 (`Left`), and `tnZero` says which one has number 0: none as long as standard input has it.
`tnBefore` and `tnHad` are what the interfaces and the
open descriptors were when `tun_open` was called.

### Tables (arp-ioctl.c, route-hpux.c, arp-win32.c, route-win32.c)

A call is one or two steps: the search of the attached interface, or of the
route whose entry is to be changed, and the call that changes the table.  Linux' search looks at
the interfaces' networks; Windows asks its routing table for the best route to
the address or the gateway (`Through`), which may be the default one.
Addresses have three bits.

### Firewall (fw-*.c)

`FwcOf`, `IpfOf`, `IpfwOf`, `PrOf` and `TextOf` turn a rule into the filter's own form, and `RuleOf...`
turn it back, with what each loses.  ipchains and ipf delete by form in one
call; ipfw and the Windows service list, compare and delete by number; pf
compares under a ticket that others' changes make void.

### Ethernet (eth-*.c, ip.c, ip-win32.c)

`Opening` lists the calls of each backend's open; each may fail, and what is closed
then is what the backend's close finds in its handle.  In eth-dlpi.c a request
and its answer are two steps with the stream between them, on which frames and
error answers arrive as well; a read that fails leaves its answer there.  DLPI has three
builds, for its three ways to send: where the destination goes beside the frame it is
copied to the wrong place, and what the provider takes is any address (`SentTo`).  `etHad` is
the addresses the handle's device has had.

### WinNames (intf-win32.c)

The adapters that are there, the table `_refresh_tables` reads and the numbers by
type that it adds to with every call; a name is a type and a place among them.

### Addr, IpUtil, Rand (addr.c, ip-util.c and ip6.c, rand.c)

Operators for the conversions, sums and draws, with the state they have: the ring
of strings, a packet, the permutation.  In `IpUtil` an octet is 0 .. `Base` - 1 and int
has as many of them as it has in C, four, so that a sum that would be negative in C
is negative here.  `Rand`'s permutation has `RnSize` elements instead of 256.

### PyHandles and PyData (python/dnet.c)

dnet.c is what is compiled; dnet.pyx is the same in fewer lines.  In `PyHandles` every method is an
action that names its class, what it gives to the library and what it makes of the result;
a loop is a frame on a stack, its callback runs with `inside`, and while it runs the client
may call any method.  `pyWrong` collects handles the library should not have been
given.  `PyData` converts: addr objects (four raw octets are looked at as a text first, `Spelt`), texts and binary strings, headers, dictionaries,
the iterator over a network and the permutation of a range, which keeps the code's
cipher with fewer rounds.

### Library

The parts of steps 5 and 6 share no state: a handle of one is not given to a handle
of another, except that a tunnel sets interfaces up, which `Tun` contains.  A
behaviour of `Library` is therefore a behaviour of one part, chosen at the start;
the other parts' variables stay 0.  That is one run for thirteen small modules,
and each of its invariants speaks of one part.

## 4. Runs

| Run | Question | Result |
|---|---|---|
| blob_careful | does a careful client see a text with a position, and are its packed formats read back? | holds |
| blob_string | is a `%s` kept within its maximum when unpacked (dnet.3:459)? | violated: blob.c:410 |
| bsd_two | do two processes on one ARP table find their own replies, and does what they report as done happen, though a system call fails? | holds |
| bsd_mixed | for an ARP and a routing handle in two processes, are failures that no failing system call explains true ones, and does every call return? | holds |
| bsd_delete | does arp_delete delete only the entry it is given (dnet.3:328)? | violated: arp-bsd.c:205 |
| bsd_one_process | an ARP and a routing handle in one process | violated: route-bsd.c:158 |
| route_get | lookups by two handles, interrupted by signals, while the table changes | holds |
| route_interrupt | does a lookup work after one that was interrupted (dnet.3:755)? | violated: route-linux.c:183 |
| ip_send | where do frames go, can they be reassembled, are handles kept, does the call return? | holds |
| ip_fragment | fragments when MTU less header is no multiple of eight (dnet.3:836) | violated: ip-cooked.c:187 |
| library | does each part of `Library` keep its promise, as listed below? | holds |
| library_sum | do TCP and UDP checksums verify on a little-endian host, whatever the length (dnet.3:665)? | violated: ip-util.c:106 |

The invariants of library:

| Invariant | Question |
|---|---|
| LibTypeOK | have all parts' variables their types? |
| LoopsTellTruth | does a loop hand out only what was in the table while it ran, and nothing it should pass over? |
| LoopsHandOnce | does a loop that ends well hand out what stayed in the table, but for lists whose reading failed unseen, and once? |
| FwDeletes | does `fw_delete` find a rule that is there, and remove it and no other? |
| IntfShows | is the interface as asked after an `intf_set` that succeeded, but for what refusals it passed over explain, and as shown by `intf_get`? |
| TunsUndone | does `tun_close`, or a failed `tun_open`, leave descriptors, but for number 0, and interfaces as before? |
| TablesTell | do look-ups answer from the table, and changes change what they were asked to? |
| EthTells | does a call get its own answer unless another message came before it, and then at least an address the device has had; does a frame go where it should (not as unit data, nor on Windows); does a failed open leave nothing behind? |
| NamesKeep | does a name mean the same adapter as long as it is there? |
| AddrsConvert | do addresses come back from texts, sockaddrs and masks, and do the strings held stay apart? |
| SumsVerify | do checksums verify at a receiver? |
| OptionsKeep | do options put into the headers keep headers and payload together? |
| RandsRepeat | does the same seed give the same numbers, and is a shuffled array a permutation? |
| HandlesSafe | is the library never given a closed handle by Python, and is a failure shown as one? |
| DataKeep | do data come through Python and back, do addresses of full length that compare equal hash alike, and does one network contain another just if its prefix says so? |

Further configurations beside these check what dnet.3 or a header says and the
code does otherwise, for readers who want the traces:

| Configuration | Module | What it shows |
|---|---|---|
| BlobInsert.cfg | MCBlob | `blob_insert` raises `end` and then moves `end - off` bytes, the inserted length too many: in a nearly full allocation the move leaves it (blob.c:130) |
| BlobCursor.cfg | MCBlob | a literal unpacked at the end of the data carries the cursor beyond it (blob.c:182) |
| BlobShort.cfg | MCBlob | `%c`, `%d`, `%h` and `%b` count a short read as success (blob.c:384), against dnet.3:416 |
| BlobIndex.cfg | MCBlob | `blob_index` searches from the cursor, not the blob (blob.c:225), against dnet.3:398 |
| BlobAny.cfg | MCBlob | holds: short of a fault, no client takes cursor or end out of the allocation |
| BsdRepeat.cfg | MCBsdRouting | a request repeated after it was carried out is reported as failed (arp-bsd.c:97) |
| BsdCut.cfg | MCBsdRouting | a `route_get` whose read fails delivers what its buffer holds (route-bsd.c:154), against dnet.3:755 |
| BsdDropped.cfg | MCBsdRouting | a handle whose reply was dropped for want of room waits for ever (arp-bsd.c:85) |
| LibraryStreams.cfg | MCLibrary | after a loop over a stream that was stopped or interrupted, the next one reads what is left (arp-ioctl.c:271, route-bsd.c:455) |
| LibraryLifconf.cfg | MCLibrary | the Solaris `intf_loop` compares with the first entry instead of the one before, and hands interfaces out again (intf.c:1030) |
| LibraryNumbers.cfg | MCLibrary | ipfw's and the Windows service's numbers are stale when others change the rules: another rule is deleted (fw-ipfw.c:257, fw-pktfilter.c:398) |
| LibraryBusy.cfg | MCLibrary | when the last devices are busy, `tun_open` fails with a changed interface left behind (tun-bsd.c:58) |
| LibraryMeddled.cfg | MCLibrary | on Linux, an alias that another process adds between `intf_set`'s look at the interface and "Delete any existing aliases" (intf.c:309) leaves a gap in the numbers, and every later `intf_set` deletes too few |
| LibraryDocs.cfg (with `-continue`) | MCLibrary | `LoopsEndWell`: `route_loop` ends well though a file of /proc could not be read (route-linux.c:232), against dnet.3:861; `EthGets`: `eth_get` of a DLPI handle delivers an earlier request's answer (eth-dlpi.c:65), against dnet.3:489; `EthSends`: unit data goes to another destination than the frame's (eth-dlpi.c:244), against dnet.3:497; `IntfSets`: an alias whose deletion was refused, or that is hidden, is left by an `intf_set` that succeeds (intf.c:233), against intf.c:309; `TunsClose`: descriptor 0 stays open (tun-linux.c:109), against dnet.3:801 |
| LibraryHeaders.cfg | MCLibrary | `ip_pack_hdr`, `ip6_pack_hdr` and `tcp_pack_hdr` put words together that are right on big-endian hosts only (ip.h:415, ip6.h:166, tcp.h:177), against python/test.py:198 |

### Bounds, and why they are enough

* Blob: allocations up to 5 bytes with chunks of 2 and 4, a NUL and one other
  byte, buffers up to 2 bytes, five formats that use each conversion.  Growth
  by zero, one and two chunks, an allocator that refuses, full and nearly full
  allocations and formats that fail at either directive all occur.
* BsdRouting: two handles, one destination and its network, two link-level
  addresses or one gateway, three requests a handle (`MaxSeq`: a call of two
  requests and another after it, so that left-over replies are met), one change
  of the kernel's own (`MaxNews`), one system call that fails (`MaxFaults`), at any step.  `QueueMax` = 12 is more than all messages of a
  behaviour, so nothing is dropped; BsdDropped sets it to 1.
* RouteLinux: two handles, a destination and the default route, two gateways,
  three lookups (`MaxSeq`), one interruption per handle (`MaxCuts`): an answer left
  behind, the lookup that meets it, and one on the other handle.  Handles and
  gateways are symmetric.
* IpCooked: two Ethernet interfaces and one that is not, an attached host whose
  table may also send it through a router, a router, a host beyond it; MTUs of
  28 and 36 with a header of 20 stand for whole numbers of eight-octet words, so
  that datagrams of 28 and 57 go as one, three and five frames, the last
  one shorter.  `Mtu > Hl` is ETH_LEN_MIN = 64 in `_add_ip_intf` (ip-cooked.c:49)
  against a header of at most 60.  ip_fragment's MTU of 32 leaves 12 octets, as
  1006 leaves 986.

* Library: tables of two entries of six kinds, with one change while a loop runs, so
  that an entry may come, go or move at any step; rules of four protocols with
  ports and ICMP octets 0 to 3, `Top` = 3 standing for the largest of each, and two
  calls; an interface with an address, up to two aliases and entries that set both, with
  others who change it once at any step (on BSD, `Meddled`) or between two calls (on Linux), any ioctl refused,
  and an address that an entry's memory held before which is one alias's and not another's (`Stale`);
  tunnels with two free devices after a busy one, the first of which may be configured
  already, in a process that has standard input open or not (`Zeros`); three cards, one of which is no Ethernet, and five destinations of three bits
  that contain one another; four adapters, one of
  which comes later; addresses whose octets are 0, 255 and others, with prefixes
  at 0, 1, 9, 24, 31, 32, 64 and all bits, and every pattern of zero words of IPv6;
  sums whose last word takes every value for UDP, so that 0 occurs; `Base` = 16 with
  lengths that make no sum negative (in library_sum 34 stands for TCP's 122, and
  23 for UDP's 111);
  a permutation of four; two Python objects of any two classes, four calls and
  loops two deep, which let a callback open, close and loop again.

### Fairness

* BsdRouting: weak fairness of each handle's `Step`: its thread runs, write(2)
  returns, and read(2) returns when the socket holds a message.  Nothing is
  assumed of the client, of other messages, of the kernel's own changes, or of system calls
  that fail (`WriteFails`, `ReadFails` and `NameFails` are no part of `Step`).
  `CallsReturn` holds only because no reply is dropped.
* IpCooked: weak fairness of `Sending`, the steps of the calling thread.  The
  network need never answer; usleep returns.  arp_get and route_get are taken
  to return, which is `CallsReturn` above.
* Library's parts have none: their calls are finite chains of the kernel's calls,
  each of which returns, and no part waits for another.
* Blob and RouteLinux have no liveness property: blob's calls are single steps
  or walk a finite format, and a lookup waits for an answer the kernel has
  already queued.

Deadlock is checked for IpCooked.  Blob stops at a fault, and BsdRouting,
RouteLinux and Library stop when their bounds are used up, so their configurations say
`CHECK_DEADLOCK FALSE`.

## 5. Proofs

Every theorem holds for all values of the constants that satisfy the modules' named
assumptions, so for any number of handles, tables of any length, any number of calls
and of changes by others.  The last column has what is assumed beyond that.

| Theorem | Establishes | Assuming |
|---|---|---|
| `BlobProofs!CarefulTypes`, `CarefulCursorInside`, `CarefulSeesNoJunk`, `CarefulSafe` | `CarefulSpec => []` of `TypeOK`, `CursorInside`, `NoJunkBelowEnd`, `NeverFaults` | |
| `BlobTextProofs!CarefulImplementsText` | `CarefulSpec => ImplementsText`, which is `BlobAbs!Spec` under the mapping | |
| `BlobTextProofs!FixedBytesStay` | `Spec => FixedStays`, for any client | |
| `BlobTextProofs!CarefulIsAny` | `CarefulSpec => Spec` | |
| `BsdRoutingProofs!CallsTypes`, `RepliesAreMine`, `GetsAreTrue`, `SuccessesHappened`, `FailuresChangedNothing`, `FailuresAreTrue` | `Spec => []` of `TypeOK`, `ReplyIsMine`, `GetIsTrue`, `SuccessHappened`, `FailureChangedNothing`, `FailureIsTrue` | `OwnProcess` |
| `RouteLinuxProofs!LookupsTypes`, `LookupsTellTheTruth`, `FailuresTellTheTruth`, `BacklogGrowsByCuts` | `Spec => []` of `TypeOK`, `GetIsTrue`, `FailureIsTrue`, `BacklogIsCuts` | |
| `IpCookedProofs!Types`, `ListIntactAlways`, `NothingLeaksEver`, `UnicastGoesToNextHop`, `BroadcastComesLast` | `Spec => []` of `TypeOK`, `ListIntact`, `NothingLeaks`, `UnicastToNextHop`, `BroadcastIsLastResort` | |
| `IpCookedProofs!SuccessIsDeliveryOfAll` | `Spec => []SuccessIsDelivery` | `EightOctets` |
| `OwnStateProofs!HandlesStaySafe`, `LibraryProofs!HandlesSafeAlways` | `PySpec => []PyHandlesSafe`, and `LibSpec => []HandlesSafe` | |
| `LibraryProofs!LoopsTellTruthAlways` | `LibSpec => []LoopsTellTruth` | `StreamsRunOut` |
| `LibraryProofs!LoopsHandOnceAlways` | `LibSpec => []LoopsHandOnce` | `StreamsRunOut`, `ComparesPrevious`, `RoomForAll` |
| `LibraryProofs!FwDeletesAlways` | `LibSpec => []FwDeletes` | `NotContended` |
| `LibraryProofs!TablesTellAlways` | `LibSpec => []TablesTell` | |
| `LibraryProofs!EthTellsAlways` | `LibSpec => []EthTells` | `NoPrefixes` |
| `LibraryProofs!SumsVerifyAlways` | `LibSpec => []SumsVerify` | `SumsFit` |
| `LibraryProofs!OptionsKeepAlways` | `LibSpec => []OptionsKeep` | `OneOctet` |
| `LibraryProofs!NamesKeepAlways`, `RandsRepeatAlways` | `LibSpec => []` of `NamesKeep`, `RandsRepeat` | |

Four of the properties say under which conditions they hold, because the code promises no more:
`GetIsTrue` leaves out a `route_get` whose read failed; `FailureChangedNothing` calls that repeated a
request or whose read failed; `FailureIsTrue` calls one of whose system calls failed for a reason
of its own; `LoopsHandOnce` the lists whose reading failed unseen (`lsCut`).  `EthTells` asks for less
once a message came before an answer.

The assumptions are where the code's promise ends:

* `OwnProcess`, no two handles in one process: replies are told apart by process id and
  a number each handle counts for itself.  Run bsd_one_process is the
  counterexample without it.
* `EightOctets`, an interface's MTU less the header is a multiple of eight: fragment offsets
  count eight octets, and the code does not round down.  Run ip_fragment is
  the counterexample.
* `StreamsRunOut`, a loop over a stream is let finish: what is left in the stream is
  read by the next one (LibraryStreams.cfg).
* `ComparesPrevious`, the loop over SIOCGLIFCONF is not among the loops: it compares a name with
  the first one copied, not with the one before (LibraryLifconf.cfg).
* `RoomForAll`, a list never outgrows a buffer of fixed size: of a longer one arp-ioctl.c,
  intf.c and route-hpux.c's loops see only the beginning.
* `NotContended`, nobody else changes rules that ipfw or the Windows service deletes by a
  number read before (LibraryNumbers.cfg).
* `NoPrefixes`, no BSD device's name begins with another's: eth-bsd.c compares names as
  far as the shorter one goes (eth-bsd.c:123).
* `SumsFit`, an int holds the whole sum: htonl of a length may be negative where words have
  their low octet first, and then the checksum comes out wrong (LibrarySum.cfg); a segment
  is shorter than 2^16 - 58 octets; and an ICMP packet comes to ip_checksum with no checksum in it, since
  icmp_checksum does not clear the field (ip-util.c:124).
* `OneOctet`, an option that is a type alone is given the length 1, as the
  protocols define it: ip_add_option reckons its padding with the length it is given
  (ip-util.c:65) and then copies one octet (ip-util.c:76).
* `KnownAssumption` and `TablesAssumption` of `Tables` describe the kernel's tables at the
  start: ARP entries are at Ethernet interfaces, one for an address at each;
  networks are cut to their bits, with one route each.

*Blob.*  The invariant is the shape of the four fields (`BlobOK`) with the types of
the bookkeeping (`CallsOK`).  The step that needs work is growth: `blob_reserve`
raises `end` over fresh memory, so that `NoJunkBelowEnd` must be restored by the
same call's memcpy; lemmas state what `Realloc`, `Put` and `Move` preserve.  For the
refinement each action is brought to one lemma, `Splice`: what the text is when a
buffer takes the place of some of its bytes; writing, inserting and deleting are
cases of it, the steps inside a format change no text the client sees, and its end
is one step of `BlobAbs`.  `FixedStays` needs only that a fixed blob stays one (`Sane`).

*BsdRouting.*  None of the properties is inductive.  A handle's sequence number
only grows, so messages with its process id are no newer than its last request (`Fresh`);
one that carries that number was written since, and tells what the
table was while the call ran (`Truthful`).  `Asked`, `Changed` and `Untouched` tie the
request in progress to the call and to what it changed; `Results` is what the
properties say of a finished call.

*RouteLinux.*  `Numbered`: no answer in any socket is newer than the counter, and
one that carries its value is the answer to the lookup in progress.  `Newest`:
while recvmsg waits, that answer is the last in the socket.  `Watched`: what the
kernel would say now is in `seen`.  With `BacklogIsCuts` an uninterrupted socket
holds exactly that answer, which gives `FailureIsTrue`.

*IpCooked.*  `Kept` says that what is open is in the list or one of the four handles of
ip_open, and that the list has each interface that was added, once; moving to the
front keeps both (`MovesToFront`).  `Watched` and `Searched` say what the search has found
out at each of its steps: whom it looks for is the destination or a next hop, and
whom it asks for was not known; `Directed` carries that to the frames.  `Cut` and `Whole`
say how far the fragments have come: their octets are the first `at` of the datagram
(`Received = Through(at)`), only the last is without the more-fragments bit, and `at` is
a multiple of eight until then.

*Loops.*  What a call has copied or follows was in the table since it began
(`LsWasListed`); a ticket is good for as many rules as there were (`LsTicket`); what waits
in a stream is the rest of one answer whose next message is the one due (`LsAnswer`),
which is why the loop must run out.  That everything is handed over, once, needs to know how
far the call has come: some list `s` of the part being read, and a number `k` of
its entries that have been looked at (`LsWalk`).  `s` is what was copied, or what the list still is
if it is read bit by bit and nothing has changed; it holds every entry that stayed, those before
`k` that are wanted are covered, what was handed over comes from there, and what is copied
comes next.  `LsReach` says how each of the nine ways of reading knows its `k` (the position in a
file, a rule's successor, the number asked for, the message due in a stream), so that at a part's
end `k` is the length of `s`.

*Firewalls.*  Numbers rise along the list (`NumberedUp`), so that the rule a number is
read from is the rule it deletes; what a call has found out holds while
others leave the rules alone (`FwKnows`), down to the rules pf has compared so far.  That a rule
comes back from each filter's form is proved form by form.

*Tables.*  The shape of tables and call, what others may have changed, and what
the call has found (`TbKnows`): on networks that do not overlap the interface
`_arp_set_dev` finds is the one the kernel takes (`TbSought`).

*Ethernet.*  Descriptors belong to the handle (`EtDescriptors`), a handle to the device
asked for (`EtDevs`), and until a frame arrives or an answer is given up the DLPI stream
holds what the call waits for and nothing else (`EtAnswers`).  Whatever arrives, an address in the
stream is one the device has had (`EtPast`), which is what is left of eth_get's promise when the
wrong message is taken for its answer.

*PyHandles.*  A lemma brings each of the fifty methods to one of six forms (answer,
decline, open, free, loop, close), and one lemma per form keeps `PyInv`.  `PyHandlesSafe`
is not inductive: a loop's handle stays open only because no other object has it
and the loop's own object is not freed and no tunnel (`PyWalked`), and NULL is given
only after something was dropped because an object without a handle is unborn
otherwise (`PyOwned`).

*Checksums.*  A host whose words have their low octet first sums other numbers than the network
does: `Alike` says that they are the same but for a factor `Base` and multiples of `WordBase` - 1, which
is kept by addition (`AlikeAdds`) and holds of one word (`WordAlike`), hence of any sequence of them, odd
or even (`HostSums`), and of the protocol and length as a number of two octets or of four (`NumberAlike`).  No
sum wraps around (`IntKeeps`), so each of the code's ways of adding comes to one sum (`Totals`); what
`ip_cksum_carry` makes of it completes it to a multiple of `WordBase` - 1 (`Carried`), and so does the
network's sum (`Completes`).  `SuInv` keeps the sum's bound when a checksum has been stored, which changes only
the field (`NetSumPut`).

*Options, names, random numbers.*  `OpInv` says where in the packet the TCP header and the
payload begin, as the two length fields have it.  `WnInv` says that a name's number is the first place
of its adapter in its combo, and adding adapters only lengthens combos (`Longer`).
`RnInv` says that a generator's state is what replaying its calls since rand_set
gives (`RnReplays`), that each state maps onto all bytes, and the array onto its members;
swapping keeps both.

A recursive function of this development can be reasoned about: `LeastNatural` is taken
from the library's well-founded orders, `UpTo` is induction over it up to a bound,
`Recursion` gives a function that is defined step by step its equation, and `Follows`
carries a property along.  In that way `WinNames`, `Rand`, `SumUp` of `IpUtil` and the loops' and filters' searches
(`MinHolds` for `SelectInSeq`) are proved for every length.

Only model-checked:

* liveness under fairness (`CallsReturn`, `SendReturns`), which TLAPS cannot do;
* `RoundTrip` of `Blob`, which relates two formats octet by octet;
* `TunsUndone` and `IntfShows`: their invariants would have to follow an interface through every
  step of `intf_get` and `intf_set` and every refusal that is passed over;
* `AddrsConvert` and `DataKeep`: conversions fold over their octets by the
  library's folds, about which its theorems need operators for parameters;
* `LibTypeOK`, the types of thirteen parts: the invariants above contain most of them.

## 6. Met while modelling

Where a property of `Library` has a condition, it is because the code behaves
otherwise without it.  These places are worth a maintainer's look; the ones above in
section 4 have a trace.

* arp-bsd.c: a call whose read a signal interrupts returns -1 although the kernel may have made
  the change, and its reply waits for the next call (arp-bsd.c:102).
* fw-ipchains.c: a line that does not parse, or a read that fails, ends the loop with 0
  (fw-ipchains.c:183).
* fw-*.c: pktfilter drops ICMP codes, its comparison being the wrong way round
  (fw-pktfilter.c:106); ipf puts an ICMP word together in the host's order
  (fw-ipf.c:78, 163); ipfw loses ICMP codes (fw-ipfw.c:106) and takes port 0 for any;
  pf's type 255 becomes 0 (fw-pf.c:92).
* intf.c: what an entry held before can hide an alias on an interface without
  an address (intf.c:735); an `intf_set` that fails halfway leaves the interface
  stripped; `intf_get_src` may copy a truncated entry (intf.c:853); on Linux aliases are
  deleted by counting, so those behind a gap in the numbers stay (intf.c:224); what the ioctls that delete
  return is ignored (intf.c:188, 214, 233); `intf_set`'s buffer is not initialised before `intf_get` reads
  into it (intf.c:300), and what it held hides an alias from deletion.
* tun-*.c: a descriptor leaks when `intf_get` fails (tun-bsd.c:58), and the device is then busy for
  every later `tun_open` of the process; aliases of a device's interface are not put back; the route
  is added even after a failed `intf_set` and never removed; ifconfig's status is ignored
  (tun-solaris.c:77).
* Tables: the first network that covers an address is taken, not the longest;
  `arp_add` on a streams system may return -1 after it added.
* ip-win32.c: a datagram is sent to its source (ip-win32.c:56).
* eth-*.c: the answer is looked at before its length (eth-dlpi.c:65); closing a half-opened
  handle closes descriptor 0 (eth-pfilt.c:82); eth-ndd.c's `eth_get` always fails.
* intf-win32.c: the table of adapters is lost with every refresh.
* addr.c: "1.2.3.4/" is read as /0; the bits of an IPv6 mask are added to a sockaddr's
  length (`addr_btos`); `addr_net` and `addr_bcast` ignore a failing `addr_btom`.
* ip-util.c: a one-octet option with padding for more is misplaced; `ip_cksum_add` of
  one octet drops the sum so far; `icmp_checksum` adds the field it sets.  ip_checksum is
  called with two arguments (ip-cooked.c:203) and declared with three (ip.h:450).
* rand.c: the last element is never drawn as a partner (`rand_shuffle`); a seed of no octets
  divides by zero.
* python/dnet.c: an answer that is a multiple of 2^32 is cut to 0; `__iter__` returns a list
  however its loop ended; a second `__init__` loses the first handle; NULL is given
  to the library after `tun.close`.  With 32-bit longs the iterator over a network
  that ends at 255.255.255.255 has no end; `hash` mixes all octets while `cmp` compares the
  prefix.

## 7. Not modelled

* Prefix lengths, and IPv6 beside IPv4, in `BsdRouting`, `RouteLinux`, `IpCooked` and `Intf`.
* Two threads in one handle, or two threads that race on route-linux.c's static
  counter: the library makes no promise for them.
* Allocation that fails, except in `Blob`, and `route_open` failing inside
  `tun_open`; connect and getsockname of `intf_get_dst`, which say for which address it looks.
* What the resolver makes of four raw octets that could be a host's name (dnet.pyx:445); other processes
  between the reading and the setting of an interface's flags.
* SCTP's CRC; the header macros other than those the Python binding packs with; eth-win32.c;
  the three checksum functions of python/dnet.c (1028-1178) and its reference counts,
  which Pyrex generates.
* The components marked `not_modelled` in `PROJECT.json`, with the reason there:
  generated, third-party and example code, and the command-line tool.

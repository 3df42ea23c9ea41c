# A verification project for libsponge and webget

TLA+ specifications of the networking support library in `src/libsponge` and of
the application `src/apps/webget.cc`, the TLC configurations that check them on
small instances, and TLAPS proofs of the results that hold for every instance.

## 1. The system

| Component | State | Operations | Interacts with |
|---|---|---|---|
| `ByteStream` (byte_stream.{hh,cc}) | deque, capacity, two `size_t` counters, end and error flags | `write`, `read`, `peek_output`, `pop_output`, `end_input`, `set_error`, accessors | a writer and a reader that call it in turn |
| `FileDescriptor` / `FDWrapper` (util/file_descriptor.{hh,cc}) | shared wrapper with a number, `_eof`, `_closed`, read and write counts | construct, `duplicate`, move, destroy, `close`, `read`, `write`, `set_blocking` | kernel descriptor table; every socket; `EventLoop` reads its flags and counts |
| `BufferViewList`, `BufferList`, `Buffer` (util/buffer.{hh,cc}) | lists of views or of reference-counted strings, each with an offset | `append`, `remove_prefix`, `size`, `as_iovecs`, `concatenate`, conversions | `FileDescriptor::write`, `UDPSocket::sendto`, `NetParser` |
| `EventLoop` (util/eventloop.{hh,cc}) | list of rules (descriptor, direction, three callbacks) | `add_rule`, `wait_next_event` | poll(2), application callbacks, `FileDescriptor` flags |
| `Socket` family (util/socket.{hh,cc}), `TunTapFD` (util/tun.{hh,cc}) | the `FileDescriptor` it is | constructors, `bind`, `connect`, `listen`, `accept`, `shutdown`, `recv`, `sendto`, `send`, options | kernel sockets, `Address`, `FileDescriptor` |
| `webget` (apps/webget.cc) | one `TCPSocket` | `get_URL`, `main` | `TCPSocket`, an HTTP server |
| `NetParser`, `NetUnparser` (util/parser.{hh,cc}) | a `Buffer` and a sticky error | `u8/u16/u32`, `remove_prefix` | `Buffer` |
| `InternetChecksum` (util/util.{hh,cc}) | 32-bit sum and a parity | `add`, `value` | - |
| `Address` (util/address.{hh,cc}) | the bytes of a sockaddr and their number | conversions, comparison, name resolution | sockets, the C library |
| `SystemCall`, hexdump, clock, random seed (util/util.{hh,cc}) | none | error checking, printing | kernel |

The code is single-threaded.  What is hard in it comes from elsewhere: the
kernel acts between any two system calls (partial reads and writes, hangups,
errors, reuse of descriptor numbers); callbacks change the very objects a loop
is walking; the two ends of a stream depend on each other to make progress;
counters and sizes are unsigned and wrap; and any system call may throw half
way through an operation.  `PROJECT.json` lists these hazards line by line with
the properties that cover them.

What makes each component correct:

* `ByteStream`: bounded, in order, exactly once, truthful counters, `eof()`
  neither early nor never.
* `FileDescriptor`: every number is closed once, by its owner, when the last
  handle goes; `_closed` is truthful.
* `write()` over a view list: every byte once, whatever ::writev() takes.
* `BufferList`: it is the string a program would otherwise have copied, and it
  lets go of what was discarded.
* Derived classes of `FileDescriptor`: an object is of its kind, on every path
  into it, and a constructor that throws leaves nothing behind.
* `UDPSocket`: whole datagrams, true sources, and counts `EventLoop` can use.
* `NetParser` and `InternetChecksum`: what arrived, or a lasting error; damage
  shows.
* `EventLoop`: rules and poll results stay paired; each ready rule is called;
  no data is abandoned; finished rules go; nobody starves; the result code
  means what it says.
* `webget`: success means that all that came was printed; it ends.  (That its
  socket is released is `FileDescriptor`'s and `Sockets`' matter.)

## 2. Modules

| Module | Models | Abstracts |
|---|---|---|
| `StreamContract` | what byte_stream.hh promises, without a buffer: all bytes accepted so far, a cursor, and an end after which none are | - |
| `ByteStream` | `class ByteStream`, one action per operation | `size_t` has `SizeMod` values instead of 2^64; two history variables record what was accepted and consumed |
| `StreamTransfer` | `ByteStream` with a writer that offers its message in pieces and a reader that stops at `eof()` | the two clients are external |
| `FileDescriptor` | handles, wrappers and the kernel's number table | contents of files; `unsigned` counts have `CountMod` values |
| `Sockets` | `Socket` and its subclasses, `TunTapFD`: extends `FileDescriptor` with what their constructors, `accept`, `connect`, `listen` and `shutdown` do | addresses and data |
| `Buffer`, `BufferList` | the classes of that name over a heap of shared strings | - |
| `GatherWrite` | `FileDescriptor::write` with `BufferViewList`, one step per ::writev() or per iteration of `remove_prefix` | - |
| `SendQueue` | composes `BufferList` and `GatherWrite`: a sender with a queue | the sender is external |
| `Octets`, `InternetChecksum`, `NetParser` | the classes of that name, and `NetUnparser` | a byte has `ByteMod` values instead of 2^8, the sum the fourth power instead of 2^32 |
| `Segment` | composes them with `Buffer`: build, seal, receive, verify, parse | sender, network and receiver are external |
| `Address`, `UDPSocket` | the classes of that name, over a network and kernel queues | an IPv4 address has two scaled bytes, `sin_zero` one; payload bytes are the datagram's number; counts have `CountMod` values |
| `EventLoop` | `add_rule` and `wait_next_event`, one step per iteration of either loop | callbacks do what is said below and no more; a service count is whether the callback serviced its descriptor; a descriptor number is its wrapper |
| `Webget` | `get_URL` and `main`, one step per system call | request bytes are counted, response bytes numbered; text of the request |
| `MC*` | instances for TLC | - |
| `ByteStreamProofs`, `FileDescriptorProofs`, `SocketsProofs`, `SendQueueProofs`, `SegmentProofs`, `UDPSocketProofs`, `EventLoopProofs`, `WebgetProofs` | theorems | - |

Names follow the source; members lose their leading underscore.  Operators
called `X_Something` in front of a definition `X` are deliberate variants of it
(a dropped guard, an off-by-one); none is used by a specification.  Each one
breaks a property of a run (`mutants` in `PROJECT.json`), which shows that the
property depends on that part of the code.

**ByteStream.** `written` and `consumed` are histories.  `write` takes
`AcceptedLen(data)` bytes; as in the code it does not look at `isInputEnded`, so
`Spec`, whose callers may do anything, does not keep the contract's promise that
the end is final (`stream_after_end`).  The clients of `StreamTransfer` write
nothing after `end_input()`; with them it is kept.
`read` copies with `peek_output` and then pops, as two separate clamps of the
length.

**FileDescriptor.** `internal_fd` is the `shared_ptr` in each handle.  Losing
the last handle runs `DestroyWrapper` in the same step.  ::close() succeeds,
fails after releasing the number (Linux does so for EINTR and EIO, allowed when
`CloseMayFail`), or fails with EBADF.  `CarefulClient` says whether callers stop
using a handle whose `closed()` is true; the class itself enforces nothing.
`Other` stands for code of the process that opens numbers without this class.
A constructor given -1 throws and makes no wrapper, so it is no action.

**Sockets.**  The kernel gets a kind (`<<domain, type>>`) and a state for every
number.  A constructor with a body is two steps, because the number is open and
the base object complete when the body runs: `call` holds the one in progress,
and `Unwind` is the destruction of the base when the body throws.  `accept`
registers its read first and then blocks, fails, or goes through the same
verification as an adopted descriptor.  `Class` gives every variable its static
type; a move or `duplicate()` goes only where C++ lets it.  `SockTypeOK` is the
type invariant of both modules.

**Buffer, BufferList, SendQueue.**  A `Buffer` is a place on the `heap` and an
offset; `Heap` frees the places no list refers to, as the last `shared_ptr`
does.  `text` is what plain strings would hold.  `BufferList::remove_prefix`
and `write()` run iteration by iteration.  The sender of `SendQueue` discards
what `write()` returned; after a throw it retries only a write of one round.

**Segment.**  The checksum field comes first and is zero until `Seal`; `initial`
is the `uint32_t` the constructor takes, the pseudo-header's sum for instance,
folded or not: any value of the sum.  The sum has no room for a carry out of its
32 bits, so what is said of the checksum is conditioned on `SumFits(initial, n)`:
the initial sum and n bytes cannot reach 2^32, whatever the bytes are.  The
receiver may add its bytes in pieces of any size, and calls the parser in any
order with any widths.  Callers report errors with `set_error`; nobody passes it
NoError, which would clear one.

**UDPSocket.**  `rcvq` and `pending` are the kernel's receive queue and its
pending ICMP error, which the next call reports instead of doing its work.  With
MSG_TRUNC ::recvfrom() takes the datagram, fills what fits and returns the full
length, so `Recv` of a long one has changed the storage and the queue when it
throws.  `RecvThrows` is a ::recvfrom() that fails, with the pending error or with
EAGAIN or EINTR when nothing is queued; the storage has been resized by then.
`NewStorage` followed by `Recv` is `recv(mtu)`.  Datagrams that are lost are those
never delivered.  `sin_zero` takes part in the comparison of addresses; that the
kernel and `getaddrinfo()` set it to zero is taken from them.

**EventLoop.** `pc` is the part of `wait_next_event` in progress; its local
variables are cleared on return.  The environment moves only while the call is
in poll(2) or walks the results, since nothing inspects the kernel at other
times.  A callback may move one byte on its own descriptor, close one descriptor,
change any rule's interest, and (with `ReentrantAdd`) add a rule; a read or write
that cannot proceed throws.  A cancel callback may close one descriptor and (with
`CancelWakes`) make rules interested; that it may also read, write or add rules is
left out.  So is a callback that services other descriptors, and `_eof` set by an
empty datagram: descriptors are streams here.  Reading `pollfds` beyond its end
may give any entry.

**Webget.** The server is an HTTP/1.1 server that may keep the connection until
it sees FIN, and may answer or close at any time before, short of its response
too; the code cannot tell, since it does not read Content-Length.  The connection
may be reset at any moment after it was made; SIGPIPE kills the process, and so
does the abort() for an empty argument list.  `printed` is what `cout` was given:
the code does not look whether stdout took it.

## 3. Runs

| Run | Instance | Shows |
|---|---|---|
| `stream` | every message of up to 6 bytes of 2 values, in any pieces, capacity 2, `SizeMod` 4 | flow control, order, counters through a wrap, refinement of `StreamContract`, `eof()` exactly at the end, and always reached |
| `stream_after_end` | callers that call anything at any time | bytes are accepted after `end_input()`, against byte_stream.hh:10-11 |
| `sockets` | a plain descriptor, a UDP and two TCP sockets and a device on 2 wrappers and 2 numbers, `CountMod` 2, careful callers | valid numbers, truthful `_closed`, nothing leaks, nobody closes another's number, objects of their kind, refinement of `FileDescriptor` |
| `fd_close_fails` | 3 plain handles, careful callers, failing ::close() | `_closed` is false for a number that is gone, against file_descriptor.hh:19 |
| `send_queue` | a queue and another list, 3 places, strings of 0 to 2 bytes, 3 bytes to send | lists are strings, spent storage is freed, no byte lost or repeated, honest result, every byte sent once, termination |
| `segment` | segments of 2 to 8 bytes, `ByteMod` 2, every initial sum, one byte changed or any cut | where the sum has room: the checksum is that of RFC 1071, intact ones verify, changed ones do not; always: the parser returns what arrived and its error lasts |
| `udp` | 2 sockets, 2 endpoints, `mtu` 1, two datagrams of 1 or 2 bytes, the first duplicated, `CountMod` 2 | whole datagrams with their true source, queues drain, counts tell what was done |
| `loop_duplex` | a reading and a writing rule on one descriptor, one queued byte, waking cancels, fair | pairing, completeness, no abandoned data, retirement, no starvation |
| `loop_relay` | the two rules on two descriptors, failing polls, cancels that wake no rule | no abandoned data, and Exit leaves no interested rule |
| `loop_idle_success` | two descriptors | Success with nothing triggered, against eventloop.hh:44 |
| `loop_reentrant` | callbacks that add rules | a rule without a pollfd, against eventloop.cc:66 |
| `webget` | request of 4, response of up to 5, rooms of 3 | all that was sent is printed, half-close after the request, termination |

The four runs that end in a violation are disagreements between code and
documentation (`findings` in `PROJECT.json`).  The models contain more of them,
which no run is spent on:

* Started from an initial sum near 2^32, or on more than 128 KiB, the checksum
  loses a carry, and a segment that arrives intact may not verify (util.cc:78 says
  "the return value will be 0" of any correct one).  The run `segment` contains
  such sums; its properties say what holds below them.
* A poll(2) error other than EINTR is dropped and ends in Result::Success
  (eventloop.cc:46 says it throws).
* After `recv()` has thrown for a long datagram, the caller's storage holds its
  first bytes beside the source address of an earlier one.
* `accept()` counts a read before it is known whether there was one.
* With `write_all`, a `write()` that throws in a later round has sent bytes and
  cannot say how many.
* `_check_size` replaces an earlier error by PacketTooShort.

And two that the models leave out: `BufferList::append` of a list to itself
walks a deque it is growing, and `as_string(ParseResult::Unsupported)` reads
past its table of names.

*Bounds.*  Two byte values suffice to tell order; offers longer than the
capacity make a write fit, fit in part and not fit; with `SizeMod` 4 both
counters wrap in 6 bytes.  Two wrappers and `Other` on two numbers are what a
reuse needs (one to lose the number, one to get it); a plain handle can share
the wrapper of a socket, and two TCP sockets are what accept() needs.  Three
places let a list keep two Buffers while another is made, and three bytes make a
write end before, inside and at the end of a Buffer.  Eight scaled bytes are as
many as the scaled sum takes without wrapping from a one-word initial sum (which
stands for 128 KiB), reach every carry, and hold a field of each width; all 16
initial sums are tried, so the sum also wraps.  Two datagrams and a copy fill a
queue of two, arrive in either order, and leave storage from one in place for the
other; one fits the storage and one does not, and the counts wrap.  Empty
datagrams and other values of `mtu` are left to the proofs.  Two rules are what one erasure
needs to misalign the loops.  One queued byte tells "data left" from "none".
Rooms smaller than the messages make writes and reads partial.

*Deadlock checking* is off where the system stops: an
application that got `Result::Exit`, a sender that gave up or has sent all, two
UDP sockets whose datagrams are spent, an ended process.

*Fairness.*  `StreamTransfer`: each client is a loop that keeps calling.
`SendQueue`: the loops of `write()` run on and a blocking ::writev() returns;
the sender owes nothing.  `UDPSocket`: a receiver keeps calling `recv()`; the
network owes nothing.  `EventLoop`:
the application keeps calling after Success and Timeout (not after a throw),
callbacks return, and poll(2) returns once a descriptor is ready; it need not
time out, and nothing in the environment is fair.  `Webget`: the client's calls
return when they can, the connection delivers, and the server closes once it has
seen FIN; that it answers, closes earlier or resets is never assumed.

## 4. Proofs

Every invariant, every action property and both refinements that a passing run
checks are also theorems, for every value of the constants; `theorems` in
`PROJECT.json` lists them.  Each rests on an inductive invariant, which TLC
checked on the run's instance before it was proved.

`ByteStreamProofs` (every set of bytes, every capacity, every width of
`size_t`): `FlowControl`, `Delivery` and `Counters`, for any callers and for the
clients of `StreamTransfer`, and `Refinement` (`TransferSpec =>
ImplementsContract`), which needs the clients: nothing is accepted after the end
because nothing is left to offer.  The inductive invariant is type
correctness, `Len(buffer) <= Capacity`, `InOrderDelivery`, and what the two
counters mean modulo `SizeMod`.  `Accounting` is not inductive as it stands: that
the difference of two wrapped counters is the buffer's size follows from the
delivery equation and from the bound, by a small theory of remainders
(`RemainderUnique`, `ModShift`, `ModTotals`).  `TransferComplete` adds the two
clients of `StreamTransfer`, for messages and reads of any length:
`EofMeansComplete` is not inductive, it needs `Prefix`: what was accepted is a
prefix of the message, and all of it once `end_input()` was called.

`FileDescriptorProofs` (any number of handles, wrappers and numbers):
`TypeCorrect`; `NothingLeaks`, without any assumption on callers or on ::close();
and, for careful callers and a ::close() that works, `ClosedFlag` and the action
property `OwnNumbersOnly`.  `NoLeak` is strengthened by `Owned`: a number open
for a wrapper is that wrapper's `_fd`, the wrapper is not marked closed, and a
handle reaches it; otherwise ~FDWrapper() might skip the close or close another
number.  The run `sockets` has careful callers and a ::close() that works, so
for careless callers and for a failing ::close() `NoLeak` rests on the theorem
alone.

`SocketsProofs` (any number of variables of any class): `SocketsImplement`, that
`Sockets` implements `FileDescriptor`, with the identity as refinement mapping.
It needs `CallOK`, which says what object the call in progress works on, and
with it `SocketsTyped` (`SockTypeOK`) holds for callers of any kind.  The refinement
carries `NoLeak`, `ClosedFlagTruthful` and `NoForeignClose` over to the derived
classes (`SocketsLeakNothing`, `SocketsCloseOwn`).  `TypedObjects` (careful
callers, a ::close() that works) is a proof of its own.  `ObjectsAreTyped` is not
inductive: a number that is closed and opened again changes its kind, so one must
know that no open object still refers to it (`Holds`, from truthful flags and the
invariant of `FileDescriptorProofs`); and `AllTyped` adds that a device is never
a socket, or `connect()` might detach it.

`EventLoopProofs` (any number of rules and descriptors, the callbacks of section 2
that do not call `add_rule()`, failing polls included): `Pairing` (`Aligned`),
`AllReadyServed` (`ReadyServed`) and `NoReadPastPollfds`.  `Aligned` says
something of the results loop only; `Phases` extends it to the other parts of
the call: during setup the pollfds pushed so far match the rules passed so far,
and at poll(2) the two lists have one length.  `ReadyServed` needs `Served` as
well: what is due and not yet called lies ahead of the loop, what lies ahead and
is ready is due, and poll(2) reports of In and Out only what an entry asked for.
The proviso is necessary: the run `loop_reentrant` violates `EachRuleHasPollfd`
without it.  Under it also `TypeCorrect`, `DataIsRead` (`NoDataAbandoned`) and
`ExitIsFinal` (`ExitMeansDone`).  `NoDataAbandoned` needs `Drained`: a poll result
is a snapshot, and what it says of a descriptor that hung up stays true until the
results loop reaches it, while the kernel and the callbacks move on.
`ExitMeansDone` needs `Unwanted`, that a rule the first loop passed over without
interest has none still; this fails if a cancel callback wakes a rule already
passed over, so `ExitIsFinal` has the proviso that cancel callbacks wake no rule
(`~ CancelWakes`, the instance of `loop_relay`).

`SendQueueProofs` (any lists, places, strings, numbers of rounds, and cuts of a
write): `ListsAreStrings`, `StorageIsFreed`, `WriteLosesNothing`,
`WriteReturnsTheTruth`, `SentExactlyOnce`.  All of them speak of flattened lists,
so they take induction over data.  The library's induction theorems have an
operator as a parameter, which the provers here cannot instantiate; `Induction`
states the same for a set of naturals, from the well-foundedness of `<`, and
gives the algebra of `FlattenSeq` (its recursion has a solution, it distributes
over concatenation).  The invariant has three parts.  `ListInv`: `SameAsString`
holds because a Buffer with storage always has a byte of it left (`BuffersFit`,
or removing a prefix might stop at an empty one) and a place in use always has an
owner (`Owned`, or a new string might overwrite one still read).  `WriteInv`:
what the kernel took followed by what the views still cover is the payload, and
the counters agree with it (`Progress`).  `QueueInv`: the payload is the queue's
text, which stands still until the call is over, even when lists that share its
storage are edited meanwhile.

`SegmentProofs` (any size of a byte, segments of any length, added in any chunks,
any initial sum; for the first three, one that leaves room for the segment,
`SumFits`): `ChecksumIsRFC1071`, `IntactPasses`,
`DamageIsCaught`, `ParserInventsNothing`, `ErrorIsFinal`.  The loops of `add()`,
of the reference and of `_parse_int()` are folds; by the same `Induction` each
goes through its elements in order (`FoldAppend`, `FoldConcat`).  The loop of
`value()` computes a residue modulo `WordMod - 1` (`FoldedIs`, `FoldedUnique`), so
it does not matter when carries are folded in (`FoldedAdd`), nor whether the
initial sum was folded (`FoldedFirst`); and where `SumFits`, the sum does not wrap
(`BoundFits`): hence `SumIsReference`.  Filling in
the field makes the residue that of an intact segment (`SealMakes`), and one
changed byte moves it by less than `WordMod - 1` and not by 0 (`DamageShows`).
Fields survive being written and read (`UnparseParse`).  The invariant follows the
segment: sealed when sent, as sent or damaged when received, how much of it was
added, verified before it is parsed, and what the parser took and left.

`UDPSocketProofs` (any number of sockets, endpoints, datagrams and copies, any
`mtu`): `ReceivedIsTrue` (`WholeDatagramTrueSource`) and the action property
`CountsAreTrue` (`ServiceIsCounted`).  The invariant says that no two sockets
share an endpoint, that a queue holds only what was sent to its endpoint by the
source it names, and that storage from a `recv()` that returned holds one such
datagram.  The first is what lets `ServiceIsCounted` tell which socket sent a
datagram from the source it carries; that an unsigned count moves where it wraps
is `CountMoves`.  That an address survives the conversion to a `sockaddr` and back
is the lemma `SplitJoin`.

`WebgetProofs` (requests, responses and rooms of any size, a reset at any
moment): `TypeCorrect`, `SuccessPrintsAllSent`, `FinIsLast`.  The
invariant accounts for every request byte (left in `write()`, in flight or
received), numbers every response byte printed or in flight, and says what EOF
means: the server has closed and everything it sent is printed.

*Assumptions.*  Only those on the constants, in the modules that declare them;
TLC evaluates them in every run.  Those that say more than a type:
`BufferAssumption` (the null pointer is no place of storage),
`UDPSocketAssumption` (an address fits its two scaled bytes, and a count has two
values or more) and `ChecksumAssumption` (the sum is twice as wide as a word).

*Only model-checked.*  The liveness properties, since the prover does not do
fairness: `TransferCompletes`, `WriteEnds`, `QueueDrains`, `FinishedRuleRetired`,
`ReadyRuleNotStarved` and `Terminates`.  The four disagreements with the
documentation are counterexamples TLC found.

## 5. Not modelled

hexdump, `timestamp_ms` and random seeding print or read a clock.  `as_string`,
`to_string` and the error classes make text.  `set_reuseaddr` sets a kernel
option.  Name resolution is the C library's: an address or an exception.  IPv6
does not occur (every hint says AF_INET).  The data of TCP connections is
modelled in `Webget` only, for one connection.

## 6. Plan

1. Done: `ByteStream` with its contract and clients, `FileDescriptor`, `Sockets`,
   `Buffer`, `BufferList`, `GatherWrite`, `SendQueue`, `EventLoop`, `Webget`,
   `InternetChecksum`, `NetParser`, `Segment`, `Address`, `UDPSocket`; the safety of
   all of them proved, as far as the runs check it.
2. Proofs of what holds without the provisos: which rules keep their pollfd when a
   callback adds a rule, and what Exit still means when a cancel callback wakes one.
3. A composition of `EventLoop` with `ByteStream` in both directions, as a
   bidirectional copy would use them; no program of this repository does yet.

# Verification of the Minnow TCP/IP stack

TLA+ models of the TCP/IP stack of this repository (`src/`, `util/`, `apps/`), the
TLC configurations that check them on small instances, and theorems checked by
TLAPS. Every operator is translated from the C++ code and carries the name of the
method or member it stands for.

## 1. The system and its parts

A program that uses the stack owns a `CS144TCPSocket` or a `FullStackSocket`. Its
bytes pass through these parts:

    stdin, stdout  <->  bidirectional_stream_copy      (event loop, the owner's thread)
                                      |
                               socket pair (bytes, both ways)
                                      |
                             TCPMinnowSocket            (event loop, a thread)
                                      |
                                   TCPPeer
              outbound ByteStream --> TCPSender    --> segments
              inbound ByteStream  <-- Reassembler <-- TCPReceiver <-- segments
                                      |
                      adapter (TUN, or Ethernet)
                                      |
                              NetworkInterface  <-->  Ethernet  <-->  Router
                                                          (event loop, network thread)

| Part | State | Operations | What is hard |
|---|---|---|---|
| `ByteStream` (`src/src/byte_stream.*`) | buffer, two cumulative counters, `close_`, `error_`, `capacity_` | Writer: `push`, `close`, `set_error`; Reader: `peek`, `pop`, `read` | the counters and the buffer answer different questions and must agree; truncated pushes, refused pops; unsigned differences |
| `Wrap32` (`src/src/wrapping_integers.*`) | a 32-bit number | `wrap`, `unwrap`, `+` | the choice of the closest candidate near 0, at half the space, across a wrap |
| `Reassembler` (`src/src/reassembler.*`) | vectors `flag` and `buffer` from `base_index`, `unassembled_size`, `eof` | `insert`, `bytes_pending` | overlaps, repeats, both window edges, an unsigned length that wraps, when to close |
| `TCPReceiver` (`src/src/tcp_receiver.*`) | `isn`, `syn`, `fin` | `receive`, `send` | reordering, repetition, a FIN that overtakes data, the acknowledgment of the FIN |
| `TCPSender` (`src/src/tcp_sender.*`) | queue of messages to send, outstanding messages, sequence numbers, window size and space (16 bits), timer | `push`, `maybe_send`, `receive`, `tick`, `send_empty_message` | late, repeated, partial acknowledgments; zero windows; timeouts; the FIN at a window edge |
| `NetworkInterface` (`src/src/network_interface.*`) | learned addresses and queues of waiting datagrams, each with an age; frames to send | `send_datagram`, `recv_frame`, `tick`, `maybe_send` | crossing ARP messages, forgetting an address, repeating a request, releasing what waits once |
| `AsyncNetworkInterface`, `Router` (`src/src/router.*`) | interfaces, route table | `add_route`, `route` | longest match, time to live, direct and indirect next hops, loops |
| `TCPPeer` (`src/util/tcp_peer.hh`) | one sender, receiver, Reassembler, two streams, `need_send_` | `push`, `tick`, `receive`, `maybe_send`, `active` | when to answer, when the connection is over, resets |
| `TCPMinnowSocket` (`src/util/tcp_minnow_socket.*`) | a peer, outgoing segments, two shutdown flags, `_abort` | four rules of the event loop, `connect`, `listen_and_accept`, `wait_until_closed`, destructor | partial writes, full buffers on both sides, resets, two threads at shutdown |
| `TCPOverIPv4Adapter`, `LossyFdAdapter` (`src/util/`) | addresses of the connection, `listening` | wrap, unwrap, `read`, `write` | whose datagrams are let through while listening and after |
| `TCPOverIPv4OverEthernetAdapter` (`src/util/tuntap_adapter.*`), `NetworkInterfaceAdapter` (`src/apps/endtoend.cc`) | an interface, the next hop | `read`, `write`, `tick` | every frame the interface queues goes out with the call that queued it |
| `EventLoop` (`src/util/eventloop.*`) | rules | `add_rule`, `wait_next_event` | rules cancelled while they are walked, busy-wait detection, hangups |
| `bidirectional_stream_copy` (`src/apps/`) | two streams, two flags | four rules | both directions full, end of file in one |
| network thread of `endtoend.cc` | a router, two queues of frames | four rules | frames of both sides, the clock and the route in one round |
| `FileDescriptor`, `Socket`, TUN/TAP | descriptors, end-of-file and service counts | system calls | partial reads and writes |
| headers, parser, checksum, addresses | none | encoding and decoding | none that has state |

The parts of one thread interact by direct calls. A program has two threads. In
`tcp_ipv4.cc` the owner copies between the standard streams and a socket pair while
the thread of `TCPMinnowSocket` runs the `TCPPeer`; they share the socket pair and
`_abort`. In `endtoend.cc` a network thread runs the router, and shares a datagram
socket pair with the host's adapter. Concurrency comes from these threads, from the
network (loss, delay, repetition, reordering) and from the clock.

What makes each part correct:

- **ByteStream**: what is read is what was accepted, in order; the counters agree
  with the buffer; the end is final and is reached.
- **Wrap32**: `unwrap` is the closest preimage of `wrap`.
- **Reassembler**: a byte is written at its own place, as soon as it can be; what
  cannot be written even with every gap filled is not kept; no index leaves the
  vectors; the end comes with the last byte.
- **TCPReceiver**: nothing is acknowledged that did not arrive; neither edge of the
  window moves back; the Reassembler sees only what it can take.
- **TCPSender**: sequence numbers are used once; whatever the peer may miss is kept;
  the window is respected; the timer follows its rules; all is acknowledged in the end.
- **NetworkInterface**: a datagram goes once, to its next hop; requests are spaced;
  what waits is sent when the address is learned.
- **TCPPeer**, socket and copy: the bytes one application writes are the ones the
  other reads; it is told the end after the last of them; both programs finish, and
  neither is stopped by full buffers or by a false alarm of its event loop.
- **Router** and adapter: the longest match decides each step of a datagram's way; it
  exists once; the time to live ends every circle; what can be delivered is.

## 2. Modules

| Module | Models | Extends |
|---|---|---|
| `ByteStream` | the class, one operator per method, a record of its members | |
| `ByteStreamSpec`, `MCByteStream` | one stream between a writer and a reader | `ByteStream` |
| `OperatorLemmas` | what the operators of `ByteStream`, `Wrap32` and `Reassembler` preserve and return, for the proofs of all that call them | TLAPS |
| `BasicProofs` | the theorems of `ByteStreamSpec` and `WrappingIntegersSpec` | `OperatorLemmas` |
| `MachineIntegers`, `WrappingIntegers` | `uint64_t` arithmetic that wraps; `Wrap32` | |
| `WrappingIntegersSpec`, `MCWrappingIntegers` | a checkpoint that grows past several wraps | `WrappingIntegers` |
| `Reassembler` | `insert`, step by step | `ByteStream`, `MachineIntegers` |
| `ReassemblyContract` | the promise of `src/src/reassembler.hh:25-36` as a specification of its own | |
| `ReassemblerSpec`, `MCReassembler` | substrings in any order, a reading application | `Reassembler` |
| `TCPMessages` | the two messages of a segment | `WrappingIntegers`, `ByteStream` |
| `TCPReceiver`, `TCPReceiverSpec`, `MCTCPReceiver` | the receiver with its Reassembler and stream | `TCPMessages`, `Reassembler` |
| `TCPSender`, `TCPSenderSpec`, `MCTCPSender` | the sender with its stream against an abstract peer | `TCPMessages` |
| `NetworkInterface`, `NetworkInterfaceSpec`, `MCNetworkInterface` | several hosts on one Ethernet | |
| `ReassemblerProofs`, `TCPReceiverProofs`, `TCPSenderProofs` | lemmas and theorems of these parts | `OperatorLemmas` |
| `NetworkInterfaceProofs` | lemmas and theorems of the interface | TLAPS |
| `TCPPeer` | sender, receiver, Reassembler and both streams in one record | `TCPReceiver`, `TCPSender` |
| `EventLoop` | `wait_next_event`; what the rules do is given by operator constants | |
| `FileDescriptor` | the pipes that descriptors read and write | `ByteStream` |
| `TCPOverIPv4` | the adapter's addresses and the lossy one | |
| `TCPMinnowSocket` | the four rules of the socket, its loop and its thread's end | `TCPPeer`, `FileDescriptor`, `TCPOverIPv4`; an instance of `EventLoop` |
| `StreamCopy` | `bidirectional_stream_copy` | `FileDescriptor`; an instance of `EventLoop` |
| `ConnectionContract` | two reliable streams as the applications see them | |
| `ConnectionSpec`, `MCConnection` | two programs `tcp_ipv4.cc`, four threads, a network | `TCPMinnowSocket`, `StreamCopy` |
| `ConnectionProofs` | lemmas and theorem of the two programs | `ConnectionSpec`, `OperatorLemmas` |
| `Router` | `AsyncNetworkInterface` and `Router` | `NetworkInterface` |
| `RouterThread` | the network thread of `endtoend.cc` | `Router`; an instance of `EventLoop` |
| `EthernetAdapter` | the adapter that sends segments in frames | `NetworkInterface`, `TCPOverIPv4` |
| `EndToEndSpec`, `MCEndToEnd` | two programs `endtoend.cc`: two hosts, two routers | `RouterThread`, `EthernetAdapter` |
| `EndToEndProofs` | lemmas and theorems of the way through two routers | `EndToEndSpec`, TLAPS |

A component comes in two layers. The first has one operator per method on a record of
the class's members (`Push(s, data)`, `ReceiverReceive(r, message, ...)`); a method
that changes several objects returns a record of them. The second declares the
variables, and each of its actions is one call of a method by its caller with every
change it makes. So the composition of `TCPReceiver` with `Reassembler` and
`ByteStream` calls the same operators as the models of these parts.

Data are abstract: a byte is its index in the stream it belongs to, so that misplaced,
lost and repeated bytes are visible; datagrams and addresses are model values;
serialized payloads are the values themselves. Widths are parameters (`Word16`,
`Word32`, `Word64`), so that wraps happen within a few steps.

Definitions introduced by a comment "Mutated form of" are wrong on purpose. No
specification uses them: each one replaces the definition after it to see that a
property notices the difference.

### How the state corresponds to the code

- `ByteStream`: the fields have the members' names; `stream` is the vector. `read()`
  loops, but the first `peek()` returns all there is, so it is one pop.
- `Reassembler`: `flag` and `buffer` are one function on `0 .. size-1` that is `Empty`
  where `flag` is false. `Offsets` are the iterations of the store loops, with
  `WindowLength` the unsigned `len` of line 22 including its wrap; `Stored` is their
  effect, `Assembled` the counting loop, `Shifted` the erase and insert.
- `TCPReceiver`: `Synchronized` is the SYN's part, `OverlapsWindow` the test of lines
  39-40, `LastAck` the number computed twice, at lines 19-23 and 55-59.
- `TCPSender`: `PushSegments` runs the while loop to its end in one step, as no caller
  sees its middle. `PushSyn` takes one number off the window even if it carries a FIN.
  `abs_ackno_` is never read and left out. The network's view of a message is
  `Unwrap`ped from its 32-bit number, on the sender's and on the peer's side.
- `NetworkInterface`: the maps are functions to records with an `age`. Line 66 pushes
  to a copy, so the model's branch leaves the interface unchanged. Every type but IPv4
  is treated as ARP, as line 152 does. Frames whose payload does not parse are left
  out: they change nothing. Each action is one call of a method by the interface's
  owner; an owner that empties `maybe_send` at once, as the adapter does, is one of
  the orders covered.
- `EventLoop`: a call of `wait_next_event` is one step. `Pruned` is the walk that
  cancels rules and collects interests (lines 122-170), then `poll()`, then the
  callbacks in the order of the rules, each seeing what the ones before it did. Only
  the walk looks at the end of file of a descriptor (`Defunct`); the test after a
  callback asks whether it is closed, and no callback closes its own.
  `Defunct`, `Interest`, `Cancel`, `Callback`, `Idle`, `Pollable` and `Hup` are what a
  rule's functions and its descriptor contribute; the socket (`TcpLoop`), the copy
  (`CopyLoop`) and the network thread (`FrameLoop`) each give theirs. Nothing happens
  between `poll()` and a callback, because each descriptor has one reader in all the
  programs.
- `TCPMinnowSocket`: a record of the members with the two pipes of the socket pair and
  the datagrams of the device. A rule of the loop is a record of its name and
  direction. `LoopServes` is the loop's round up to the tick, `LoopTicks` the tick and
  what it sends, `ThreadEnd` what `tcp_main` does after its loop. `failed` tells which
  exception or signal ended the thread.
- `ConnectionSpec`: `owner` is where each owner is in `main` of `tcp_ipv4.cc`, and
  before the connection is open it runs the same loop that the thread runs after.
  `Destructs` is an exception in the owner. `setup` holds the sizes of the programs'
  buffers, chosen once; `reset` is a history variable.
- `Router`: addresses are numbers of `AddressBits` bits, `Mask` what `router.hh:65-67`
  computes, and `route` is the loop over the interfaces with what each holds.
- `EndToEndSpec`: `HostReads` and `HostWrites` are the calls that the socket's loop
  makes; the segments themselves come from `Outgoing`, as what a TCPPeer makes of them
  is the business of `ConnectionSpec`. `received` is a history variable.

## 3. Runs

Deadlock is not checked in any run: each system stops for good when the stream has
been delivered, the programs have ended, or the bounds of time and datagrams are used
up. Liveness properties
say that it does not stop earlier.

| Run | Bounds | Shows |
|---|---|---|
| `byte_stream` | capacity 3, pushes and pops up to 4, 10 bytes | all properties of `ByteStreamSpec`, with pushes that do not fit and pops of more than there is |
| `wrapping_integers` | `Word32` = 8, `Word64` = 256, checkpoints up to 40 | every isn, number and checkpoint over five wraps, with the unsigned underflow near 0 |
| `reassembler` | capacity 4, 8 bytes | every substring in every order; the contract as a refinement; delivery under fairness |
| `tcp_receiver` | window 3, 7 bytes, `Word32` = 8, `Word16` = 3 | segments of every cut; the sequence numbers wrap once, the window exceeds its field |
| `tcp_receiver_early_fin` | the same, without the restriction on the FIN | finding 1 |
| `tcp_sender` | segments of 2 bytes, buffer 2, 3 bytes, window up to 2, `Word32` = 16, isn 14, timeout 1 tick, 1 retransmission with backoff | SYN, zero window, probes, FIN at the edge, partial acknowledgments, wrap of sequence numbers |
| `tcp_sender_stale_ack` | the same with acknowledgments that may be overtaken | finding 2 |
| `network_interface` | 2 hosts, an address nobody has, 2 datagrams, 2 ticks each; lifetime 2, request interval 1 | all properties of `NetworkInterfaceSpec`; forgetting and asking again both happen |
| `network_interface_lost` | the same | finding 3 |
| `network_interface_requests` | 3 datagrams | finding 4 |
| `connection` | one of three setups: the client sends 2 bytes and the server none, through streams and windows of 2 bytes and a socket pair that holds 1 byte to the owner and 2 from it, with 1 fault (loss, delay, stray segment or destruction); or, without a fault, both send 2 bytes through copies of 2 bytes and all else of 1, or 2 and 1 bytes with 1 everywhere. 1 retransmission with backoff; isn 14 of `Word32` = 16 | the two programs implement two reliable streams, end, no loop takes an idle rule for a busy wait, and none writes to a pipe it has shut down unless it was reset (194,692 states, three minutes) |
| `end_to_end` | addresses of 4 bits, 2 routers, 2 segments of each host, `DefaultTtl` 3, mappings forgotten after 2 ticks, 2 ticks, 1 lost frame | datagrams stay on the way the routes prescribe, circles die out, what can arrive does (19,734 states) |

**Why the bounds are enough.** The stream is at least twice the window in the runs of
the Reassembler and the receiver, so the window slides completely and every offset is
used again; what the code does depends on differences to `base_index` only. With a
`Word32` of 8 or 16 half the sequence space still exceeds the window, which is what
the real sizes satisfy (a window of at most 65535 of 2^32). Two datagrams for two
addresses are the least that exercise a queue, a second request and an expiry in one
history; the third one is needed for a third request.

In `connection` the input is at least as long as every window, so the bytes meet full
socket pairs and full windows, and the client's sequence numbers wrap. What can go
wrong is tried with data in one direction; both programs run the same code. Data in
both directions at once is tried without a fault. With two bytes each way both windows
and both sockets to the owners are full in one state; with sizes of one everywhere
both streams of a copy are. The rules that could wait for each other there do not:
copying rules that stop when both streams are full violate `ImplementsContract`. (With
the sockets from the owners and the outbound streams full besides, it would take more
bytes each way.) The cases one wants to see do happen. With `EarlyFins` TRUE and a
window of 3 in the first setup `ImplementsContract` is violated within 4,281 states,
which is finding 1 seen from the applications. With two bytes each way, windows of 2,
copies and socket pairs of 1 and a fault, the state in which a reset makes rule 3
write to a pipe it has shut down is reached, the exception that `NoBrokenPipe` makes.
With an adapter that also takes a stranger's SYN for its peer's when it is not
listening, `ConnectionCompletes` is violated.
In `end_to_end` the client's network is 00xx, the server's 01xx and the Internet
10xx. The client connects to the server (0110), to an address that the server's
router sends back, so that datagrams run in a circle (0111), to one on the Internet
that nobody has (1011), or to one without a route (1100). The time to live of 3 is just
enough for the server.

**Assumptions about the environment** and where they come from:

- `ReassemblerSpec`: no substring starts beyond the window. `TCPReceiver` guarantees
  it (`GuardsReassembler` in the run `tcp_receiver`). A last substring is marked as
  such only when its final byte can be kept or is there; without that see finding 1.
- The constants: `Word16` is more than 1; a mapping lives no shorter than the
  interval of requests (30 and 5 seconds in the code); the absolute numbers of a
  stream, and two ranges of 32-bit numbers beyond them, stay below 2^64, as
  `unwrap` computes in `uint64_t`. A stream would need centuries to come near that.
- `TCPReceiverSpec`: no segment that is half the sequence space from the checkpoint
  (`NotAncient`): the maximum segment lifetime of TCP, without which 32-bit numbers
  are ambiguous. `FinInOrder` is the restriction that finding 1 lifts.
- `TCPSenderSpec`: the peer is abstract: it receives in order, cuts at its window,
  answers every message, and opens its window without saying so. The set `acks` keeps
  every acknowledgment for later; with `AcksReordered` FALSE an acknowledgment is not
  delivered after one that is newer, but still late, repeatedly or never.
  `MaxRetransmissions` bounds the exponential timeout: it has no bound in the code.
- `ConnectionSpec`: the network keeps the order of datagrams. It loses them, a timer
  expires while one is underway (`Ticks` of a state that is not `Quiet`), a reset comes
  from the peer's address, a reset or a SYN from a stranger's, an owner destructs its
  socket: each is one of `setup.faults`. What a server that took a stranger for its
  peer writes goes to the stranger, who does not answer. Time is free only when nothing is underway. A round that serves
  nothing is one that may last; the others are shorter than any timer. A stray segment
  arrives when nothing else waits to be read. A thread that has ended keeps at most one
  datagram that nobody reads. A FIN ahead of what has arrived is lost too, unless
  `EarlyFins`, because finding 1 breaks everything after it. Standard input is a file
  and standard output takes everything.
- The constants of `EndToEndSpec`: every device has an Ethernet address of its own; a
  host's IP address is that of no other device, and a host is never the next hop of an
  indirect route (`endtoend.cc:192-210`); segments can be told apart; the
  client does not connect to itself. The constants of `ConnectionSpec` need only their
  types (of `Setups`, any set of inputs, sizes and numbers of faults), two hosts, and
  `Word32 <= Word64`.
- `EndToEndSpec`: the 10 ms of a round complete a unit of the interfaces' times or do
  not (nondeterministically); all programs keep running; routes have no host bits set
  (see below); every frame parses.

**Fairness.** Of the code: the event loop runs (`tcp_minnow_socket.cc:31-53`, at
least every `TCP_TICK_MS`), so the clock ticks, what can be pushed is pushed, and
what is queued is sent (rule 4): weak fairness of each. Of the environment: the
application closes and reads (weak); a message sent again and again is not lost every
time (strong, on `SendsDelivered`); the next byte is offered again as long as it is
missing, since the sender retransmits its first unacknowledged message
(`tcp_sender.cc:192`); the latest acknowledgment arrives. `WaitingDelivered` of the
network interface is stated for behaviours without loss, as nothing in the code
repeats a request on its own: only a further datagram does. In `ConnectionSpec` and
`EndToEndSpec` the rounds of each loop are weakly fair: a thread whose `poll()` would
return is scheduled. This is written out as a formula (`LoopMayRun`, `LoopRan` and the
like: infinitely often not able to, or infinitely often done), because evaluating
`ENABLED` of a whole round is too slow for TLC; `LoopMayRun` names the states in which
a round changes something and `LoopRan` the changes only a round makes. The client is
started at some time. Nothing is assumed of loss but its bound. `Arrives` speaks of
the first segment of a host: a later one can be lost in the queue by finding 3.
`ConnectionCompletes` makes two exceptions that the code forces: the last
acknowledgment of an end is lost and the other end has gone, as there is no TIME_WAIT;
and a listening server adopts the addresses of the first SYN it sees, a stranger's too
(`tcp_over_ip.cc:56`), after which it hears nothing of the client (`Captured`).

### Findings

1. **A FIN that comes early closes the stream early** (`reassembler.cc:82`, run
   `tcp_receiver_early_fin`). `unassembled_size == 0 && eof` also holds when bytes
   before the end are missing altogether: for a FIN without payload that overtakes
   data, and for a segment with a FIN whose bytes the window cuts. The receiver then
   counts the FIN and acknowledges a number that did not arrive. Header and comment
   say otherwise (`reassembler.hh:36`, `tcp_receiver.cc:21`).
2. **An overtaken acknowledgment reopens the window** (`tcp_sender.cc:143`, run
   `tcp_sender_stale_ack`). With nothing outstanding any old acknowledgment is valid,
   and its window is counted from the sender's next number. The tests say that
   outdated acknowledgments are harmless (`tests/send_extra.cc:448`).
3. **A second datagram that waits is lost** (`network_interface.cc:66`, run
   `network_interface_lost`): it is pushed to a copy of the queue.
4. **Requests are not spaced after the first repetition**
   (`network_interface.cc:67`, run `network_interface_requests`): the age is not set
   back, so every further datagram repeats the request.

Seen while reading, not a finding of a run:

- The destructor is said to send a RST (`tcp_minnow_socket.hh:80`, 126); it only makes
  the thread stop, and the other end is not told. `Destructs` models that.
- `MAX_RETX_ATTEMPTS` is never used (`tcp_config.hh:17`): an end whose peer has gone
  without an answer retransmits for ever, and `wait_until_closed` does not return.
- Every acknowledgment with a closed window lets one more number out, not only the
  first: the probe sets the window to 1 and the next acknowledgment back to 0
  (`tcp_sender.cc:94-98`, 156). The answers to the probe's own retransmissions are
  such acknowledgments, so what is in flight grows beyond every window announced.
- There is no TIME_WAIT (`tcp_peer.hh:39`), and a window that opens is not announced.
- After a reset rule 3 shuts the local socket down even if the inbound stream still has
  bytes for it; the next round writes to it, and SIGPIPE is not handled
  (`tcp_minnow_socket.cc:160-171`). If it is not written to, the owner reads a normal
  end of a truncated stream.
- `FileDescriptor::read` that fails with EAGAIN leaves the buffer at its full size
  (`file_descriptor.cc:91-94`); `write` then throws (lines 182-184).
- A route whose prefix has host bits set never matches: only the destination is masked
  (`router.cc:44`), while the comment of `add_route` (lines 9-10) says that the
  prefix's low bits do not count. `tests/router.cc:200` has such a route.
- The Reassembler used on its own stores bytes beyond the capacity if a substring
  starts there (`reassembler.hh:33`).

## 4. Proofs

The theorems of a component hold for every value of the constants that satisfies the
assumptions stated where they are declared. `OperatorLemmas` follows the methods that
several components call; each `Proofs` module defines its inductive invariant, shows
that the initial states have it and that every action keeps it, and derives the
properties.

`BasicProofs` proves of `ByteStreamSpec`, for every capacity, every number of
bytes and every size of push and pop:

- `TypeCorrect`: `Spec => []TypeOK`;
- `StreamIntegrityHolds`: `Spec => []StreamIntegrity`;
- `CountersAgreeHolds`: `Spec => []CountersAgree`;
- `FinishedIsFinalHolds`: `Spec => FinishedIsFinal`.

The constants need only be natural numbers. None of the properties is inductive by
itself: `StreamIntegrity` says nothing of the capacity, so a push may overflow it, and
`CountersAgree` nothing of the bytes. The invariant `IInv` states that the stream is
`Intact` (the counters account for the buffer, the buffer fits and holds consecutive
bytes from `bytes_read` on) and that the reader has exactly the bytes before it.
`OperatorLemmas` proves that each method keeps a stream intact, which is what the
models of the Reassembler and the receiver need too; `InitIInv`, `StepIInv` and
`IInvImplies` then give the theorems. `FinishedIsFinal` follows because a finished
stream is closed, so that nothing is pushed, and empty, so that nothing is taken.

`ReassemblerProofs` proves of `ReassemblerSpec`, for every capacity and every length
of stream:

- `TypeCorrect`, `BytesInPlace`, `CountIsRight`, `NothingHeldBack`, `IndicesInside`:
  `Spec => []` of `TypeOK`, `ContentIntegrity`, `PendingCounted`, `WindowRespected` and
  `OffsetsInBounds`;
- `KeepsContract`: `Spec => ImplementsContract`, the refinement of `ReassemblyContract`.

The invariant `Sound` says that the output is intact and was written up to
`base_index`; that every byte that waits is at the offset of its own index and all are
counted (`Holds`); that none waits at offset 0 or beyond the room of the output; and that,
once the last substring was seen, the last byte of the stream is among the known ones.
The last part is what the contract's end needs: with it nothing waits only when the
stream is complete (`EndSeen`). It holds because of the assumption on the last mark
(`Arrives`); without it the proof fails where finding 1 is. `OperatorLemmas`
follows `insert` step by step: what `Initialized`, `Offsets`, `Stored`, `Assembled` and
`Shifted` do to the set of offsets that wait (`Assembled` is a `CHOOSE`, whose witness
comes from the least offset that is empty); `InsertHolds` puts them together, and shows
that the push accepts every byte. `InsertSound` then gives, in one formula, what a call
learns: exactly the substring's indices inside the window.

`NetworkInterfaceProofs` proves of `NetworkInterfaceSpec`, for every number of hosts,
addresses and datagrams, every lifetime and request interval, and whatever frames are
lost or late:

- `TypeCorrect`: `Spec => []TypeOK`;
- `EveryNextHopReached`: `Spec => []ReachesNextHop`;
- `NothingStaysBehind`: `Spec => []NoneWaitsForKnown`;
- `FirstRequestWaits`: `Spec => []FirstRequestAlone`;
- `NothingDuplicated`: `Spec => []SentOnce`.

A datagram goes to the right host only if what was learned is true, and that only if
every ARP message anyone can receive is: `IInv` says that each host's mappings, the
frames it queues and the frames that are underway are truthful (`Truthful`), that what
waits was sent to the next hop it waits for, and that no address is both known and
asked for. The proof has one lemma per method (`send_datagram`, `recv_frame` with a
request, a reply or a datagram, `tick`, `maybe_send`).

`FirstRequestAlone` relates the times of requests, which are history, to timers of the
code that run separately. `TInv` connects them (`Timely`, `Recent`): as long as less
than an interval has passed since the only request for an address, the address is
still asked for, or it is known, with an age that is not above the time passed. Here
it matters that a mapping lives no shorter than the interval, because a mapping
forgotten earlier would allow a second request. `SentOnce` needs to know of each
datagram every place it could be at (`Held`: waiting for an address, queued in a
frame, arriving, received): `UInv` says that it is at one place at most
(`AtOnePlace`), once there (`OnceThere`), and that one datagram waits for an address
(`OneWaits`), which is what finding 3 leaves of the queue.

`BasicProofs` proves of `Wrap32`, for all widths and every isn and
checkpoint:

- `ClosestReturned`: `WrapSpec => []UnwrapIsClosest`;
- `RoundTripHolds`: `WrapSpec => []RoundTrip`.

The invariant is only the checkpoint's range; the work is in `UnwrapClosest`, that of
all numbers congruent to the given one the operator returns a closest, in each of its
cases, the one near 0 included. The solvers do not reason about `%` by a constant they
do not know, so it is eliminated at once: numbers are congruent when they differ by a
multiple (`Wrapped`, `Offset`), and different congruent numbers are at least the
modulus apart (`CongruentClose`). `UnwrapWrapped` is what receiver and sender need.

`TCPReceiverProofs` proves of `TCPReceiverSpec`, for every capacity, length of stream,
isn and width, and every order, repetition and cut of segments:

- `TypeCorrect`, `BytesInPlace`, `InsertsInsideWindow`: `Spec => []` of `TypeOK`,
  `ContentIntegrity` and `GuardsReassembler`;
- `WindowKept`: `Spec => WindowNeverRetreats`, neither the acknowledgment nor the right
  edge of the window moves back;
- `AcksAreTrue`, `EndIsTrue`: `Spec => []` of `AckCoversOnlyArrived` and `EofIsExact`
  if `FinInOrder`; the latter is an equivalence between the end of the stream and its
  last byte written with the FIN accepted;
- `KeepsContract`: `Spec => ImplementsContract` if `FinInOrder`, the refinement of
  `ReassemblyContract` by receiver, Reassembler and stream together.

`FinInOrder` is a constant of the specification; with FALSE the last three are false,
which is finding 1. `IInv` takes `Placed` of the Reassembler over (`OperatorLemmas`
states `insert` for any caller), and adds that the receiver has the peer's isn, that
every byte that is known arrived in a segment, that the Reassembler's `eof` and the
receiver's `fin` are the same, and, if `FinInOrder`, that the last byte is known once
the FIN was accepted and that the stream is closed when it is written too, and never
else. `SegmentStep` is the lemma that carries it: a segment is found
at the place it was cut from (`Opened`, from `UnwrapWrapped`), what passes the window
test starts inside the Reassembler's window (`StartsInside`), and its `insert` learns
indices that the segment covers.

`TCPSenderProofs` proves of `TCPSenderSpec`, for every length of stream, payload
limit, buffer, window of the peer and width, and whatever is lost, late or repeated:

- `NumbersAccounted`, `TimerInOrder`: `Spec => []` of `SequenceAccounting` and
  `TimerConsistent`;
- `TypeCorrect`, `UnackedIsKept`: `Spec => []` of `TypeOK` and
  `OutstandingCoversUnacked` if `ShortStream`;
- `WindowRespected`: `Spec => NeverOverruns` if `ShortStream` and not `AcksReordered`.

The invariant `SoundSender` says that the next number counts SYN, bytes taken from the
stream and FIN (`Accounted`); that the outstanding messages lie one after the other
from the first number that is not acknowledged to the next one, each with the number,
flags and bytes of its place (`Kept`); that what waits to be sent has numbers in use
(`Genuine`); and how timer, timeout and count of retransmissions belong together
(`Timed`). Of the peer it knows almost nothing, as it must hold whatever an old number
is taken for: then acknowledging too much or too little keeps it. That the sender
forgets nothing the peer may need takes more (`PInv`): the first number not
acknowledged is not beyond the peer's next, and no acknowledgment is ahead of the
peer. That is true only if every number is read back right, and since `TCPSenderSpec` keeps
every acknowledgment for ever, it takes a stream shorter than half the range of
sequence numbers (`ShortStream`: almost 2 GiB in the code; in the run 2 * 5 < 16). A
maximum segment lifetime would not be enough to drop this hypothesis: what is in
flight is not bounded by the window (see the probes of a closed window in section 3).
`WindowRespected` adds `WInv`, that no acknowledgment is older than what was freed,
and that what the sender believes to be room is room of the peer. Finding 2 breaks it.

`EndToEndProofs` proves of `EndToEndSpec`, for every pair of route tables (circles
included), every traffic, number of address bits and initial time to live, and
whatever is lost, asked for or forgotten:

- `LongestMatchFound`: `route` takes the longest of the matching prefixes, and none
  only if none matches, for a table in any order;
- `RoutesFollowed`: `Spec => []FollowsRoutes`.

`FollowsRoutes` speaks of what the hosts and the routers hold between their steps.
The invariant `Inv` has to say it of every place, and gives the reasons:

- A datagram that a device holds or that is in a frame is one the routes lead there,
  with the time to live of its hops (`OnTheWay`): what is left of the time to live is
  the number of its leg. `LegsStep` and `HopOnTheWay` show that the next hop that the
  table gives is the next leg.
- An Ethernet address is the one of the device that has the IP address, in ARP
  messages, in frames and in what was learned (`Owns` in `Frame` and `GoodInterface`).
  With that a frame reaches the device it is meant for although every device hears
  every frame.
- Of each queue for an address one datagram is there, which is what finding 3 leaves.
- Between two rounds the queues of frames to send are empty, the routers have routed
  what came in, and a host's connection is one of those it can have (`Tcp`): this is
  what the composition provides and the interface alone does not (`GoodThread`,
  `GoodAdapter`).
- A segment is at one place at most: the places are counted (`Everywhere`), and every
  action moves a segment, drops it or, for the segment that is sent next, puts it at
  its first place. `CopiesCounted` shows that `FollowsRoutes` counts the same.

The routing table is folded over by `LongestMatch`, the rules of the network thread by
`Pruned` and `Served`, the interfaces of a router by `Route`. `FoldExists` shows that
such a fold has the function of its intermediate results, and each loop gets its own
invariant over them (`LongestMatchSteps`, `PrunedGood`, `ServedGood`, `RouteSteps`).
The leading bits that the longest match is about are a quotient by a power of two in
`FollowsRoutes` and a mask in the code; `SameBits` and `MatchesPrefix` show them equal
for prefixes without host bits (`RoutesAssumption`).

`ConnectionProofs` proves of `ConnectionSpec`, for every setup (inputs of both sides,
capacities, windows, sizes of the local socket, number of faults), every number of
retransmissions, and also when FINs come early:

- `NoLoopThrows`: `Spec => []NoBusyWait`.

The busy-wait test of `eventloop.cc:215-218` throws when a callback moved no byte while
its rule is still interested. Each rule has to be excluded for a reason of its own.
Rule 3 of the socket is the delicate one: it wrote nothing, as nothing was buffered, so
it was there for the end, and then it set `inbound_shutdown_`; or something was
buffered, and the descriptor was writable, so something was written unless the pipe
was shut down, which is SIGPIPE and not a busy wait (`WriteBytesServes`). Rules 2 and 4
of the copy are alike (`WriteSocketServes`, `WriteOutputServes`). All this is of the
state a callback finds, not of the one that was polled: rules before it may have been
cancelled since, which pushes, closes and shuts down. No rule is served before it, so
what was pollable still is (`TcpServed`, `CopyServed`). The invariant, `Inv`, types every
stream, pipe, sender, Reassembler, datagram and rule of both programs, with what the
callbacks compute with: the counters of streams agree with their buffers, so a
stream is not finished with bytes in it and what fits is at most what there is room
for; and no loop has thrown (`Sockets`). That it is kept is shown for each method of
`TCPPeer` and what it calls, with arbitrary segments (`PeerReceiveTyped`,
`MaybeSendTyped`), as stray and late ones come here. What `sequence_numbers_in_flight_` and
`unassembled_size` count is left open, as it does not matter for this; that they are
right is the business of `TCPSenderProofs` and `ReassemblerProofs`.

Four ways around induction over data occur in these proofs. A set of natural numbers
has a least element (`LeastNumber`, from the library's theorem that finite subsets are
well-founded), and the least counterexample of a statement about numbers leads to a
contradiction. A recursive function exists, and has its values step by step
(`Iterated`, `Recursion`): the loop of `push` (`PushSegments`) and the doubled timeout
(`BackedOff`) are such functions, so that the loop's invariant gives a property of its
result (`PushSegmentsSound`, `BackedOffDoubles`). A fold of the community modules is one
too (`FoldExists`, `FoldStays`). And the lengths of a queue of messages are added up by
a chain of positions (`Run`, `LengthsAddUp`).

What is only checked by TLC:

- `NoBrokenPipe` and `ImplementsContract` of `ConnectionSpec`. They need that no byte
  is pushed to an inbound stream after its end, which `Push` does not prevent: it
  ignores `close_`. It is a fact about both programs and the network together (the
  numbers the receiver sees are those the other side's sender gave, the FIN after the
  last of them), and with `EarlyFins` it is false. `AcksAreTrue`, `EndIsTrue` and
  `NumbersAccounted` say what receiver and sender contribute, each with the other
  side abstract.
- Liveness under fairness, for good: `ClosedLeadsToFinished`, `EventuallyDelivered`,
  `EverythingAcknowledged`, `WaitingDelivered`, `ConnectionCompletes`, `Settles` and
  `Arrives`.
- The four findings are runs of their own, which show a violation.

## 5. Not modelled, and what is left

- Of `EventLoop`: rules without a descriptor, `RuleHandle::cancel` and the recovery
  from POLLERR, which no program of the repository uses on what is modelled.
- Of descriptors and sockets: errors of system calls, EAGAIN and EINTR, options,
  datagram sockets.
- `webget` (a client of the kernel's TCP), `tcp_native` (the copy over a kernel
  socket) and `iptest`; the command lines of all of `apps/`.
- Parsing, serialization, checksums, address formatting and random numbers: encoding
  or conversion without state. A message that does not parse changes nothing, and
  appears as `NoSegment` where a caller tells the difference.
- The TUN and TAP devices: they hand over whole datagrams and frames.

Next, in this order, would come: the segments a `TCPPeer` exchanges, where the
invariants of receiver and sender meet and take the place of the abstract peers of
`TCPReceiverSpec` and `TCPSenderSpec`; on top of it `NoBrokenPipe` and the refinement
of `ConnectionContract`, with the bytes in the pipes and the copies between the two
streams; and a connection with data in both directions and a fault, for which the
product of the two programs has to be cut further to be checked within minutes.

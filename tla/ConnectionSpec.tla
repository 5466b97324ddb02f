--------------------------- MODULE ConnectionSpec ---------------------------
(***************************************************************************)
(* Two programs src/apps/tcp_ipv4.cc, one that connects and one that       *)
(* listens, each copying its standard input to the connection and the      *)
(* connection to its standard output.  A program has two threads: the      *)
(* owner, which opens the connection, copies and waits for the end, and    *)
(* the thread that runs the TCPPeer.  Each step of a thread is one round   *)
(* of its event loop.  The network keeps the order of the datagrams and    *)
(* loses some.                                                             *)
(***************************************************************************)
EXTENDS TCPMinnowSocket, StreamCopy, SequencesExt

CONSTANTS Host, Client,
          AddressOf, ListenAddress, \* of each host; what the server binds to
          Stranger,                 \* an address of another host
          IsnOf,                    \* of each host
          Setups,            \* the circumstances the programs may run in
          MaxRetransmissions, \* bound on consecutive timeouts with backoff
          EarlyFins          \* a FIN may arrive before what precedes it

ASSUME HostAssumption == /\ Client \in Host
                         /\ IsFiniteSet(Host) /\ Cardinality(Host) = 2
ASSUME IsnAssumption == IsnOf \in [Host -> SequenceNumber]
ASSUME SetupsAssumption ==
         Setups \subseteq
           [input  : [Host -> Nat], \* the bytes each program is given to send
            buffer : Nat,           \* the capacity of the copies' streams
            send : Nat, recv : Nat, \* the capacities of the peers' streams
            in : Nat, out : Nat,    \* what the local sockets to and from the owner hold
            faults : Nat]           \* a bound on losses, delays, strays and aborts
ASSUME WidthAssumption == Word32 <= Word64
ASSUME BoundsAssumption == MaxRetransmissions \in Nat /\ EarlyFins \in BOOLEAN

VARIABLES socket,   \* of each host, with the owner's copy
          owner,    \* what each owner does: "new", "opening", "copying",
                    \* "leaving" (the copy), "waiting" or "ended"
          thread,   \* the TCP thread of each host: "none", "running", "ended"
          reset,    \* the hosts that were sent a reset from their peer's address
          faults,   \* how many there were
          setup     \* the circumstances, chosen once

vars == <<socket, owner, thread, reset, faults, setup>>

Other(h) == CHOOSE g \in Host : g # h

Server == Other(Client)

Init ==
  /\ setup \in Setups
  /\ socket = [h \in Host |->
       NewSocket(NewCopy(setup.buffer,
                         [bytes |-> BytesFrom(0, setup.input[h]), room |-> setup.input[h],
                          shut |-> TRUE],
                         NewPipe(setup.input[Other(h)] + 1)),
                 NewPeer(IsnOf[h], setup.send, setup.recv),
                 IF h = Client THEN NewAdapter(AddressOf[h], AddressOf[Other(h)])
                 ELSE NewAdapter(ListenAddress, [ip |-> AnyAddress, port |-> 0]),
                 setup.in, setup.out)]
  /\ owner = [h \in Host |-> "new"]
  /\ thread = [h \in Host |-> "none"]
  /\ reset = {}
  /\ faults = 0

\* Nobody reads the device of a thread that has ended; one datagram stands for all
\* that it was left.
Held(h, dgrams) == IF thread[h] = "ended" THEN SubSeq(dgrams, 1, Lesser(1, Len(dgrams))) ELSE dgrams

\* The datagrams a host has written are underway to the other, unless it took the
\* stranger for its peer.
Carried(h, x) ==
  [socket EXCEPT ![h] = [x EXCEPT !.tun_out = << >>],
                 ![Other(h)].tun_in = IF x.adapter.destination = Stranger THEN @
                                      ELSE Held(Other(h), @ \o x.tun_out)]

-----------------------------------------------------------------------------
(* The owner *)

Connects == /\ owner[Client] = "new"
            /\ socket' = Carried(Client, Connecting(socket[Client]))
            /\ owner' = [owner EXCEPT ![Client] = "opening"]
            /\ UNCHANGED <<thread, reset, faults, setup>>

Listens == /\ owner[Server] = "new"
           /\ socket' = Carried(Server, Listening(socket[Server]))
           /\ owner' = [owner EXCEPT ![Server] = "opening"]
           /\ UNCHANGED <<thread, reset, faults, setup>>

StaysOpening(h) == IF h = Client THEN StaysConnecting(socket[h])
                                 ELSE StaysListening(socket[h])

\* bidirectional_stream_copy: a round that finds nothing to poll is the last; an
\* exception destructs the socket.
Copies(h) ==
  /\ owner[h] = "copying"
  /\ \E round \in {CopyRound(socket[h])} :
       /\ round.result # "Timeout"
       /\ socket' = [socket EXCEPT
            ![h] = IF round.result = "BusyWait"
                   THEN [round.x EXCEPT !.failed = "busy wait", !.abort = TRUE]
                   ELSE round.x]
       /\ owner' = [owner EXCEPT ![h] = CASE round.result = "Exit" -> "leaving"
                                          [] round.result = "BusyWait" -> "waiting"
                                          [] OTHER -> @]
  /\ UNCHANGED <<thread, reset, faults, setup>>

\* wait_until_closed: shut down both directions and join the thread.
WaitsUntilClosed(h) ==
  /\ owner[h] = "leaving"
  /\ socket' = [socket EXCEPT ![h] = ShutdownOwner(@)]
  /\ owner' = [owner EXCEPT ![h] = "waiting"]
  /\ UNCHANGED <<thread, reset, faults, setup>>

Joins(h) ==
  /\ owner[h] = "waiting" /\ thread[h] = "ended"
  /\ owner' = [owner EXCEPT ![h] = "ended"]
  /\ UNCHANGED <<socket, thread, reset, faults, setup>>

\* An exception in the owner destructs the socket: the thread is told to abort.
Destructs(h) ==
  /\ owner[h] = "copying" /\ faults < setup.faults
  /\ socket' = [socket EXCEPT ![h].abort = TRUE]
  /\ owner' = [owner EXCEPT ![h] = "waiting"]
  /\ faults' = faults + 1
  /\ UNCHANGED <<thread, reset, setup>>

-----------------------------------------------------------------------------
(* The loop that runs the TCPPeer: in the owner until the connection is open, *)
(* in the thread from then on. *)

Opening(h) == owner[h] = "opening"

\* A round takes long enough for a timer only when no segment is underway; when
\* one is, the network or the other host has delayed it.
Quiet == \A h \in Host : /\ socket[h].outgoing_segments_ = << >>
                         /\ socket[h].tun_in = << >> \/ thread[h] = "ended"

TimeMayPass(h) ==
  LET s == socket[h].tcp.sender_
  IN  Expires(s, 1) /\ BacksOff(s) =>
        s.consecutive_retransmissions_ < MaxRetransmissions

\* ms = 0 stands for a round that is shorter than any timer.
Ticks(h, x, ms) ==
  /\ ms > 0 => TimeMayPass(h)
  /\ faults' = IF ms > 0 /\ ~Quiet THEN faults + 1 ELSE faults
  /\ faults' <= setup.faults
  /\ socket' = Carried(h, LoopTicks(x, ms))
  /\ UNCHANGED <<owner, thread, reset, setup>>

\* Leaving the loop starts the thread or ends it; an exception ends the program.
Leaves(h, x) ==
  LET starts == Opening(h) /\ x.failed = "no"
  IN  /\ thread' = [thread EXCEPT ![h] = IF starts THEN "running" ELSE "ended"]
      /\ owner' = [owner EXCEPT ![h] = CASE starts -> "copying"
                                       [] x.failed # "no" -> "ended"
                                       [] OTHER -> @]
      /\ socket' = Carried(h, IF starts THEN x ELSE ThreadEnd(x))
      /\ UNCHANGED <<reset, faults, setup>>

\* A FIN that is ahead of what has arrived.
IsEarlyFin(h, dgram) ==
  LET message == dgram.segment.sender_message
  IN  /\ message.FIN /\ ~message.SYN /\ HasAckno(socket[h].tcp)
      /\ (message.seqno - ReceiverMessage(socket[h].tcp).ackno) % Word32
           \in 1..Word32 \div 2

\* Such a FIN, which closes the stream early, is lost as well unless EarlyFins.
Arriving(h) ==
  LET x == socket[h]
  IN  IF ~EarlyFins /\ x.tun_in # << >> /\ IsEarlyFin(h, x.tun_in[1])
      THEN [x EXCEPT !.tun_in = Tail(@)] ELSE x

InLoop(h) == thread[h] = "running" \/ (Opening(h) /\ StaysOpening(h))

Runs(h) ==
  /\ InLoop(h)
  /\ \E served \in {LoopServes(Arriving(h))} :
       IF served.exit THEN Leaves(h, served.socket)
       ELSE \E ms \in IF served.socket = socket[h] THEN 0..1 ELSE {0} : Ticks(h, served.socket, ms)

\* The loop is left when the connection is open; then the thread starts.
Opened(h) ==
  /\ Opening(h) /\ ~StaysOpening(h)
  /\ owner' = [owner EXCEPT ![h] = "copying"]
  /\ thread' = [thread EXCEPT ![h] = "running"]
  /\ UNCHANGED <<socket, reset, faults, setup>>

-----------------------------------------------------------------------------
(* The network *)

\* A datagram is dropped on its way or, by the LossyFdAdapter, after it was read.
Loses(h) ==
  /\ socket[h].tun_in # << >> /\ thread[h] # "ended" /\ faults < setup.faults
  /\ \E adapter \in {socket[h].adapter,
                     DroppedRead(socket[h].adapter, Head(socket[h].tun_in)).adapter} :
       socket' = [socket EXCEPT ![h].tun_in = Tail(@), ![h].adapter = adapter]
  /\ faults' = faults + 1
  /\ UNCHANGED <<owner, thread, reset, setup>>

ResetSegment ==
  [sender_message   |-> [seqno |-> 0, SYN |-> FALSE, payload |-> << >>, FIN |-> FALSE],
   receiver_message |-> [ackno |-> Nullopt, window_size |-> 0], reset |-> TRUE]

SynSegment ==
  [sender_message   |-> [seqno |-> 0, SYN |-> TRUE, payload |-> << >>, FIN |-> FALSE],
   receiver_message |-> [ackno |-> Nullopt, window_size |-> 0], reset |-> FALSE]

\* The host is sent a segment of no connection.
Strays(h, src, segment) ==
  /\ thread[h] # "ended" /\ owner[h] # "new" /\ faults < setup.faults
  /\ socket[h].tun_in = << >>
  /\ socket' = [socket EXCEPT ![h].tun_in =
        Append(@, [src |-> src, dst |-> AddressOf[h], segment |-> segment])]
  /\ faults' = faults + 1
  /\ UNCHANGED <<owner, thread, setup>>

\* A reset by a kernel that knows no such connection at its peer's address.
ResetByPeer(h) == /\ Strays(h, AddressOf[Other(h)], ResetSegment)
                  /\ reset' = reset \cup {h}

\* A reset by somebody else, or his attempt to connect.
StrangerSends(h) == /\ \E segment \in {ResetSegment, SynSegment} :
                         Strays(h, Stranger, segment)
                    /\ UNCHANGED reset

OwnerCalls(h) == \/ h = Server /\ Listens
                 \/ Opened(h) \/ WaitsUntilClosed(h) \/ Joins(h)

Next == Connects \/
        \E h \in Host :
          \/ OwnerCalls(h) \/ Copies(h) \/ Runs(h) \/ Destructs(h) \/ Loses(h)
          \/ ResetByPeer(h) \/ StrangerSends(h)

\* Weak fairness of Copies and of Runs, whose ENABLED is too much for TLC: in these
\* states poll() returns, or a loop has nothing left to poll, or a timer runs; and
\* these are the steps that a round takes then.
CopyMayRun(h) ==
  LET x == socket[h]
      rules == {r \in ToSet(x.copy.copy_rules) : ~CopyDefunct(x, r)}
      wanted == {r \in rules : CopyInterested(x, r)}
  IN  /\ owner[h] = "copying"
      /\ \/ wanted = {} \/ \E r \in wanted : CopyPollable(x, r)
         \/ WriteSocket \in rules /\ CopyHup(x, WriteSocket)

CopyRan(h) == socket'[h].copy # socket[h].copy \/ owner'[h] # owner[h]

LoopMayRun(h) ==
  LET x == socket[h]
      rules == {r \in ToSet(x.tcp_rules) : ~AtItsEnd(x, r)}
      wanted == {r \in rules : Interested(x, r)}
  IN  /\ InLoop(h)
      /\ \/ x.abort \/ wanted = {} \/ \E r \in wanted : CanServe(x, r)
         \/ ReadIn \in rules /\ OwnerHungUp(x, ReadIn)
         \/ /\ TimeMayPass(h) /\ (Quiet \/ faults < setup.faults)
            /\ LoopTicks(x, 1) # x

LoopRan(h) ==
  LET x == socket[h]
      y == socket'[h]
  IN  \/ Len(y.tun_in) < Len(x.tun_in) \/ y.outgoing_segments_ # x.outgoing_segments_
      \/ y.tcp # x.tcp \/ y.inbound_shutdown # x.inbound_shutdown
      \/ y.tcp_rules # x.tcp_rules \/ thread'[h] # thread[h]

\* Both threads of each program are scheduled, and time passes in each loop.
Fairness ==
  /\ <>(owner[Client] # "new")
  /\ \A h \in Host :
       /\ WF_vars(OwnerCalls(h))
       /\ []<>~CopyMayRun(h) \/ []<><<CopyRan(h)>>_vars
       /\ []<>~LoopMayRun(h) \/ []<><<LoopRan(h)>>_vars

Spec == Init /\ [][Next]_vars /\ Fairness

-----------------------------------------------------------------------------
(* What a program read, wrote, and told of the other's end. *)
Input(h) == socket[h].copy.input.bytes

Output(h) == socket[h].copy.output.bytes

ToldEnd(h) == socket[h].copy.output.shut

(* The connection is the pair of streams of the contract: through both     *)
(* copies, four local pipes, both peers and whatever is lost and sent      *)
(* again, no byte is lost, repeated or misplaced, and an application is    *)
(* told the end only after the last byte, or after a reset                 *)
(* (tcp_minnow_socket.cc:145-168, bidirectional_stream_copy.cc:34-100).    *)
Stream == INSTANCE ConnectionContract
  WITH End      <- Host,
       length   <- [h \in Host |-> setup.input[Other(h)]],
       accepted <- [h \in Host |-> setup.input[Other(h)] - Len(Input(Other(h)))],
       received <- [h \in Host |-> Output(h)],
       told     <- {h \in Host : ToldEnd(h)}

ImplementsContract == Stream!Spec

(* No event loop takes one of its rules for a busy wait and throws: not    *)
(* that of the TCP thread, whose rule 3 stays interested after an error    *)
(* until the owner is told, nor that of the copy, whose buffers are full   *)
(* or empty in any combination (eventloop.cc:213-219).                     *)
NoBusyWait == \A h \in Host : socket[h].failed # "busy wait"

(* Nothing is written to a pipe that was shut down, which would be the end *)
(* of the program (tcp_minnow_socket.cc:156), except that after a reset    *)
(* rule 3 ends the pipe while it still has bytes for it (lines 160-171).   *)
NoBrokenPipe == \A h \in Host : socket[h].failed = "SIGPIPE" => h \in reset

Broken == reset # {} \/ \E h \in Host : socket[h].abort

\* The listening server took a stranger's SYN for that of its peer.
Captured == owner[Server] = "opening" /\ socket[Server].adapter.destination = Stranger

\* The host's thread has ended and was left a datagram that asks for an answer.
Orphaned(h) == thread[h] = "ended" /\ socket[h].tun_in # << >>

(* If nobody breaks the connection off, everything each program reads is   *)
(* written by the other, which is told the end, whatever was lost or       *)
(* delayed: neither full buffers on both sides nor a closed window stop it *)
(* (tcp_minnow_socket.cc:135-173, bidirectional_stream_copy.cc:34-100).    *)
(* Then both programs end (tcp_minnow_socket.cc:206-229), unless, after a  *)
(* loss or a delay, the last acknowledgment of one was missed and the      *)
(* other end has gone without a TIME_WAIT (tcp_peer.hh:39), or a stranger's *)
(* SYN was the first a listening server saw (tcp_over_ip.cc:56).  A        *)
(* program that destructs its socket ends in any case.                     *)
ConnectionCompletes ==
  <>[] \A h \in Host :
         \/ owner[h] = "ended" /\ (ToldEnd(h) \/ Broken)
         \/ (Broken \/ Captured) /\ ~socket[h].abort
         \/ faults > 0 /\ Orphaned(Other(h)) /\ ToldEnd(h)

====

---------------------------- MODULE RouterThread ----------------------------
(***************************************************************************)
(* The network thread of src/apps/endtoend.cc: an event loop that passes   *)
(* frames between a host, a router with two interfaces, and the Internet,  *)
(* a datagram socket.  x holds the router, the numbers of its interfaces,  *)
(* the two queues of the thread, and the frames that wait to be read at    *)
(* and were written to its two descriptors.                                *)
(***************************************************************************)
EXTENDS Router

FromHost     == [name |-> "frames from host to router", direction |-> "In"]
ToHost       == [name |-> "frames from router to host", direction |-> "Out"]
ToInternet   == [name |-> "frames from router to Internet", direction |-> "Out"]
FromInternet == [name |-> "frames from Internet to router", direction |-> "In"]

NewThread(router, host_side, internet_side) ==
  [router |-> router, host_side |-> host_side, internet_side |-> internet_side,
   frame_rules |-> <<FromHost, ToHost, ToInternet, FromInternet>>,
   router_to_host |-> << >>, router_to_internet |-> << >>,
   from_host |-> << >>, from_internet |-> << >>, to_host |-> << >>, to_internet |-> << >>]

FrameInterested(x, rule) == CASE rule = ToHost     -> x.router_to_host # << >>
                              [] rule = ToInternet -> x.router_to_internet # << >>
                              [] OTHER             -> TRUE

\* A frame is handed to an interface, and what it carries is routed at once.
RoutesFrame(x, side, frame) ==
  LET received == AsyncRecvFrame(x.router.interfaces_[side], frame)
  IN  [x EXCEPT !.router = Route([x.router EXCEPT !.interfaces_[side] = received])]

FrameCall(x, rule) ==
  CASE rule = FromHost ->
         RoutesFrame([x EXCEPT !.from_host = Tail(@)], x.host_side, Head(x.from_host))
    [] rule = FromInternet ->
         RoutesFrame([x EXCEPT !.from_internet = Tail(@)], x.internet_side,
                     Head(x.from_internet))
    [] rule = ToHost ->
         [x EXCEPT !.to_host = Append(@, Head(x.router_to_host)),
                   !.router_to_host = Tail(@)]
    [] rule = ToInternet ->
         [x EXCEPT !.to_internet = Append(@, Head(x.router_to_internet)),
                   !.router_to_internet = Tail(@)]

\* Both descriptors are datagram sockets: they take every frame, have no end, and
\* each callback reads or writes one.
FramePollable(x, rule) == CASE rule = FromHost     -> x.from_host # << >>
                            [] rule = FromInternet -> x.from_internet # << >>
                            [] OTHER               -> TRUE

NeverEnds(x, rule) == FALSE

KeepsState(x, rule) == x

ServesAlways(x, y, rule) == FALSE

FrameLoop == INSTANCE EventLoop WITH
  Defunct <- NeverEnds, Interest <- FrameInterested, Cancel <- KeepsState,
  Callback <- FrameCall, Idle <- ServesAlways, Pollable <- FramePollable,
  Hup <- NeverEnds

\* What an interface has to send after ms milliseconds is put into a queue.
Emptied(r, side, ms) ==
  LET ticked == InterfaceTick(r.interfaces_[side], ms)
  IN  [r EXCEPT !.interfaces_[side] = [ticked EXCEPT !.maybe_send_queue = << >>]]

\* One round of the loop: an event, then both interfaces tick and are emptied.
ThreadRound(x, ms) ==
  LET next == FrameLoop!WaitNextEvent(x, x.frame_rules)
      pending(side) == next.x.router.interfaces_[side].maybe_send_queue
  IN  [next.x EXCEPT !.frame_rules = next.rules,
         !.router = Emptied(Emptied(@, x.host_side, ms), x.internet_side, ms),
         !.router_to_host = @ \o pending(x.host_side),
         !.router_to_internet = @ \o pending(x.internet_side)]

=============================================================================

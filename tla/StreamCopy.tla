----------------------------- MODULE StreamCopy -----------------------------
(***************************************************************************)
(* bidirectional_stream_copy of src/apps/bidirectional_stream_copy.cc: the *)
(* owner of a stream socket copies its standard input to the socket and    *)
(* the socket to its standard output, through two ByteStreams and an event *)
(* loop with four rules.  x.copy holds the function's variables and the    *)
(* standard streams as pipes; x.to_thread and x.to_owner are the two       *)
(* directions of the socket.                                               *)
(***************************************************************************)
EXTENDS FileDescriptor

ReadInput   == [name |-> "read from stdin into outbound byte stream", direction |-> "In"]
WriteSocket == [name |-> "read from outbound byte stream into socket", direction |-> "Out"]
ReadSocket  == [name |-> "read from socket into inbound byte stream", direction |-> "In"]
WriteOutput == [name |-> "read from inbound byte stream into stdout", direction |-> "Out"]

NewCopy(buffer_size, input, output) ==
  [copy_rules |-> <<ReadInput, WriteSocket, ReadSocket, WriteOutput>>,
   outbound |-> NewByteStream(buffer_size), inbound |-> NewByteStream(buffer_size),
   outbound_shutdown |-> FALSE, inbound_shutdown |-> FALSE,
   input_eof |-> FALSE, socket_eof |-> FALSE, input |-> input, output |-> output]

\* A stream takes bytes while there is room for them and no error in either.
Fillable(stream, other) ==
  AvailableCapacity(stream) > 0 /\ ~HasError(stream) /\ ~HasError(other)

\* A stream is emptied, and then its end is passed on once.
Drainable(stream, shutdown) ==
  BytesBuffered(stream) > 0 \/ (IsFinished(stream) /\ ~shutdown)

CopyInterested(x, rule) ==
  CASE rule = ReadInput   -> Fillable(x.copy.outbound, x.copy.inbound)
    [] rule = WriteSocket -> Drainable(x.copy.outbound, x.copy.outbound_shutdown)
    [] rule = ReadSocket  -> Fillable(x.copy.inbound, x.copy.outbound)
    [] rule = WriteOutput -> Drainable(x.copy.inbound, x.copy.inbound_shutdown)

\* What a stream holds after a read of the pipe that fills it.
Filled(stream, pipe) ==
  LET pushed == Push(stream, ReadBytes(pipe, AvailableCapacity(stream)))
  IN  IF AtEof(pipe) THEN Close(pushed) ELSE pushed

\* And after a write of what it holds.
Drained(stream, pipe) == Pop(stream, BytesWritten(pipe, stream.stream))

\* The pipe it is written to, which is shut down with its end.
AfterDrain(stream, pipe) ==
  LET written == AfterWrite(pipe, stream.stream)
  IN  IF IsFinished(Drained(stream, pipe)) THEN Shutdown(written) ELSE written

CopyCall(x, rule) ==
  LET copy == x.copy
  IN  CASE rule = ReadInput ->
             [x EXCEPT !.copy.outbound = Filled(@, copy.input),
                       !.copy.input_eof = @ \/ AtEof(copy.input),
                       !.copy.input = AfterRead(@, AvailableCapacity(copy.outbound))]
        [] rule = WriteSocket ->
             [x EXCEPT !.copy.outbound = Drained(@, x.to_thread),
                       !.to_thread = AfterDrain(copy.outbound, @),
                       !.copy.outbound_shutdown =
                          @ \/ IsFinished(Drained(copy.outbound, x.to_thread))]
        [] rule = ReadSocket ->
             [x EXCEPT !.copy.inbound = Filled(@, x.to_owner),
                       !.copy.socket_eof = @ \/ AtEof(x.to_owner),
                       !.to_owner = AfterRead(@, AvailableCapacity(copy.inbound))]
        [] rule = WriteOutput ->
             [x EXCEPT !.copy.inbound = Drained(@, copy.output),
                       !.copy.output = AfterDrain(copy.inbound, @),
                       !.copy.inbound_shutdown =
                          @ \/ IsFinished(Drained(copy.inbound, copy.output))]

\* A cancelled rule closes the stream that it fills or empties.
CopyCancel(x, rule) ==
  IF rule \in {ReadInput, WriteSocket}
  THEN [x EXCEPT !.copy.outbound = Close(@)] ELSE [x EXCEPT !.copy.inbound = Close(@)]

CopyDefunct(x, rule) == CASE rule = ReadInput   -> x.copy.input_eof
                          [] rule = ReadSocket  -> x.copy.socket_eof
                          [] rule = WriteSocket -> FALSE
                          [] rule = WriteOutput -> x.copy.output.shut

CopyPollable(x, rule) == CASE rule = ReadInput   -> Readable(x.copy.input)
                           [] rule = WriteSocket -> Writable(x.to_thread)
                           [] rule = ReadSocket  -> Readable(x.to_owner)
                           [] rule = WriteOutput -> Writable(x.copy.output)

CopyHup(x, rule) ==
  rule \in {WriteSocket, ReadSocket} /\ HungUp(x.to_thread, x.to_owner)

CopyIdle(x, y, rule) == \/ rule = WriteSocket /\ y.to_thread = x.to_thread
                        \/ rule = WriteOutput /\ y.copy.output = x.copy.output

CopyLoop == INSTANCE EventLoop WITH
  Defunct <- CopyDefunct, Interest <- CopyInterested, Cancel <- CopyCancel,
  Callback <- CopyCall, Idle <- CopyIdle, Pollable <- CopyPollable, Hup <- CopyHup

\* One round of the loop: wait_next_event without a timeout.
AfterCopyEvent(next) ==
  [x |-> [next.x EXCEPT !.copy.copy_rules = next.rules], result |-> next.result]

CopyRound(x) == AfterCopyEvent(CopyLoop!WaitNextEvent(x, x.copy.copy_rules))

=============================================================================

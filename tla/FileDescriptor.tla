--------------------------- MODULE FileDescriptor ---------------------------
(***************************************************************************)
(* What a FileDescriptor of src/util/file_descriptor.{hh,cc} reads from    *)
(* and writes to.  A pipe is one direction of a local stream: the bytes    *)
(* underway, how many fit, and whether the writing (or the reading) end    *)
(* was shut down.                                                          *)
(***************************************************************************)
EXTENDS ByteStream

NewPipe(room) == [bytes |-> << >>, room |-> room, shut |-> FALSE]

\* What poll() says: there are bytes or the end of them; there is room.
Readable(pipe) == pipe.bytes # << >> \/ pipe.shut

Writable(pipe) == Len(pipe.bytes) < pipe.room

\* Both directions of a socket are shut down.
HungUp(in, out) == in.shut /\ out.shut

\* FileDescriptor::read of at most n bytes of a readable pipe; with none it has
\* reached the end.
ReadBytes(pipe, n) == SubSeq(pipe.bytes, 1, Lesser(n, Len(pipe.bytes)))

AfterRead(pipe, n) ==
  [pipe EXCEPT !.bytes = SubSeq(@, Lesser(n, Len(@)) + 1, Len(@))]

AtEof(pipe) == pipe.bytes = << >>

\* FileDescriptor::write takes what there is room for and says how much that was.
BytesWritten(pipe, data) == Lesser(Len(data), pipe.room - Len(pipe.bytes))

AfterWrite(pipe, data) ==
  [pipe EXCEPT !.bytes = @ \o SubSeq(data, 1, BytesWritten(pipe, data))]

\* Socket::shutdown of the end that writes it or of the one that reads it.
Shutdown(pipe) == [pipe EXCEPT !.shut = TRUE]

=============================================================================

------------------------------ MODULE TCPSender -----------------------------
(***************************************************************************)
(* TCPSender of src/src/tcp_sender.{hh,cc} over a record of the class's    *)
(* members; abs_ackno_, which nothing reads, is left out.                  *)
(***************************************************************************)
EXTENDS TCPMessages, FiniteSets

CONSTANTS MaxPayloadSize,  \* TCPConfig::MAX_PAYLOAD_SIZE
          InitialRTO       \* initial_RTO_ms_

ASSUME MaxPayloadSizeAssumption == MaxPayloadSize \in Nat \ {0}
ASSUME InitialRTOAssumption == InitialRTO \in Nat \ {0}

SenderStates ==
  [isn_ : SequenceNumber,
   send_messages_ : Seq(SenderMessages), outstanding_messages_ : Seq(SenderMessages),
   next_abs_seqno_ : Nat, sequence_numbers_in_flight_ : Nat,
   consecutive_retransmissions_ : Nat, retransmission_timeout_ : Nat,
   receiver_window_size_ : 0..Word16 - 1, receiver_window_space_ : 0..Word16 - 1,
   time_elapsed_ : Nat, syn : BOOLEAN, fin : BOOLEAN, free_window : BOOLEAN]

NewSender(isn) ==
  [isn_ |-> isn, send_messages_ |-> << >>, outstanding_messages_ |-> << >>,
   next_abs_seqno_ |-> 0, sequence_numbers_in_flight_ |-> 0,
   consecutive_retransmissions_ |-> 0, retransmission_timeout_ |-> InitialRTO,
   receiver_window_size_ |-> 1, receiver_window_space_ |-> 1,
   time_elapsed_ |-> 0, syn |-> FALSE, fin |-> FALSE, free_window |-> FALSE]

\* Mutated form of Difference16: the subtraction does not wrap.
DifferenceUnwrapped(a, b) == a - b

\* a - b on uint16_t.
Difference16(a, b) == (a - b) % Word16

NextSeqno(s) == Wrap(s.next_abs_seqno_, s.isn_)

\* Mutated form of UpdateStatus: the flags are not counted in flight.
UpdateStatusPayloadOnly(s, message) ==
  [s EXCEPT !.next_abs_seqno_ = @ + SequenceLength(message),
            !.sequence_numbers_in_flight_ = @ + Len(message.payload),
            !.receiver_window_space_ = Difference16(@, SequenceLength(message)),
            !.send_messages_ = Append(@, message),
            !.outstanding_messages_ = Append(@, message)]

\* update_status: a new message uses sequence numbers and window, is sent, and is
\* kept until it is acknowledged.
UpdateStatus(s, message) ==
  LET length == SequenceLength(message)
  IN  [s EXCEPT !.next_abs_seqno_ = @ + length,
                !.sequence_numbers_in_flight_ = @ + length,
                !.receiver_window_space_ = Difference16(@, length),
                !.send_messages_ = Append(@, message),
                !.outstanding_messages_ = Append(@, message)]

-----------------------------------------------------------------------------
(* maybe_send *)

MaybeSendMessage(s) == Head(s.send_messages_)

AfterMaybeSend(s) == [s EXCEPT !.send_messages_ = Tail(@)]

-----------------------------------------------------------------------------
(* push *)

\* The SYN, and with it the FIN of a stream that ended before it began; only
\* the SYN is taken off the window.
SynMessage(s, outbound) ==
  [seqno |-> NextSeqno(s), SYN |-> TRUE, payload |-> << >>,
   FIN |-> IsFinished(outbound)]

PushSyn(s, outbound) ==
  LET message == SynMessage(s, outbound)
      length  == SequenceLength(message)
  IN  [s EXCEPT !.syn = TRUE,
                !.fin = message.FIN,
                !.next_abs_seqno_ = @ + length,
                !.sequence_numbers_in_flight_ = @ + length,
                !.receiver_window_space_ = Difference16(@, 1),
                !.send_messages_ = Append(@, message),
                !.outstanding_messages_ = Append(@, message)]

SynUnacked(s) == /\ s.outstanding_messages_ # << >>
                 /\ s.outstanding_messages_[1].SYN

\* Mutated form of ZeroWindow: a closed window is never probed.
ZeroWindowRespected(s) == FALSE

ZeroWindow(s) == s.receiver_window_size_ = 0 /\ s.receiver_window_space_ = 0

\* The condition of the while loop.
MoreToSend(s, outbound) ==
  /\ BytesBuffered(outbound) > 0
  /\ s.receiver_window_space_ > 0 \/ ZeroWindow(s)

\* One round of the loop: a segment of what window and payload limit allow, with
\* the FIN if the stream ends in it and the window has room; a zero window is
\* treated as a window of one.
PushSegment(s, outbound) ==
  LET opened  == IF ZeroWindow(s)
                 THEN [s EXCEPT !.receiver_window_size_ = 1,
                                !.receiver_window_space_ = 1,
                                !.free_window = TRUE]
                 ELSE s
      read_size == Lesser(Lesser(BytesBuffered(outbound),
                                 opened.receiver_window_space_), MaxPayloadSize)
      rest    == Read(outbound, read_size)
      fin     == IsFinished(rest) /\ opened.receiver_window_space_ > read_size
      message == [seqno |-> NextSeqno(s), SYN |-> FALSE,
                  payload |-> ReadOut(outbound, read_size), FIN |-> fin]
  IN  [sender |-> UpdateStatus([opened EXCEPT !.fin = @ \/ fin], message),
       outbound |-> rest]

\* The while loop; each round reads a byte at least.
PushSegments(s, outbound) ==
  LET Round[k \in Nat] ==
        IF k = 0 THEN [sender |-> s, outbound |-> outbound]
        ELSE LET before == Round[k - 1]
             IN  IF MoreToSend(before.sender, before.outbound)
                 THEN PushSegment(before.sender, before.outbound)
                 ELSE before
  IN  Round[BytesBuffered(outbound)]

FinMessage(s) == [seqno |-> NextSeqno(s), SYN |-> FALSE, payload |-> << >>,
                  FIN |-> TRUE]

\* push without the SYN: nothing after the FIN, nothing before the SYN's ack.
SenderPush(s, outbound) ==
  IF ~s.syn THEN [sender |-> PushSyn(s, outbound), outbound |-> outbound]
  ELSE IF s.fin \/ SynUnacked(s) THEN [sender |-> s, outbound |-> outbound]
  ELSE IF BytesBuffered(outbound) > 0 THEN PushSegments(s, outbound)
  ELSE IF IsFinished(outbound) /\ (s.receiver_window_space_ > 0 \/ ZeroWindow(s))
  THEN [sender |-> UpdateStatus([s EXCEPT !.fin = TRUE], FinMessage(s)),
        outbound |-> outbound]
  ELSE [sender |-> s, outbound |-> outbound]

SendEmptyMessage(s) == [seqno |-> NextSeqno(s), SYN |-> FALSE, payload |-> << >>,
                        FIN |-> FALSE]

-----------------------------------------------------------------------------
(* receive *)

AbsSeqno(s, seqno) == Unwrap(seqno, s.isn_, s.next_abs_seqno_)

\* The absolute numbers at which an outstanding message begins and ends.
FirstAbs(s, message) == AbsSeqno(s, message.seqno)

EndAbs(s, message) == FirstAbs(s, message) + SequenceLength(message)

ValidAck(s, abs_ackno) ==
  /\ abs_ackno <= s.next_abs_seqno_
  /\ \/ s.outstanding_messages_ = << >>
     \/ abs_ackno >= FirstAbs(s, s.outstanding_messages_[1])

\* Mutated form of AckedMessages: a message short of its last number is forgotten.
AckedAlmost(s, abs_ackno) ==
  Cardinality({i \in 1..Len(s.outstanding_messages_) :
                 EndAbs(s, s.outstanding_messages_[i]) <= abs_ackno + 1})

\* idx of the code: the outstanding messages before the first that is not
\* acknowledged completely.
AckedMessages(s, abs_ackno) ==
  CHOOSE idx \in 0..Len(s.outstanding_messages_) :
    /\ \A i \in 1..idx : EndAbs(s, s.outstanding_messages_[i]) <= abs_ackno
    /\ idx < Len(s.outstanding_messages_)
         => EndAbs(s, s.outstanding_messages_[idx + 1]) > abs_ackno

LengthOfAll(messages) ==
  LET LengthOfFirst[i \in 0..Len(messages)] ==
        IF i = 0 THEN 0 ELSE LengthOfFirst[i - 1] + SequenceLength(messages[i])
  IN  LengthOfFirst[Len(messages)]

\* Mutated forms of Acknowledge: the timer is restarted with the timeout it had;
\* what is in flight is not taken off the window.
AcknowledgeKeepsTimeout(s, idx, window_size) ==
  LET in_flight == s.sequence_numbers_in_flight_
                     - LengthOfAll(SubSeq(s.outstanding_messages_, 1, idx))
      released  == [s EXCEPT
                      !.receiver_window_size_ = window_size,
                      !.receiver_window_space_ = Greater(window_size - in_flight, 0),
                      !.free_window = FALSE,
                      !.sequence_numbers_in_flight_ = in_flight]
  IN  IF idx = 0 THEN released
      ELSE [released EXCEPT
              !.time_elapsed_ = 0,
              !.consecutive_retransmissions_ = 0,
              !.outstanding_messages_ = SubSeq(@, idx + 1, Len(@))]

AcknowledgeWholeWindow(s, idx, window_size) ==
  [s EXCEPT !.receiver_window_size_ = window_size,
            !.receiver_window_space_ = window_size,
            !.free_window = FALSE,
            !.sequence_numbers_in_flight_ =
               @ - LengthOfAll(SubSeq(s.outstanding_messages_, 1, idx)),
            !.outstanding_messages_ = SubSeq(@, idx + 1, Len(@))]

\* A valid acknowledgment of idx messages sets the window anew, forgets them and
\* restarts the timer if there are any.
Acknowledge(s, idx, window_size) ==
  LET in_flight == s.sequence_numbers_in_flight_
                     - LengthOfAll(SubSeq(s.outstanding_messages_, 1, idx))
      released  == [s EXCEPT
                      !.receiver_window_size_ = window_size,
                      !.receiver_window_space_ = Greater(window_size - in_flight, 0),
                      !.free_window = FALSE,
                      !.sequence_numbers_in_flight_ = in_flight]
  IN  IF idx = 0 THEN released
      ELSE [released EXCEPT
              !.time_elapsed_ = 0,
              !.retransmission_timeout_ = InitialRTO,
              !.consecutive_retransmissions_ = 0,
              !.outstanding_messages_ = SubSeq(@, idx + 1, Len(@))]

\* The sender after an acknowledgment up to abs_ackno, by the messages that covers.
SenderReceive(s, msg) ==
  LET After[abs_ackno \in Nat] ==
        LET AfterAcked[idx \in Nat] == Acknowledge(s, idx, msg.window_size)
        IN  IF ValidAck(s, abs_ackno)
            THEN AfterAcked[AckedMessages(s, abs_ackno)] ELSE s
  IN  IF msg.ackno = Nullopt THEN s ELSE After[AbsSeqno(s, msg.ackno)]

-----------------------------------------------------------------------------
(* tick *)

Expires(s, ms) == /\ s.outstanding_messages_ # << >>
                  /\ s.time_elapsed_ + ms >= s.retransmission_timeout_

\* The timeout is doubled only if the window is not closed, the SYN excepted.
BacksOff(s) == /\ s.receiver_window_size_ # 0 \/ s.outstanding_messages_[1].SYN
               /\ ~s.free_window

\* The oldest outstanding message is sent again when the timer expires.
Retransmit(s) ==
  LET resent == [s EXCEPT !.send_messages_ = Append(@, s.outstanding_messages_[1]),
                          !.time_elapsed_ = 0]
  IN  IF BacksOff(s)
      THEN [resent EXCEPT !.consecutive_retransmissions_ = @ + 1,
                          !.retransmission_timeout_ = @ * 2]
      ELSE resent

SenderTick(s, ms) ==
  IF s.outstanding_messages_ = << >> THEN s
  ELSE IF Expires(s, ms) THEN Retransmit(s)
  ELSE [s EXCEPT !.time_elapsed_ = @ + ms]

=============================================================================

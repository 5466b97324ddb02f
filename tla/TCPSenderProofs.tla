-------------------------- MODULE TCPSenderProofs ---------------------------
(***************************************************************************)
(* The safety properties of TCPSenderSpec, for every capacity, every       *)
(* length of the stream, every payload limit, timeout, isn and width of    *)
(* the sequence numbers.                                                   *)
(***************************************************************************)
EXTENDS TCPSenderSpec, OperatorLemmas

-----------------------------------------------------------------------------
(* Absolute numbers and the 32-bit ones. *)
LEMMA Unwrapped ==
  ASSUME NEW isn \in SequenceNumber, NEW n \in Nat, NEW at \in 0..StreamLength + 2,
         2 * AbsoluteDelta(n, at) < Word32
  PROVE  Unwrap(Wrap(n, isn), isn, at) = n
<1>1. at \in Nat /\ at + 2 * Word32 < Word64
  BY StreamLengthAssumption, Word32Assumption, Word64Assumption
<1>2. QED
  BY <1>1, UnwrapWrapped

LEMMA UnwrapNat ==
  ASSUME NEW isn \in SequenceNumber, NEW seqno \in SequenceNumber,
         NEW at \in 0..StreamLength + 2
  PROVE  Unwrap(seqno, isn, at) \in Nat
<1>1. at \in Nat /\ at + 2 * Word32 < Word64
  BY StreamLengthAssumption, Word32Assumption, Word64Assumption
<1>2. Unwrap(seqno, isn, at) \in 0..at + 2 * Word32
  BY <1>1, UnwrapClosest
<1>3. QED
  BY <1>1, <1>2, Word32Assumption

LEMMA UnwrapInt ==
  ASSUME NEW isn \in SequenceNumber, NEW seqno \in SequenceNumber, NEW at \in Nat
  PROVE  Unwrap(seqno, isn, at) \in Int
<1> DEFINE tmp == Offset32(seqno, isn)
           up  == (tmp - at) % Word32
           down == (at - tmp) % Word32
<1>1. Word32 \in Nat \ {0} /\ Word64 \in Nat \ {0}
  BY Word32Assumption, Word64Assumption
<1>2. tmp \in Int
  BY <1>1 DEF Offset32, SequenceNumber
<1> HIDE DEF tmp
<1>3. up \in Int /\ down \in Int
  BY <1>1, <1>2
<1>4. \A x \in Int : x - Word32 \in Int /\ x - Word32 + Word64 \in Int
                     /\ (x + Word32) % Word64 \in Int
  BY <1>1
<1> DEFINE near  == IF tmp >= at THEN at + up ELSE at - down
           other == IF tmp >= at THEN Difference64(near, Word32) ELSE Sum64(near, Word32)
<1> HIDE DEF up, down
<1>5. near \in Int
  BY <1>2, <1>3
<1>6. other \in Int
  <2> HIDE DEF near
  <2>1. QED
    BY <1>4, <1>5 DEF Difference64, Sum64
<1>7. Unwrap(seqno, isn, at) \in {other, near}
  BY Zenon DEF Unwrap, tmp, up, down
<1>8. QED
  BY <1>5, <1>6, <1>7

LEMMA WrapInRange ==
  ASSUME NEW isn \in SequenceNumber, NEW n \in Nat
  PROVE  Wrap(n, isn) \in SequenceNumber
<1>1. isn \in Nat /\ Word32 \in Nat \ {0}
  BY Word32Assumption DEF SequenceNumber
<1> DEFINE x == isn + n
<1>2. x \in Int
  BY <1>1
<1> HIDE DEF x
<1>3. x % Word32 \in 0..Word32 - 1
  BY <1>1, <1>2
<1>4. QED
  BY <1>3 DEF x, Wrap, Advanced, SequenceNumber

-----------------------------------------------------------------------------
(* Messages one after the other: at[i] is where the i-th begins. *)
Run(messages, at) ==
  /\ at \in [1..Len(messages) + 1 -> Nat]
  /\ \A i \in 1..Len(messages) : at[i + 1] = at[i] + SequenceLength(messages[i])

LEMMA LengthInNat ==
  ASSUME NEW message \in SenderMessages
  PROVE  SequenceLength(message) \in Nat
<1> DEFINE first == IF message.SYN THEN 1 ELSE 0
           last  == IF message.FIN THEN 1 ELSE 0
<1>1. Len(message.payload) \in Nat
  BY DEF SenderMessages
<1>2. first \in Nat /\ last \in Nat
  OBVIOUS
<1>3. SequenceLength(message) = first + Len(message.payload) + last
  BY DEF SequenceLength
<1> HIDE DEF first, last
<1>4. QED
  BY <1>1, <1>2, <1>3

(* Their lengths add up to the distance. *)
LEMMA LengthsAddUp ==
  ASSUME NEW messages \in Seq(SenderMessages), NEW at, Run(messages, at)
  PROVE  LengthOfAll(messages) = at[Len(messages) + 1] - at[1]
<1> DEFINE n    == Len(messages)
           Sums(f) == f = [i \in 0..n |-> IF i = 0 THEN 0
                                          ELSE f[i - 1] + SequenceLength(messages[i])]
           w    == [i \in 0..n |-> at[i + 1] - at[1]]
           sum  == CHOOSE f : Sums(f)
<1>1. LengthOfAll(messages) = sum[n]
  BY DEF LengthOfAll
<1>2. /\ n \in Nat /\ \A i \in 1..n + 1 : at[i] \in Nat
      /\ \A i \in 1..n : SequenceLength(messages[i]) \in Nat
      /\ \A i \in 1..n : at[i + 1] = at[i] + SequenceLength(messages[i])
  BY LengthInNat, ElementOfSeq DEF Run
<1>3. Sums(w)
  <2>1. ASSUME NEW i \in 0..n
        PROVE  w[i] = IF i = 0 THEN 0 ELSE w[i - 1] + SequenceLength(messages[i])
    <3>1. CASE i = 0
      BY <1>2, <3>1
    <3>2. CASE i # 0
      <4>1. i \in 1..n /\ i - 1 \in 0..n /\ (i - 1) + 1 = i
        BY <1>2, <3>2
      <4>2. w[i] = at[i + 1] - at[1] /\ w[i - 1] = at[i] - at[1]
        BY <4>1
      <4> HIDE DEF w, n
      <4>3. at[i + 1] - at[1] = (at[i] - at[1]) + SequenceLength(messages[i])
        <5>1. at[i] \in Nat /\ at[1] \in Nat /\ SequenceLength(messages[i]) \in Nat
          BY <1>2, <4>1
        <5>2. QED
          BY <1>2, <4>1, <5>1
      <4>4. QED
        BY <3>2, <4>2, <4>3
    <3>3. QED
      BY <3>1, <3>2
  <2> HIDE DEF n
  <2>2. w = [i \in 0..n |-> w[i]]
    OBVIOUS
  <2>3. QED
    BY <2>1, <2>2
<1>4. Sums(sum)
  BY <1>3, Zenon
<1> HIDE DEF sum
<1>5. ASSUME sum[n] # w[n]
      PROVE  FALSE
  <2> DEFINE T == {i \in 0..n : sum[i] # w[i]}
  <2>1. PICK k \in T : \A j \in T : k <= j
    <3>1. n \in T
      <4> HIDE DEF w
      <4>1. QED
        BY <1>2, <1>5
    <3>2. T \in SUBSET Nat
      BY <1>2
    <3> HIDE DEF T
    <3>3. QED
      BY <3>1, <3>2, LeastNumber
  <2>2. k \in 0..n /\ sum[k] # w[k]
    OBVIOUS
  <2>3. k # 0
    <3>1. sum[0] = 0 /\ w[0] = 0
      BY <1>2, <1>4
    <3>2. QED
      BY <2>2, <3>1
  <2>4. k - 1 \in 0..n /\ k - 1 \notin T
    BY <1>2, <2>1, <2>2, <2>3
  <2>5. sum[k - 1] = w[k - 1]
    BY <2>4
  <2> HIDE DEF w, T
  <2>6. sum[k] = sum[k - 1] + SequenceLength(messages[k])
    BY <1>4, <2>2, <2>3
  <2>7. w[k] = w[k - 1] + SequenceLength(messages[k])
    BY <1>3, <2>2, <2>3
  <2>8. QED
    BY <2>2, <2>5, <2>6, <2>7
<1>6. w[n] = at[n + 1] - at[1]
  BY <1>2
<1>7. QED
  BY <1>1, <1>5, <1>6

\* A message at its place: its number, flags and bytes.
Proper(message, at) ==
  /\ message.seqno = Wrap(at, Isn)
  /\ message.SYN <=> at = 0
  /\ message.FIN <=> at + SequenceLength(message) = Fin + 1
  /\ Contiguous(message.payload, IF message.SYN THEN 0 ELSE at - 1)

\* Messages at their places from first up to next.
Keeps(messages, at, first, next) ==
  /\ Run(messages, at)
  /\ at[1] = first /\ at[Len(messages) + 1] = next
  /\ \A i \in 1..Len(messages) : Proper(messages[i], at[i])

Kept(messages, first, next) == \E at : Keeps(messages, at, first, next)

LEMMA KeptAppended ==
  ASSUME NEW messages \in Seq(SenderMessages), NEW first, NEW next \in Nat,
         Kept(messages, first, next),
         NEW message \in SenderMessages, Proper(message, next)
  PROVE  Kept(Append(messages, message), first, next + SequenceLength(message))
<1> DEFINE n == Len(messages)
           length == SequenceLength(message)
           longer == Append(messages, message)
<1>1. PICK at : Keeps(messages, at, first, next)
  BY DEF Kept
<1>2. n \in Nat /\ length \in Nat
  BY LengthInNat
<1>3. /\ Len(longer) = n + 1 /\ longer[n + 1] = message
      /\ \A i \in 1..n : longer[i] = messages[i]
  OBVIOUS
<1>4. /\ at \in [1..n + 1 -> Nat] /\ at[1] = first /\ at[n + 1] = next
      /\ \A i \in 1..n : at[i + 1] = at[i] + SequenceLength(messages[i])
      /\ \A i \in 1..n : Proper(messages[i], at[i])
  BY <1>1 DEF Keeps, Run
<1> HIDE DEF n, longer, length
<1> DEFINE to == [i \in 1..n + 2 |-> IF i = n + 2 THEN next + length ELSE at[i]]
<1>5. /\ \A i \in 1..n + 1 : to[i] = at[i] /\ i # n + 2 /\ i \in 1..n + 2
      /\ to[n + 2] = next + length
      /\ to \in [1..n + 2 -> Nat]
  BY <1>2, <1>4
<1>6. (n + 1) + 1 = n + 2 /\ 1 \in 1..n + 1 /\ n + 1 \in 1..n + 1
      /\ \A i \in 1..n + 1 : i = n + 1 \/ (i \in 1..n /\ i + 1 \in 1..n + 1)
  BY <1>2
<1> HIDE DEF to
<1>7. ASSUME NEW i \in 1..n + 1
      PROVE  /\ to[i + 1] = to[i] + SequenceLength(longer[i])
             /\ Proper(longer[i], to[i])
  <2>1. CASE i = n + 1
    BY <1>3, <1>4, <1>5, <1>6, <2>1 DEF length
  <2>2. CASE i # n + 1
    <3>1. i \in 1..n /\ i + 1 \in 1..n + 1
      BY <1>6, <2>2
    <3>2. to[i + 1] = at[i + 1] /\ to[i] = at[i] /\ longer[i] = messages[i]
      BY <1>3, <1>5, <3>1
    <3>3. QED
      BY <1>4, <3>1, <3>2
  <2>3. QED
    BY <2>1, <2>2
<1>8. Keeps(longer, to, first, next + length)
  <2>1. to[1] = first /\ to[Len(longer) + 1] = next + length
    BY <1>3, <1>4, <1>5, <1>6
  <2>2. Run(longer, to)
    BY <1>3, <1>5, <1>6, <1>7 DEF Run
  <2>3. QED
    BY <1>3, <1>7, <2>1, <2>2 DEF Keeps
<1>9. QED
  BY <1>8 DEF Kept, longer, length

LEMMA KeptCut ==
  ASSUME NEW messages \in Seq(SenderMessages), NEW first, NEW next, NEW at,
         Keeps(messages, at, first, next), NEW k \in 0..Len(messages)
  PROVE  /\ SubSeq(messages, k + 1, Len(messages)) \in Seq(SenderMessages)
         /\ Len(SubSeq(messages, k + 1, Len(messages))) = Len(messages) - k
         /\ Keeps(SubSeq(messages, k + 1, Len(messages)),
                  [i \in 1..Len(messages) - k + 1 |-> at[i + k]], at[k + 1], next)
         /\ LengthOfAll(SubSeq(messages, 1, k)) = at[k + 1] - first
<1> DEFINE n    == Len(messages)
           rest == SubSeq(messages, k + 1, n)
           head == SubSeq(messages, 1, k)
           to   == [i \in 1..n - k + 1 |-> at[i + k]]
           up   == [i \in 1..k + 1 |-> at[i]]
<1>1. n \in Nat /\ k \in Nat /\ k <= n /\ \A i \in 1..n : messages[i] \in SenderMessages
  BY LenProperties, ElementOfSeq
<1>2. /\ rest \in Seq(SenderMessages) /\ Len(rest) = n - k
      /\ \A i \in 1..n - k : rest[i] = messages[i + k]
  BY <1>1, SubSeqProperties
<1>3. /\ head \in Seq(SenderMessages) /\ Len(head) = k
      /\ \A i \in 1..k : head[i] = messages[i]
  BY <1>1, SubSeqProperties
<1>4. /\ at \in [1..n + 1 -> Nat] /\ at[1] = first /\ at[n + 1] = next
      /\ \A i \in 1..n : at[i + 1] = at[i] + SequenceLength(messages[i])
      /\ \A i \in 1..n : Proper(messages[i], at[i])
  BY DEF Keeps, Run
<1> HIDE DEF n, rest, head
<1>5. Keeps(rest, to, at[k + 1], next)
  <2>1. /\ to \in [1..n - k + 1 -> Nat] /\ to[1] = at[k + 1] /\ to[n - k + 1] = next
    BY <1>1, <1>4
  <2>2. ASSUME NEW i \in 1..n - k
        PROVE  /\ to[i + 1] = to[i] + SequenceLength(rest[i])
               /\ Proper(rest[i], to[i])
    <3>1. i + k \in 1..n /\ (i + 1) + k = (i + k) + 1
          /\ i \in 1..n - k + 1 /\ i + 1 \in 1..n - k + 1
      BY <1>1
    <3>2. to[i + 1] = at[(i + k) + 1] /\ to[i] = at[i + k] /\ rest[i] = messages[i + k]
      BY <1>2, <3>1
    <3>3. QED
      BY <1>4, <3>1, <3>2
  <2> HIDE DEF to
  <2>3. QED
    BY <1>2, <2>1, <2>2 DEF Keeps, Run
<1>6. LengthOfAll(head) = at[k + 1] - first
  <2>1. /\ up \in [1..k + 1 -> Nat] /\ up[1] = first /\ up[k + 1] = at[k + 1]
    BY <1>1, <1>4
  <2>2. ASSUME NEW i \in 1..k
        PROVE  up[i + 1] = up[i] + SequenceLength(head[i])
    <3>1. i \in 1..n /\ i \in 1..k + 1 /\ i + 1 \in 1..k + 1
      BY <1>1
    <3>2. up[i + 1] = at[i + 1] /\ up[i] = at[i] /\ head[i] = messages[i]
      BY <1>3, <3>1
    <3>3. QED
      BY <1>4, <3>1, <3>2
  <2> HIDE DEF up
  <2>3. Run(head, up)
    BY <1>3, <2>1, <2>2 DEF Run
  <2>4. QED
    BY <1>3, <2>1, <2>3, LengthsAddUp
<1>7. QED
  BY <1>2, <1>5, <1>6 DEF n, rest, head

-----------------------------------------------------------------------------
(* What is true of the sender and its stream at any time. *)

\* The first number that is not acknowledged.
Unacked(s) == s.next_abs_seqno_ - s.sequence_numbers_in_flight_

Accounted(s, b) ==
  /\ s.next_abs_seqno_ = (IF s.syn THEN 1 ELSE 0) + BytesPopped(b)
                           + (IF s.fin THEN 1 ELSE 0)
  /\ s.fin => IsFinished(b) /\ s.syn

InStream(b) ==
  /\ Intact(b)
  /\ b.bytes_write <= StreamLength
  /\ b.close_ => b.bytes_write = StreamLength

\* Every message to send was given numbers that are used.
Genuine(s) ==
  \A i \in 1..Len(s.send_messages_) :
    \E at \in Nat : /\ Proper(s.send_messages_[i], at)
                    /\ at + SequenceLength(s.send_messages_[i]) <= s.next_abs_seqno_

Timed(s) ==
  /\ s.retransmission_timeout_ = BackedOff[s.consecutive_retransmissions_]
  /\ s.time_elapsed_ < s.retransmission_timeout_
  /\ s.outstanding_messages_ = << >> => /\ s.time_elapsed_ = 0
                                        /\ s.consecutive_retransmissions_ = 0

\* There is no more space than the window, but for the FIN that wraps it around.
Windowed(s) == s.fin \/ s.receiver_window_space_ <= s.receiver_window_size_

SoundSender(s, b) ==
  /\ s \in SenderStates /\ s.isn_ = Isn
  /\ InStream(b) /\ Accounted(s, b)
  /\ Kept(s.outstanding_messages_, Unacked(s), s.next_abs_seqno_)
  /\ Genuine(s)
  /\ Timed(s) /\ Windowed(s)
  /\ ~s.syn => s = NewSender(Isn)

(* A message more. *)
LEMMA UpdateStatusFields ==
  ASSUME NEW s \in SenderStates, NEW message \in SenderMessages
  PROVE  LET t == UpdateStatus(s, message)
             length == SequenceLength(message)
         IN  /\ t \in SenderStates
             /\ t.isn_ = s.isn_ /\ t.syn = s.syn /\ t.fin = s.fin
             /\ t.next_abs_seqno_ = s.next_abs_seqno_ + length
             /\ t.sequence_numbers_in_flight_ = s.sequence_numbers_in_flight_ + length
             /\ t.receiver_window_space_ = (s.receiver_window_space_ - length) % Word16
             /\ t.receiver_window_size_ = s.receiver_window_size_
             /\ t.send_messages_ = Append(s.send_messages_, message)
             /\ t.outstanding_messages_ = Append(s.outstanding_messages_, message)
             /\ t.consecutive_retransmissions_ = s.consecutive_retransmissions_
             /\ t.retransmission_timeout_ = s.retransmission_timeout_
             /\ t.time_elapsed_ = s.time_elapsed_
<1> DEFINE length == SequenceLength(message)
           space == (s.receiver_window_space_ - length) % Word16
           next  == s.next_abs_seqno_ + length
           fly   == s.sequence_numbers_in_flight_ + length
           send  == Append(s.send_messages_, message)
           kept  == Append(s.outstanding_messages_, message)
           t == UpdateStatus(s, message)
<1>1. length \in Nat
  BY LengthInNat
<1>2. /\ s.next_abs_seqno_ \in Nat /\ s.sequence_numbers_in_flight_ \in Nat
      /\ s.receiver_window_space_ \in Int
      /\ s.send_messages_ \in Seq(SenderMessages)
      /\ s.outstanding_messages_ \in Seq(SenderMessages)
  BY DEF SenderStates
<1> HIDE DEF length
<1>3. space \in 0..Word16 - 1
  BY <1>1, <1>2, Word16Assumption
<1>4. next \in Nat /\ fly \in Nat
  BY <1>1, <1>2
<1>5. send \in Seq(SenderMessages) /\ kept \in Seq(SenderMessages)
  BY <1>2
<1>6. t = [s EXCEPT !.next_abs_seqno_ = next,
                    !.sequence_numbers_in_flight_ = fly,
                    !.receiver_window_space_ = space,
                    !.send_messages_ = send,
                    !.outstanding_messages_ = kept]
  BY DEF UpdateStatus, Difference16, length
<1> HIDE DEF space, next, fly, send, kept, t
<1>7. t \in SenderStates
  BY <1>3, <1>4, <1>5, <1>6 DEF SenderStates
<1>8. /\ t.isn_ = s.isn_ /\ t.syn = s.syn /\ t.fin = s.fin
      /\ t.next_abs_seqno_ = next
      /\ t.sequence_numbers_in_flight_ = fly
      /\ t.receiver_window_space_ = space
      /\ t.receiver_window_size_ = s.receiver_window_size_
      /\ t.send_messages_ = send
      /\ t.outstanding_messages_ = kept
      /\ t.consecutive_retransmissions_ = s.consecutive_retransmissions_
      /\ t.retransmission_timeout_ = s.retransmission_timeout_
      /\ t.time_elapsed_ = s.time_elapsed_
  BY <1>6 DEF SenderStates
<1>9. QED
  BY <1>7, <1>8 DEF space, next, fly, send, kept, t, length

(* The message takes the numbers that follow the last one used, and the    *)
(* timer runs on.                                                          *)
LEMMA Added ==
  ASSUME NEW s, NEW b, SoundSender(s, b),
         NEW message \in SenderMessages, Proper(message, s.next_abs_seqno_),
         NEW t \in SenderStates, NEW rest,
         InStream(rest), Accounted(t, rest), Windowed(t), t.syn, t.isn_ = s.isn_,
         t.next_abs_seqno_ = s.next_abs_seqno_ + SequenceLength(message),
         t.sequence_numbers_in_flight_
           = s.sequence_numbers_in_flight_ + SequenceLength(message),
         t.send_messages_ = Append(s.send_messages_, message),
         t.outstanding_messages_ = Append(s.outstanding_messages_, message),
         t.consecutive_retransmissions_ = s.consecutive_retransmissions_,
         t.retransmission_timeout_ = s.retransmission_timeout_,
         t.time_elapsed_ = s.time_elapsed_
  PROVE  SoundSender(t, rest) /\ Unacked(t) = Unacked(s)
<1> DEFINE length == SequenceLength(message)
           next   == s.next_abs_seqno_
           send   == s.send_messages_
           out    == s.outstanding_messages_
<1>1. /\ length \in Nat /\ next \in Nat /\ s.sequence_numbers_in_flight_ \in Nat
      /\ send \in Seq(SenderMessages) /\ out \in Seq(SenderMessages)
  BY LengthInNat DEF SoundSender, SenderStates
<1>2. Unacked(t) = Unacked(s)
  <2> HIDE DEF length
  <2>1. \A x, y, z \in Nat : (x + z) - (y + z) = x - y
    OBVIOUS
  <2>2. QED
    BY <1>1, <2>1 DEF Unacked, length
<1>3. Kept(t.outstanding_messages_, Unacked(t), t.next_abs_seqno_)
  <2>1. Kept(out, Unacked(s), next)
    BY DEF SoundSender
  <2>2. Kept(Append(out, message), Unacked(s), next + length)
    BY <1>1, <2>1, KeptAppended
  <2>3. QED
    BY <1>2, <2>2
<1>4. Genuine(t)
  <2> DEFINE n == Len(send)
  <2>1. ASSUME NEW i \in 1..Len(t.send_messages_)
        PROVE  \E at \in Nat : /\ Proper(t.send_messages_[i], at)
                              /\ at + SequenceLength(t.send_messages_[i]) <= t.next_abs_seqno_
    <3>1. /\ n \in Nat /\ i \in 1..n + 1
          /\ i = n + 1 => t.send_messages_[i] = message
          /\ i # n + 1 => i \in 1..n /\ t.send_messages_[i] = send[i]
      BY <1>1
    <3>2. CASE i = n + 1
      <4>1. next \in Nat /\ Proper(message, next) /\ next + length <= t.next_abs_seqno_
        BY <1>1
      <4>2. QED
        BY <3>1, <3>2, <4>1
    <3>3. CASE i # n + 1
      <4>1. PICK at \in Nat : /\ Proper(send[i], at)
                             /\ at + SequenceLength(send[i]) <= next
        BY <3>1, <3>3 DEF SoundSender, Genuine
      <4>2. SequenceLength(send[i]) \in Nat
        BY <1>1, <3>1, <3>3, LengthInNat, ElementOfSeq
      <4>3. at + SequenceLength(send[i]) <= next + length
        BY <1>1, <4>1, <4>2
      <4>4. QED
        BY <3>1, <3>3, <4>1, <4>3
    <3>4. QED
      BY <3>2, <3>3
  <2>2. QED
    BY <2>1 DEF Genuine
<1>5. Timed(t)
  <2>1. Append(out, message) # << >>
    BY <1>1, AppendProperties
  <2>2. QED
    BY <2>1 DEF SoundSender, Timed
<1>6. QED
  BY <1>2, <1>3, <1>4, <1>5 DEF SoundSender

-----------------------------------------------------------------------------
(* push *)

LEMMA PushSynSound ==
  ASSUME NEW s, NEW b, SoundSender(s, b), ~s.syn
  PROVE  /\ SoundSender(PushSyn(s, b), b)
         /\ Unacked(PushSyn(s, b)) = Unacked(s)
         /\ PushSyn(s, b).receiver_window_space_ = 0
         /\ PushSyn(s, b).receiver_window_size_ = 1
         /\ PushSyn(s, b).next_abs_seqno_ > 0
         /\ PushSyn(s, b).syn
<1> DEFINE message == SynMessage(s, b)
           length  == SequenceLength(message)
           t       == PushSyn(s, b)
           fin     == IsFinished(b)
           space   == Difference16(1, 1)
           send    == Append(s.send_messages_, message)
           out     == Append(s.outstanding_messages_, message)
<1>1. /\ s \in SenderStates /\ s = NewSender(Isn) /\ s.isn_ = Isn
      /\ s.next_abs_seqno_ = 0 /\ s.sequence_numbers_in_flight_ = 0
      /\ s.receiver_window_space_ = 1 /\ s.receiver_window_size_ = 1
      /\ s.fin = FALSE
      /\ s.send_messages_ \in Seq(SenderMessages)
      /\ s.outstanding_messages_ \in Seq(SenderMessages)
  <2>1. s \in SenderStates /\ s = NewSender(Isn) /\ s.isn_ = Isn
    BY DEF SoundSender
  <2>2. QED
    BY <2>1 DEF NewSender, SenderStates
<1>2. /\ BytesPopped(b) = 0 /\ Intact(b)
      /\ b.close_ => b.bytes_write = StreamLength
      /\ b.bytes_write \in Nat /\ b.close_ \in BOOLEAN
  BY <1>1 DEF SoundSender, Accounted, InStream, Intact, StreamStates, BytesPopped
<1>3. fin \in BOOLEAN /\ (fin => StreamLength = 0)
  BY <1>2 DEF IsFinished, BytesPopped
<1>4. /\ message \in SenderMessages
      /\ message.SYN = TRUE /\ message.FIN = fin /\ message.payload = << >>
      /\ message.seqno = Wrap(0, Isn)
  <2>1. Wrap(0, Isn) \in SequenceNumber
    BY WrapInRange, IsnAssumption
  <2> HIDE DEF fin
  <2>2. message = [seqno |-> Wrap(0, Isn), SYN |-> TRUE, payload |-> << >>, FIN |-> fin]
    BY <1>1 DEF SynMessage, NextSeqno, fin
  <2> HIDE DEF message
  <2>3. << >> \in Seq(Byte)
    OBVIOUS
  <2>4. QED
    BY <1>3, <2>1, <2>2, <2>3 DEF SenderMessages
<1> HIDE DEF message
<1>5. length = 1 + (IF fin THEN 1 ELSE 0)
  BY <1>4 DEF SequenceLength
<1>6. Proper(message, 0)
  <2>1. Contiguous(message.payload, 0)
    BY <1>4 DEF Contiguous
  <2>2. fin <=> 0 + length = Fin + 1
    BY <1>3, <1>5, StreamLengthAssumption DEF Fin
  <2>3. QED
    BY <1>4, <2>1, <2>2 DEF Proper
<1>7. length \in Nat /\ length > 0
  BY <1>3, <1>5
<1>8. space = 0
  BY Word16Assumption DEF Difference16
<1> HIDE DEF length, fin, space
<1>9. t = [s EXCEPT !.syn = TRUE, !.fin = fin,
                    !.next_abs_seqno_ = length,
                    !.sequence_numbers_in_flight_ = length,
                    !.receiver_window_space_ = space,
                    !.send_messages_ = send,
                    !.outstanding_messages_ = out]
  <2>1. 0 + length = length
    BY <1>7
  <2>2. message.FIN = fin
    BY <1>4
  <2>3. QED
    BY <1>1, <2>1, <2>2, Zenon DEF PushSyn, length, space, message
<1>10. send \in Seq(SenderMessages) /\ out \in Seq(SenderMessages)
  BY <1>1, <1>4
<1>11. 0 \in 0..Word16 - 1
  BY Word16Assumption
<1> HIDE DEF t, send, out
<1>12. t \in SenderStates
  BY <1>1, <1>3, <1>7, <1>8, <1>9, <1>10, <1>11 DEF SenderStates
<1>13. /\ t.syn = TRUE /\ t.fin = fin /\ t.isn_ = s.isn_
       /\ t.next_abs_seqno_ = length /\ t.sequence_numbers_in_flight_ = length
       /\ t.receiver_window_space_ = space
       /\ t.receiver_window_size_ = s.receiver_window_size_
       /\ t.send_messages_ = send /\ t.outstanding_messages_ = out
       /\ t.consecutive_retransmissions_ = s.consecutive_retransmissions_
       /\ t.retransmission_timeout_ = s.retransmission_timeout_
       /\ t.time_elapsed_ = s.time_elapsed_
  BY <1>1, <1>9 DEF SenderStates
<1>14. Accounted(t, b)
  <2>1. length = 1 + 0 + (IF fin THEN 1 ELSE 0)
    BY <1>5, <1>3
  <2>2. fin => IsFinished(b)
    BY DEF fin
  <2>3. QED
    BY <1>2, <1>13, <2>1, <2>2 DEF Accounted
<1>15. SoundSender(t, b) /\ Unacked(t) = Unacked(s)
  <2>1. InStream(b) /\ Windowed(t)
    BY <1>1, <1>8, <1>13 DEF SoundSender, Windowed
  <2>2. /\ t.next_abs_seqno_ = s.next_abs_seqno_ + SequenceLength(message)
        /\ t.sequence_numbers_in_flight_
             = s.sequence_numbers_in_flight_ + SequenceLength(message)
    BY <1>1, <1>7, <1>13 DEF length
  <2>3. /\ t.send_messages_ = Append(s.send_messages_, message)
        /\ t.outstanding_messages_ = Append(s.outstanding_messages_, message)
    BY <1>13 DEF send, out
  <2>4. Proper(message, s.next_abs_seqno_)
    BY <1>1, <1>6
  <2>5. QED
    BY <1>4, <1>12, <1>13, <1>14, <2>1, <2>2, <2>3, <2>4, Added
<1>16. QED
  BY <1>1, <1>7, <1>8, <1>13, <1>15 DEF t

\* What a step does with the window: it is used up by what is sent, or one number
\* is sent into a closed one.
WindowUsed(s, t) ==
  \/ /\ t.next_abs_seqno_ + t.receiver_window_space_
          = s.next_abs_seqno_ + s.receiver_window_space_
     /\ t.receiver_window_size_ = s.receiver_window_size_
     /\ t.next_abs_seqno_ >= s.next_abs_seqno_
  \/ /\ ZeroWindow(s)
     /\ t.next_abs_seqno_ = s.next_abs_seqno_ + 1
     /\ t.receiver_window_space_ = 0 /\ t.receiver_window_size_ = 1

LEMMA PushSegmentSound ==
  ASSUME NEW s, NEW b, SoundSender(s, b), s.syn, ~s.fin, MoreToSend(s, b)
  PROVE  /\ SoundSender(PushSegment(s, b).sender, PushSegment(s, b).outbound)
         /\ Unacked(PushSegment(s, b).sender) = Unacked(s)
         /\ PushSegment(s, b).sender.syn
         /\ PushSegment(s, b).sender.fin => BytesBuffered(PushSegment(s, b).outbound) = 0
         /\ WindowUsed(s, PushSegment(s, b).sender)
<1> DEFINE opened == IF ZeroWindow(s)
                     THEN [s EXCEPT !.receiver_window_size_ = 1,
                                    !.receiver_window_space_ = 1,
                                    !.free_window = TRUE]
                     ELSE s
           space == opened.receiver_window_space_
           read_size == Lesser(Lesser(BytesBuffered(b), space), MaxPayloadSize)
           rest    == Read(b, read_size)
           payload == ReadOut(b, read_size)
           fin     == IsFinished(rest) /\ space > read_size
           message == [seqno |-> NextSeqno(s), SYN |-> FALSE, payload |-> payload,
                       FIN |-> fin]
           length  == SequenceLength(message)
           ready   == [opened EXCEPT !.fin = @ \/ fin]
           t       == UpdateStatus(ready, message)
           next    == s.next_abs_seqno_
<1>1. PushSegment(s, b) = [sender |-> t, outbound |-> rest]
  BY Zenon DEF PushSegment
<1>2. /\ s \in SenderStates /\ s.isn_ = Isn /\ s.syn = TRUE /\ s.fin = FALSE
      /\ next \in Nat /\ s.receiver_window_space_ \in 0..Word16 - 1
      /\ s.sequence_numbers_in_flight_ \in Nat
      /\ s.receiver_window_size_ \in 0..Word16 - 1
  <2>1. s \in SenderStates /\ s.isn_ = Isn
    BY DEF SoundSender
  <2>2. QED
    BY <2>1 DEF SenderStates
<1>3. 1 \in 0..Word16 - 1 /\ 0 \in 0..Word16 - 1 /\ Word16 \in Nat /\ MaxPayloadSize \in Nat \ {0}
  BY Word16Assumption, MaxPayloadSizeAssumption
<1>4. /\ opened \in SenderStates /\ opened.isn_ = Isn /\ opened.syn = TRUE
      /\ opened.fin = FALSE /\ opened.next_abs_seqno_ = next
      /\ opened.sequence_numbers_in_flight_ = s.sequence_numbers_in_flight_
      /\ opened.send_messages_ = s.send_messages_
      /\ opened.outstanding_messages_ = s.outstanding_messages_
      /\ opened.consecutive_retransmissions_ = s.consecutive_retransmissions_
      /\ opened.retransmission_timeout_ = s.retransmission_timeout_
      /\ opened.time_elapsed_ = s.time_elapsed_
      /\ \/ /\ ZeroWindow(s) /\ opened.receiver_window_size_ = 1 /\ space = 1
         \/ /\ ~ZeroWindow(s) /\ space = s.receiver_window_space_
            /\ opened.receiver_window_size_ = s.receiver_window_size_
  <2>1. CASE ZeroWindow(s)
    <3>1. opened = [s EXCEPT !.receiver_window_size_ = 1,
                             !.receiver_window_space_ = 1,
                             !.free_window = TRUE]
      BY <2>1
    <3> HIDE DEF opened
    <3>2. QED
      BY <1>2, <1>3, <2>1, <3>1 DEF SenderStates
  <2>2. CASE ~ZeroWindow(s)
    <3>1. opened = s
      BY <2>2
    <3> HIDE DEF opened
    <3>2. QED
      BY <1>2, <2>2, <3>1
  <2>3. QED
    BY <2>1, <2>2
<1> HIDE DEF opened
<1>5. space \in Nat /\ space > 0 /\ space \in 0..Word16 - 1
  BY <1>2, <1>3, <1>4 DEF MoreToSend
<1>6. /\ Intact(b) /\ b.bytes_read \in Nat /\ b.bytes_write \in Nat
      /\ BytesBuffered(b) \in Nat /\ BytesBuffered(b) > 0
      /\ b.bytes_write <= StreamLength
      /\ b.close_ => b.bytes_write = StreamLength
      /\ b.bytes_read <= b.bytes_write
      /\ BytesBuffered(b) = b.bytes_write - b.bytes_read
      /\ next = 1 + b.bytes_read
  <2>1. /\ Intact(b) /\ b.bytes_read \in Nat /\ b.bytes_write \in Nat
        /\ Len(b.stream) \in Nat /\ b.bytes_write = b.bytes_read + Len(b.stream)
    BY DEF SoundSender, InStream, Intact, StreamStates
  <2>2. next = 1 + b.bytes_read
    BY <1>2, <2>1 DEF SoundSender, Accounted, BytesPopped
  <2>3. QED
    BY <2>1, <2>2 DEF SoundSender, InStream, BytesBuffered, MoreToSend
<1> HIDE DEF space, next
<1>7. /\ read_size \in Nat /\ read_size > 0 /\ read_size <= space
      /\ read_size <= BytesBuffered(b)
  BY <1>3, <1>5, <1>6 DEF Lesser
<1> HIDE DEF read_size
<1>8. /\ Intact(rest) /\ payload \in Seq(Byte) /\ Contiguous(payload, b.bytes_read)
      /\ Len(payload) = read_size
      /\ rest.bytes_read = b.bytes_read + read_size
      /\ rest.bytes_write = b.bytes_write /\ rest.close_ = b.close_
  <2>1. Lesser(read_size, BytesBuffered(b)) = read_size
    BY <1>7 DEF Lesser
  <2>2. QED
    BY <1>6, <1>7, <2>1, ReadIntact
<1> HIDE DEF rest, payload
<1>9. fin \in BOOLEAN /\ (fin => IsFinished(rest)) /\ (fin => space > read_size)
  BY <1>8 DEF IsFinished, Intact, StreamStates
<1> HIDE DEF fin
<1>10. /\ message \in SenderMessages /\ message.SYN = FALSE /\ message.FIN = fin
       /\ message.payload = payload /\ message.seqno = Wrap(next, Isn)
  <2>1. NextSeqno(s) = Wrap(next, Isn) /\ Wrap(next, Isn) \in SequenceNumber
    BY <1>2, IsnAssumption, WrapInRange DEF NextSeqno, next
  <2>2. QED
    BY <1>8, <1>9, <2>1 DEF SenderMessages
<1> HIDE DEF message
<1>11. /\ length = read_size + (IF fin THEN 1 ELSE 0)
       /\ length \in Nat /\ length > 0 /\ length <= space
  <2>1. length = 0 + read_size + (IF fin THEN 1 ELSE 0)
    BY <1>8, <1>10 DEF SequenceLength
  <2>2. QED
    BY <1>5, <1>7, <1>9, <2>1
<1>12. fin <=> next + length = Fin + 1
  <2>1. fin => rest.bytes_read = StreamLength
    BY <1>6, <1>8, <1>9 DEF IsFinished
  <2>2. Fin + 1 = StreamLength + 2 /\ StreamLength \in Nat
    BY StreamLengthAssumption DEF Fin
  <2>3. b.bytes_read + read_size <= StreamLength
    BY <1>6, <1>7, StreamLengthAssumption
  <2>4. CASE fin
    <3>1. length = read_size + 1 /\ b.bytes_read + read_size = StreamLength
      BY <1>8, <1>11, <2>1, <2>4
    <3>2. QED
      BY <1>6, <1>7, <2>2, <2>4, <3>1
  <2>5. CASE ~fin
    <3>1. length = read_size
      BY <1>7, <1>11, <2>5
    <3>2. QED
      BY <1>6, <1>7, <2>2, <2>3, <2>5, <3>1
  <2>6. QED
    BY <2>4, <2>5
<1>13. Proper(message, next)
  <2>1. next # 0 /\ next - 1 = b.bytes_read
    BY <1>6
  <2> HIDE DEF length
  <2>2. Contiguous(message.payload, IF message.SYN THEN 0 ELSE next - 1)
    BY <1>8, <1>10, <2>1
  <2>3. message.FIN <=> next + SequenceLength(message) = Fin + 1
    BY <1>10, <1>12 DEF length
  <2>4. message.SYN <=> next = 0
    BY <1>10, <2>1
  <2>5. QED
    BY <1>10, <2>2, <2>3, <2>4 DEF Proper
<1> HIDE DEF length
<1>14. /\ ready \in SenderStates /\ ready.isn_ = Isn /\ ready.syn = TRUE
       /\ ready.fin = fin /\ ready.next_abs_seqno_ = next
       /\ ready.sequence_numbers_in_flight_ = s.sequence_numbers_in_flight_
       /\ ready.send_messages_ = s.send_messages_
       /\ ready.outstanding_messages_ = s.outstanding_messages_
       /\ ready.consecutive_retransmissions_ = s.consecutive_retransmissions_
       /\ ready.retransmission_timeout_ = s.retransmission_timeout_
       /\ ready.time_elapsed_ = s.time_elapsed_
       /\ ready.receiver_window_size_ = opened.receiver_window_size_
       /\ ready.receiver_window_space_ = space
  <2>1. ready = [opened EXCEPT !.fin = fin]
    BY <1>4, <1>9
  <2> HIDE DEF ready
  <2>2. QED
    BY <1>4, <1>9, <2>1 DEF SenderStates, space
<1> HIDE DEF ready
<1>15. /\ t \in SenderStates
       /\ t.isn_ = Isn /\ t.syn = TRUE /\ t.fin = fin
       /\ t.next_abs_seqno_ = next + length
       /\ t.sequence_numbers_in_flight_ = s.sequence_numbers_in_flight_ + length
       /\ t.receiver_window_space_ = (space - length) % Word16
       /\ t.receiver_window_size_ = opened.receiver_window_size_
       /\ t.send_messages_ = Append(s.send_messages_, message)
       /\ t.outstanding_messages_ = Append(s.outstanding_messages_, message)
       /\ t.consecutive_retransmissions_ = s.consecutive_retransmissions_
       /\ t.retransmission_timeout_ = s.retransmission_timeout_
       /\ t.time_elapsed_ = s.time_elapsed_
  <2> HIDE DEF t
  <2>1. t = UpdateStatus(ready, message)
    BY DEF t
  <2>2. /\ t \in SenderStates
        /\ t.isn_ = ready.isn_ /\ t.syn = ready.syn /\ t.fin = ready.fin
        /\ t.next_abs_seqno_ = ready.next_abs_seqno_ + length
        /\ t.sequence_numbers_in_flight_ = ready.sequence_numbers_in_flight_ + length
        /\ t.receiver_window_space_ = (ready.receiver_window_space_ - length) % Word16
        /\ t.receiver_window_size_ = ready.receiver_window_size_
        /\ t.send_messages_ = Append(ready.send_messages_, message)
        /\ t.outstanding_messages_ = Append(ready.outstanding_messages_, message)
        /\ t.consecutive_retransmissions_ = ready.consecutive_retransmissions_
        /\ t.retransmission_timeout_ = ready.retransmission_timeout_
        /\ t.time_elapsed_ = ready.time_elapsed_
    <3>1. ready \in SenderStates /\ message \in SenderMessages
      BY <1>10, <1>14
    <3>2. QED
      BY <2>1, <3>1, UpdateStatusFields, Zenon DEF length
  <2>3. QED
    BY <1>14, <2>2
<1> HIDE DEF t
<1>16. t.receiver_window_space_ = space - length
  <2>1. space - length \in 0..Word16 - 1
    BY <1>3, <1>5, <1>11
  <2> DEFINE left == space - length
  <2>2. left \in 0..Word16 - 1 /\ t.receiver_window_space_ = left % Word16
    BY <1>15, <2>1
  <2> HIDE DEF left
  <2>3. left % Word16 = left
    BY <1>3, <2>2
  <2>4. QED
    BY <2>2, <2>3 DEF left
<1>17. Accounted(t, rest)
  <2>1. next + length = 1 + rest.bytes_read + (IF fin THEN 1 ELSE 0)
    BY <1>6, <1>7, <1>8, <1>9, <1>11
  <2>2. QED
    BY <1>9, <1>15, <2>1 DEF Accounted, BytesPopped
<1>18. InStream(rest)
  BY <1>6, <1>8 DEF InStream
<1>19. SoundSender(t, rest) /\ Unacked(t) = Unacked(s)
  <2>1. space <= opened.receiver_window_size_ /\ opened.receiver_window_size_ \in Nat
    BY <1>2, <1>4, <1>5 DEF SoundSender, Windowed
  <2>2. Windowed(t)
    BY <1>5, <1>11, <1>15, <1>16, <2>1 DEF Windowed
  <2>3. QED
    BY <1>2, <1>10, <1>13, <1>15, <1>17, <1>18, <2>2, Added DEF length, next
<1>20. fin => BytesBuffered(rest) = 0
  BY <1>6, <1>8, <1>9 DEF IsFinished, BytesBuffered
<1>21. WindowUsed(s, t)
  <2>1. CASE ZeroWindow(s)
    <3>1. space = 1 /\ opened.receiver_window_size_ = 1
      BY <1>4, <2>1
    <3>2. length = 1
      BY <1>11, <3>1
    <3>3. QED
      BY <1>15, <1>16, <2>1, <3>1, <3>2 DEF WindowUsed, next
  <2>2. CASE ~ZeroWindow(s)
    <3>1. /\ space = s.receiver_window_space_
          /\ opened.receiver_window_size_ = s.receiver_window_size_
      BY <1>4, <2>2
    <3>2. /\ (next + length) + (space - length) = next + space
          /\ next + length >= next
      BY <1>5, <1>6, <1>11
    <3>3. QED
      BY <1>15, <1>16, <3>1, <3>2 DEF WindowUsed, next
  <2>3. QED
    BY <2>1, <2>2
<1>22. QED
  BY <1>1, <1>15, <1>19, <1>20, <1>21

LEMMA PushFinSound ==
  ASSUME NEW s, NEW b, SoundSender(s, b), s.syn, ~s.fin, IsFinished(b)
  PROVE  LET t == UpdateStatus([s EXCEPT !.fin = TRUE], FinMessage(s))
         IN  /\ SoundSender(t, b) /\ Unacked(t) = Unacked(s)
             /\ t.syn /\ t.fin
             /\ t.next_abs_seqno_ = s.next_abs_seqno_ + 1
<1> DEFINE message == FinMessage(s)
           length  == SequenceLength(message)
           ready   == [s EXCEPT !.fin = TRUE]
           t       == UpdateStatus(ready, message)
           next    == s.next_abs_seqno_
<1>1. /\ s \in SenderStates /\ s.isn_ = Isn /\ s.syn = TRUE /\ s.fin = FALSE
      /\ next \in Nat
  <2>1. s \in SenderStates /\ s.isn_ = Isn
    BY DEF SoundSender
  <2>2. QED
    BY <2>1 DEF SenderStates
<1>2. /\ b.bytes_read = StreamLength /\ next = 1 + StreamLength
      /\ InStream(b)
  <2>1. b.bytes_read \in Nat /\ b.bytes_read = StreamLength /\ InStream(b)
    BY DEF SoundSender, InStream, Intact, StreamStates, IsFinished
  <2>2. QED
    BY <1>1, <2>1 DEF SoundSender, Accounted, BytesPopped
<1> HIDE DEF next
<1>3. /\ message \in SenderMessages /\ message.SYN = FALSE /\ message.FIN = TRUE
      /\ message.payload = << >> /\ message.seqno = Wrap(next, Isn)
  <2>1. NextSeqno(s) = Wrap(next, Isn) /\ Wrap(next, Isn) \in SequenceNumber
    BY <1>1, IsnAssumption, WrapInRange DEF NextSeqno, next
  <2>2. QED
    BY <2>1 DEF SenderMessages, FinMessage
<1> HIDE DEF message
<1>4. length = 1
  BY <1>3 DEF SequenceLength
<1>5. Proper(message, next)
  <2>1. next + length = Fin + 1 /\ next # 0
    BY <1>2, <1>4, StreamLengthAssumption DEF Fin
  <2>2. Contiguous(message.payload, IF message.SYN THEN 0 ELSE next - 1)
    BY <1>3 DEF Contiguous
  <2>3. QED
    BY <1>3, <2>1, <2>2, Zenon DEF Proper
<1> HIDE DEF length
<1>6. /\ ready \in SenderStates /\ ready.isn_ = Isn /\ ready.syn = TRUE
      /\ ready.fin = TRUE /\ ready.next_abs_seqno_ = next
      /\ ready.sequence_numbers_in_flight_ = s.sequence_numbers_in_flight_
      /\ ready.send_messages_ = s.send_messages_
      /\ ready.outstanding_messages_ = s.outstanding_messages_
      /\ ready.consecutive_retransmissions_ = s.consecutive_retransmissions_
      /\ ready.retransmission_timeout_ = s.retransmission_timeout_
      /\ ready.time_elapsed_ = s.time_elapsed_
  BY <1>1 DEF SenderStates, next
<1> HIDE DEF ready
<1>7. /\ t \in SenderStates
      /\ t.isn_ = ready.isn_ /\ t.syn = ready.syn /\ t.fin = ready.fin
      /\ t.next_abs_seqno_ = ready.next_abs_seqno_ + length
      /\ t.sequence_numbers_in_flight_ = ready.sequence_numbers_in_flight_ + length
      /\ t.send_messages_ = Append(ready.send_messages_, message)
      /\ t.outstanding_messages_ = Append(ready.outstanding_messages_, message)
      /\ t.consecutive_retransmissions_ = ready.consecutive_retransmissions_
      /\ t.retransmission_timeout_ = ready.retransmission_timeout_
      /\ t.time_elapsed_ = ready.time_elapsed_
  BY <1>3, <1>6, UpdateStatusFields, Zenon DEF length
<1> HIDE DEF t
<1>8. Accounted(t, b)
  BY <1>2, <1>4, <1>6, <1>7, StreamLengthAssumption DEF Accounted, BytesPopped
<1>9. Windowed(t)
  BY <1>6, <1>7 DEF Windowed
<1>10. SoundSender(t, b) /\ Unacked(t) = Unacked(s)
  BY <1>1, <1>2, <1>3, <1>5, <1>6, <1>7, <1>8, <1>9, Added DEF length, next
<1>11. t.syn /\ t.fin /\ t.next_abs_seqno_ = s.next_abs_seqno_ + 1
  BY <1>4, <1>6, <1>7 DEF next
<1>12. QED
  BY <1>10, <1>11 DEF t, ready, message

LEMMA WindowUsedTwice ==
  ASSUME NEW s \in SenderStates, NEW u \in SenderStates, NEW t \in SenderStates,
         Windowed(s), ~s.fin, WindowUsed(s, u), WindowUsed(u, t),
         u.receiver_window_space_ > 0 \/ ZeroWindow(u)
  PROVE  WindowUsed(s, t)
<1>1. /\ s.next_abs_seqno_ \in Nat /\ u.next_abs_seqno_ \in Nat /\ t.next_abs_seqno_ \in Nat
      /\ s.receiver_window_space_ \in Nat /\ u.receiver_window_space_ \in Nat
      /\ t.receiver_window_space_ \in Nat /\ s.receiver_window_size_ \in Nat
  BY Word16Assumption DEF SenderStates
<1>2. /\ u.next_abs_seqno_ + u.receiver_window_space_
           = s.next_abs_seqno_ + s.receiver_window_space_
      /\ u.receiver_window_size_ = s.receiver_window_size_
      /\ u.next_abs_seqno_ >= s.next_abs_seqno_
  BY DEF WindowUsed, ZeroWindow
<1>3. CASE ~ZeroWindow(u)
  BY <1>1, <1>2, <1>3 DEF WindowUsed
<1>4. CASE ZeroWindow(u)
  <2>1. /\ ZeroWindow(s)
        /\ u.next_abs_seqno_ = s.next_abs_seqno_
    BY <1>1, <1>2, <1>4 DEF ZeroWindow, Windowed
  <2>2. \/ /\ t.next_abs_seqno_ = u.next_abs_seqno_ + 1
           /\ t.receiver_window_space_ = 0 /\ t.receiver_window_size_ = 1
        \/ /\ t.next_abs_seqno_ + t.receiver_window_space_
                = u.next_abs_seqno_ + u.receiver_window_space_
           /\ t.receiver_window_size_ = u.receiver_window_size_
           /\ t.next_abs_seqno_ >= u.next_abs_seqno_
    BY DEF WindowUsed
  <2>3. QED
    BY <1>1, <1>2, <2>1, <2>2 DEF WindowUsed
<1>5. QED
  BY <1>3, <1>4

(* The loop, round by round. *)
LEMMA PushSegmentsSound ==
  ASSUME NEW s, NEW b, SoundSender(s, b), s.syn, ~s.fin
  PROVE  LET r == PushSegments(s, b)
         IN  /\ SoundSender(r.sender, r.outbound)
             /\ Unacked(r.sender) = Unacked(s)
             /\ r.sender.syn
             /\ r.sender = s \/ WindowUsed(s, r.sender)
<1> DEFINE J(r) == /\ SoundSender(r.sender, r.outbound)
                   /\ Unacked(r.sender) = Unacked(s)
                   /\ r.sender.syn
                   /\ r.sender.fin => BytesBuffered(r.outbound) = 0
                   /\ r.sender = s \/ WindowUsed(s, r.sender)
           S == {r \in [sender : SenderStates, outbound : StreamStates] : J(r)}
           after(r) == IF MoreToSend(r.sender, r.outbound)
                       THEN PushSegment(r.sender, r.outbound) ELSE r
           start == [sender |-> s, outbound |-> b]
           Rounds(f) == f = [k \in Nat |->
                               IF k = 0 THEN start
                               ELSE LET before == f[k - 1]
                                    IN  IF MoreToSend(before.sender, before.outbound)
                                        THEN PushSegment(before.sender, before.outbound)
                                        ELSE before]
           Round == CHOOSE f : Rounds(f)
<1>1. PushSegments(s, b) = Round[BytesBuffered(b)]
  BY Zenon DEF PushSegments
<1>2. BytesBuffered(b) \in Nat /\ s \in SenderStates /\ b \in StreamStates
  BY DEF SoundSender, InStream, Intact, StreamStates, BytesBuffered
<1>3. start \in S
  BY <1>2
<1>4. ASSUME NEW r \in S
      PROVE  after(r) \in S
  <2>1. CASE ~MoreToSend(r.sender, r.outbound)
    BY <2>1, Zenon
  <2>2. CASE MoreToSend(r.sender, r.outbound)
    <3> DEFINE u == r.sender
               t == PushSegment(u, r.outbound).sender
               rest == PushSegment(u, r.outbound).outbound
    <3>1. /\ SoundSender(u, r.outbound) /\ u.syn /\ ~u.fin
          /\ Unacked(u) = Unacked(s)
          /\ u = s \/ WindowUsed(s, u)
      BY <2>2 DEF MoreToSend
    <3>2. /\ SoundSender(t, rest) /\ Unacked(t) = Unacked(u) /\ t.syn
          /\ t.fin => BytesBuffered(rest) = 0
          /\ WindowUsed(u, t)
      BY <2>2, <3>1, PushSegmentSound, Zenon
    <3>3. PushSegment(u, r.outbound) = [sender |-> t, outbound |-> rest]
      BY DEF PushSegment
    <3>4. t \in SenderStates /\ rest \in StreamStates /\ u \in SenderStates
      BY <3>1, <3>2 DEF SoundSender, InStream, Intact
    <3>5. u.receiver_window_space_ > 0 \/ ZeroWindow(u)
      BY <2>2 DEF MoreToSend
    <3> HIDE DEF t, rest
    <3>6. WindowUsed(s, t)
      <4>1. CASE u = s
        BY <3>2, <4>1
      <4>2. CASE WindowUsed(s, u)
        <5>1. Windowed(s)
          BY DEF SoundSender
        <5> HIDE DEF u
        <5>2. QED
          BY <1>2, <3>2, <3>4, <3>5, <4>2, <5>1, WindowUsedTwice
      <4>3. QED
        BY <3>1, <4>1, <4>2
    <3>7. after(r) = [sender |-> t, outbound |-> rest]
      BY <2>2, <3>3
    <3>8. J([sender |-> t, outbound |-> rest])
      BY <3>1, <3>2, <3>6
    <3> HIDE DEF J, after
    <3>9. QED
      BY <3>4, <3>7, <3>8
  <2>3. QED
    BY <2>1, <2>2
<1> HIDE DEF S, start
<1>5. \E f : Rounds(f)
  <2> DEFINE step == [r \in S |-> after(r)]
  <2>1. step \in [S -> S]
    <3> HIDE DEF after
    <3>1. QED
      BY <1>4
  <2> HIDE DEF step
  <2>2. PICK f : Iterates(f, S, step, start)
    BY <1>3, <2>1, Iterated
  <2>3. ASSUME NEW k \in Nat
        PROVE  f[k] = IF k = 0 THEN start ELSE after(f[k - 1])
    <3>1. CASE k = 0
      BY <2>2, <3>1 DEF Iterates
    <3>2. CASE k # 0
      <4>1. k - 1 \in Nat /\ (k - 1) + 1 = k
        BY <3>2
      <4>2. f[k] = step[f[k - 1]] /\ f[k - 1] \in S
        BY <2>2, <4>1 DEF Iterates
      <4> HIDE DEF after
      <4>3. step[f[k - 1]] = after(f[k - 1])
        BY <4>2 DEF step
      <4>4. QED
        BY <3>2, <4>2, <4>3
    <3>3. QED
      BY <3>1, <3>2
  <2>4. f = [k \in Nat |-> f[k]]
    BY <2>2 DEF Iterates
  <2>5. Rounds(f)
    <3> HIDE DEF after
    <3>1. f = [k \in Nat |-> IF k = 0 THEN start ELSE after(f[k - 1])]
      BY <2>3, <2>4
    <3>2. QED
      BY <3>1, Zenon DEF after
  <2>6. QED
    BY <2>5, Zenon
<1>6. Rounds(Round)
  BY <1>5, Zenon
<1> HIDE DEF Round
<1>7. /\ Round[0] = start
      /\ \A k \in Nat \ {0} : Round[k] = after(Round[k - 1])
  <2>1. Round = [k \in Nat |-> IF k = 0 THEN start ELSE after(Round[k - 1])]
    BY <1>6, Zenon
  <2> HIDE DEF after
  <2>2. QED
    BY <2>1
<1> HIDE DEF after
<1>8. ASSUME NEW n \in Nat, Round[n] \notin S
      PROVE  FALSE
  <2> DEFINE T == {k \in Nat : Round[k] \notin S}
  <2>1. PICK m \in T : \A k \in T : m <= k
    <3>1. T \in SUBSET Nat /\ n \in T
      BY <1>8
    <3> HIDE DEF T
    <3>2. QED
      BY <3>1, LeastNumber
  <2>2. m # 0
    BY <1>3, <1>7
  <2>3. m - 1 \in Nat /\ m - 1 \notin T
    <3>1. m \in Nat
      OBVIOUS
    <3>2. m - 1 \in Nat /\ ~(m <= m - 1)
      BY <2>2, <3>1
    <3>3. QED
      BY <2>1, <3>2
  <2>4. Round[m - 1] \in S
    BY <2>3
  <2>5. Round[m] = after(Round[m - 1])
    BY <1>7, <2>2
  <2>6. Round[m] \in S
    BY <1>4, <2>4, <2>5
  <2>7. QED
    BY <2>6
<1>9. PushSegments(s, b) \in S
  BY <1>1, <1>2, <1>8
<1>10. QED
  BY <1>9, Zenon DEF S

\* What becomes of next number and window.
Pushed(s, t) ==
  \/ t = s
  \/ ~s.syn /\ t.receiver_window_space_ = 0
  \/ s.syn /\ ~s.fin /\ WindowUsed(s, t)
  \/ /\ s.syn /\ ~s.fin /\ t.fin
     /\ t.next_abs_seqno_ = s.next_abs_seqno_ + 1
     /\ s.receiver_window_space_ > 0 \/ ZeroWindow(s)

LEMMA PushSound ==
  ASSUME NEW s, NEW b, SoundSender(s, b)
  PROVE  LET r == SenderPush(s, b)
         IN  /\ SoundSender(r.sender, r.outbound)
             /\ Unacked(r.sender) = Unacked(s)
             /\ Pushed(s, r.sender)
             /\ s.syn => r.sender.syn
<1> DEFINE r == SenderPush(s, b)
<1>1. CASE ~s.syn
  <2>1. r = [sender |-> PushSyn(s, b), outbound |-> b]
    BY <1>1, Zenon DEF SenderPush
  <2>2. r.sender = PushSyn(s, b) /\ r.outbound = b
    BY <2>1
  <2> HIDE DEF r
  <2>3. QED
    BY <1>1, <2>2, PushSynSound DEF Pushed, r
<1> DEFINE kept == [sender |-> s, outbound |-> b]
<1>2. CASE r = kept
  BY <1>2 DEF Pushed
<1>3. CASE s.syn /\ ~s.fin /\ r = PushSegments(s, b)
  <2>1. /\ SoundSender(r.sender, r.outbound)
        /\ Unacked(r.sender) = Unacked(s)
        /\ r.sender.syn
        /\ r.sender = s \/ WindowUsed(s, r.sender)
    <3> HIDE DEF r
    <3>1. QED
      BY <1>3, PushSegmentsSound, Zenon
  <2>2. QED
    BY <1>3, <2>1, Zenon DEF Pushed
<1> DEFINE ended == UpdateStatus([s EXCEPT !.fin = TRUE], FinMessage(s))
<1>4. CASE /\ s.syn /\ ~s.fin /\ IsFinished(b)
           /\ s.receiver_window_space_ > 0 \/ ZeroWindow(s)
           /\ r = [sender |-> ended, outbound |-> b]
  <2>1. r.sender = ended /\ r.outbound = b
    BY <1>4
  <2>2. /\ SoundSender(ended, b) /\ Unacked(ended) = Unacked(s)
        /\ ended.syn /\ ended.fin
        /\ ended.next_abs_seqno_ = s.next_abs_seqno_ + 1
    BY <1>4, PushFinSound, Zenon
  <2> HIDE DEF r, ended
  <2>3. QED
    BY <1>4, <2>1, <2>2 DEF Pushed, r
<1>5. \/ ~s.syn \/ r = kept
      \/ s.syn /\ ~s.fin /\ r = PushSegments(s, b)
      \/ /\ s.syn /\ ~s.fin /\ IsFinished(b)
         /\ s.receiver_window_space_ > 0 \/ ZeroWindow(s)
         /\ r = [sender |-> ended, outbound |-> b]
  BY Zenon DEF SenderPush
<1>6. QED
  BY <1>1, <1>2, <1>3, <1>4, <1>5

-----------------------------------------------------------------------------
(* maybe_send and tick *)

LEMMA AfterMaybeSendSound ==
  ASSUME NEW s, NEW b, SoundSender(s, b), s.send_messages_ # << >>
  PROVE  LET t == AfterMaybeSend(s)
         IN  /\ SoundSender(t, b) /\ Unacked(t) = Unacked(s)
             /\ t.next_abs_seqno_ = s.next_abs_seqno_
             /\ t.syn = s.syn /\ t.fin = s.fin
             /\ t.receiver_window_space_ = s.receiver_window_space_
             /\ t.receiver_window_size_ = s.receiver_window_size_
<1> DEFINE t    == AfterMaybeSend(s)
           send == s.send_messages_
           rest == Tail(send)
<1>1. s \in SenderStates /\ send \in Seq(SenderMessages) /\ send # << >>
  BY DEF SoundSender, SenderStates
<1>2. /\ rest \in Seq(SenderMessages) /\ Len(rest) = Len(send) - 1
      /\ Len(send) \in Nat /\ Len(send) > 0
      /\ \A i \in 1..Len(send) - 1 : rest[i] = send[i + 1]
  BY <1>1, EmptySeq, HeadTailProperties
<1>3. t = [s EXCEPT !.send_messages_ = rest]
  BY Zenon DEF AfterMaybeSend
<1> HIDE DEF t, rest
<1>4. /\ t \in SenderStates /\ t.send_messages_ = rest
      /\ t.isn_ = s.isn_ /\ t.syn = s.syn /\ t.fin = s.fin
      /\ t.outstanding_messages_ = s.outstanding_messages_
      /\ t.next_abs_seqno_ = s.next_abs_seqno_
      /\ t.sequence_numbers_in_flight_ = s.sequence_numbers_in_flight_
      /\ t.receiver_window_space_ = s.receiver_window_space_
      /\ t.receiver_window_size_ = s.receiver_window_size_
      /\ t.consecutive_retransmissions_ = s.consecutive_retransmissions_
      /\ t.retransmission_timeout_ = s.retransmission_timeout_
      /\ t.time_elapsed_ = s.time_elapsed_
  BY <1>1, <1>2, <1>3 DEF SenderStates
<1>5. Genuine(t)
  <2>1. ASSUME NEW i \in 1..Len(t.send_messages_)
        PROVE  i + 1 \in 1..Len(send) /\ t.send_messages_[i] = send[i + 1]
    <3>1. i \in 1..Len(send) - 1
      BY <1>2, <1>4
    <3>2. QED
      BY <1>2, <1>4, <3>1
  <2>2. QED
    BY <1>4, <2>1 DEF SoundSender, Genuine
<1>6. t.syn
  <2>1. CASE ~s.syn
    <3>1. s = NewSender(Isn)
      BY <2>1 DEF SoundSender
    <3>2. QED
      BY <1>1, <3>1 DEF NewSender
  <2>2. QED
    BY <1>4, <2>1
<1>7. SoundSender(t, b)
  BY <1>4, <1>5, <1>6 DEF SoundSender, Accounted, Unacked, Timed, Windowed
<1>8. QED
  BY <1>4, <1>7 DEF Unacked, t

(* The timeout doubles each time. *)
LEMMA BackedOffDoubles ==
  /\ BackedOff[0] = InitialRTO
  /\ \A k \in Nat : BackedOff[k] \in Nat /\ BackedOff[k + 1] = 2 * BackedOff[k]
<1> DEFINE Doubled(f) == f = [k \in Nat |-> IF k = 0 THEN InitialRTO ELSE 2 * f[k - 1]]
           step == [n \in Nat |-> 2 * n]
<1>1. step \in [Nat -> Nat] /\ InitialRTO \in Nat
  BY InitialRTOAssumption
<1>2. PICK f : Iterates(f, Nat, step, InitialRTO)
  <2> HIDE DEF step
  <2>1. QED
    BY <1>1, Iterated
<1>3. Doubled(f)
  <2>1. ASSUME NEW k \in Nat
        PROVE  f[k] = IF k = 0 THEN InitialRTO ELSE 2 * f[k - 1]
    <3>1. CASE k = 0
      BY <1>2, <3>1 DEF Iterates
    <3>2. CASE k # 0
      <4>1. k - 1 \in Nat /\ (k - 1) + 1 = k
        BY <3>2
      <4>2. f[k] = step[f[k - 1]] /\ f[k - 1] \in Nat
        BY <1>2, <4>1 DEF Iterates
      <4>3. QED
        BY <3>2, <4>2
    <3>3. QED
      BY <3>1, <3>2
  <2>2. f = [k \in Nat |-> f[k]]
    BY <1>2 DEF Iterates
  <2>3. QED
    BY <2>1, <2>2
<1>4. Doubled(BackedOff)
  <2>1. BackedOff = CHOOSE g : Doubled(g)
    BY Zenon DEF BackedOff
  <2>2. QED
    BY <1>3, <2>1, Zenon
<1>5. /\ BackedOff[0] = InitialRTO
      /\ \A k \in Nat \ {0} : BackedOff[k] = 2 * BackedOff[k - 1]
  BY <1>4
<1>6. ASSUME NEW n \in Nat, BackedOff[n] \notin Nat
      PROVE  FALSE
  <2> DEFINE T == {k \in Nat : BackedOff[k] \notin Nat}
  <2>1. PICK m \in T : \A k \in T : m <= k
    <3>1. T \in SUBSET Nat /\ n \in T
      BY <1>6
    <3> HIDE DEF T
    <3>2. QED
      BY <3>1, LeastNumber
  <2>2. m # 0
    BY <1>1, <1>5
  <2>3. m \in Nat /\ m - 1 \in Nat /\ m - 1 \notin T
    BY <2>1, <2>2
  <2>4. BackedOff[m - 1] \in Nat /\ BackedOff[m] = 2 * BackedOff[m - 1]
    BY <1>5, <2>2, <2>3
  <2>5. QED
    BY <2>4
<1>7. ASSUME NEW k \in Nat
      PROVE  BackedOff[k + 1] = 2 * BackedOff[k]
  <2>1. k + 1 \in Nat \ {0} /\ (k + 1) - 1 = k
    OBVIOUS
  <2>2. QED
    BY <1>5, <2>1
<1>8. QED
  BY <1>5, <1>6, <1>7

(* Where messages one after the other begin never goes back. *)
LEMMA RunAscends ==
  ASSUME NEW messages \in Seq(SenderMessages), NEW at, Run(messages, at),
         NEW i \in 1..Len(messages) + 1, NEW j \in i..Len(messages) + 1
  PROVE  at[i] <= at[j]
<1> DEFINE n == Len(messages)
           T == {k \in Nat : k \in i..n + 1 /\ ~(at[i] <= at[k])}
<1>1. /\ n \in Nat /\ \A k \in 1..n + 1 : at[k] \in Nat
      /\ \A k \in 1..n : SequenceLength(messages[k]) \in Nat
      /\ \A k \in 1..n : at[k + 1] = at[k] + SequenceLength(messages[k])
  <2>1. n \in Nat /\ \A k \in 1..n : messages[k] \in SenderMessages
    BY LenProperties, ElementOfSeq
  <2>2. \A k \in 1..n : SequenceLength(messages[k]) \in Nat
    BY <2>1, LengthInNat
  <2>3. QED
    BY <2>1, <2>2 DEF Run
<1> HIDE DEF n
<1>2. CASE T = {}
  <2>1. j \in Nat /\ j \in i..n + 1
    BY <1>1 DEF n
  <2>2. QED
    BY <1>2, <2>1
<1>3. CASE T # {}
  <2>1. PICK m \in T : \A k \in T : m <= k
    <3>1. T \in SUBSET Nat
      OBVIOUS
    <3> HIDE DEF T
    <3>2. QED
      BY <1>3, <3>1, LeastNumber
  <2>2. i \in 1..n + 1
    BY DEF n
  <2>3. m \in i..n + 1 /\ ~(at[i] <= at[m]) /\ m \in Nat
    OBVIOUS
  <2>4. m # i
    BY <1>1, <2>2, <2>3
  <2>5. /\ m - 1 \in Nat /\ m - 1 \in i..n + 1 /\ m - 1 \in 1..n /\ (m - 1) + 1 = m
        /\ m - 1 \notin T
    BY <1>1, <2>1, <2>2, <2>3, <2>4
  <2>6. at[i] <= at[m - 1]
    BY <2>5
  <2>7. at[m] = at[m - 1] + SequenceLength(messages[m - 1])
    BY <1>1, <2>5
  <2>8. at[i] \in Nat /\ at[m - 1] \in Nat /\ SequenceLength(messages[m - 1]) \in Nat
    BY <1>1, <2>2, <2>5
  <2>9. QED
    BY <2>3, <2>6, <2>7, <2>8
<1>4. QED
  BY <1>2, <1>3

(* Each begins between the first and the end. *)
LEMMA KeepsPlaces ==
  ASSUME NEW messages \in Seq(SenderMessages), NEW at, NEW first, NEW next,
         Keeps(messages, at, first, next), NEW i \in 1..Len(messages) + 1
  PROVE  at[i] \in Nat /\ first <= at[i] /\ at[i] <= next
<1> DEFINE n == Len(messages)
<1>1. Run(messages, at) /\ at[1] = first /\ at[n + 1] = next
  BY DEF Keeps
<1>2. n \in Nat
  BY LenProperties
<1>3. 1 \in 1..n + 1 /\ i \in 1..n + 1 /\ n + 1 \in i..n + 1
  BY <1>2
<1>4. at[i] <= at[n + 1] /\ at[1] <= at[i]
  BY <1>1, <1>3, RunAscends
<1>5. at[i] \in Nat
  BY <1>1, <1>3 DEF Run
<1>6. QED
  BY <1>1, <1>4, <1>5

LEMMA TickSound ==
  ASSUME NEW s, NEW b, SoundSender(s, b)
  PROVE  LET t == SenderTick(s, 1)
         IN  /\ SoundSender(t, b) /\ Unacked(t) = Unacked(s)
             /\ t.next_abs_seqno_ = s.next_abs_seqno_
             /\ t.syn = s.syn /\ t.fin = s.fin
             /\ t.receiver_window_space_ = s.receiver_window_space_
             /\ t.receiver_window_size_ = s.receiver_window_size_
<1> DEFINE out  == s.outstanding_messages_
           send == s.send_messages_
           tries == s.consecutive_retransmissions_
           limit == s.retransmission_timeout_
           Same(t) == /\ t.isn_ = s.isn_ /\ t.syn = s.syn /\ t.fin = s.fin
                      /\ t.outstanding_messages_ = out
                      /\ t.next_abs_seqno_ = s.next_abs_seqno_
                      /\ t.sequence_numbers_in_flight_ = s.sequence_numbers_in_flight_
                      /\ t.receiver_window_space_ = s.receiver_window_space_
                      /\ t.receiver_window_size_ = s.receiver_window_size_
<1>1. CASE out = << >>
  <2>1. SenderTick(s, 1) = s
    BY <1>1 DEF SenderTick
  <2>2. QED
    BY <2>1
<1>2. CASE out # << >>
  <2>1. /\ s \in SenderStates /\ send \in Seq(SenderMessages) /\ out \in Seq(SenderMessages)
        /\ tries \in Nat /\ limit \in Nat /\ s.time_elapsed_ \in Nat
        /\ s.time_elapsed_ < limit /\ limit = BackedOff[tries]
        /\ s.syn \in BOOLEAN
    BY DEF SoundSender, Timed, SenderStates
  <2>2. s.syn
    <3>1. ~s.syn => s = NewSender(Isn)
      BY DEF SoundSender
    <3>2. NewSender(Isn).outstanding_messages_ = << >>
      BY DEF NewSender
    <3>3. QED
      BY <1>2, <3>1, <3>2
  <2>3. ASSUME NEW t \in SenderStates, Same(t), Genuine(t),
               t.retransmission_timeout_ = BackedOff[t.consecutive_retransmissions_],
               t.time_elapsed_ < t.retransmission_timeout_
        PROVE  SoundSender(t, b) /\ Unacked(t) = Unacked(s)
    BY <1>2, <2>2, <2>3 DEF SoundSender, Accounted, Unacked, Timed, Windowed
  <2>4. CASE ~Expires(s, 1)
    <3> DEFINE time == s.time_elapsed_ + 1
               t    == [s EXCEPT !.time_elapsed_ = time]
    <3>1. time \in Nat /\ time < limit
      BY <1>2, <2>1, <2>4 DEF Expires
    <3>2. SenderTick(s, 1) = t
      BY <1>2, <2>4, Zenon DEF SenderTick
    <3> HIDE DEF time
    <3>3. /\ t \in SenderStates /\ Same(t) /\ t.send_messages_ = send
          /\ t.consecutive_retransmissions_ = tries
          /\ t.retransmission_timeout_ = limit /\ t.time_elapsed_ = time
      BY <2>1, <3>1 DEF SenderStates
    <3> HIDE DEF t
    <3>4. Genuine(t)
      BY <3>3 DEF SoundSender, Genuine
    <3>5. SoundSender(t, b) /\ Unacked(t) = Unacked(s)
      BY <2>1, <2>3, <3>1, <3>3, <3>4
    <3>6. QED
      BY <3>2, <3>3, <3>5
  <2>5. CASE Expires(s, 1)
    <3> DEFINE first == out[1]
               again == Append(send, first)
               longer == [s EXCEPT !.send_messages_ = again, !.time_elapsed_ = 0]
               slower == [longer EXCEPT !.consecutive_retransmissions_ = tries + 1,
                                        !.retransmission_timeout_ = limit * 2]
               t == IF BacksOff(s) THEN slower ELSE longer
    <3>1. first \in SenderMessages /\ Len(out) \in Nat /\ Len(out) > 0
      <4>1. Len(out) \in Nat \ {0}
        BY <1>2, <2>1, EmptySeq
      <4>2. 1 \in 1..Len(out)
        BY <4>1
      <4>3. QED
        BY <2>1, <4>1, <4>2, ElementOfSeq
    <3>2. /\ again \in Seq(SenderMessages) /\ Len(again) = Len(send) + 1
          /\ Len(send) \in Nat /\ again[Len(send) + 1] = first
          /\ \A i \in 1..Len(send) : again[i] = send[i]
      BY <2>1, <3>1
    <3>3. SenderTick(s, 1) = t
      <4>1. SenderTick(s, 1) = Retransmit(s)
        BY <1>2, <2>5, Zenon DEF SenderTick
      <4>2. Retransmit(s) = IF BacksOff(s)
              THEN [longer EXCEPT !.consecutive_retransmissions_ = @ + 1,
                                  !.retransmission_timeout_ = @ * 2]
              ELSE longer
        BY Zenon DEF Retransmit
      <4> HIDE DEF again
      <4>3. /\ longer.consecutive_retransmissions_ = tries
            /\ longer.retransmission_timeout_ = limit /\ longer \in SenderStates
        BY <2>1, <3>2 DEF SenderStates
      <4> HIDE DEF longer
      <4>4. [longer EXCEPT !.consecutive_retransmissions_ = @ + 1,
                           !.retransmission_timeout_ = @ * 2] = slower
        BY <4>3
      <4>5. QED
        BY <4>1, <4>2, <4>4
    <3> HIDE DEF again
    <3>4. /\ longer \in SenderStates /\ Same(longer) /\ longer.send_messages_ = again
          /\ longer.consecutive_retransmissions_ = tries
          /\ longer.retransmission_timeout_ = limit /\ longer.time_elapsed_ = 0
      BY <2>1, <3>2 DEF SenderStates
    <3> DEFINE more == tries + 1
               twice == limit * 2
    <3>5. more \in Nat /\ twice \in Nat /\ twice = BackedOff[more] /\ 0 < twice /\ 0 < limit
      <4> HIDE DEF limit, tries
      <4>1. BackedOff[more] = 2 * BackedOff[tries]
        BY <2>1, BackedOffDoubles
      <4>2. 0 < limit /\ limit * 2 = 2 * limit /\ 0 < limit * 2 /\ limit * 2 \in Nat
        BY <2>1
      <4>3. QED
        BY <2>1, <4>1, <4>2
    <3> HIDE DEF longer, more, twice
    <3>6. /\ slower \in SenderStates /\ Same(slower) /\ slower.send_messages_ = again
          /\ slower.consecutive_retransmissions_ = more
          /\ slower.retransmission_timeout_ = twice /\ slower.time_elapsed_ = 0
      <4>1. slower = [longer EXCEPT !.consecutive_retransmissions_ = more,
                                    !.retransmission_timeout_ = twice]
        BY DEF more, twice
      <4> HIDE DEF slower
      <4>2. QED
        BY <3>4, <3>5, <4>1 DEF SenderStates
    <3> HIDE DEF slower
    <3>7. ASSUME NEW u, Same(u), u.send_messages_ = again
          PROVE  Genuine(u)
      <4>1. PICK at : Keeps(out, at, Unacked(s), s.next_abs_seqno_)
        BY DEF SoundSender, Kept
      <4>2. 1 \in 1..Len(out) /\ 1 \in 1..Len(out) + 1 /\ 1 + 1 \in 1..Len(out) + 1
        BY <3>1
      <4>3. /\ at[1] \in Nat /\ Proper(first, at[1])
            /\ at[1] + SequenceLength(first) <= s.next_abs_seqno_
        <5>1. at[1] \in Nat /\ at[1 + 1] <= s.next_abs_seqno_
          BY <2>1, <4>1, <4>2, KeepsPlaces
        <5>2. Proper(first, at[1]) /\ at[1 + 1] = at[1] + SequenceLength(first)
          BY <4>1, <4>2 DEF Keeps, Run
        <5>3. QED
          BY <5>1, <5>2
      <4>4. ASSUME NEW i \in 1..Len(u.send_messages_)
            PROVE  \E to \in Nat : /\ Proper(u.send_messages_[i], to)
                                   /\ to + SequenceLength(u.send_messages_[i])
                                        <= u.next_abs_seqno_
        <5>1. CASE i = Len(send) + 1
          <6>1. u.send_messages_[i] = first /\ u.next_abs_seqno_ = s.next_abs_seqno_
            BY <3>2, <3>7, <5>1
          <6>2. QED
            BY <4>3, <6>1
        <5>2. CASE i # Len(send) + 1
          <6>1. i \in 1..Len(send) /\ u.send_messages_[i] = send[i]
                /\ u.next_abs_seqno_ = s.next_abs_seqno_
            BY <3>2, <3>7, <5>2
          <6>2. QED
            BY <6>1 DEF SoundSender, Genuine
        <5>3. QED
          BY <5>1, <5>2
      <4>5. QED
        BY <4>4 DEF Genuine
    <3>8. CASE BacksOff(s)
      <4>1. SoundSender(slower, b) /\ Unacked(slower) = Unacked(s)
        BY <2>3, <3>5, <3>6, <3>7
      <4>2. SenderTick(s, 1) = slower
        BY <3>3, <3>8
      <4>3. QED
        BY <3>6, <4>1, <4>2
    <3>9. CASE ~BacksOff(s)
      <4>1. SoundSender(longer, b) /\ Unacked(longer) = Unacked(s)
        BY <2>1, <2>3, <3>4, <3>5, <3>7
      <4>2. SenderTick(s, 1) = longer
        BY <3>3, <3>9
      <4>3. QED
        BY <3>4, <4>1, <4>2
    <3>10. QED
      BY <3>8, <3>9
  <2>6. QED
    BY <2>4, <2>5
<1>3. QED
  BY <1>1, <1>2

LEMMA NextInRange ==
  ASSUME NEW s, NEW b, SoundSender(s, b)
  PROVE  /\ s.next_abs_seqno_ \in 0..StreamLength + 2
         /\ s.next_abs_seqno_ <= Fin + 1
<1>1. /\ b.bytes_read \in Nat /\ b.bytes_read <= b.bytes_write
      /\ b.bytes_write \in Nat /\ b.bytes_write <= StreamLength
  <2>1. /\ b.bytes_read \in Nat /\ Len(b.stream) \in Nat /\ b.bytes_write \in Nat
        /\ b.bytes_write = b.bytes_read + Len(b.stream)
        /\ b.bytes_write <= StreamLength
    BY DEF SoundSender, InStream, Intact, StreamStates
  <2>2. QED
    BY <2>1
<1> DEFINE syn == IF s.syn THEN 1 ELSE 0
           fin == IF s.fin THEN 1 ELSE 0
<1>2. syn \in 0..1 /\ fin \in 0..1
  OBVIOUS
<1>3. s.next_abs_seqno_ = syn + b.bytes_read + fin
  BY DEF SoundSender, Accounted, BytesPopped
<1> HIDE DEF syn, fin
<1>4. QED
  BY <1>1, <1>2, <1>3, StreamLengthAssumption DEF Fin

-----------------------------------------------------------------------------
(* receive *)

(* Where an outstanding message is read to begin, and whether it is covered. *)
LEMMA EndAbsInNat ==
  ASSUME NEW s, NEW b, SoundSender(s, b), NEW i \in 1..Len(s.outstanding_messages_)
  PROVE  /\ FirstAbs(s, s.outstanding_messages_[i]) \in Nat
         /\ EndAbs(s, s.outstanding_messages_[i]) \in Nat
<1> DEFINE message == s.outstanding_messages_[i]
<1>1. /\ message \in SenderMessages /\ s.isn_ = Isn
  BY ElementOfSeq DEF SoundSender, SenderStates
<1>2. s.next_abs_seqno_ \in 0..StreamLength + 2
  BY NextInRange
<1>3. message.seqno \in SequenceNumber
  BY <1>1 DEF SenderMessages
<1>4. FirstAbs(s, message) \in Nat
  BY <1>1, <1>2, <1>3, IsnAssumption, UnwrapNat DEF FirstAbs, AbsSeqno
<1>5. SequenceLength(message) \in Nat
  BY <1>1, LengthInNat
<1>6. QED
  BY <1>4, <1>5 DEF EndAbs

(* The loop that looks for the first message not covered stops somewhere.  *)
LEMMA AckedMessagesFound ==
  ASSUME NEW s, NEW b, SoundSender(s, b), NEW abs_ackno \in Nat
  PROVE  /\ AckedMessages(s, abs_ackno) \in 0..Len(s.outstanding_messages_)
         /\ \A i \in 1..AckedMessages(s, abs_ackno) :
              EndAbs(s, s.outstanding_messages_[i]) <= abs_ackno
<1> DEFINE out == s.outstanding_messages_
           n   == Len(out)
           end(i) == EndAbs(s, out[i])
           Stops(idx) == /\ \A i \in 1..idx : end(i) <= abs_ackno
                         /\ idx < n => end(idx + 1) > abs_ackno
           T == {k \in Nat : k < n /\ end(k + 1) > abs_ackno}
<1>1. n \in Nat /\ \A i \in 1..n : end(i) \in Nat
  <2>1. n \in Nat
    BY LenProperties DEF SoundSender, SenderStates
  <2>2. QED
    BY <2>1, EndAbsInNat
<1> HIDE DEF n, end
<1>2. \E idx \in 0..n : Stops(idx)
  <2>1. CASE T = {}
    <3>1. ASSUME NEW i \in 1..n
          PROVE  end(i) <= abs_ackno
      <4>1. i - 1 \in Nat /\ i - 1 < n /\ (i - 1) + 1 = i
        BY <1>1
      <4>2. i - 1 \notin T
        BY <2>1
      <4>3. ~(end(i) > abs_ackno)
        BY <4>1, <4>2
      <4>4. QED
        BY <1>1, <4>3
    <3>2. n \in 0..n /\ Stops(n)
      BY <1>1, <3>1
    <3>3. QED
      BY <3>2
  <2>2. CASE T # {}
    <3>1. PICK m \in T : \A k \in T : m <= k
      <4>1. T \in SUBSET Nat
        OBVIOUS
      <4> HIDE DEF T
      <4>2. QED
        BY <2>2, <4>1, LeastNumber
    <3>2. m \in Nat /\ m < n /\ end(m + 1) > abs_ackno /\ m \in 0..n
      BY <1>1
    <3>3. ASSUME NEW i \in 1..m
          PROVE  end(i) <= abs_ackno
      <4>1. /\ i - 1 \in Nat /\ i - 1 < n /\ (i - 1) + 1 = i /\ ~(m <= i - 1)
            /\ i \in 1..n
        BY <1>1, <3>2
      <4>2. i - 1 \notin T
        BY <3>1, <4>1
      <4>3. ~(end(i) > abs_ackno)
        BY <4>1, <4>2
      <4>4. QED
        BY <1>1, <4>1, <4>3
    <3>4. Stops(m)
      BY <3>2, <3>3
    <3>5. QED
      BY <3>2, <3>4
  <2>3. QED
    BY <2>1, <2>2
<1>3. AckedMessages(s, abs_ackno) = CHOOSE idx \in 0..n : Stops(idx)
  BY Zenon DEF AckedMessages, n, end
<1>4. /\ AckedMessages(s, abs_ackno) \in 0..n
      /\ Stops(AckedMessages(s, abs_ackno))
  <2> HIDE DEF Stops
  <2>1. QED
    BY <1>2, <1>3, Zenon
<1>5. QED
  BY <1>4 DEF n, end

LEMMA AcknowledgeSound ==
  ASSUME NEW s, NEW b, SoundSender(s, b), s.syn, NEW at,
         Keeps(s.outstanding_messages_, at, Unacked(s), s.next_abs_seqno_),
         NEW idx \in 0..Len(s.outstanding_messages_), NEW window \in 0..Word16 - 1
  PROVE  LET t == Acknowledge(s, idx, window)
         IN  /\ SoundSender(t, b) /\ Unacked(t) = at[idx + 1]
             /\ t.next_abs_seqno_ = s.next_abs_seqno_
             /\ t.syn /\ t.fin = s.fin
             /\ t.receiver_window_space_ > 0
                  => t.receiver_window_space_
                       = window - (s.next_abs_seqno_ - at[idx + 1])
<1> DEFINE out  == s.outstanding_messages_
           n    == Len(out)
           next == s.next_abs_seqno_
           gone == LengthOfAll(SubSeq(out, 1, idx))
           in_flight == s.sequence_numbers_in_flight_ - gone
           space == Greater(window - in_flight, 0)
           rest == SubSeq(out, idx + 1, n)
           to   == [i \in 1..n - idx + 1 |-> at[i + idx]]
           released == [s EXCEPT !.receiver_window_size_ = window,
                                 !.receiver_window_space_ = space,
                                 !.free_window = FALSE,
                                 !.sequence_numbers_in_flight_ = in_flight]
           restarted == [released EXCEPT !.time_elapsed_ = 0,
                                         !.retransmission_timeout_ = InitialRTO,
                                         !.consecutive_retransmissions_ = 0,
                                         !.outstanding_messages_ = rest]
           t == Acknowledge(s, idx, window)
<1>1. /\ s \in SenderStates /\ out \in Seq(SenderMessages) /\ n \in Nat
      /\ next \in Nat /\ s.sequence_numbers_in_flight_ \in Nat
      /\ window \in Nat /\ Word16 \in Nat /\ s.fin \in BOOLEAN
  BY Word16Assumption DEF SoundSender, SenderStates
<1>2. /\ rest \in Seq(SenderMessages) /\ Len(rest) = n - idx
      /\ Keeps(rest, to, at[idx + 1], next)
      /\ gone = at[idx + 1] - Unacked(s)
  <2> HIDE DEF n, rest, to, gone, next, out
  <2>1. /\ out \in Seq(SenderMessages) /\ idx \in 0..Len(out)
        /\ Keeps(out, at, Unacked(s), next)
    BY <1>1 DEF out, next
  <2>2. /\ SubSeq(out, idx + 1, Len(out)) \in Seq(SenderMessages)
        /\ Len(SubSeq(out, idx + 1, Len(out))) = Len(out) - idx
        /\ Keeps(SubSeq(out, idx + 1, Len(out)),
                 [i \in 1..Len(out) - idx + 1 |-> at[i + idx]], at[idx + 1], next)
        /\ LengthOfAll(SubSeq(out, 1, idx)) = at[idx + 1] - Unacked(s)
    BY <2>1, KeptCut
  <2>3. QED
    BY <2>2 DEF n, rest, to, gone
<1>3. at[idx + 1] \in Nat /\ at[idx + 1] <= next
  <2>1. Run(out, at) /\ at[n + 1] = next
    BY DEF Keeps
  <2>2. idx + 1 \in 1..n + 1 /\ n + 1 \in idx + 1..n + 1
    BY <1>1
  <2>3. at[idx + 1] \in Nat
    BY <2>1, <2>2 DEF Run
  <2>4. at[idx + 1] <= at[n + 1]
    BY <1>1, <2>1, <2>2, RunAscends
  <2>5. QED
    BY <2>1, <2>3, <2>4
<1> HIDE DEF n, rest, to, gone
<1>4. in_flight = next - at[idx + 1] /\ in_flight \in Nat /\ next - in_flight = at[idx + 1]
  <2>1. Unacked(s) = next - s.sequence_numbers_in_flight_
    BY DEF Unacked
  <2> DEFINE flies == s.sequence_numbers_in_flight_
             place == at[idx + 1]
  <2>2. in_flight = flies - (place - (next - flies))
    BY <1>2, <2>1
  <2> HIDE DEF next, flies, place, in_flight
  <2>3. next \in Nat /\ flies \in Nat /\ place \in Nat /\ place <= next
    BY <1>1, <1>3 DEF flies, place
  <2>4. /\ flies - (place - (next - flies)) = next - place
        /\ next - place \in Nat /\ next - (next - place) = place
    BY <2>3
  <2>5. QED
    BY <2>2, <2>4 DEF place
<1> HIDE DEF in_flight, next
<1>5. /\ space \in 0..Word16 - 1 /\ space <= window
      /\ space > 0 => space = window - in_flight
  BY <1>1, <1>4 DEF Greater
<1> HIDE DEF space
<1>6. /\ released \in SenderStates
      /\ released.isn_ = s.isn_ /\ released.syn = s.syn /\ released.fin = s.fin
      /\ released.next_abs_seqno_ = next
      /\ released.sequence_numbers_in_flight_ = in_flight
      /\ released.receiver_window_size_ = window
      /\ released.receiver_window_space_ = space
      /\ released.send_messages_ = s.send_messages_
      /\ released.outstanding_messages_ = out
      /\ released.consecutive_retransmissions_ = s.consecutive_retransmissions_
      /\ released.retransmission_timeout_ = s.retransmission_timeout_
      /\ released.time_elapsed_ = s.time_elapsed_
  BY <1>1, <1>4, <1>5 DEF SenderStates, next
<1>7. t = IF idx = 0 THEN released
          ELSE [released EXCEPT !.time_elapsed_ = 0,
                                !.retransmission_timeout_ = InitialRTO,
                                !.consecutive_retransmissions_ = 0,
                                !.outstanding_messages_ = SubSeq(@, idx + 1, Len(@))]
  BY Zenon DEF Acknowledge, in_flight, gone, space
<1> HIDE DEF released, t
<1>8. InitialRTO \in Nat /\ 0 < InitialRTO /\ 0 \in Nat
  BY InitialRTOAssumption
<1>9. /\ restarted \in SenderStates
      /\ restarted.isn_ = s.isn_ /\ restarted.syn = s.syn /\ restarted.fin = s.fin
      /\ restarted.next_abs_seqno_ = next
      /\ restarted.sequence_numbers_in_flight_ = in_flight
      /\ restarted.receiver_window_size_ = window
      /\ restarted.receiver_window_space_ = space
      /\ restarted.send_messages_ = s.send_messages_
      /\ restarted.outstanding_messages_ = rest
      /\ restarted.consecutive_retransmissions_ = 0
      /\ restarted.retransmission_timeout_ = InitialRTO
      /\ restarted.time_elapsed_ = 0
  BY <1>2, <1>6, <1>8 DEF SenderStates
<1>10. idx # 0 => t = restarted
  BY <1>6, <1>7 DEF rest, n
<1> HIDE DEF restarted
<1>11. ASSUME NEW u \in SenderStates,
              u.isn_ = s.isn_, u.syn = s.syn, u.fin = s.fin,
              u.next_abs_seqno_ = next, u.sequence_numbers_in_flight_ = in_flight,
              u.receiver_window_size_ = window, u.receiver_window_space_ = space,
              u.send_messages_ = s.send_messages_, Timed(u),
              Kept(u.outstanding_messages_, at[idx + 1], next)
       PROVE  SoundSender(u, b) /\ Unacked(u) = at[idx + 1]
  <2>1. Unacked(u) = at[idx + 1]
    BY <1>4, <1>11 DEF Unacked
  <2>2. Accounted(u, b)
    BY <1>11 DEF SoundSender, Accounted, next
  <2>3. Genuine(u)
    BY <1>11 DEF SoundSender, Genuine, next
  <2>4. Windowed(u)
    BY <1>5, <1>11 DEF Windowed
  <2>5. QED
    BY <1>11, <2>1, <2>2, <2>3, <2>4 DEF SoundSender
<1>12. SoundSender(t, b) /\ Unacked(t) = at[idx + 1]
  <2>1. CASE idx = 0
    <3>1. t = released
      BY <1>7, <2>1
    <3>2. Timed(released)
      BY <1>6 DEF SoundSender, Timed
    <3>3. at[idx + 1] = Unacked(s)
      BY <2>1 DEF Keeps
    <3>4. Kept(released.outstanding_messages_, at[idx + 1], next)
      BY <1>6, <3>3 DEF SoundSender, next
    <3>5. QED
      BY <1>6, <1>11, <3>1, <3>2, <3>4
  <2>2. CASE idx # 0
    <3>1. Timed(restarted)
      BY <1>8, <1>9, BackedOffDoubles DEF Timed
    <3>2. Kept(restarted.outstanding_messages_, at[idx + 1], next)
      BY <1>2, <1>9 DEF Kept
    <3>3. QED
      BY <1>9, <1>10, <1>11, <2>2, <3>1, <3>2
  <2>3. QED
    BY <2>1, <2>2
<1>13. /\ t.next_abs_seqno_ = next /\ t.syn = s.syn /\ t.fin = s.fin
       /\ t.receiver_window_space_ = space
  BY <1>6, <1>7, <1>9, <1>10
<1>14. QED
  BY <1>4, <1>5, <1>12, <1>13 DEF t, next

\* What an acknowledgment up to abs_ackno with this window did, if it was valid.
Acked(s, t, abs_ackno, window) ==
  \E at : \E idx \in 0..Len(s.outstanding_messages_) :
    /\ Keeps(s.outstanding_messages_, at, Unacked(s), s.next_abs_seqno_)
    /\ ValidAck(s, abs_ackno)
    /\ \A i \in 1..idx : EndAbs(s, s.outstanding_messages_[i]) <= abs_ackno
    /\ Unacked(t) = at[idx + 1]
    /\ t.receiver_window_space_ > 0
         => t.receiver_window_space_ = window - (s.next_abs_seqno_ - at[idx + 1])

LEMMA ReceiveSound ==
  ASSUME NEW s, NEW b, SoundSender(s, b), s.syn, NEW msg \in ReceiverMessages,
         msg.ackno # Nullopt
  PROVE  LET t == SenderReceive(s, msg)
         IN  /\ SoundSender(t, b)
             /\ t.next_abs_seqno_ = s.next_abs_seqno_
             /\ t.syn /\ t.fin = s.fin
             /\ t = s \/ Acked(s, t, AbsSeqno(s, msg.ackno), msg.window_size)
<1> DEFINE abs == AbsSeqno(s, msg.ackno)
           idx == AckedMessages(s, abs)
           t   == SenderReceive(s, msg)
           acked == Acknowledge(s, idx, msg.window_size)
<1>1. s.isn_ = Isn /\ msg.ackno \in SequenceNumber /\ msg.window_size \in 0..Word16 - 1
  BY DEF SoundSender, ReceiverMessages
<1>2. abs \in Nat
  <2>1. s.next_abs_seqno_ \in 0..StreamLength + 2
    BY NextInRange
  <2>2. QED
    BY <1>1, <2>1, IsnAssumption, UnwrapNat DEF AbsSeqno
<1>3. /\ idx \in 0..Len(s.outstanding_messages_)
      /\ \A i \in 1..idx : EndAbs(s, s.outstanding_messages_[i]) <= abs
  <2> HIDE DEF abs
  <2>1. QED
    BY <1>2, AckedMessagesFound
<1>4. idx \in Nat
  <2>1. Len(s.outstanding_messages_) \in Nat
    BY LenProperties DEF SoundSender, SenderStates
  <2> HIDE DEF idx
  <2>2. QED
    BY <1>3, <2>1
<1>5. t = IF ValidAck(s, abs) THEN acked ELSE s
  <2> DEFINE AfterAcked(a) == [i \in Nat |-> Acknowledge(s, i, msg.window_size)]
             After == [a \in Nat |-> IF ValidAck(s, a)
                                     THEN AfterAcked(a)[AckedMessages(s, a)] ELSE s]
  <2>1. t = After[abs]
    BY DEF SenderReceive
  <2>2. After[abs] = IF ValidAck(s, abs) THEN AfterAcked(abs)[idx] ELSE s
    <3> HIDE DEF abs, AfterAcked
    <3>1. QED
      BY <1>2
  <2>3. AfterAcked(abs)[idx] = acked
    <3> HIDE DEF idx
    <3>1. QED
      BY <1>4
  <2>4. QED
    BY <2>1, <2>2, <2>3
<1> HIDE DEF t
<1>6. CASE ~ValidAck(s, abs)
  BY <1>5, <1>6 DEF t
<1>7. CASE ValidAck(s, abs)
  <2>1. t = acked
    BY <1>5, <1>7
  <2>2. PICK at : Keeps(s.outstanding_messages_, at, Unacked(s), s.next_abs_seqno_)
    BY DEF SoundSender, Kept
  <2> HIDE DEF idx, abs
  <2>3. /\ SoundSender(acked, b) /\ Unacked(acked) = at[idx + 1]
        /\ acked.next_abs_seqno_ = s.next_abs_seqno_
        /\ acked.syn /\ acked.fin = s.fin
        /\ acked.receiver_window_space_ > 0
             => acked.receiver_window_space_
                  = msg.window_size - (s.next_abs_seqno_ - at[idx + 1])
    BY <1>1, <1>3, <2>2, AcknowledgeSound, SMTT(60)
  <2> HIDE DEF acked
  <2>4. Acked(s, t, abs, msg.window_size)
    BY <1>3, <1>7, <2>1, <2>2, <2>3 DEF Acked
  <2>5. QED
    BY <2>1, <2>3, <2>4 DEF t, abs
<1>8. QED
  BY <1>6, <1>7

-----------------------------------------------------------------------------
(* The invariant of every run: the sender and its stream are sound, and no *)
(* acknowledgment is older than the SYN.                                   *)
IInv ==
  /\ SoundSender(sender, outbound)
  /\ peer_next \in Nat /\ peer_edge \in Nat /\ peer_next <= peer_edge
  /\ acks \subseteq Nat \X Nat
  /\ \A ack \in acks : ack[1] <= ack[2]
  /\ ~sender.syn => acks = {}

LEMMA NewSenderSound ==
  /\ SoundSender(NewSender(Isn), NewByteStream(SendCapacity))
  /\ Unacked(NewSender(Isn)) = 0
<1> DEFINE s == NewSender(Isn)
           b == NewByteStream(SendCapacity)
           at == [i \in 1..1 |-> 0]
<1>1. /\ Isn \in SequenceNumber /\ InitialRTO \in Nat /\ 0 < InitialRTO
      /\ 0 \in 0..Word16 - 1 /\ 1 \in 0..Word16 - 1
      /\ << >> \in Seq(SenderMessages)
  BY IsnAssumption, InitialRTOAssumption, Word16Assumption
<1>2. s \in SenderStates
  BY <1>1 DEF NewSender, SenderStates
<1>3. /\ s.isn_ = Isn /\ s.send_messages_ = << >> /\ s.outstanding_messages_ = << >>
      /\ s.next_abs_seqno_ = 0 /\ s.sequence_numbers_in_flight_ = 0
      /\ s.consecutive_retransmissions_ = 0 /\ s.retransmission_timeout_ = InitialRTO
      /\ s.receiver_window_size_ = 1 /\ s.receiver_window_space_ = 1
      /\ s.time_elapsed_ = 0 /\ s.syn = FALSE /\ s.fin = FALSE
  BY DEF NewSender
<1>4. InStream(b) /\ BytesPopped(b) = 0
  <2>1. Intact(b)
    BY NewIntact, SendCapacityAssumption
  <2>2. b.bytes_write = 0 /\ b.bytes_read = 0 /\ b.close_ = FALSE
    BY DEF NewByteStream
  <2>3. QED
    BY <2>1, <2>2, StreamLengthAssumption DEF InStream, BytesPopped
<1> HIDE DEF s, b
<1>5. Unacked(s) = 0
  BY <1>3 DEF Unacked
<1>6. Kept(s.outstanding_messages_, Unacked(s), s.next_abs_seqno_)
  <2>1. Keeps(<< >>, at, 0, 0)
    <3>1. at \in [1..0 + 1 -> Nat] /\ at[1] = 0 /\ at[0 + 1] = 0 /\ Len(<< >>) = 0
      OBVIOUS
    <3> HIDE DEF at
    <3>2. QED
      BY <3>1 DEF Keeps, Run
  <2> HIDE DEF at
  <2>2. QED
    BY <1>3, <1>5, <2>1 DEF Kept
<1>7. Accounted(s, b)
  BY <1>3, <1>4 DEF Accounted
<1>8. Genuine(s)
  BY <1>3 DEF Genuine
<1>9. Timed(s)
  BY <1>1, <1>3, BackedOffDoubles DEF Timed
<1>10. Windowed(s)
  BY <1>3 DEF Windowed
<1>11. QED
  BY <1>2, <1>3, <1>4, <1>5, <1>6, <1>7, <1>8, <1>9, <1>10 DEF SoundSender, s, b

(* The application's steps leave the sender alone. *)
LEMMA WriteStep ==
  ASSUME IInv, NEW n \in 1..SendCapacity, ApplicationWrites(n)
  PROVE  SoundSender(sender, outbound') /\ sender' = sender
<1>1. /\ n \in Nat /\ n > 0
      /\ outbound.bytes_write + n <= StreamLength
      /\ outbound' = Push(outbound, BytesFrom(outbound.bytes_write, n))
      /\ sender' = sender
  BY SendCapacityAssumption DEF ApplicationWrites, BytesPushed
<1>2. /\ Intact(outbound) /\ outbound.bytes_write \in Nat
      /\ outbound.close_ => outbound.bytes_write = StreamLength
      /\ SoundSender(sender, outbound)
  BY DEF IInv, SoundSender, InStream, Intact, StreamStates
<1> DEFINE data == BytesFrom(outbound.bytes_write, n)
<1>3. data \in Seq(Byte) /\ Len(data) = n /\ Contiguous(data, outbound.bytes_write)
  BY <1>1, <1>2, BytesFromProperties
<1> HIDE DEF data
<1>4. /\ Intact(outbound')
      /\ outbound'.bytes_write
           = outbound.bytes_write + Lesser(n, AvailableCapacity(outbound))
      /\ outbound'.bytes_read = outbound.bytes_read
      /\ outbound'.close_ = outbound.close_
  <2>1. outbound' = Push(outbound, data)
    BY <1>1 DEF data
  <2>2. QED
    BY <1>2, <1>3, <2>1, PushIntact
<1>5. ~outbound.close_ /\ ~IsFinished(outbound)
  BY <1>1, <1>2, StreamLengthAssumption DEF IsFinished
<1>6. outbound'.bytes_write <= StreamLength
  <2>1. n <= AvailableCapacity(outbound)
    BY DEF ApplicationWrites
  <2>2. QED
    BY <1>1, <1>4, <2>1 DEF Lesser
<1>7. InStream(outbound')
  BY <1>4, <1>5, <1>6 DEF InStream
<1>8. Accounted(sender, outbound')
  BY <1>2, <1>4, <1>5 DEF SoundSender, Accounted, BytesPopped
<1>9. QED
  BY <1>1, <1>2, <1>7, <1>8 DEF SoundSender

LEMMA CloseStep ==
  ASSUME IInv, ApplicationCloses
  PROVE  SoundSender(sender, outbound') /\ sender' = sender
<1>1. /\ outbound.bytes_write = StreamLength /\ ~outbound.close_
      /\ outbound' = Close(outbound) /\ sender' = sender
  BY DEF ApplicationCloses, BytesPushed, IsClosed
<1>2. Intact(outbound) /\ SoundSender(sender, outbound)
  BY DEF IInv, SoundSender, InStream
<1>3. /\ Intact(outbound') /\ outbound'.bytes_write = outbound.bytes_write
      /\ outbound'.bytes_read = outbound.bytes_read
  BY <1>1, <1>2, CloseIntact
<1>4. InStream(outbound')
  BY <1>1, <1>3, StreamLengthAssumption DEF InStream
<1>5. Accounted(sender, outbound')
  BY <1>1, <1>2, <1>3 DEF SoundSender, Accounted, BytesPopped, IsFinished
<1>6. QED
  BY <1>1, <1>2, <1>4, <1>5 DEF SoundSender

(* A message leaves; the peer takes what it has room for and answers. *)
LEMMA SendStep ==
  ASSUME IInv, SendsLost \/ SendsDelivered
  PROVE  /\ SoundSender(sender', outbound') /\ Unacked(sender') = Unacked(sender)
         /\ sender'.next_abs_seqno_ = sender.next_abs_seqno_
         /\ sender.syn /\ sender'.syn /\ sender'.fin = sender.fin
         /\ sender'.receiver_window_space_ = sender.receiver_window_space_
         /\ MaybeSendMessage(sender) \in SenderMessages
         /\ \E at \in Nat :
              /\ Proper(MaybeSendMessage(sender), at)
              /\ at + SequenceLength(MaybeSendMessage(sender)) <= sender.next_abs_seqno_
<1>1. /\ SoundSender(sender, outbound) /\ sender.send_messages_ # << >>
      /\ sender' = AfterMaybeSend(sender) /\ outbound' = outbound
  BY DEF IInv, SendsLost, SendsDelivered
<1>2. /\ SoundSender(sender', outbound') /\ Unacked(sender') = Unacked(sender)
      /\ sender'.next_abs_seqno_ = sender.next_abs_seqno_
      /\ sender'.syn = sender.syn /\ sender'.fin = sender.fin
      /\ sender'.receiver_window_space_ = sender.receiver_window_space_
  BY <1>1, AfterMaybeSendSound
<1>3. sender.syn
  <2>1. ~sender.syn => sender = NewSender(Isn)
    BY <1>1 DEF SoundSender
  <2>2. NewSender(Isn).send_messages_ = << >>
    BY DEF NewSender
  <2>3. QED
    BY <1>1, <2>1, <2>2
<1> DEFINE send == sender.send_messages_
<1>4. /\ send \in Seq(SenderMessages) /\ send # << >>
  BY <1>1 DEF SoundSender, SenderStates
<1>5. /\ Len(send) \in Nat \ {0} /\ Head(send) = send[1]
  BY <1>4, EmptySeq, HeadTailProperties
<1>6. 1 \in 1..Len(send)
  BY <1>5
<1>7. send[1] \in SenderMessages /\ MaybeSendMessage(sender) = send[1]
  BY <1>4, <1>5, <1>6, ElementOfSeq DEF MaybeSendMessage
<1>8. \E at \in Nat : /\ Proper(send[1], at)
                      /\ at + SequenceLength(send[1]) <= sender.next_abs_seqno_
  BY <1>1, <1>6 DEF SoundSender, Genuine
<1>9. QED
  BY <1>2, <1>3, <1>7, <1>8

LEMMA DeliveredStep ==
  ASSUME IInv, SendsDelivered
  PROVE  /\ peer_next' \in Nat /\ peer_next <= peer_next' /\ peer_next' <= peer_edge
         /\ peer_edge' = peer_edge /\ acks' = acks \cup {<<peer_next', peer_edge>>}
         /\ FirstOf(MaybeSendMessage(sender)) \in Int
         /\ EndOf(MaybeSendMessage(sender)) \in Int
         /\ peer_next' = peer_next
              \/ peer_next' <= EndOf(MaybeSendMessage(sender))
<1> DEFINE message == MaybeSendMessage(sender)
           first == FirstOf(message)
           end   == EndOf(message)
<1>1. peer_next \in Nat /\ peer_edge \in Nat /\ peer_next <= peer_edge
  BY DEF IInv
<1>2. message \in SenderMessages
  BY SendStep
<1>3. message.seqno \in SequenceNumber /\ SequenceLength(message) \in Nat
  BY <1>2, LengthInNat DEF SenderMessages
<1>4. first \in Int
  BY <1>1, <1>3, IsnAssumption, UnwrapInt DEF FirstOf
<1>5. end \in Int
  BY <1>3, <1>4 DEF EndOf
<1>6. /\ peer_next' = IF first <= peer_next
                      THEN Greater(peer_next, Lesser(end, peer_edge)) ELSE peer_next
      /\ peer_edge' = peer_edge /\ acks' = acks \cup {<<peer_next', peer_edge>>}
  BY DEF SendsDelivered
<1> HIDE DEF first, end
<1>7. /\ peer_next' \in Nat /\ peer_next <= peer_next' /\ peer_next' <= peer_edge
      /\ peer_next' = peer_next \/ peer_next' <= end
  BY <1>1, <1>4, <1>5, <1>6 DEF Greater, Lesser
<1>8. QED
  BY <1>4, <1>5, <1>6, <1>7 DEF first, end, message

LEMMA AckStep ==
  ASSUME IInv, NEW ack \in acks, AckArrives(ack)
  PROVE  /\ SoundSender(sender', outbound') /\ sender.syn /\ sender'.syn
         /\ sender'.next_abs_seqno_ = sender.next_abs_seqno_
         /\ sender'.fin = sender.fin
         /\ \/ sender' = sender
            \/ Acked(sender, sender', AbsSeqno(sender, Wrap(ack[1], Isn)),
                     Lesser(ack[2] - ack[1], Word16 - 1))
         /\ acks' \subseteq acks
         /\ ~AcksReordered => \A later \in acks' : later[1] >= ack[1]
         /\ peer_next' = peer_next /\ peer_edge' = peer_edge
<1> DEFINE window == Lesser(ack[2] - ack[1], Word16 - 1)
           msg    == [ackno |-> Wrap(ack[1], Isn), window_size |-> window]
<1>1. /\ SoundSender(sender, outbound) /\ ack[1] \in Nat /\ ack[2] \in Nat /\ ack[1] <= ack[2]
      /\ sender.syn
  <2>1. SoundSender(sender, outbound) /\ ack[1] \in Nat /\ ack[2] \in Nat /\ ack[1] <= ack[2]
    BY DEF IInv
  <2>2. ~sender.syn => acks = {}
    BY DEF IInv
  <2>3. QED
    BY <2>1, <2>2
<1>2. window \in 0..Word16 - 1
  BY <1>1, Word16Assumption DEF Lesser
<1> HIDE DEF window
<1>3. Wrap(ack[1], Isn) \in SequenceNumber /\ Wrap(ack[1], Isn) # Nullopt
  <2>1. Wrap(ack[1], Isn) \in SequenceNumber
    BY <1>1, IsnAssumption, WrapInRange
  <2>2. \A w \in SequenceNumber : w # Nullopt
    BY Word32Assumption DEF SequenceNumber, Nullopt
  <2>3. QED
    BY <2>1, <2>2
<1>4. /\ msg \in ReceiverMessages /\ msg.ackno = Wrap(ack[1], Isn)
      /\ msg.window_size = window
  BY <1>2, <1>3 DEF ReceiverMessages
<1> HIDE DEF msg
<1>5. /\ sender' = SenderReceive(sender, msg) /\ outbound' = outbound
      /\ acks' = IF AcksReordered THEN acks
                 ELSE {later \in acks : later[1] >= ack[1] /\ later[2] >= ack[2]}
      /\ peer_next' = peer_next /\ peer_edge' = peer_edge
  BY Zenon DEF AckArrives, msg, window
<1>6. /\ SoundSender(sender', outbound)
      /\ sender'.next_abs_seqno_ = sender.next_abs_seqno_
      /\ sender'.syn /\ sender'.fin = sender.fin
      /\ sender' = sender
           \/ Acked(sender, sender', AbsSeqno(sender, msg.ackno), msg.window_size)
  <2>1. msg.ackno # Nullopt
    BY <1>3, <1>4
  <2>2. QED
    BY <1>1, <1>4, <1>5, <2>1, ReceiveSound, Zenon
<1>7. QED
  BY <1>1, <1>4, <1>5, <1>6 DEF window

LEMMA TickStep ==
  ASSUME IInv, Ticks
  PROVE  /\ SoundSender(sender', outbound') /\ Unacked(sender') = Unacked(sender)
         /\ sender'.next_abs_seqno_ = sender.next_abs_seqno_
         /\ sender'.syn = sender.syn /\ sender'.fin = sender.fin
         /\ sender'.receiver_window_space_ = sender.receiver_window_space_
<1>1. sender' = SenderTick(sender, 1) /\ outbound' = outbound /\ SoundSender(sender, outbound)
  BY DEF Ticks, IInv
<1>2. QED
  BY <1>1, TickSound, Zenon

LEMMA PushStep ==
  ASSUME IInv, Pushes
  PROVE  /\ SoundSender(sender', outbound') /\ Unacked(sender') = Unacked(sender)
         /\ Pushed(sender, sender') /\ (sender.syn => sender'.syn)
         /\ sender.next_abs_seqno_ <= sender'.next_abs_seqno_
<1>1. /\ sender' = SenderPush(sender, outbound).sender
      /\ outbound' = SenderPush(sender, outbound).outbound
      /\ SoundSender(sender, outbound)
  BY DEF Pushes, IInv
<1>2. /\ SoundSender(sender', outbound') /\ Unacked(sender') = Unacked(sender)
      /\ Pushed(sender, sender') /\ (sender.syn => sender'.syn)
  BY <1>1, PushSound, Zenon
<1>3. sender.next_abs_seqno_ \in Nat /\ sender'.next_abs_seqno_ \in Nat
  BY <1>1, <1>2 DEF SoundSender, SenderStates
<1>4. ~sender.syn => sender.next_abs_seqno_ = 0
  <2>1. ~sender.syn => sender = NewSender(Isn)
    BY <1>1 DEF SoundSender
  <2>2. NewSender(Isn).next_abs_seqno_ = 0
    BY DEF NewSender
  <2>3. QED
    BY <2>1, <2>2
<1>5. sender.next_abs_seqno_ <= sender'.next_abs_seqno_
  BY <1>2, <1>3, <1>4 DEF Pushed, WindowUsed
<1>6. QED
  BY <1>2, <1>5

LEMMA IInvHolds == Init => IInv
<1> SUFFICES ASSUME Init PROVE IInv
  OBVIOUS
<1>1. SoundSender(sender, outbound)
  BY NewSenderSound DEF Init
<1>2. QED
  BY <1>1 DEF Init, IInv

LEMMA IInvKept == IInv /\ [Next]_vars => IInv'
<1> SUFFICES ASSUME IInv, [Next]_vars PROVE IInv'
  OBVIOUS
<1>1. /\ peer_next \in Nat /\ peer_edge \in Nat /\ peer_next <= peer_edge
      /\ acks \subseteq Nat \X Nat /\ \A ack \in acks : ack[1] <= ack[2]
      /\ ~sender.syn => acks = {}
  BY DEF IInv
<1>2. ASSUME SoundSender(sender', outbound'), sender.syn => sender'.syn,
             UNCHANGED <<peer_next, peer_edge, acks>>
      PROVE  IInv'
  BY <1>1, <1>2 DEF IInv
<1>3. CASE \E n \in 1..SendCapacity : ApplicationWrites(n)
  <2>1. PICK n \in 1..SendCapacity : ApplicationWrites(n)
    BY <1>3
  <2>2. SoundSender(sender, outbound') /\ sender' = sender
    BY <2>1, WriteStep
  <2>3. QED
    BY <1>2, <2>1, <2>2 DEF ApplicationWrites
<1>4. CASE ApplicationCloses
  <2>1. SoundSender(sender, outbound') /\ sender' = sender
    BY <1>4, CloseStep
  <2>2. QED
    BY <1>2, <1>4, <2>1 DEF ApplicationCloses
<1>5. CASE Pushes
  BY <1>2, <1>5, PushStep DEF Pushes
<1>6. CASE SendsLost
  BY <1>2, <1>6, SendStep DEF SendsLost
<1>7. CASE SendsDelivered
  <2>1. SoundSender(sender', outbound') /\ sender'.syn
    BY <1>7, SendStep
  <2>2. /\ peer_next' \in Nat /\ peer_next' <= peer_edge /\ peer_edge' = peer_edge
        /\ acks' = acks \cup {<<peer_next', peer_edge>>}
    BY <1>7, DeliveredStep
  <2>3. acks' \subseteq Nat \X Nat /\ \A ack \in acks' : ack[1] <= ack[2]
    BY <1>1, <2>2
  <2>4. QED
    BY <1>1, <2>1, <2>2, <2>3 DEF IInv
<1>8. CASE Ticks
  BY <1>2, <1>8, TickStep DEF Ticks
<1>9. CASE \E ack \in acks : AckArrives(ack)
  <2>1. PICK ack \in acks : AckArrives(ack)
    BY <1>9
  <2>2. /\ SoundSender(sender', outbound') /\ sender'.syn /\ acks' \subseteq acks
        /\ peer_next' = peer_next /\ peer_edge' = peer_edge
    BY <2>1, AckStep
  <2>3. QED
    BY <1>1, <2>2 DEF IInv
<1>10. CASE \E n \in 1..PeerCapacity : PeerReads(n)
  <2>1. PICK n \in 1..PeerCapacity : PeerReads(n)
    BY <1>10
  <2>2. n \in Nat
    BY PeerCapacityAssumption, Word16Assumption
  <2>3. peer_edge' \in Nat /\ peer_edge <= peer_edge'
    BY <1>1, <2>1, <2>2 DEF PeerReads
  <2>4. UNCHANGED <<sender, outbound, peer_next, acks>>
    BY <2>1 DEF PeerReads
  <2>5. QED
    BY <1>1, <2>3, <2>4 DEF IInv
<1>11. CASE UNCHANGED vars
  BY <1>2, <1>11 DEF vars, IInv
<1>12. QED
  BY <1>3, <1>4, <1>5, <1>6, <1>7, <1>8, <1>9, <1>10, <1>11 DEF Next

LEMMA IInvAlways == Spec => []IInv
  BY IInvHolds, IInvKept, PTL DEF Spec

(* Sequence numbers are used once and in order, and those in flight are    *)
(* those of the outstanding messages, whatever is lost, delayed or         *)
(* repeated and however long the stream (tcp_sender.cc:23-31, 44-123).     *)
THEOREM NumbersAccounted == Spec => []SequenceAccounting
<1>1. IInv => SequenceAccounting
  <2> SUFFICES ASSUME IInv PROVE SequenceAccounting
    OBVIOUS
  <2>1. SoundSender(sender, outbound)
    BY DEF IInv
  <2>2. PICK at : Keeps(Outstanding, at, Unacked(sender), sender.next_abs_seqno_)
    BY <2>1 DEF SoundSender, Kept, Outstanding
  <2>3. /\ Outstanding \in Seq(SenderMessages)
        /\ sender.next_abs_seqno_ \in Nat /\ sender.sequence_numbers_in_flight_ \in Nat
    BY <2>1 DEF SoundSender, SenderStates, Outstanding
  <2>4. LengthOfAll(Outstanding) = sender.next_abs_seqno_ - Unacked(sender)
    BY <2>2, <2>3, LengthsAddUp DEF Keeps
  <2>5. sender.sequence_numbers_in_flight_ = LengthOfAll(Outstanding)
    BY <2>3, <2>4 DEF Unacked
  <2>6. QED
    BY <2>1, <2>5 DEF SoundSender, Accounted, SequenceAccounting
<1>2. QED
  BY <1>1, IInvAlways, PTL

(* The retransmission timer: its timeout is the initial one doubled once   *)
(* per counted retransmission, a running timer is short of it, and nothing *)
(* outstanding leaves it as at the start (tcp_sender.cc:171-176, 184-199). *)
THEOREM TimerInOrder == Spec => []TimerConsistent
<1>1. IInv => TimerConsistent
  BY DEF IInv, SoundSender, Timed, TimerConsistent, Outstanding
<1>2. QED
  BY <1>1, IInvAlways, PTL

-----------------------------------------------------------------------------
(* A stream that is short enough for every number of it to be read back    *)
(* right, however old the message or the acknowledgment it comes in.       *)
ShortStream == 2 * (Fin + 1) < Word32

LEMMA ReadRight ==
  ASSUME ShortStream, NEW n \in 0..Fin + 1, NEW at \in 0..Fin + 1
  PROVE  Unwrap(Wrap(n, Isn), Isn, at) = n
<1>1. n \in Nat /\ at \in 0..StreamLength + 2 /\ 2 * AbsoluteDelta(n, at) < Word32
  BY StreamLengthAssumption, Word32Assumption DEF Fin, ShortStream, AbsoluteDelta
<1>2. QED
  BY <1>1, IsnAssumption, Unwrapped

(* An outstanding message is read back at its own place.                   *)
LEMMA OutstandingRead ==
  ASSUME ShortStream, NEW s, NEW b, SoundSender(s, b), NEW at,
         Keeps(s.outstanding_messages_, at, Unacked(s), s.next_abs_seqno_),
         NEW i \in 1..Len(s.outstanding_messages_)
  PROVE  /\ FirstAbs(s, s.outstanding_messages_[i]) = at[i]
         /\ EndAbs(s, s.outstanding_messages_[i]) = at[i + 1]
<1> DEFINE out == s.outstanding_messages_
           n   == Len(out)
<1>1. /\ out \in Seq(SenderMessages) /\ n \in Nat /\ s.isn_ = Isn
      /\ s.next_abs_seqno_ \in Nat /\ s.next_abs_seqno_ <= Fin + 1 /\ Fin + 1 \in Nat
  BY NextInRange, StreamLengthAssumption, LenProperties, SMTT(60) DEF SoundSender, SenderStates, Fin
<1>2. i \in 1..n + 1
  BY <1>1
<1>3. at[i] \in Nat /\ at[i] <= s.next_abs_seqno_
  BY <1>1, <1>2, KeepsPlaces
<1>4. /\ out[i].seqno = Wrap(at[i], Isn)
      /\ at[i + 1] = at[i] + SequenceLength(out[i])
  BY DEF Keeps, Run, Proper
<1>5. at[i] \in 0..Fin + 1 /\ s.next_abs_seqno_ \in 0..Fin + 1
  BY <1>1, <1>3
<1>6. FirstAbs(s, out[i]) = at[i]
  BY <1>1, <1>4, <1>5, ReadRight DEF FirstAbs, AbsSeqno
<1>7. QED
  BY <1>4, <1>6 DEF EndAbs

\* Nothing the peer misses is forgotten, and neither the peer nor an acknowledgment
\* is ahead of what was sent.
PInv == /\ Unacked(sender) <= peer_next
        /\ peer_next <= sender.next_abs_seqno_
        /\ \A ack \in acks : ack[1] <= peer_next /\ ack[2] <= peer_edge

LEMMA NumbersInRange ==
  ASSUME NEW s, NEW b, SoundSender(s, b)
  PROVE  /\ Unacked(s) \in Nat /\ s.next_abs_seqno_ \in 0..Fin + 1
         /\ Unacked(s) <= s.next_abs_seqno_ /\ Fin + 1 \in Nat
<1>1. /\ s.next_abs_seqno_ \in Nat /\ s.next_abs_seqno_ <= Fin + 1 /\ Fin + 1 \in Nat
      /\ s.outstanding_messages_ \in Seq(SenderMessages)
  BY NextInRange, StreamLengthAssumption, SMTT(60) DEF Fin, SoundSender, SenderStates
<1>2. PICK at : Keeps(s.outstanding_messages_, at, Unacked(s), s.next_abs_seqno_)
  BY DEF SoundSender, Kept
<1>3. 1 \in 1..Len(s.outstanding_messages_) + 1
  BY <1>1, LenProperties
<1>4. at[1] \in Nat /\ at[1] <= s.next_abs_seqno_ /\ at[1] = Unacked(s)
  BY <1>1, <1>2, <1>3, KeepsPlaces DEF Keeps
<1>5. QED
  BY <1>1, <1>4

(* What an acknowledgment frees it covers.                                 *)
LEMMA AckFrees ==
  ASSUME IInv, PInv, ShortStream, NEW ack \in acks, AckArrives(ack)
  PROVE  /\ Unacked(sender') = Unacked(sender) \/ Unacked(sender') <= ack[1]
         /\ \/ sender' = sender
            \/ sender'.receiver_window_space_ > 0
                 => sender'.next_abs_seqno_ + sender'.receiver_window_space_
                      <= Unacked(sender') + (ack[2] - ack[1])
<1> DEFINE abs    == AbsSeqno(sender, Wrap(ack[1], Isn))
           window == Lesser(ack[2] - ack[1], Word16 - 1)
           out    == sender.outstanding_messages_
           next   == sender.next_abs_seqno_
<1>1. /\ SoundSender(sender, outbound) /\ sender.isn_ = Isn /\ out \in Seq(SenderMessages)
      /\ ack[1] \in Nat /\ ack[2] \in Nat /\ ack[1] <= ack[2]
      /\ peer_next \in Nat /\ ack[1] <= peer_next /\ peer_next <= next
  BY DEF IInv, PInv, SoundSender, SenderStates
<1>2. next \in 0..Fin + 1 /\ Fin + 1 \in Nat
  BY <1>1, NumbersInRange
<1>3. abs = ack[1]
  <2>1. ack[1] \in 0..Fin + 1
    BY <1>1, <1>2
  <2>2. QED
    BY <1>1, <1>2, <2>1, ReadRight DEF AbsSeqno
<1>4. /\ sender' = sender \/ Acked(sender, sender', abs, window)
      /\ sender'.next_abs_seqno_ = next
  BY AckStep
<1>5. CASE sender' = sender
  BY <1>5
<1>6. CASE Acked(sender, sender', abs, window)
  <2> HIDE DEF abs, window
  <2>1. PICK at : \E idx \in 0..Len(out) :
          /\ Keeps(out, at, Unacked(sender), next)
          /\ \A i \in 1..idx : EndAbs(sender, out[i]) <= abs
          /\ Unacked(sender') = at[idx + 1]
          /\ sender'.receiver_window_space_ > 0
               => sender'.receiver_window_space_ = window - (next - at[idx + 1])
    BY <1>6 DEF Acked
  <2>2. PICK idx \in 0..Len(out) :
          /\ Keeps(out, at, Unacked(sender), next)
          /\ \A i \in 1..idx : EndAbs(sender, out[i]) <= abs
          /\ Unacked(sender') = at[idx + 1]
          /\ sender'.receiver_window_space_ > 0
               => sender'.receiver_window_space_ = window - (next - at[idx + 1])
    BY <2>1
  <2>3. Len(out) \in Nat
    BY <1>1, LenProperties
  <2>4. Unacked(sender') = Unacked(sender) \/ Unacked(sender') <= ack[1]
    <3>1. CASE idx = 0
      BY <2>2, <3>1 DEF Keeps
    <3>2. CASE idx # 0
      <4>1. idx \in 1..idx /\ idx \in 1..Len(out)
        BY <2>3, <3>2
      <4>2. EndAbs(sender, out[idx]) = at[idx + 1]
        BY <1>1, <2>2, <4>1, OutstandingRead
      <4>3. QED
        BY <1>3, <2>2, <4>1, <4>2
    <3>3. QED
      BY <3>1, <3>2
  <2>5. ASSUME sender'.receiver_window_space_ > 0
        PROVE  sender'.next_abs_seqno_ + sender'.receiver_window_space_
                 <= Unacked(sender') + (ack[2] - ack[1])
    <3> DEFINE place == at[idx + 1]
    <3>1. idx + 1 \in 1..Len(out) + 1
      BY <2>3
    <3>2. place \in Nat
      BY <1>1, <2>2, <3>1, KeepsPlaces
    <3>3. window \in Int /\ window <= ack[2] - ack[1]
      BY <1>1, Word16Assumption DEF window, Lesser
    <3>4. /\ sender'.receiver_window_space_ = window - (next - place)
          /\ sender'.next_abs_seqno_ = next /\ Unacked(sender') = place
      BY <1>4, <2>2, <2>5
    <3> HIDE DEF place, next
    <3>5. next + (window - (next - place)) = place + window
      BY <1>2, <3>2, <3>3
    <3>6. place + window <= place + (ack[2] - ack[1])
      BY <1>1, <3>2, <3>3
    <3>7. QED
      BY <3>4, <3>5, <3>6
  <2>6. QED
    BY <2>4, <2>5
<1>7. QED
  BY <1>4, <1>5, <1>6

LEMMA PInvHolds == Init => PInv
<1> SUFFICES ASSUME Init PROVE PInv
  OBVIOUS
<1>1. Unacked(sender) = 0 /\ peer_next = 0 /\ acks = {}
  BY NewSenderSound DEF Init
<1>2. sender.next_abs_seqno_ = 0
  BY DEF Init, NewSender
<1>3. QED
  BY <1>1, <1>2 DEF PInv

LEMMA PInvKept ==
  ASSUME ShortStream, IInv, PInv, [Next]_vars
  PROVE  PInv'
<1>1. /\ peer_next \in Nat /\ peer_edge \in Nat /\ Unacked(sender) \in Nat
      /\ sender.next_abs_seqno_ \in 0..Fin + 1 /\ acks \subseteq Nat \X Nat
      /\ Unacked(sender) <= peer_next /\ peer_next <= sender.next_abs_seqno_
      /\ \A ack \in acks : ack[1] <= peer_next /\ ack[2] <= peer_edge
      /\ Fin + 1 \in Nat
  BY NumbersInRange DEF IInv, PInv
<1>2. Unacked(sender') \in Nat /\ sender'.next_abs_seqno_ \in 0..Fin + 1
  <2>1. SoundSender(sender', outbound')
    BY IInvKept DEF IInv
  <2>2. QED
    BY <2>1, NumbersInRange
<1>3. ASSUME Unacked(sender') = Unacked(sender),
             sender.next_abs_seqno_ <= sender'.next_abs_seqno_,
             UNCHANGED <<peer_next, peer_edge, acks>>
      PROVE  PInv'
  <2>1. peer_next <= sender'.next_abs_seqno_
    BY <1>1, <1>2, <1>3
  <2>2. QED
    BY <1>1, <1>3, <2>1 DEF PInv
<1>4. CASE \E n \in 1..SendCapacity : ApplicationWrites(n)
  BY <1>1, <1>3, <1>4 DEF ApplicationWrites
<1>5. CASE ApplicationCloses
  BY <1>1, <1>3, <1>5 DEF ApplicationCloses
<1>6. CASE Pushes
  BY <1>3, <1>6, PushStep DEF Pushes
<1>7. CASE SendsLost
  BY <1>1, <1>3, <1>7, SendStep DEF SendsLost
<1>8. CASE SendsDelivered
  <2> DEFINE message == MaybeSendMessage(sender)
             length  == SequenceLength(message)
  <2>1. /\ Unacked(sender') = Unacked(sender)
        /\ sender'.next_abs_seqno_ = sender.next_abs_seqno_
        /\ message \in SenderMessages
    BY <1>8, SendStep
  <2>2. PICK at \in Nat : Proper(message, at) /\ at + length <= sender.next_abs_seqno_
    BY <1>8, SendStep
  <2>3. /\ peer_next' \in Nat /\ peer_next <= peer_next' /\ peer_next' <= peer_edge
        /\ peer_edge' = peer_edge /\ acks' = acks \cup {<<peer_next', peer_edge>>}
        /\ peer_next' = peer_next \/ peer_next' <= EndOf(message)
    BY <1>8, DeliveredStep
  <2>4. length \in Nat
    BY <2>1, LengthInNat
  <2> HIDE DEF length
  <2>5. at \in 0..Fin + 1 /\ peer_next \in 0..Fin + 1
    BY <1>1, <2>2, <2>4
  <2>6. FirstOf(message) = at
    BY <2>2, <2>5, ReadRight DEF FirstOf, Proper
  <2>7. EndOf(message) <= sender.next_abs_seqno_
    BY <2>2, <2>6 DEF EndOf, length
  <2>8. EndOf(message) = at + length
    BY <2>6 DEF EndOf, length
  <2>9. peer_next' <= sender'.next_abs_seqno_ /\ Unacked(sender') <= peer_next'
    BY <1>1, <2>1, <2>2, <2>3, <2>4, <2>8
  <2>10. \A ack \in acks' : ack[1] <= peer_next' /\ ack[2] <= peer_edge'
    <3>1. ASSUME NEW ack \in acks PROVE ack[1] <= peer_next' /\ ack[2] <= peer_edge'
      <4>1. ack[1] \in Nat
        BY <1>1
      <4>2. QED
        BY <1>1, <2>3, <4>1
    <3>2. QED
      BY <1>1, <2>3, <3>1
  <2>11. QED
    BY <2>9, <2>10 DEF PInv
<1>9. CASE Ticks
  BY <1>1, <1>3, <1>9, TickStep DEF Ticks
<1>10. CASE \E ack \in acks : AckArrives(ack)
  <2>1. PICK ack \in acks : AckArrives(ack)
    BY <1>10
  <2>2. /\ sender'.next_abs_seqno_ = sender.next_abs_seqno_ /\ acks' \subseteq acks
        /\ peer_next' = peer_next /\ peer_edge' = peer_edge
    BY <2>1, AckStep
  <2>3. Unacked(sender') = Unacked(sender) \/ Unacked(sender') <= ack[1]
    BY <2>1, AckFrees
  <2>4. ack[1] \in Nat /\ ack[1] <= peer_next
    BY <1>1
  <2>5. Unacked(sender') <= peer_next
    BY <1>1, <1>2, <2>3, <2>4
  <2>6. QED
    BY <1>1, <2>2, <2>5 DEF PInv
<1>11. CASE \E n \in 1..PeerCapacity : PeerReads(n)
  <2>1. PICK n \in 1..PeerCapacity : PeerReads(n)
    BY <1>11
  <2>2. n \in Nat
    BY PeerCapacityAssumption, Word16Assumption
  <2>3. /\ peer_edge' \in Nat /\ peer_edge <= peer_edge'
        /\ UNCHANGED <<sender, outbound, peer_next, acks>>
    BY <1>1, <2>1, <2>2 DEF PeerReads
  <2>4. ASSUME NEW ack \in acks PROVE ack[2] <= peer_edge'
    <3>1. ack[2] \in Nat
      BY <1>1
    <3>2. QED
      BY <1>1, <2>3, <3>1
  <2>5. QED
    BY <1>1, <2>3, <2>4 DEF PInv
<1>12. CASE UNCHANGED vars
  BY <1>1, <1>3, <1>12 DEF vars
<1>13. QED
  BY <1>4, <1>5, <1>6, <1>7, <1>8, <1>9, <1>10, <1>11, <1>12 DEF Next

LEMMA PInvAlways == ShortStream => (Spec => [](IInv /\ PInv))
<1> SUFFICES ASSUME ShortStream PROVE Spec => [](IInv /\ PInv)
  OBVIOUS
<1>1. Init => IInv /\ PInv
  BY IInvHolds, PInvHolds
<1>2. (IInv /\ PInv) /\ [Next]_vars => (IInv /\ PInv)'
  BY IInvKept, PInvKept
<1>3. QED
  BY <1>1, <1>2, PTL DEF Spec

(* Every variable keeps its type, and what the peer received and           *)
(* acknowledged is never ahead of the stream: none of the unsigned         *)
(* subtractions of tcp_sender.cc:54, 165 goes below zero.                  *)
THEOREM TypeCorrect == ShortStream => (Spec => []TypeOK)
<1> SUFFICES ASSUME ShortStream PROVE Spec => []TypeOK
  OBVIOUS
<1>1. IInv /\ PInv => TypeOK
  <2> SUFFICES ASSUME IInv, PInv PROVE TypeOK
    OBVIOUS
  <2>1. /\ sender \in SenderStates /\ outbound \in StreamStates
        /\ SoundSender(sender, outbound)
    BY DEF IInv, SoundSender, InStream, Intact
  <2>2. /\ peer_next \in Nat /\ peer_edge \in Nat /\ peer_next <= sender.next_abs_seqno_
        /\ acks \subseteq Nat \X Nat /\ \A ack \in acks : ack[1] <= peer_next
        /\ sender.next_abs_seqno_ \in 0..Fin + 1 /\ Fin + 1 \in Nat
    BY <2>1, NumbersInRange DEF IInv, PInv
  <2>3. peer_next \in 0..Fin + 1
    BY <2>2
  <2>4. \A ack \in acks : ack \in (0..Fin + 1) \X Nat
    <3> SUFFICES ASSUME NEW ack \in acks PROVE ack \in (0..Fin + 1) \X Nat
      OBVIOUS
    <3>1. ack \in Nat \X Nat /\ ack[1] <= peer_next
      BY <2>2
    <3>2. ack[1] \in 0..Fin + 1
      BY <2>2, <2>3, <3>1
    <3>3. QED
      BY <3>1, <3>2
  <2>5. QED
    BY <2>1, <2>2, <2>3, <2>4 DEF TypeOK
<1>2. QED
  BY <1>1, PInvAlways, PTL

(* Whatever the peer may still need is kept for retransmission, at its own *)
(* place and read back there, in a stream that is short against the 32-bit *)
(* numbers (tcp_sender.cc:138-175).                                        *)
THEOREM UnackedIsKept == ShortStream => (Spec => []OutstandingCoversUnacked)
<1> SUFFICES ASSUME ShortStream PROVE Spec => []OutstandingCoversUnacked
  OBVIOUS
<1>1. IInv /\ PInv => OutstandingCoversUnacked
  <2> SUFFICES ASSUME IInv, PInv PROVE OutstandingCoversUnacked
    OBVIOUS
  <2> DEFINE n == Len(Outstanding)
             next == sender.next_abs_seqno_
  <2>1. /\ SoundSender(sender, outbound) /\ Outstanding \in Seq(SenderMessages)
        /\ n \in Nat /\ next \in Nat
    BY LenProperties DEF IInv, SoundSender, SenderStates, Outstanding
  <2>2. PICK at : Keeps(Outstanding, at, Unacked(sender), next)
    BY <2>1 DEF SoundSender, Kept, Outstanding
  <2>3. ASSUME NEW i \in 1..n
        PROVE  /\ FirstAbs(sender, Outstanding[i]) = StartOf(i)
               /\ Outstanding[i].SYN <=> StartOf(i) = 0
               /\ Outstanding[i].FIN <=> EndAbs(sender, Outstanding[i]) = Fin + 1
               /\ Contiguous(Outstanding[i].payload,
                             IF Outstanding[i].SYN THEN 0 ELSE StartOf(i) - 1)
    <3>1. /\ FirstAbs(sender, Outstanding[i]) = at[i]
          /\ EndAbs(sender, Outstanding[i]) = at[i + 1]
      BY <2>1, <2>2, OutstandingRead DEF Outstanding
    <3>2. Proper(Outstanding[i], at[i])
      BY <2>2 DEF Keeps
    <3>3. at[i + 1] = at[i] + SequenceLength(Outstanding[i])
      BY <2>2 DEF Keeps, Run
    <3>4. StartOf(i) = at[i]
      <4> DEFINE k    == i - 1
                 rest == SubSeq(Outstanding, k + 1, n)
                 to   == [j \in 1..n - k + 1 |-> at[j + k]]
      <4>1. k \in 0..n /\ k + 1 = i /\ i \in 1..n + 1
        BY <2>1
      <4>2. /\ rest \in Seq(SenderMessages) /\ Len(rest) = n - k
            /\ Keeps(rest, to, at[k + 1], next)
        <5> HIDE DEF k
        <5>1. QED
          BY <2>1, <2>2, <4>1, KeptCut
      <4> HIDE DEF k, rest, to
      <4>3. LengthOfAll(rest) = next - at[i]
        BY <4>1, <4>2, LengthsAddUp DEF Keeps
      <4>4. at[i] \in Nat
        BY <2>1, <2>2, <4>1, KeepsPlaces
      <4>5. StartOf(i) = next - LengthOfAll(rest)
        BY <4>1 DEF StartOf, rest
      <4>6. next - (next - at[i]) = at[i]
        BY <2>1, <4>4
      <4>7. QED
        BY <4>3, <4>5, <4>6
    <3>5. QED
      BY <3>1, <3>2, <3>3, <3>4 DEF Proper
  <2>4. next - sender.sequence_numbers_in_flight_ <= peer_next
    BY DEF PInv, Unacked
  <2>5. QED
    BY <2>3, <2>4 DEF OutstandingCoversUnacked
<1>2. QED
  BY <1>1, PInvAlways, PTL

-----------------------------------------------------------------------------
(* Acknowledgments in order: none is older than what is acknowledged, and  *)
(* the window the sender counts on is one the peer still has.              *)
WInv == /\ \A ack \in acks : Unacked(sender) <= ack[1]
        /\ ~sender.fin /\ sender.receiver_window_space_ > 0
             => sender.next_abs_seqno_ + sender.receiver_window_space_ <= peer_edge

LEMMA WInvHolds == Init => WInv
  BY DEF Init, NewSender, WInv

LEMMA WInvKept ==
  ASSUME ShortStream, ~AcksReordered, IInv, PInv, WInv, [Next]_vars
  PROVE  WInv'
<1>1. /\ SoundSender(sender, outbound) /\ SoundSender(sender', outbound')
      /\ acks \subseteq Nat \X Nat /\ peer_next \in Nat /\ peer_edge \in Nat
      /\ \A ack \in acks : ack[1] <= ack[2] /\ ack[2] <= peer_edge
      /\ Unacked(sender) <= peer_next
  BY IInvKept DEF IInv, PInv
<1>2. /\ Unacked(sender) \in Nat /\ Unacked(sender') \in Nat
      /\ sender.next_abs_seqno_ \in Nat /\ sender'.next_abs_seqno_ \in Nat
      /\ sender.receiver_window_space_ \in Nat /\ sender'.receiver_window_space_ \in Nat
  <2>1. Unacked(sender) \in Nat /\ Unacked(sender') \in Nat
    BY <1>1, NumbersInRange
  <2>2. sender \in SenderStates /\ sender' \in SenderStates
    BY <1>1 DEF SoundSender
  <2>3. QED
    BY <2>1, <2>2, Word16Assumption DEF SenderStates
<1>3. /\ \A ack \in acks : Unacked(sender) <= ack[1]
      /\ ~sender.fin /\ sender.receiver_window_space_ > 0
           => sender.next_abs_seqno_ + sender.receiver_window_space_ <= peer_edge
  BY DEF WInv
<1>4. ASSUME Unacked(sender') = Unacked(sender), acks' = acks, peer_edge' = peer_edge,
             sender'.next_abs_seqno_ = sender.next_abs_seqno_,
             sender'.receiver_window_space_ = sender.receiver_window_space_,
             sender'.fin = sender.fin
      PROVE  WInv'
  BY <1>3, <1>4 DEF WInv
<1>5. CASE \E n \in 1..SendCapacity : ApplicationWrites(n)
  BY <1>4, <1>5 DEF ApplicationWrites
<1>6. CASE ApplicationCloses
  BY <1>4, <1>6 DEF ApplicationCloses
<1>7. CASE Pushes
  <2>1. /\ Unacked(sender') = Unacked(sender) /\ Pushed(sender, sender')
        /\ acks' = acks /\ peer_edge' = peer_edge
    BY <1>7, PushStep DEF Pushes
  <2>2. ~sender'.fin /\ sender'.receiver_window_space_ > 0
          => sender'.next_abs_seqno_ + sender'.receiver_window_space_ <= peer_edge
    <3>1. SUFFICES ASSUME ~sender'.fin, sender'.receiver_window_space_ > 0
                   PROVE  sender'.next_abs_seqno_ + sender'.receiver_window_space_
                            <= peer_edge
      OBVIOUS
    <3>2. CASE sender' = sender
      BY <1>3, <3>1, <3>2
    <3>3. CASE ~sender.fin /\ WindowUsed(sender, sender')
      <4>1. sender'.next_abs_seqno_ + sender'.receiver_window_space_
              = sender.next_abs_seqno_ + sender.receiver_window_space_
            /\ sender'.next_abs_seqno_ >= sender.next_abs_seqno_
        BY <1>2, <3>1, <3>3 DEF WindowUsed
      <4>2. sender.receiver_window_space_ > 0
        BY <1>2, <3>1, <4>1
      <4>3. QED
        BY <1>3, <3>3, <4>1, <4>2
    <3>4. QED
      BY <1>2, <2>1, <3>1, <3>2, <3>3 DEF Pushed
  <2>3. QED
    BY <1>3, <2>1, <2>2 DEF WInv
<1>8. CASE SendsLost
  BY <1>4, <1>8, SendStep DEF SendsLost
<1>9. CASE SendsDelivered
  <2>1. /\ Unacked(sender') = Unacked(sender)
        /\ sender'.next_abs_seqno_ = sender.next_abs_seqno_
        /\ sender'.receiver_window_space_ = sender.receiver_window_space_
        /\ sender'.fin = sender.fin
    BY <1>9, SendStep
  <2>2. /\ peer_next' \in Nat /\ peer_next <= peer_next'
        /\ peer_edge' = peer_edge /\ acks' = acks \cup {<<peer_next', peer_edge>>}
    BY <1>9, DeliveredStep
  <2>3. Unacked(sender') <= peer_next'
    BY <1>1, <1>2, <2>1, <2>2
  <2>4. \A ack \in acks' : Unacked(sender') <= ack[1]
    BY <1>3, <2>1, <2>2, <2>3
  <2>5. QED
    BY <1>3, <2>1, <2>2, <2>4 DEF WInv
<1>10. CASE Ticks
  BY <1>4, <1>10, TickStep DEF Ticks
<1>11. CASE \E ack \in acks : AckArrives(ack)
  <2>1. PICK ack \in acks : AckArrives(ack)
    BY <1>11
  <2>2. /\ sender'.next_abs_seqno_ = sender.next_abs_seqno_ /\ sender'.fin = sender.fin
        /\ acks' \subseteq acks /\ peer_edge' = peer_edge
        /\ \A later \in acks' : later[1] >= ack[1]
    BY <2>1, AckStep
  <2>3. /\ Unacked(sender') = Unacked(sender) \/ Unacked(sender') <= ack[1]
        /\ \/ sender' = sender
           \/ sender'.receiver_window_space_ > 0
                => sender'.next_abs_seqno_ + sender'.receiver_window_space_
                     <= Unacked(sender') + (ack[2] - ack[1])
    BY <2>1, AckFrees
  <2>4. ack[1] \in Nat /\ ack[2] \in Nat /\ ack[1] <= ack[2] /\ ack[2] <= peer_edge
        /\ Unacked(sender) <= ack[1]
    BY <1>1, <1>3
  <2>5. Unacked(sender') <= ack[1]
    BY <2>3, <2>4
  <2>6. ASSUME NEW later \in acks'
        PROVE  Unacked(sender') <= later[1]
    <3>1. later[1] \in Nat /\ later[1] >= ack[1]
      BY <1>1, <2>2
    <3>2. QED
      BY <1>2, <2>4, <2>5, <3>1
  <2>7. ASSUME ~sender'.fin, sender'.receiver_window_space_ > 0
        PROVE  sender'.next_abs_seqno_ + sender'.receiver_window_space_ <= peer_edge'
    <3>1. CASE sender' = sender
      BY <1>3, <2>2, <2>7, <3>1
    <3>2. CASE sender'.next_abs_seqno_ + sender'.receiver_window_space_
                 <= Unacked(sender') + (ack[2] - ack[1])
      BY <1>1, <1>2, <2>2, <2>4, <2>5, <3>2
    <3>3. QED
      BY <2>3, <2>7, <3>1, <3>2
  <2>8. QED
    BY <2>6, <2>7 DEF WInv
<1>12. CASE \E n \in 1..PeerCapacity : PeerReads(n)
  <2>1. PICK n \in 1..PeerCapacity : PeerReads(n)
    BY <1>12
  <2>2. n \in Nat
    BY PeerCapacityAssumption, Word16Assumption
  <2>3. /\ peer_edge' \in Nat /\ peer_edge <= peer_edge'
        /\ UNCHANGED <<sender, outbound, peer_next, acks>>
    BY <1>1, <2>1, <2>2 DEF PeerReads
  <2>4. QED
    BY <1>1, <1>2, <1>3, <2>3 DEF WInv
<1>13. CASE UNCHANGED vars
  BY <1>4, <1>13 DEF vars
<1>14. QED
  BY <1>5, <1>6, <1>7, <1>8, <1>9, <1>10, <1>11, <1>12, <1>13 DEF Next

(* While acknowledgments arrive in the order they were sent, nothing is    *)
(* sent that the peer's window has no room for, but one number into a      *)
(* window announced as zero (tcp_sender.cc:82-121).                        *)
THEOREM WindowRespected == ShortStream /\ ~AcksReordered => (Spec => NeverOverruns)
<1> SUFFICES ASSUME ShortStream, ~AcksReordered PROVE Spec => NeverOverruns
  OBVIOUS
<1> DEFINE Sent == sender'.next_abs_seqno_ > sender.next_abs_seqno_ /\ sender.syn
       => \/ sender'.next_abs_seqno_ <= peer_edge
          \/ /\ sender.receiver_window_size_ = 0
             /\ sender'.next_abs_seqno_ = sender.next_abs_seqno_ + 1
           Inv == IInv /\ PInv /\ WInv
<1>1. Init => Inv
  BY IInvHolds, PInvHolds, WInvHolds
<1>2. Inv /\ [Next]_vars => Inv'
  BY IInvKept, PInvKept, WInvKept
<1>3. Inv /\ [Next]_vars => [Sent]_vars
  <2> SUFFICES ASSUME Inv, [Next]_vars,
                      sender'.next_abs_seqno_ > sender.next_abs_seqno_, sender.syn
               PROVE  \/ sender'.next_abs_seqno_ <= peer_edge
                      \/ /\ sender.receiver_window_size_ = 0
                         /\ sender'.next_abs_seqno_ = sender.next_abs_seqno_ + 1
    OBVIOUS
  <2>1. /\ SoundSender(sender, outbound) /\ SoundSender(sender', outbound') /\ peer_edge \in Nat
    BY IInvKept DEF IInv
  <2>2. /\ sender.next_abs_seqno_ \in Nat /\ sender'.next_abs_seqno_ \in Nat
        /\ sender.receiver_window_space_ \in Nat /\ sender'.receiver_window_space_ \in Nat
    BY <2>1, Word16Assumption DEF SoundSender, SenderStates
  <2>3. sender'.next_abs_seqno_ # sender.next_abs_seqno_
    BY <2>2
  <2>4. Pushes
    <3>1. ~(\E n \in 1..SendCapacity : ApplicationWrites(n))
      BY <2>3 DEF ApplicationWrites
    <3>2. ~ApplicationCloses
      BY <2>3 DEF ApplicationCloses
    <3>3. ~(SendsLost \/ SendsDelivered)
      BY <2>3, SendStep
    <3>4. ~Ticks
      BY <2>3, TickStep
    <3>5. ~(\E ack \in acks : AckArrives(ack))
      BY <2>3, AckStep
    <3>6. ~(\E n \in 1..PeerCapacity : PeerReads(n))
      BY <2>3 DEF PeerReads
    <3>7. ~UNCHANGED vars
      BY <2>3 DEF vars
    <3>8. QED
      BY <3>1, <3>2, <3>3, <3>4, <3>5, <3>6, <3>7 DEF Next
  <2>5. /\ ~sender.fin
        /\ \/ WindowUsed(sender, sender')
           \/ /\ sender'.next_abs_seqno_ = sender.next_abs_seqno_ + 1
              /\ sender.receiver_window_space_ > 0 \/ ZeroWindow(sender)
    BY <2>3, <2>4, PushStep DEF Pushed
  <2>6. sender.receiver_window_space_ > 0
          => sender.next_abs_seqno_ + sender.receiver_window_space_ <= peer_edge
    BY <2>5 DEF WInv
  <2>7. \/ ZeroWindow(sender) /\ sender'.next_abs_seqno_ = sender.next_abs_seqno_ + 1
        \/ /\ sender.receiver_window_space_ > 0
           /\ sender'.next_abs_seqno_ = sender.next_abs_seqno_ + 1
        \/ sender'.next_abs_seqno_ + sender'.receiver_window_space_
             = sender.next_abs_seqno_ + sender.receiver_window_space_
    BY <2>5 DEF WindowUsed
  <2>8. CASE ZeroWindow(sender) /\ sender'.next_abs_seqno_ = sender.next_abs_seqno_ + 1
    BY <2>8 DEF ZeroWindow
  <2>9. CASE /\ sender.receiver_window_space_ > 0
             /\ sender'.next_abs_seqno_ = sender.next_abs_seqno_ + 1
    BY <2>1, <2>2, <2>6, <2>9
  <2>10. CASE sender'.next_abs_seqno_ + sender'.receiver_window_space_
                = sender.next_abs_seqno_ + sender.receiver_window_space_
    <3>1. sender.receiver_window_space_ > 0
      BY <2>2, <2>10
    <3>2. QED
      BY <2>1, <2>2, <2>6, <2>10, <3>1
  <2>11. QED
    BY <2>7, <2>8, <2>9, <2>10
<1>4. QED
  BY <1>1, <1>2, <1>3, PTL DEF Spec, NeverOverruns

=============================================================================

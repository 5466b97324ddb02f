--------------------------- MODULE OperatorLemmas ---------------------------
(***************************************************************************)
(* What the operators of Wrap32, of the methods of ByteStream and of the   *)
(* steps of Reassembler::insert return and preserve, for every width of    *)
(* the sequence numbers, every capacity, every string and every substring  *)
(* that starts within the window.  The proofs of the modules that use them *)
(* cite these lemmas and never expand the operators.                       *)
(***************************************************************************)
EXTENDS Reassembler, WrappingIntegers, SequenceTheorems, FiniteSetTheorems, TLAPS

(* A set of natural numbers that is not empty has a smallest element: the  *)
(* smallest of the intervals below its elements is the one below it.       *)
LEMMA LeastNumber ==
  ASSUME NEW T \in SUBSET Nat, T # {}
  PROVE  \E m \in T : \A k \in T : m <= k
<1> DEFINE X == {0..k - 1 : k \in T}
<1>1. X \subseteq FiniteSubsetsOf(Nat)
  <2>1. ASSUME NEW k \in T
        PROVE  0..k - 1 \in FiniteSubsetsOf(Nat)
    <3>1. k \in Nat /\ k - 1 \in Int
      OBVIOUS
    <3>2. IsFiniteSet(0..k - 1)
      BY <3>1, FS_Interval
    <3>3. QED
      BY <3>1, <3>2 DEF FiniteSubsetsOf
  <2>2. QED
    BY <2>1
<1>2. X # {}
  OBVIOUS
<1>3. IsWellFoundedOn(StrictSubsetOrdering(Nat), FiniteSubsetsOf(Nat))
  BY FS_StrictSubsetOrderingWellFounded
<1>4. PICK x \in X : \A y \in X : ~(<<y, x>> \in StrictSubsetOrdering(Nat))
  <2> HIDE DEF X
  <2>1. QED
    BY <1>1, <1>2, <1>3, WFMin
<1>5. PICK m \in T : x = 0..m - 1
  OBVIOUS
<1>6. ASSUME NEW k \in T, k < m
      PROVE  FALSE
  <2>1. k \in Nat /\ m \in Nat
    OBVIOUS
  <2>2. 0..k - 1 \subseteq 0..m - 1 /\ k \in 0..m - 1 /\ k \notin 0..k - 1
    BY <1>6, <2>1
  <2>3. <<0..k - 1, 0..m - 1>> \in StrictSubsetOrdering(Nat)
    BY <2>1, <2>2 DEF StrictSubsetOrdering
  <2>4. QED
    BY <1>4, <1>5, <2>3
<1>7. QED
  BY <1>6

(* A value is transformed again and again: there is a function that holds  *)
(* the value after each number of times.  The loops of the model, written  *)
(* as recursive functions, are such functions.                             *)
Iterates(f, S, step, x) == /\ f \in [Nat -> S]
                           /\ f[0] = x
                           /\ \A k \in Nat : f[k + 1] = step[f[k]]

LEMMA Iterated ==
  ASSUME NEW S, NEW step \in [S -> S], NEW x \in S
  PROVE  \E f : Iterates(f, S, step, x)
<1> DEFINE Upto(n, g) == /\ g \in [0..n -> S]
                         /\ g[0] = x
                         /\ \A k \in 0..n - 1 : g[k + 1] = step[g[k]]
<1>1. ASSUME NEW n \in Nat
      PROVE  \E g : Upto(n, g)
  <2> DEFINE T == {k \in Nat : ~\E g : Upto(k, g)}
  <2>1. CASE T = {}
    BY <2>1
  <2>2. CASE T # {}
    <3>1. PICK m \in T : \A k \in T : m <= k
      <4>1. T \in SUBSET Nat
        OBVIOUS
      <4> HIDE DEF T
      <4>2. QED
        BY <2>2, <4>1, LeastNumber
    <3>2. m \in Nat /\ ~\E g : Upto(m, g)
      OBVIOUS
    <3>3. m # 0
      <4> DEFINE g == [k \in 0..0 |-> x]
      <4>1. Upto(0, g)
        OBVIOUS
      <4>2. QED
        BY <3>2, <4>1
    <3>4. m - 1 \in Nat /\ m - 1 \notin T
      BY <3>1, <3>2, <3>3
    <3>5. PICK g : Upto(m - 1, g)
      BY <3>4
    <3> DEFINE h == [k \in 0..m |-> IF k = m THEN step[g[m - 1]] ELSE g[k]]
    <3>6. Upto(m, h)
      <4>1. g \in [0..m - 1 -> S] /\ m - 1 \in 0..m - 1 /\ g[0] = x
        BY <3>4, <3>5
      <4>2. \A k \in 0..m : k = m \/ k \in 0..m - 1
        BY <3>2
      <4>3. h \in [0..m -> S]
        BY <4>1, <4>2
      <4>4. h[0] = x
        BY <3>2, <3>3, <4>1
      <4>5. ASSUME NEW k \in 0..m - 1
            PROVE  h[k + 1] = step[h[k]]
        <5>1. k \in 0..m /\ k + 1 \in 0..m /\ h[k] = g[k]
          BY <3>2
        <5>2. CASE k = m - 1
          BY <3>2, <5>1, <5>2
        <5>3. CASE k # m - 1
          <6>1. k \in 0..(m - 1) - 1 /\ k + 1 # m
            BY <3>2, <5>3
          <6>2. g[k + 1] = step[g[k]]
            BY <3>5, <6>1
          <6>3. QED
            BY <5>1, <6>1, <6>2
        <5>4. QED
          BY <5>2, <5>3
      <4>6. QED
        BY <4>3, <4>4, <4>5
    <3>7. QED
      BY <3>2, <3>6
  <2>3. QED
    BY <2>1, <2>2
<1>2. ASSUME NEW n \in Nat, NEW m \in Nat, NEW g, NEW h, Upto(n, g), Upto(m, h),
             NEW i \in 0..n, i \in 0..m
      PROVE  g[i] = h[i]
  <2> DEFINE T == {k \in Nat : k <= n /\ k <= m /\ g[k] # h[k]}
  <2>1. CASE T = {}
    BY <1>2, <2>1
  <2>2. CASE T # {}
    <3>1. PICK k \in T : \A j \in T : k <= j
      <4>1. T \in SUBSET Nat
        OBVIOUS
      <4> HIDE DEF T
      <4>2. QED
        BY <2>2, <4>1, LeastNumber
    <3>2. k \in Nat /\ k <= n /\ k <= m /\ g[k] # h[k]
      OBVIOUS
    <3>3. k # 0
      BY <1>2, <3>2
    <3>4. k - 1 \in 0..n - 1 /\ k - 1 \in 0..m - 1 /\ k - 1 \notin T
      BY <3>1, <3>2, <3>3
    <3>5. g[k - 1] = h[k - 1]
      BY <3>4
    <3>6. g[(k - 1) + 1] = step[g[k - 1]] /\ h[(k - 1) + 1] = step[h[k - 1]]
      BY <1>2, <3>4
    <3>7. (k - 1) + 1 = k
      BY <3>2
    <3>8. QED
      BY <3>2, <3>5, <3>6, <3>7
  <2>3. QED
    BY <2>1, <2>2
<1> DEFINE F(n) == CHOOSE g : Upto(n, g)
           f    == [n \in Nat |-> F(n)[n]]
<1>3. \A n \in Nat : Upto(n, F(n))
  BY <1>1
<1> HIDE DEF F
<1>4. \A n \in Nat : F(n)[n] \in S
  BY <1>3
<1>5. F(0)[0] = x
  BY <1>3
<1>6. ASSUME NEW k \in Nat
      PROVE  F(k + 1)[k + 1] = step[F(k)[k]]
  <2>1. k + 1 \in Nat /\ k \in 0..k /\ k \in 0..k + 1 /\ k \in 0..(k + 1) - 1
    OBVIOUS
  <2>2. Upto(k, F(k)) /\ Upto(k + 1, F(k + 1))
    BY <1>3, <2>1
  <2>3. F(k + 1)[k + 1] = step[F(k + 1)[k]]
    BY <2>1, <2>2
  <2> HIDE DEF Upto
  <2>4. F(k)[k] = F(k + 1)[k]
    BY <1>2, <2>1, <2>2
  <2>5. QED
    BY <2>3, <2>4
<1> HIDE DEF Upto
<1>7. f \in [Nat -> S] /\ f[0] = x /\ \A k \in Nat : f[k + 1] = step[f[k]]
  BY <1>4, <1>5, <1>6
<1>8. QED
  BY <1>7 DEF Iterates

-----------------------------------------------------------------------------
(* BytesFrom builds the run of bytes it is named for. *)
LEMMA BytesFromProperties ==
  ASSUME NEW first \in Nat, NEW n \in Nat
  PROVE  /\ BytesFrom(first, n) \in Seq(Byte)
         /\ Len(BytesFrom(first, n)) = n
         /\ Contiguous(BytesFrom(first, n), first)
<1>1. BytesFrom(first, n) \in [1..n -> Nat]
  BY DEF BytesFrom
<1>2. BytesFrom(first, n) \in Seq(Nat)
  BY <1>1, SeqDef
<1>3. Len(BytesFrom(first, n)) = n
  BY <1>1, <1>2, LenProperties
<1>4. QED
  BY <1>2, <1>3 DEF BytesFrom, Contiguous, Byte

(* Two runs that meet form one run. *)
LEMMA ConcatContiguous ==
  ASSUME NEW s1 \in Seq(Byte), NEW s2 \in Seq(Byte), NEW first \in Nat,
         Contiguous(s1, first), Contiguous(s2, first + Len(s1))
  PROVE  /\ s1 \o s2 \in Seq(Byte)
         /\ Len(s1 \o s2) = Len(s1) + Len(s2)
         /\ Contiguous(s1 \o s2, first)
<1>1. /\ s1 \o s2 \in Seq(Byte)
      /\ Len(s1 \o s2) = Len(s1) + Len(s2)
      /\ \A i \in 1 .. Len(s1) + Len(s2) :
            (s1 \o s2)[i] = IF i <= Len(s1) THEN s1[i] ELSE s2[i - Len(s1)]
  BY ConcatProperties
<1>2. Len(s1) \in Nat /\ Len(s2) \in Nat
  BY LenProperties
<1>3. QED
  BY <1>1, <1>2 DEF Contiguous

(* The first n bytes of a run, and what remains of it without them. *)
LEMMA SplitContiguous ==
  ASSUME NEW seq \in Seq(Byte), NEW first \in Nat, Contiguous(seq, first),
         NEW n \in 0..Len(seq)
  PROVE  /\ SubSeq(seq, 1, n) \in Seq(Byte)
         /\ Len(SubSeq(seq, 1, n)) = n
         /\ Contiguous(SubSeq(seq, 1, n), first)
         /\ SubSeq(seq, n + 1, Len(seq)) \in Seq(Byte)
         /\ Len(SubSeq(seq, n + 1, Len(seq))) = Len(seq) - n
         /\ Contiguous(SubSeq(seq, n + 1, Len(seq)), first + n)
<1>1. Len(seq) \in Nat
  BY LenProperties
<1>2. \A i \in 1..Len(seq) : seq[i] \in Byte
  BY <1>1, ElementOfSeq
<1>3. /\ SubSeq(seq, 1, n) \in Seq(Byte)
      /\ Len(SubSeq(seq, 1, n)) = IF 1 <= n THEN n - 1 + 1 ELSE 0
      /\ \A i \in 1 .. n - 1 + 1 : SubSeq(seq, 1, n)[i] = seq[1 + i - 1]
  BY <1>1, <1>2, SubSeqProperties
<1>4. /\ SubSeq(seq, n + 1, Len(seq)) \in Seq(Byte)
      /\ Len(SubSeq(seq, n + 1, Len(seq)))
            = IF n + 1 <= Len(seq) THEN Len(seq) - (n + 1) + 1 ELSE 0
      /\ \A i \in 1 .. Len(seq) - (n + 1) + 1 :
            SubSeq(seq, n + 1, Len(seq))[i] = seq[n + 1 + i - 1]
  BY <1>1, <1>2, SubSeqProperties
<1>5. QED
  BY <1>1, <1>3, <1>4 DEF Contiguous

(* A new stream is intact. *)
LEMMA NewIntact ==
  ASSUME NEW capacity \in Nat
  PROVE  Intact(NewByteStream(capacity))
BY DEF Intact, NewByteStream, StreamStates, Contiguous

(* Writer::push of the bytes that come next keeps the stream intact; it    *)
(* accepts as many as fit and changes nothing else.                        *)
LEMMA PushIntact ==
  ASSUME NEW s, Intact(s), NEW data \in Seq(Byte),
         Contiguous(data, s.bytes_write)
  PROVE  /\ Intact(Push(s, data))
         /\ Push(s, data).bytes_write
              = s.bytes_write + Lesser(Len(data), AvailableCapacity(s))
         /\ Push(s, data).bytes_read = s.bytes_read
         /\ Push(s, data).capacity_ = s.capacity_
         /\ Push(s, data).close_ = s.close_
         /\ Push(s, data).error_ = s.error_
<1> DEFINE n == Lesser(Len(data), AvailableCapacity(s))
           taken == SubSeq(data, 1, n)
           bytes == s.stream \o taken
           written == s.bytes_write + n
<1>1. /\ s.stream \in Seq(Byte) /\ s.bytes_read \in Nat /\ s.bytes_write \in Nat
      /\ s.capacity_ \in Nat /\ s \in StreamStates
      /\ s.bytes_write = s.bytes_read + Len(s.stream)
      /\ Len(s.stream) <= s.capacity_
  BY DEF Intact, StreamStates
<1>2. Len(s.stream) \in Nat /\ Len(data) \in Nat
  BY <1>1, LenProperties
<1>3. n \in 0..Len(data) /\ n <= s.capacity_ - Len(s.stream)
  BY <1>1, <1>2 DEF Intact, Lesser, AvailableCapacity
<1>4. Push(s, data) = [s EXCEPT !.stream = bytes, !.bytes_write = written]
  BY DEF Push
<1> HIDE DEF n
<1>5. /\ taken \in Seq(Byte) /\ Len(taken) = n
      /\ Contiguous(taken, s.bytes_write)
  BY <1>1, <1>2, <1>3, SplitContiguous
<1> HIDE DEF taken
<1>6. /\ bytes \in Seq(Byte) /\ Len(bytes) = Len(s.stream) + n
      /\ Contiguous(bytes, s.bytes_read)
  BY <1>1, <1>5, ConcatContiguous DEF Intact
<1> HIDE DEF bytes
<1>7. /\ written \in Nat /\ written = s.bytes_read + Len(bytes)
      /\ Len(bytes) <= s.capacity_
  BY <1>1, <1>2, <1>3, <1>6 DEF StreamStates
<1>8. written = s.bytes_write + n
  OBVIOUS
<1> HIDE DEF written
<1>9. Push(s, data) \in StreamStates
  BY <1>1, <1>4, <1>6, <1>7, Zenon DEF StreamStates
<1>10. /\ Push(s, data).stream = bytes
       /\ Push(s, data).bytes_write = written
       /\ Push(s, data).bytes_read = s.bytes_read
       /\ Push(s, data).capacity_ = s.capacity_
       /\ Push(s, data).close_ = s.close_
       /\ Push(s, data).error_ = s.error_
  BY <1>1, <1>4 DEF StreamStates
<1>11. Intact(Push(s, data))
  BY <1>6, <1>7, <1>9, <1>10, Zenon DEF Intact
<1>12. QED
  BY <1>8, <1>10, <1>11, Zenon DEF n

(* Reader::pop of no more than is buffered keeps the stream intact; of     *)
(* more, it only marks the stream with an error.                           *)
LEMMA PopIntact ==
  ASSUME NEW s, Intact(s), NEW len \in Nat
  PROVE  /\ Intact(Pop(s, len))
         /\ Pop(s, len).bytes_write = s.bytes_write
         /\ Pop(s, len).bytes_read
              = IF len > Len(s.stream) THEN s.bytes_read ELSE s.bytes_read + len
         /\ Pop(s, len).capacity_ = s.capacity_
         /\ Pop(s, len).close_ = s.close_
<1> DEFINE rest == SubSeq(s.stream, len + 1, Len(s.stream))
           read == s.bytes_read + len
<1>1. /\ s.stream \in Seq(Byte) /\ s.bytes_read \in Nat /\ s.bytes_write \in Nat
      /\ s.capacity_ \in Nat /\ s \in StreamStates
      /\ s.bytes_write = s.bytes_read + Len(s.stream)
      /\ Len(s.stream) <= s.capacity_
  BY DEF Intact, StreamStates
<1>2. Len(s.stream) \in Nat
  BY <1>1, LenProperties
<1>3. CASE len > Len(s.stream)
  <2>1. Pop(s, len) = [s EXCEPT !.error_ = TRUE]
    BY <1>3 DEF Pop
  <2>2. Pop(s, len) \in StreamStates
    BY <1>1, <2>1, Zenon DEF StreamStates
  <2>3. /\ Pop(s, len).stream = s.stream
        /\ Pop(s, len).bytes_write = s.bytes_write
        /\ Pop(s, len).bytes_read = s.bytes_read
        /\ Pop(s, len).capacity_ = s.capacity_
        /\ Pop(s, len).close_ = s.close_
    BY <1>1, <2>1 DEF StreamStates
  <2>4. Intact(Pop(s, len))
    BY <2>2, <2>3, Zenon DEF Intact
  <2>5. QED
    BY <1>3, <2>3, <2>4, Zenon
<1>4. CASE ~(len > Len(s.stream))
  <2>1. /\ rest \in Seq(Byte) /\ Len(rest) = Len(s.stream) - len
        /\ Contiguous(rest, read)
    BY <1>1, <1>2, <1>4, SplitContiguous, SMTT(60) DEF Intact
  <2>2. Pop(s, len) = [s EXCEPT !.stream = rest, !.bytes_read = read]
    BY <1>4 DEF Pop
  <2> HIDE DEF rest
  <2>3. /\ read \in Nat /\ s.bytes_write = read + Len(rest)
        /\ Len(rest) <= s.capacity_
    BY <1>1, <1>2, <1>4, <2>1 DEF StreamStates
  <2>4. read = s.bytes_read + len
    OBVIOUS
  <2> HIDE DEF read
  <2>5. Pop(s, len) \in StreamStates
    BY <1>1, <2>1, <2>2, <2>3, Zenon DEF StreamStates
  <2>6. /\ Pop(s, len).stream = rest
        /\ Pop(s, len).bytes_read = read
        /\ Pop(s, len).bytes_write = s.bytes_write
        /\ Pop(s, len).capacity_ = s.capacity_
        /\ Pop(s, len).close_ = s.close_
    BY <1>1, <2>2 DEF StreamStates
  <2>7. Intact(Pop(s, len))
    BY <2>1, <2>3, <2>5, <2>6, Zenon DEF Intact
  <2>8. QED
    BY <1>4, <2>4, <2>6, <2>7, Zenon
<1>5. QED
  BY <1>3, <1>4

(* read() takes from the stream exactly the bytes it returns, the next     *)
(* ones, and never runs into the error of an oversized pop.                *)
LEMMA ReadIntact ==
  ASSUME NEW s, Intact(s), NEW len \in Nat
  PROVE  /\ Intact(Read(s, len))
         /\ ReadOut(s, len) \in Seq(Byte)
         /\ Contiguous(ReadOut(s, len), s.bytes_read)
         /\ Len(ReadOut(s, len)) = Lesser(len, BytesBuffered(s))
         /\ Len(ReadOut(s, len)) \in 0..Len(s.stream)
         /\ Read(s, len).bytes_read = s.bytes_read + Len(ReadOut(s, len))
         /\ Read(s, len).bytes_write = s.bytes_write
         /\ Read(s, len).capacity_ = s.capacity_
         /\ Read(s, len).close_ = s.close_
<1> DEFINE n == Lesser(len, BytesBuffered(s))
<1>1. /\ s.stream \in Seq(Byte) /\ s.bytes_read \in Nat
      /\ s \in StreamStates /\ Contiguous(s.stream, s.bytes_read)
  BY DEF Intact, StreamStates
<1>2. Len(s.stream) \in Nat
  BY <1>1, LenProperties
<1>3. n \in 0..Len(s.stream)
  BY <1>1, <1>2 DEF Intact, StreamStates, Lesser, BytesBuffered
<1>4. ReadOut(s, len) = SubSeq(s.stream, 1, n) /\ Read(s, len) = Pop(s, n)
  BY DEF ReadOut, Read
<1> HIDE DEF n
<1>5. /\ SubSeq(s.stream, 1, n) \in Seq(Byte)
      /\ Len(SubSeq(s.stream, 1, n)) = n
      /\ Contiguous(SubSeq(s.stream, 1, n), s.bytes_read)
  BY <1>1, <1>3, SplitContiguous
<1>6. n \in Nat /\ ~(n > Len(s.stream))
  BY <1>2, <1>3
<1>7. /\ Intact(Pop(s, n)) /\ Pop(s, n).bytes_read = s.bytes_read + n
      /\ Pop(s, n).bytes_write = s.bytes_write
      /\ Pop(s, n).capacity_ = s.capacity_ /\ Pop(s, n).close_ = s.close_
  BY <1>6, PopIntact
<1>8. QED
  BY <1>3, <1>4, <1>5, <1>7, Zenon DEF n

(* Writer::close touches only its flag. *)
LEMMA CloseIntact ==
  ASSUME NEW s, Intact(s)
  PROVE  /\ Intact(Close(s))
         /\ Close(s).bytes_write = s.bytes_write
         /\ Close(s).bytes_read = s.bytes_read
         /\ Close(s).capacity_ = s.capacity_
         /\ Close(s).stream = s.stream
         /\ Close(s).close_
<1>1. s \in StreamStates
  BY DEF Intact
<1>2. Close(s) \in StreamStates
  BY <1>1, Zenon DEF Close, StreamStates
<1>3. /\ Close(s).bytes_write = s.bytes_write
      /\ Close(s).bytes_read = s.bytes_read
      /\ Close(s).capacity_ = s.capacity_
      /\ Close(s).stream = s.stream
      /\ Close(s).close_
  BY <1>1 DEF Close, StreamStates
<1>4. QED
  BY <1>2, <1>3, Zenon DEF Intact

LEMMA SetErrorIntact ==
  ASSUME NEW s, Intact(s)
  PROVE  /\ Intact(SetError(s))
         /\ SetError(s).bytes_read = s.bytes_read
         /\ SetError(s).bytes_write = s.bytes_write
         /\ SetError(s).capacity_ = s.capacity_
         /\ SetError(s).close_ = s.close_
<1>1. s \in StreamStates
  BY DEF Intact
<1>2. SetError(s) \in StreamStates
  BY <1>1, Zenon DEF SetError, StreamStates
<1>3. /\ SetError(s).bytes_write = s.bytes_write
      /\ SetError(s).bytes_read = s.bytes_read
      /\ SetError(s).capacity_ = s.capacity_
      /\ SetError(s).close_ = s.close_
      /\ SetError(s).stream = s.stream
  BY <1>1 DEF SetError, StreamStates
<1>4. QED
  BY <1>2, <1>3, Zenon DEF Intact

-----------------------------------------------------------------------------
\* The offsets at which a byte waits.
PendingOf(r) == {o \in 0..r.size - 1 : r.buffer[o] # Empty}

\* Every byte waits at the offset of its own index, and they are counted.
Holds(r, size) ==
  /\ size \in Nat
  /\ r \in ReassemblerStates(size)
  /\ \A o \in PendingOf(r) : r.buffer[o] = r.base_index + o
  /\ r.unassembled_size = Cardinality(PendingOf(r))

-----------------------------------------------------------------------------
(* The subset of an interval of offsets is finite. *)
LEMMA OffsetsFinite ==
  ASSUME NEW size \in Nat, NEW T \in SUBSET (0..size - 1)
  PROVE  IsFiniteSet(T) /\ Cardinality(T) \in Nat
<1>1. IsFiniteSet(0..size - 1)
  BY FS_Interval
<1>2. QED
  BY <1>1, FS_Subset, FS_CardinalityType

LEMMA PendingFinite ==
  ASSUME NEW r, NEW size \in Nat, r \in ReassemblerStates(size)
  PROVE  /\ PendingOf(r) \subseteq 0..size - 1
         /\ IsFiniteSet(PendingOf(r)) /\ Cardinality(PendingOf(r)) \in Nat
<1>1. PendingOf(r) \subseteq 0..size - 1
  BY DEF PendingOf, ReassemblerStates
<1>2. QED
  BY <1>1, OffsetsFinite

-----------------------------------------------------------------------------
(* A new Reassembler, and one that got its vectors. *)
LEMMA NewHolds == Holds(NewReassembler, 0) /\ PendingOf(NewReassembler) = {}
<1> DEFINE r == NewReassembler
<1>1. /\ r.base_index = 0 /\ r.unassembled_size = 0 /\ r.size = 0
      /\ r \in ReassemblerStates(0)
  BY DEF NewReassembler, ReassemblerStates
<1>2. PendingOf(r) = {}
  BY <1>1 DEF PendingOf
<1> HIDE DEF r
<1>3. Holds(r, 0)
  BY <1>1, <1>2, FS_EmptySet DEF Holds
<1>4. QED
  BY <1>2, <1>3 DEF r

LEMMA InitializedHolds ==
  ASSUME NEW r, NEW output, AvailableCapacity(output) \in Nat,
         NEW size, Holds(r, size), r.initialized => size = AvailableCapacity(output),
         ~r.initialized => r = NewReassembler
  PROVE  /\ Holds(Initialized(r, output), AvailableCapacity(output))
         /\ PendingOf(Initialized(r, output)) = PendingOf(r)
         /\ Initialized(r, output).base_index = r.base_index
         /\ Initialized(r, output).eof = r.eof
         /\ Initialized(r, output).initialized
<1> DEFINE avail == AvailableCapacity(output)
<1>1. CASE r.initialized
  BY <1>1 DEF Initialized
<1>2. CASE ~r.initialized
  <2> DEFINE buffer == [o \in 0..avail - 1 |-> Empty]
             q == Initialized(r, output)
  <2>1. r = [base_index |-> 0, unassembled_size |-> 0, size |-> 0,
             buffer |-> [o \in 0..-1 |-> Empty], eof |-> FALSE, initialized |-> FALSE]
    BY <1>2 DEF NewReassembler
  <2>2. q = [r EXCEPT !.size = avail, !.buffer = buffer, !.initialized = TRUE]
    BY <1>2 DEF Initialized
  <2>3. buffer \in [0..avail - 1 -> Byte \cup {Empty}]
    OBVIOUS
  <2>4. \A o \in 0..avail - 1 : buffer[o] = Empty
    OBVIOUS
  <2> HIDE DEF buffer, q, avail
  <2>5. q = [base_index |-> 0, unassembled_size |-> 0, size |-> avail,
             buffer |-> buffer, eof |-> FALSE, initialized |-> TRUE]
    BY <2>1, <2>2
  <2>6. q \in ReassemblerStates(avail)
    BY <2>3, <2>5 DEF ReassemblerStates
  <2>7. PendingOf(q) = {}
    BY <2>4, <2>5 DEF PendingOf
  <2>8. Holds(q, avail)
    BY <2>5, <2>6, <2>7, FS_EmptySet DEF Holds, avail
  <2>9. PendingOf(r) = {}
    BY <1>2, NewHolds
  <2>10. q.base_index = r.base_index /\ q.eof = r.eof /\ q.initialized
    BY <2>1, <2>5
  <2>11. PendingOf(q) = PendingOf(r)
    BY <2>7, <2>9
  <2>12. QED
    BY <2>8, <2>10, <2>11, Zenon DEF q, avail
<1>3. QED
  BY <1>1, <1>2

-----------------------------------------------------------------------------
(* Of a substring that starts no further than the window's end, the store  *)
(* loops take the bytes inside the window and write nothing outside of the *)
(* vectors (reassembler.cc:20-43).                                         *)
LEMMA OffsetsFound ==
  ASSUME NEW r, NEW size \in Nat, r \in ReassemblerStates(size), NEW output,
         AvailableCapacity(output) \in 0..size,
         NEW first \in Nat, NEW n \in Nat,
         first <= r.base_index + AvailableCapacity(output)
  PROVE  Offsets(r, first, n, output)
         = {o \in 0..AvailableCapacity(output) - 1 :
              r.base_index + o \in first..first + n - 1}
<1> DEFINE avail == AvailableCapacity(output)
           base == r.base_index
<1>1. base \in Nat /\ r.size = size /\ avail \in Nat /\ avail <= size
  BY DEF ReassemblerStates
<1> DEFINE len == WindowLength(r, first, n, output)
<1>2. CASE first > base
  <2>1. len = Lesser(base + avail, first + n) - first
    BY <1>1, <1>2 DEF WindowLength, Difference64, Lesser, Greater
  <2>2. Offsets(r, first, n, output) = first - base..first - base + Lesser(len, n) - 1
    BY <1>2 DEF Offsets
  <2> HIDE DEF len, base, avail
  <2>3. len = IF base + avail <= first + n THEN base + avail - first ELSE n
    BY <1>1, <1>2, <2>1 DEF Lesser
  <2>4. /\ len \in Nat /\ len <= n /\ first + len <= base + avail
        /\ len = n \/ first + len = base + avail
    BY <1>1, <2>3 DEF base, avail
  <2>5. first - base..first - base + len - 1
          = {o \in 0..avail - 1 : base + o \in first..first + n - 1}
    BY <1>1, <1>2, <2>4
  <2>6. QED
    BY <2>2, <2>4, <2>5 DEF Lesser, base, avail
<1>3. CASE ~(first > base) /\ first + n > base
  <2>1. len = Lesser(base + avail, first + n) - base
    BY <1>1, <1>3 DEF WindowLength, Difference64, Lesser, Greater
  <2>2. Offsets(r, first, n, output) = 0..Lesser(len, size) - 1
    BY <1>1, <1>3 DEF Offsets
  <2> HIDE DEF len, base, avail
  <2>3. len = IF base + avail <= first + n THEN avail ELSE first + n - base
    BY <1>1, <1>3, <2>1 DEF Lesser
  <2>4. /\ len \in Nat /\ len <= avail /\ base + len <= first + n
        /\ len = avail \/ base + len = first + n
    BY <1>1, <1>3, <2>3
  <2>5. 0..len - 1 = {o \in 0..avail - 1 : base + o \in first..first + n - 1}
    BY <1>1, <1>3, <2>4
  <2>6. Lesser(len, size) = len
    BY <1>1, <2>4 DEF Lesser
  <2>7. QED
    BY <2>2, <2>5, <2>6 DEF base, avail
<1>4. CASE ~(first > base) /\ ~(first + n > base)
  <2>1. Offsets(r, first, n, output) = {}
    BY <1>4 DEF Offsets
  <2>2. QED
    BY <1>1, <1>4, <2>1
<1>5. QED
  BY <1>2, <1>3, <1>4

-----------------------------------------------------------------------------
(* The store loops put each byte where it belongs and count it if it was   *)
(* not there (reassembler.cc:24-43).                                       *)
LEMMA StoredHolds ==
  ASSUME NEW r, NEW size, Holds(r, size), NEW first \in Nat, NEW data,
         NEW at \in SUBSET (0..size - 1),
         \A o \in at : data[o + r.base_index - first + 1] = r.base_index + o
  PROVE  /\ Holds(Stored(r, first, data, at), size)
         /\ PendingOf(Stored(r, first, data, at)) = PendingOf(r) \cup at
         /\ Stored(r, first, data, at).base_index = r.base_index
         /\ Stored(r, first, data, at).eof = r.eof
         /\ Stored(r, first, data, at).initialized = r.initialized
<1> DEFINE fresh  == {o \in at \cap (0..r.size - 1) : r.buffer[o] = Empty}
           buffer == [o \in 0..r.size - 1 |-> IF o \in fresh
                                              THEN data[o + r.base_index - first + 1]
                                              ELSE r.buffer[o]]
           count  == r.unassembled_size + Cardinality(fresh)
           q      == Stored(r, first, data, at)
<1>1. /\ size \in Nat /\ r.size = size /\ r.base_index \in Nat
      /\ r.buffer \in [0..size - 1 -> Byte \cup {Empty}]
      /\ r \in ReassemblerStates(size)
      /\ r.unassembled_size = Cardinality(PendingOf(r))
  BY DEF Holds, ReassemblerStates
<1>2. q = [r EXCEPT !.buffer = buffer, !.unassembled_size = count]
  BY DEF Stored
<1>3. fresh = at \ PendingOf(r)
  BY <1>1 DEF PendingOf
<1>4. \A o \in at : r.base_index + o \in Byte /\ r.base_index + o # Empty
  BY <1>1, EmptyAssumption DEF Byte
<1>5. buffer \in [0..size - 1 -> Byte \cup {Empty}]
  BY <1>1, <1>4
<1>6. \A o \in 0..size - 1 : buffer[o] = IF o \in fresh THEN r.base_index + o
                                                       ELSE r.buffer[o]
  BY <1>1
<1>7. count = r.unassembled_size + Cardinality(fresh)
  OBVIOUS
<1> HIDE DEF fresh, buffer, count, q
<1>8. /\ IsFiniteSet(fresh) /\ Cardinality(fresh) \in Nat
      /\ IsFiniteSet(PendingOf(r)) /\ Cardinality(PendingOf(r)) \in Nat
      /\ PendingOf(r) \subseteq 0..size - 1
  <2>1. fresh \in SUBSET (0..size - 1)
    BY <1>3
  <2>2. QED
    BY <1>1, <2>1, OffsetsFinite, PendingFinite
<1>9. Cardinality(PendingOf(r) \cup fresh) = Cardinality(PendingOf(r)) + Cardinality(fresh)
  <2>1. PendingOf(r) \cap fresh = {}
    BY <1>3
  <2>2. Cardinality(PendingOf(r) \cup fresh)
          = Cardinality(PendingOf(r)) + Cardinality(fresh)
            - Cardinality(PendingOf(r) \cap fresh)
    BY <1>8, FS_Union
  <2>3. Cardinality(PendingOf(r) \cap fresh) = 0
    BY <2>1, FS_EmptySet, Zenon
  <2>4. QED
    BY <1>8, <2>2, <2>3
<1>10. count \in Nat /\ count = Cardinality(PendingOf(r) \cup at)
  <2>1. PendingOf(r) \cup at = PendingOf(r) \cup fresh
    BY <1>3
  <2>2. Cardinality(PendingOf(r) \cup at) = Cardinality(PendingOf(r)) + Cardinality(fresh)
    BY <1>9, <2>1, Zenon
  <2>3. QED
    BY <1>1, <1>7, <1>8, <2>2
<1>11. /\ q \in ReassemblerStates(size)
       /\ q.buffer = buffer /\ q.unassembled_size = count /\ q.size = size
       /\ q.base_index = r.base_index /\ q.eof = r.eof /\ q.initialized = r.initialized
  BY <1>1, <1>2, <1>5, <1>10 DEF ReassemblerStates
<1>12. PendingOf(q) = PendingOf(r) \cup at
  BY <1>1, <1>3, <1>4, <1>6, <1>11 DEF PendingOf
<1>13. \A o \in PendingOf(q) : q.buffer[o] = q.base_index + o
  BY <1>1, <1>3, <1>6, <1>8, <1>11, <1>12 DEF Holds
<1>14. Holds(q, size)
  BY <1>1, <1>10, <1>11, <1>12, <1>13 DEF Holds
<1>15. QED
  BY <1>11, <1>12, <1>14 DEF q

(* The counting loop stops at the first gap (reassembler.cc:46-50). *)
LEMMA AssembledFound ==
  ASSUME NEW r, NEW size \in Nat, r.size = size
  PROVE  /\ Assembled(r) \in 0..size
         /\ 0..Assembled(r) - 1 \subseteq PendingOf(r)
         /\ Assembled(r) \notin PendingOf(r)
<1> DEFINE P(cnt) == /\ \A o \in 0..cnt - 1 : r.buffer[o] # Empty
                     /\ cnt < r.size => r.buffer[cnt] = Empty
<1>1. \E cnt \in 0..r.size : P(cnt)
  <2> DEFINE gaps == {o \in 0..size - 1 : r.buffer[o] = Empty} \cup {size}
  <2>1. gaps \in SUBSET Nat /\ gaps # {} /\ size \in gaps
    OBVIOUS
  <2>2. PICK m \in gaps : \A k \in gaps : m <= k
    <3> HIDE DEF gaps
    <3>1. QED
      BY <2>1, LeastNumber
  <2>3. m \in 0..size
    BY <2>2
  <2>4. ASSUME NEW o \in 0..m - 1
        PROVE  r.buffer[o] # Empty
    <3>1. o \in 0..size - 1 /\ ~(m <= o)
      BY <2>3
    <3>2. QED
      BY <2>2, <3>1
  <2>5. m < size => r.buffer[m] = Empty
    BY <2>2
  <2>6. QED
    BY <2>3, <2>4, <2>5
<1>2. Assembled(r) \in 0..r.size /\ P(Assembled(r))
  BY <1>1 DEF Assembled
<1>3. QED
  BY <1>2 DEF PendingOf

\* The set of offsets that are cnt lower.
Lowered(T, cnt) == {o - cnt : o \in T}

LEMMA LoweredCounted ==
  ASSUME NEW T \in SUBSET Nat, IsFiniteSet(T), NEW cnt \in Nat
  PROVE  Cardinality(Lowered(T, cnt)) = Cardinality(T)
<1> DEFINE f == [o \in T |-> o - cnt]
<1>1. f \in [T -> Lowered(T, cnt)]
  BY DEF Lowered
<1>2. \A x, y \in T : f[x] = f[y] => x = y
  OBVIOUS
<1>3. \A y \in Lowered(T, cnt) : \E x \in T : f[x] = y
  BY DEF Lowered
<1> HIDE DEF f
<1>4. f \in Bijection(T, Lowered(T, cnt))
  <2>1. f \in Injection(T, Lowered(T, cnt)) /\ f \in Surjection(T, Lowered(T, cnt))
    BY <1>1, <1>2, <1>3 DEF Injection, Surjection, IsInjective
  <2>2. QED
    BY <2>1 DEF Bijection
<1>5. ExistsBijection(T, Lowered(T, cnt))
  BY <1>4 DEF ExistsBijection
<1>6. QED
  BY <1>5, FS_Bijection

(* What was assembled leaves the vectors, and what waits behind it moves   *)
(* up (reassembler.cc:51-59).                                              *)
LEMMA ShiftedHolds ==
  ASSUME NEW r, NEW size, Holds(r, size), NEW cnt \in 0..size,
         0..cnt - 1 \subseteq PendingOf(r)
  PROVE  /\ Holds(Shifted(r, cnt), size)
         /\ PendingOf(Shifted(r, cnt)) = Lowered(PendingOf(r) \ (0..cnt - 1), cnt)
         /\ Shifted(r, cnt).base_index = r.base_index + cnt
         /\ Shifted(r, cnt).initialized = r.initialized
<1> DEFINE buffer == [o \in 0..r.size - 1 |->
                        IF o + cnt < r.size THEN r.buffer[o + cnt] ELSE Empty]
           count  == r.unassembled_size - cnt
           base   == r.base_index + cnt
           q      == Shifted(r, cnt)
           left   == PendingOf(r) \ (0..cnt - 1)
<1>1. /\ size \in Nat /\ r.size = size /\ r.base_index \in Nat
      /\ r.buffer \in [0..size - 1 -> Byte \cup {Empty}]
      /\ r \in ReassemblerStates(size)
      /\ r.unassembled_size = Cardinality(PendingOf(r))
  BY DEF Holds, ReassemblerStates
<1>2. q = [r EXCEPT !.buffer = buffer, !.unassembled_size = count, !.base_index = base]
  BY DEF Shifted
<1>3. buffer \in [0..size - 1 -> Byte \cup {Empty}]
  BY <1>1
<1>4. \A o \in 0..size - 1 : buffer[o] = IF o + cnt < size THEN r.buffer[o + cnt] ELSE Empty
  BY <1>1
<1>5. count = r.unassembled_size - cnt /\ base = r.base_index + cnt /\ base \in Nat
  BY <1>1
<1> HIDE DEF buffer, count, base, q
<1>6. /\ IsFiniteSet(PendingOf(r)) /\ Cardinality(PendingOf(r)) \in Nat
      /\ PendingOf(r) \subseteq 0..size - 1
  BY <1>1, PendingFinite
<1>7. /\ IsFiniteSet(left) /\ Cardinality(left) \in Nat
      /\ Cardinality(left) = Cardinality(PendingOf(r)) - cnt
  <2>1. PendingOf(r) \cap (0..cnt - 1) = 0..cnt - 1
    OBVIOUS
  <2>2. Cardinality(0..cnt - 1) = cnt
    BY <1>1, FS_Interval
  <2>3. /\ IsFiniteSet(left)
        /\ Cardinality(left)
             = Cardinality(PendingOf(r)) - Cardinality(PendingOf(r) \cap (0..cnt - 1))
    BY <1>6, FS_Difference
  <2>4. Cardinality(PendingOf(r) \cap (0..cnt - 1)) = cnt
    BY <2>1, <2>2, Zenon
  <2>5. Cardinality(left) \in Nat
    BY <2>3, FS_CardinalityType
  <2>6. QED
    BY <2>3, <2>4, <2>5
<1>8. Cardinality(Lowered(left, cnt)) = Cardinality(left)
  <2>1. left \in SUBSET Nat
    BY <1>6
  <2> HIDE DEF left
  <2>2. QED
    BY <1>7, <2>1, LoweredCounted
<1>9. count \in Nat /\ count = Cardinality(Lowered(left, cnt))
  BY <1>1, <1>5, <1>7, <1>8
<1>10. /\ q \in ReassemblerStates(size)
       /\ q.buffer = buffer /\ q.unassembled_size = count /\ q.size = size
       /\ q.base_index = base /\ q.initialized = r.initialized
  BY <1>1, <1>2, <1>3, <1>5, <1>9 DEF ReassemblerStates
<1>11. PendingOf(q) = Lowered(left, cnt)
  <2>1. ASSUME NEW o \in PendingOf(q)
        PROVE  o \in Lowered(left, cnt)
    <3>1. o \in 0..size - 1 /\ o + cnt < size /\ r.buffer[o + cnt] # Empty
      BY <1>1, <1>4, <1>10 DEF PendingOf
    <3>2. o + cnt \in left /\ o = (o + cnt) - cnt
      BY <1>1, <3>1 DEF PendingOf
    <3>3. QED
      BY <3>2 DEF Lowered
  <2>2. ASSUME NEW o \in left
        PROVE  o - cnt \in PendingOf(q)
    <3>1. o \in 0..size - 1 /\ ~(o \in 0..cnt - 1) /\ r.buffer[o] # Empty
      BY <1>1 DEF PendingOf
    <3>2. o - cnt \in 0..size - 1 /\ (o - cnt) + cnt = o /\ o < size
      BY <1>1, <3>1
    <3>3. buffer[o - cnt] = r.buffer[o]
      BY <1>1, <1>4, <3>2
    <3>4. QED
      BY <1>10, <3>1, <3>2, <3>3 DEF PendingOf
  <2>3. QED
    BY <2>1, <2>2 DEF Lowered
<1>12. \A o \in PendingOf(q) : q.buffer[o] = q.base_index + o
  <2>1. ASSUME NEW o \in PendingOf(q)
        PROVE  q.buffer[o] = q.base_index + o
    <3>1. o \in 0..size - 1 /\ o + cnt < size /\ r.buffer[o + cnt] # Empty
      BY <1>1, <1>4, <1>10 DEF PendingOf
    <3>2. o + cnt \in PendingOf(r)
      BY <1>1, <3>1 DEF PendingOf
    <3>3. r.buffer[o + cnt] = r.base_index + (o + cnt)
      BY <3>2 DEF Holds
    <3>4. q.buffer[o] = r.buffer[o + cnt]
      BY <1>4, <1>10, <3>1
    <3>5. QED
      BY <1>1, <1>5, <1>10, <3>1, <3>3, <3>4
  <2>2. QED
    BY <2>1
<1>13. Holds(q, size)
  BY <1>1, <1>9, <1>10, <1>11, <1>12, Zenon DEF Holds
<1>14. QED
  BY <1>5, <1>10, <1>11, <1>13 DEF q, left

(* What is assembled are the bytes that come next. *)
LEMMA AssembledBytesNext ==
  ASSUME NEW r, NEW size, Holds(r, size), NEW cnt \in 0..size,
         0..cnt - 1 \subseteq PendingOf(r)
  PROVE  /\ AssembledBytes(r, cnt) \in Seq(Byte)
         /\ Len(AssembledBytes(r, cnt)) = cnt
         /\ Contiguous(AssembledBytes(r, cnt), r.base_index)
<1>1. size \in Nat /\ cnt \in Nat /\ r.base_index \in Nat
  BY DEF Holds, ReassemblerStates
<1>2. ASSUME NEW k \in 1..cnt
      PROVE  r.buffer[k - 1] = r.base_index + k - 1
  <2>1. k - 1 \in PendingOf(r)
    BY <1>1
  <2>2. r.buffer[k - 1] = r.base_index + (k - 1)
    BY <2>1 DEF Holds
  <2>3. QED
    BY <1>1, <2>2
<1>3. AssembledBytes(r, cnt) = BytesFrom(r.base_index, cnt)
  BY <1>2 DEF AssembledBytes, BytesFrom
<1>4. QED
  BY <1>1, <1>3, BytesFromProperties

-----------------------------------------------------------------------------
\* The offsets of a substring's bytes that the window has room for.
Taken(r, first, n, output) ==
  {o \in 0..AvailableCapacity(output) - 1 : r.base_index + o \in first..first + n - 1}

\* What insert makes of reassembler and output: what was kept and what the
\* substring brings is lowered by the cnt bytes that could be written.
Inserted(r, output, first, n, is_last, q, after) ==
  /\ Holds(q, output.capacity_)
  /\ q.initialized
  /\ q.eof = (r.eof \/ is_last)
  /\ Intact(after)
  /\ after.bytes_write = q.base_index
  /\ after.bytes_read = output.bytes_read
  /\ after.capacity_ = output.capacity_
  /\ after.close_ = (output.close_ \/ (q.unassembled_size = 0 /\ q.eof))
  /\ \E cnt \in 0..AvailableCapacity(output) :
       /\ q.base_index = r.base_index + cnt
       /\ 0..cnt - 1 \subseteq PendingOf(r) \cup Taken(r, first, n, output)
       /\ cnt \notin PendingOf(r) \cup Taken(r, first, n, output)
       /\ PendingOf(q) = Lowered((PendingOf(r) \cup Taken(r, first, n, output))
                                   \ (0..cnt - 1), cnt)

(* A whole call: every byte that is now contiguous is pushed, and it is    *)
(* accepted, because nothing waits beyond the room of the output           *)
(* (reassembler.cc:7-66).                                                  *)
LEMMA InsertHolds ==
  ASSUME NEW r, NEW output, Intact(output), output.bytes_write = r.base_index,
         NEW size, Holds(r, size), AvailableCapacity(output) \in Nat,
         r.initialized => AvailableCapacity(output) <= size,
         r.initialized => size = output.capacity_,
         ~r.initialized => r = NewReassembler /\ AvailableCapacity(output) = output.capacity_,
         \A o \in PendingOf(r) : o < AvailableCapacity(output),
         NEW first \in Nat, NEW n \in Nat,
         first <= r.base_index + AvailableCapacity(output), NEW is_last \in BOOLEAN
  PROVE  LET result == Insert(r, first, BytesFrom(first, n), is_last, output)
         IN  Inserted(r, output, first, n, is_last, result.reassembler, result.output)
<1> DEFINE avail  == AvailableCapacity(output)
           cap    == output.capacity_
           data   == BytesFrom(first, n)
           opened == Initialized(r, output)
           at     == Offsets(opened, first, Len(data), output)
           stored == Stored(opened, first, data, at)
           cnt    == Assembled(stored)
           eof    == r.eof \/ is_last
           shifted == Shifted(stored, cnt)
           q      == [shifted EXCEPT !.eof = eof]
           pushed == Push(output, AssembledBytes(stored, cnt))
           out    == IF q.unassembled_size = 0 /\ eof THEN Close(pushed) ELSE pushed
           taken  == Taken(r, first, n, output)
           all    == PendingOf(r) \cup taken
<1>1. Insert(r, first, data, is_last, output) = [reassembler |-> q, output |-> out]
  BY DEF Insert
<1>2. /\ cap \in Nat /\ avail \in Nat /\ avail <= cap /\ r.base_index \in Nat
      /\ output.bytes_read \in Nat /\ output.close_ \in BOOLEAN /\ r.eof \in BOOLEAN
  <2>1. /\ output \in StreamStates /\ output.stream \in Seq(Byte)
        /\ Len(output.stream) \in Nat
    BY LenProperties DEF Intact, StreamStates
  <2>2. QED
    BY <2>1 DEF StreamStates, AvailableCapacity, Holds, ReassemblerStates
<1>3. /\ Holds(opened, cap) /\ PendingOf(opened) = PendingOf(r)
      /\ opened.base_index = r.base_index /\ opened.eof = r.eof /\ opened.initialized
  <2>1. CASE r.initialized
    BY <2>1 DEF Initialized
  <2>2. CASE ~r.initialized
    <3>1. r = NewReassembler /\ Holds(r, 0) /\ avail = cap
      BY <2>2, NewHolds
    <3>2. QED
      BY <2>2, <3>1, <1>2, InitializedHolds
  <2>3. QED
    BY <2>1, <2>2
<1>4. /\ Len(data) = n
      /\ \A k \in 1..n : data[k] = first + k - 1
  BY BytesFromProperties DEF Contiguous
<1>5. at = taken /\ at \in SUBSET (0..cap - 1)
  <2>1. opened \in ReassemblerStates(cap)
    BY <1>3 DEF Holds
  <2>2. avail \in 0..cap /\ first <= opened.base_index + avail
    BY <1>2, <1>3
  <2> HIDE DEF opened
  <2>3. at = {o \in 0..avail - 1 : opened.base_index + o \in first..first + n - 1}
    BY <1>2, <1>4, <2>1, <2>2, OffsetsFound
  <2>4. at = taken
    BY <1>3, <2>3 DEF Taken
  <2>5. taken \subseteq 0..cap - 1
    BY <1>2 DEF Taken
  <2>6. QED
    BY <2>4, <2>5
<1>6. \A o \in at : data[o + opened.base_index - first + 1] = opened.base_index + o
  <2>1. ASSUME NEW o \in taken
        PROVE  data[o + r.base_index - first + 1] = r.base_index + o
    <3>1. /\ o \in Nat /\ r.base_index + o >= first
          /\ r.base_index + o <= first + n - 1
      BY <1>2 DEF Taken
    <3>2. o + r.base_index - first + 1 \in 1..n
      BY <1>2, <3>1
    <3> HIDE DEF data
    <3>3. data[o + r.base_index - first + 1] = first + (o + r.base_index - first + 1) - 1
      BY <1>4, <3>2
    <3>4. QED
      BY <1>2, <3>1, <3>3
  <2> HIDE DEF data, opened, at, taken
  <2>2. QED
    BY <1>3, <1>5, <2>1
<1> HIDE DEF at, data, opened, taken
<1>7. /\ Holds(stored, cap) /\ PendingOf(stored) = PendingOf(opened) \cup at
      /\ stored.base_index = opened.base_index /\ stored.eof = opened.eof
      /\ stored.initialized = opened.initialized
  <2>1. Holds(opened, cap) /\ at \in SUBSET (0..cap - 1)
    BY <1>3, <1>5
  <2> HIDE DEF cap, stored, cnt, q, shifted, pushed, out, all, avail
  <2>2. stored = Stored(opened, first, data, at)
    BY DEF stored
  <2>3. /\ Holds(Stored(opened, first, data, at), cap)
        /\ PendingOf(Stored(opened, first, data, at)) = PendingOf(opened) \cup at
        /\ Stored(opened, first, data, at).base_index = opened.base_index
        /\ Stored(opened, first, data, at).eof = opened.eof
        /\ Stored(opened, first, data, at).initialized = opened.initialized
    BY <1>6, <2>1, StoredHolds
  <2>4. QED
    BY <2>2, <2>3, Zenon
<1>8. /\ PendingOf(stored) = all
      /\ stored.base_index = r.base_index /\ stored.initialized
  BY <1>3, <1>5, <1>7
<1> HIDE DEF stored
<1>9. /\ cnt \in 0..cap /\ 0..cnt - 1 \subseteq all /\ cnt \notin all
  <2>1. stored.size = cap
    BY <1>7 DEF Holds, ReassemblerStates
  <2>2. QED
    BY <1>2, <1>8, <2>1, AssembledFound
<1>10. \A o \in all : o \in Nat /\ o < avail
  BY <1>2 DEF PendingOf, Taken, taken, Holds, ReassemblerStates
<1> HIDE DEF cnt, all
<1>11. cnt \in 0..avail
  <2>1. CASE cnt = 0
    BY <2>1, <1>2
  <2>2. CASE cnt # 0
    <3>1. cnt - 1 \in all
      BY <1>9, <2>2
    <3>2. QED
      BY <1>2, <1>9, <1>10, <3>1
  <2>3. QED
    BY <2>1, <2>2
<1>12. /\ Holds(shifted, cap) /\ PendingOf(shifted) = Lowered(all \ (0..cnt - 1), cnt)
       /\ shifted.base_index = r.base_index + cnt /\ shifted.initialized
  BY <1>7, <1>8, <1>9, ShiftedHolds
<1> HIDE DEF shifted
<1>13. /\ q \in ReassemblerStates(cap)
       /\ q.buffer = shifted.buffer /\ q.size = shifted.size
       /\ q.base_index = shifted.base_index /\ q.initialized = shifted.initialized
       /\ q.unassembled_size = shifted.unassembled_size /\ q.eof = eof
  BY <1>2, <1>12 DEF Holds, ReassemblerStates
<1> HIDE DEF q
<1>14. PendingOf(q) = PendingOf(shifted)
  BY <1>13 DEF PendingOf
<1>15. Holds(q, cap)
  BY <1>12, <1>13, <1>14 DEF Holds
<1>16. /\ AssembledBytes(stored, cnt) \in Seq(Byte)
       /\ Len(AssembledBytes(stored, cnt)) = cnt
       /\ Contiguous(AssembledBytes(stored, cnt), output.bytes_write)
  BY <1>7, <1>8, <1>9, AssembledBytesNext
<1>17. /\ Intact(pushed)
       /\ pushed.bytes_write = output.bytes_write + cnt
       /\ pushed.bytes_read = output.bytes_read
       /\ pushed.capacity_ = cap /\ pushed.close_ = output.close_
  <2>1. Lesser(cnt, avail) = cnt
    BY <1>11, <1>2 DEF Lesser
  <2>2. QED
    BY <1>16, <2>1, PushIntact
<1> HIDE DEF pushed
<1>18. /\ Intact(out)
       /\ out.bytes_write = output.bytes_write + cnt
       /\ out.bytes_read = output.bytes_read
       /\ out.capacity_ = cap
       /\ out.close_ = (output.close_ \/ (q.unassembled_size = 0 /\ eof))
  <2>1. CASE q.unassembled_size = 0 /\ eof
    <3>1. out = Close(pushed)
      BY <2>1
    <3>2. out.close_ = TRUE
      BY <3>1, <1>17, CloseIntact DEF Close, Intact, StreamStates
    <3>3. QED
      BY <2>1, <3>1, <3>2, <1>17, CloseIntact
  <2>2. CASE ~(q.unassembled_size = 0 /\ eof)
    BY <2>2, <1>2, <1>17
  <2>3. QED
    BY <2>1, <2>2
<1> HIDE DEF out
<1> DEFINE result == Insert(r, first, BytesFrom(first, n), is_last, output)
<1>19. result.reassembler = q /\ result.output = out
  BY <1>1 DEF data
<1> HIDE DEF result
<1>20. /\ Holds(q, cap) /\ q.initialized /\ q.eof = eof
       /\ Intact(out) /\ out.bytes_write = q.base_index
       /\ out.bytes_read = output.bytes_read /\ out.capacity_ = cap
       /\ out.close_ = (output.close_ \/ (q.unassembled_size = 0 /\ q.eof))
  BY <1>12, <1>13, <1>15, <1>18
<1>21. /\ q.base_index = r.base_index + cnt
       /\ PendingOf(q) = Lowered(all \ (0..cnt - 1), cnt)
  BY <1>12, <1>13, <1>14
<1>22. Inserted(r, output, first, n, is_last, q, out)
  BY <1>9, <1>11, <1>20, <1>21 DEF all, taken, eof, Inserted
<1>23. QED
  BY <1>19, <1>22, Zenon DEF result

-----------------------------------------------------------------------------
\* The indices that were written or wait.
KnownBy(r) == 0..r.base_index - 1 \cup {r.base_index + o : o \in PendingOf(r)}

\* What waits could be written if the gaps before it were filled, but not yet.
Placed(r, out, capacity, length) ==
  /\ Intact(out) /\ out.capacity_ = capacity
  /\ out.bytes_write = r.base_index
  /\ Holds(r, IF r.initialized THEN capacity ELSE 0)
  /\ ~r.initialized => r = NewReassembler
  /\ \A o \in PendingOf(r) :
       o # 0 /\ o < AvailableCapacity(out) /\ r.base_index + o < length
  /\ r.base_index <= length

\* Moreover, once the last substring was seen, the last byte is known.
Sound(r, out, capacity, length) ==
  /\ Placed(r, out, capacity, length)
  /\ r.eof => length = 0 \/ length - 1 \in KnownBy(r)

-----------------------------------------------------------------------------
(* The room of an intact stream, from its counters. *)
LEMMA RoomCounted ==
  ASSUME NEW out, Intact(out)
  PROVE  /\ AvailableCapacity(out) = out.capacity_ - (out.bytes_write - out.bytes_read)
         /\ AvailableCapacity(out) \in 0..out.capacity_
         /\ BytesBuffered(out) = Len(out.stream)
         /\ Len(out.stream) \in Nat /\ out.capacity_ \in Nat
         /\ out.bytes_read \in Nat /\ out.bytes_write \in Nat
         /\ out.close_ \in BOOLEAN
<1>1. /\ out \in StreamStates /\ out.stream \in Seq(Byte)
      /\ out.capacity_ \in Nat /\ out.bytes_read \in Nat /\ out.bytes_write \in Nat
      /\ out.close_ \in BOOLEAN
  BY DEF Intact, StreamStates
<1>2. Len(out.stream) \in Nat
  BY <1>1, LenProperties
<1>3. QED
  BY <1>1, <1>2 DEF Intact, AvailableCapacity, BytesBuffered

(* Before the first call there is room for everything. *)
LEMMA RoomAtFirst ==
  ASSUME NEW capacity \in Nat, NEW length \in Nat,
         NEW r, NEW out, Placed(r, out, capacity, length), ~r.initialized
  PROVE  /\ AvailableCapacity(out) = capacity
         /\ r.base_index = 0 /\ r.unassembled_size = 0 /\ r.eof = FALSE
<1>1. r.base_index = 0 /\ r.unassembled_size = 0 /\ r.eof = FALSE
  BY DEF Placed, NewReassembler
<1>2. QED
  BY <1>1, RoomCounted DEF Placed

(* What is known lies in the stream, and never reaches up to base_index. *)
LEMMA KnownInStream ==
  ASSUME NEW capacity \in Nat, NEW length \in Nat,
         NEW r, NEW out, Placed(r, out, capacity, length)
  PROVE  /\ PendingOf(r) \subseteq Nat /\ r.base_index \in Nat
         /\ KnownBy(r) \subseteq 0..length - 1
         /\ r.base_index \notin KnownBy(r)
         /\ r.unassembled_size = 0 <=> PendingOf(r) = {}
<1> DEFINE size == IF r.initialized THEN capacity ELSE 0
<1>1. /\ size \in Nat /\ r \in ReassemblerStates(size)
      /\ r.unassembled_size = Cardinality(PendingOf(r))
  BY DEF Placed, Holds
<1>2. PendingOf(r) \subseteq Nat /\ r.base_index \in Nat /\ IsFiniteSet(PendingOf(r))
  BY <1>1, PendingFinite DEF ReassemblerStates
<1>3. \A o \in PendingOf(r) : o # 0 /\ r.base_index + o < length
  BY DEF Placed
<1>4. KnownBy(r) \subseteq 0..length - 1 /\ r.base_index \notin KnownBy(r)
  <2>1. r.base_index \in 0..length
    BY <1>2 DEF Placed
  <2>2. QED
    BY <1>2, <1>3, <2>1 DEF KnownBy
<1>5. QED
  BY <1>1, <1>2, <1>4, FS_EmptySet

(* Once the last substring was seen, nothing waits only when all is there. *)
LEMMA EndSeen ==
  ASSUME NEW capacity \in Nat, NEW length \in Nat,
         NEW r, NEW out, Sound(r, out, capacity, length), r.eof
  PROVE  r.unassembled_size = 0 <=> r.base_index = length
<1>1. /\ PendingOf(r) \subseteq Nat /\ r.base_index \in Nat
      /\ r.unassembled_size = 0 <=> PendingOf(r) = {}
  BY KnownInStream DEF Sound
<1>2. /\ \A o \in PendingOf(r) : o # 0 /\ r.base_index + o < length
      /\ r.base_index <= length
      /\ length = 0 \/ length - 1 \in KnownBy(r)
  BY DEF Sound, Placed
<1>3. ASSUME PendingOf(r) = {}
      PROVE  r.base_index = length
  BY <1>1, <1>2, <1>3 DEF KnownBy
<1>4. ASSUME r.base_index = length
      PROVE  PendingOf(r) = {}
  BY <1>1, <1>2, <1>4
<1>5. QED
  BY <1>1, <1>3, <1>4

-----------------------------------------------------------------------------
(* A Reassembler with nothing in it and an empty stream. *)
LEMMA NewSound ==
  ASSUME NEW capacity \in Nat, NEW length \in Nat
  PROVE  /\ Sound(NewReassembler, NewByteStream(capacity), capacity, length)
         /\ KnownBy(NewReassembler) = {}
<1> DEFINE r   == NewReassembler
           out == NewByteStream(capacity)
<1>1. Holds(r, 0) /\ PendingOf(r) = {} /\ Intact(out)
  BY NewHolds, NewIntact
<1>2. /\ ~r.initialized /\ ~r.eof /\ r.base_index = 0
      /\ out.capacity_ = capacity /\ out.bytes_write = 0
  BY DEF NewReassembler, NewByteStream
<1> HIDE DEF out
<1>3. QED
  BY <1>1, <1>2 DEF Sound, Placed, KnownBy, out

(* What a call of insert makes of such a state. *)
LEMMA InsertPlaced ==
  ASSUME NEW capacity \in Nat, NEW length \in Nat,
         NEW r, NEW out, Placed(r, out, capacity, length),
         NEW first \in Nat, NEW n \in Nat, NEW is_last \in BOOLEAN,
         n = 0 \/ first + n <= length,
         first <= r.base_index + AvailableCapacity(out),
         NEW q, NEW after,
         q = Insert(r, first, BytesFrom(first, n), is_last, out).reassembler,
         after = Insert(r, first, BytesFrom(first, n), is_last, out).output
  PROVE  /\ Placed(q, after, capacity, length)
         /\ q.eof = (r.eof \/ is_last) /\ q.base_index >= r.base_index
         /\ q.initialized
         /\ after.close_ = (out.close_ \/ (q.unassembled_size = 0 /\ q.eof))
         /\ after.bytes_read = out.bytes_read
         /\ KnownBy(q) = KnownBy(r) \cup
              ((first..first + n - 1) \cap
                 (r.base_index..r.base_index + AvailableCapacity(out) - 1))
<1> DEFINE avail == AvailableCapacity(out)
           size  == IF r.initialized THEN capacity ELSE 0
           taken == Taken(r, first, n, out)
           all   == PendingOf(r) \cup taken
<1>1. /\ Intact(out) /\ out.bytes_write = r.base_index /\ out.capacity_ = capacity
      /\ Holds(r, size)
      /\ \A o \in PendingOf(r) : o # 0 /\ o < avail /\ r.base_index + o < length
      /\ r.base_index <= length
  BY DEF Placed
<1>2. /\ avail \in 0..capacity /\ r.base_index \in Nat
      /\ avail = capacity - (out.bytes_write - out.bytes_read)
      /\ out.bytes_read \in Nat /\ capacity \in Nat /\ length \in Nat
      /\ PendingOf(r) \subseteq Nat /\ r.eof \in BOOLEAN
  BY <1>1, RoomCounted, KnownInStream
     DEF Holds, ReassemblerStates
<1>3. /\ Holds(q, capacity) /\ q.initialized /\ q.eof = (r.eof \/ is_last)
      /\ Intact(after) /\ after.bytes_write = q.base_index
      /\ after.bytes_read = out.bytes_read /\ after.capacity_ = capacity
      /\ after.close_ = (out.close_ \/ (q.unassembled_size = 0 /\ q.eof))
      /\ \E cnt \in 0..avail :
           /\ q.base_index = r.base_index + cnt
           /\ 0..cnt - 1 \subseteq all
           /\ cnt \notin all
           /\ PendingOf(q) = Lowered(all \ (0..cnt - 1), cnt)
  <2>1. r.initialized => avail <= size /\ size = out.capacity_
    BY <1>1, <1>2
  <2>2. ~r.initialized => r = NewReassembler /\ avail = out.capacity_
    BY <1>1, RoomAtFirst DEF Placed
  <2>3. /\ first \in Nat /\ avail \in Nat /\ \A o \in PendingOf(r) : o < avail
        /\ first <= r.base_index + AvailableCapacity(out)
    BY <1>1, <1>2
  <2> HIDE DEF size
  <2>4. /\ Intact(out) /\ out.bytes_write = r.base_index
        /\ Holds(r, size) /\ AvailableCapacity(out) \in Nat
        /\ r.initialized => AvailableCapacity(out) <= size
        /\ r.initialized => size = out.capacity_
        /\ ~r.initialized => r = NewReassembler /\ AvailableCapacity(out) = out.capacity_
        /\ \A o \in PendingOf(r) : o < AvailableCapacity(out)
        /\ first \in Nat /\ n \in Nat
        /\ first <= r.base_index + AvailableCapacity(out)
    BY <1>1, <1>2, <2>1, <2>2, <2>3 DEF size
  <2>5. LET result == Insert(r, first, BytesFrom(first, n), is_last, out)
        IN  Inserted(r, out, first, n, is_last, result.reassembler, result.output)
    BY <2>4, InsertHolds
  <2>6. Inserted(r, out, first, n, is_last, q, after)
    BY <2>5, Zenon
  <2>7. QED
    BY <1>1, <2>6 DEF Inserted
<1>4. PICK cnt \in 0..avail :
           /\ q.base_index = r.base_index + cnt
           /\ 0..cnt - 1 \subseteq all
           /\ cnt \notin all
           /\ PendingOf(q) = Lowered(all \ (0..cnt - 1), cnt)
  BY <1>3
<1>5. \A o \in all : o \in Nat /\ o < avail /\ r.base_index + o < length
  BY <1>1, <1>2 DEF Taken
<1>6. AvailableCapacity(after) = avail - cnt
  <2>1. AvailableCapacity(after) = after.capacity_ - (after.bytes_write - after.bytes_read)
    BY <1>3, RoomCounted
  <2>2. /\ after.capacity_ = capacity /\ after.bytes_read = out.bytes_read
        /\ after.bytes_write = r.base_index + cnt /\ out.bytes_write = r.base_index
    BY <1>1, <1>3, <1>4
  <2> HIDE DEF avail
  <2>3. cnt \in Nat /\ avail \in Nat
    BY <1>2
  <2>4. QED
    BY <1>2, <2>1, <2>2, <2>3
<1>7. taken = {o \in 0..avail - 1 : r.base_index + o \in first..first + n - 1}
  BY <1>2 DEF Taken
<1>8. KnownBy(q) = 0..r.base_index - 1 \cup {r.base_index + o : o \in all}
  <2> HIDE DEF all
  <2>1. ASSUME NEW x \in KnownBy(q)
        PROVE  x \in 0..r.base_index - 1 \/ \E o \in all : x = r.base_index + o
    <3>1. CASE x \in 0..q.base_index - 1
      <4>1. CASE x < r.base_index
        BY <1>2, <1>4, <3>1, <4>1
      <4>2. CASE ~(x < r.base_index)
        <5>1. x - r.base_index \in 0..cnt - 1 /\ x = r.base_index + (x - r.base_index)
          BY <1>2, <1>4, <3>1, <4>2
        <5>2. QED
          BY <1>4, <5>1
      <4>3. QED
        BY <4>1, <4>2
    <3>2. CASE ~(x \in 0..q.base_index - 1)
      <4>1. PICK o \in PendingOf(q) : x = q.base_index + o
        BY <3>2 DEF KnownBy
      <4>2. PICK p \in all : o = p - cnt
        BY <1>4 DEF Lowered
      <4>3. x = r.base_index + p
        BY <1>2, <1>4, <1>5, <4>1, <4>2
      <4>4. QED
        BY <4>3
    <3>3. QED
      BY <3>1, <3>2
  <2>2. ASSUME NEW x \in 0..r.base_index - 1
        PROVE  x \in KnownBy(q)
    BY <1>2, <1>4 DEF KnownBy
  <2>3. ASSUME NEW o \in all
        PROVE  r.base_index + o \in KnownBy(q)
    <3>1. CASE o < cnt
      BY <1>2, <1>4, <1>5, <3>1 DEF KnownBy
    <3>2. CASE ~(o < cnt)
      <4>1. o - cnt \in PendingOf(q)
        BY <1>4, <1>5, <3>2 DEF Lowered
      <4>2. r.base_index + o = q.base_index + (o - cnt)
        BY <1>2, <1>4, <1>5
      <4>3. QED
        BY <4>1, <4>2 DEF KnownBy
    <3>3. QED
      BY <3>1, <3>2
  <2>4. QED
    BY <2>1, <2>2, <2>3
<1>9. KnownBy(q) = KnownBy(r) \cup
        ((first..first + n - 1) \cap (r.base_index..r.base_index + avail - 1))
  <2>1. {r.base_index + o : o \in taken}
          = (first..first + n - 1) \cap (r.base_index..r.base_index + avail - 1)
    <3>1. ASSUME NEW x \in (first..first + n - 1) \cap (r.base_index..r.base_index + avail - 1)
          PROVE  \E o \in taken : x = r.base_index + o
      <4>1. x - r.base_index \in taken /\ x = r.base_index + (x - r.base_index)
        BY <1>2, <1>7
      <4>2. QED
        BY <4>1
    <3>2. ASSUME NEW o \in taken
          PROVE  r.base_index + o \in
                   (first..first + n - 1) \cap (r.base_index..r.base_index + avail - 1)
      BY <1>2, <1>7
    <3>3. QED
      BY <3>1, <3>2
  <2> HIDE DEF taken
  <2>2. QED
    BY <1>8, <2>1 DEF KnownBy
<1>10. \A o \in PendingOf(q) : /\ o # 0 /\ o < AvailableCapacity(after)
                              /\ q.base_index + o < length
  <2>1. ASSUME NEW o \in PendingOf(q)
        PROVE  /\ o # 0 /\ o < AvailableCapacity(after)
               /\ q.base_index + o < length
    <3>1. PICK p \in all \ (0..cnt - 1) : o = p - cnt
      BY <1>4 DEF Lowered
    <3>2. p \in Nat /\ p # cnt /\ p < avail /\ r.base_index + p < length /\ p >= cnt
      BY <1>4, <1>5
    <3>3. QED
      BY <1>2, <1>4, <1>6, <3>1, <3>2
  <2>2. QED
    BY <2>1
<1>11. q.base_index <= length
  <2>1. CASE cnt = 0
    BY <1>1, <1>2, <1>4, <2>1
  <2>2. CASE cnt # 0
    <3>1. cnt - 1 \in all
      BY <1>4, <2>2
    <3>2. QED
      BY <1>2, <1>4, <1>5, <3>1
  <2>3. QED
    BY <2>1, <2>2
<1>12. Placed(q, after, capacity, length)
  BY <1>3, <1>10, <1>11 DEF Placed
<1>13. q.base_index >= r.base_index
  BY <1>2, <1>4
<1>14. QED
  BY <1>3, <1>9, <1>12, <1>13

(* The stream is closed with its last byte, if the substring marked as the *)
(* last one leaves the last byte known.                                    *)
LEMMA InsertSound ==
  ASSUME NEW capacity \in Nat, NEW length \in Nat,
         NEW r, NEW out, Sound(r, out, capacity, length),
         NEW first \in Nat, NEW n \in Nat, NEW is_last \in BOOLEAN,
         n = 0 \/ first + n <= length,
         first <= r.base_index + AvailableCapacity(out),
         is_last => \/ length = 0
                    \/ length - 1 \in KnownBy(r)
                    \/ length - 1 \in (first..first + n - 1) \cap
                         (r.base_index..r.base_index + AvailableCapacity(out) - 1),
         NEW q, NEW after,
         q = Insert(r, first, BytesFrom(first, n), is_last, out).reassembler,
         after = Insert(r, first, BytesFrom(first, n), is_last, out).output
  PROVE  /\ Sound(q, after, capacity, length)
         /\ after.close_ = (out.close_ \/ (q.eof /\ q.base_index = length))
<1>1. Placed(r, out, capacity, length)
  BY DEF Sound
<1>2. /\ Placed(q, after, capacity, length)
      /\ q.eof = (r.eof \/ is_last)
      /\ after.close_ = (out.close_ \/ (q.unassembled_size = 0 /\ q.eof))
      /\ KnownBy(q) = KnownBy(r) \cup
           ((first..first + n - 1) \cap
              (r.base_index..r.base_index + AvailableCapacity(out) - 1))
  BY <1>1, InsertPlaced
<1>3. Sound(q, after, capacity, length)
  BY <1>2 DEF Sound
<1>4. CASE q.eof
  BY <1>2, <1>3, <1>4, EndSeen
<1>5. CASE ~q.eof
  BY <1>2, <1>3, <1>5
<1>6. QED
  BY <1>3, <1>4, <1>5

(* A read leaves the reassembler alone and makes room. *)
LEMMA ReadPlaced ==
  ASSUME NEW capacity \in Nat, NEW length \in Nat,
         NEW r, NEW out, Placed(r, out, capacity, length), NEW n \in Nat, BytesBuffered(out) > 0
  PROVE  Placed(r, Read(out, n), capacity, length)
<1> DEFINE after == Read(out, n)
<1>1. /\ Intact(out) /\ out.capacity_ = capacity /\ out.bytes_write = r.base_index
  BY DEF Placed
<1>2. /\ Intact(after) /\ after.bytes_write = out.bytes_write
      /\ after.capacity_ = out.capacity_
      /\ after.bytes_read = out.bytes_read + Len(ReadOut(out, n))
      /\ Len(ReadOut(out, n)) \in 0..Len(out.stream)
  BY <1>1, ReadIntact
<1> HIDE DEF after
<1>3. AvailableCapacity(out) <= AvailableCapacity(after)
  <2>1. /\ AvailableCapacity(out) = out.capacity_ - (out.bytes_write - out.bytes_read)
        /\ Len(out.stream) \in Nat /\ out.capacity_ \in Nat
        /\ out.bytes_read \in Nat /\ out.bytes_write \in Nat
    BY <1>1, RoomCounted
  <2>2. AvailableCapacity(after) = after.capacity_ - (after.bytes_write - after.bytes_read)
    BY <1>2, RoomCounted
  <2>3. QED
    BY <1>2, <2>1, <2>2
<1>4. AvailableCapacity(out) \in Nat /\ AvailableCapacity(after) \in Nat
  BY <1>1, <1>2, RoomCounted
<1>5. PendingOf(r) \subseteq Nat
  BY KnownInStream
<1>6. \A o \in PendingOf(r) : o # 0 /\ o < AvailableCapacity(after)
                              /\ r.base_index + o < length
  BY <1>3, <1>4, <1>5 DEF Placed
<1>7. Placed(r, after, capacity, length)
  BY <1>1, <1>2, <1>6 DEF Placed
<1>8. QED
  BY <1>7 DEF after

(* Nor does it change what is known of the end. *)
LEMMA ReadSound ==
  ASSUME NEW capacity \in Nat, NEW length \in Nat,
         NEW r, NEW out, Sound(r, out, capacity, length), NEW n \in Nat, BytesBuffered(out) > 0
  PROVE  Sound(r, Read(out, n), capacity, length)
BY ReadPlaced DEF Sound

-----------------------------------------------------------------------------
\* The same number modulo the number of values of a uint32_t.
Congruent(a, b) == \E k \in Int : a - b = k * Word32

-----------------------------------------------------------------------------
(* The quotient and the remainder. *)
LEMMA Remainder ==
  ASSUME NEW x \in Int
  PROVE  x % Word32 \in SequenceNumber /\ Congruent(x, x % Word32)
<1>1. Word32 \in Nat \ {0} /\ x % Word32 \in 0..Word32 - 1
  BY Word32Assumption
<1>2. x \div Word32 \in Int /\ x = (x \div Word32) * Word32 + (x % Word32)
  BY Word32Assumption
<1>3. x - (x % Word32) = (x \div Word32) * Word32
  <2> DEFINE q == x \div Word32
             p == q * Word32
             r == x % Word32
  <2>1. p \in Int /\ r \in Int /\ x = p + r
    BY <1>1, <1>2
  <2> HIDE DEF p, r
  <2>2. x - r = p
    BY <2>1
  <2>3. QED
    BY <2>2 DEF p, r
<1>4. QED
  BY <1>1, <1>2, <1>3 DEF Congruent, SequenceNumber

LEMMA Multiple ==
  ASSUME NEW k \in Int, NEW d \in Int, d = k * Word32,
         -Word32 < d, d < Word32
  PROVE  d = 0
<1>1. Word32 \in Nat \ {0}
  BY Word32Assumption
<1>2. CASE k >= 1
  <2>1. k * Word32 >= Word32
    BY <1>1, <1>2
  <2>2. QED
    BY <1>1, <2>1
<1>3. CASE k <= -1
  <2>1. k * Word32 <= -Word32
    BY <1>1, <1>3
  <2>2. QED
    BY <1>1, <2>1
<1>4. CASE k = 0
  BY <1>1, <1>4
<1>5. QED
  BY <1>2, <1>3, <1>4

(* Congruence is an equivalence, and numbers that are congruent and less   *)
(* than Word32 apart are equal.                                            *)
LEMMA CongruentSwapped ==
  ASSUME NEW a \in Int, NEW b \in Int, Congruent(a, b)
  PROVE  Congruent(b, a)
<1>1. PICK k \in Int : a - b = k * Word32
  BY DEF Congruent
<1>2. -k \in Int /\ b - a = (-k) * Word32
  BY <1>1, Word32Assumption
<1>3. QED
  BY <1>2 DEF Congruent

LEMMA CongruentJoined ==
  ASSUME NEW a \in Int, NEW b \in Int, NEW c \in Int,
         Congruent(a, b), Congruent(b, c)
  PROVE  Congruent(a, c)
<1>1. PICK j \in Int : a - b = j * Word32
  BY DEF Congruent
<1>2. PICK k \in Int : b - c = k * Word32
  BY DEF Congruent
<1>3. j + k \in Int /\ a - c = (j + k) * Word32
  <2>1. (j + k) * Word32 = j * Word32 + k * Word32
    BY Word32Assumption
  <2>2. j * Word32 \in Int /\ k * Word32 \in Int
    BY Word32Assumption
  <2>3. a - c = (a - b) + (b - c)
    OBVIOUS
  <2>4. QED
    BY <1>1, <1>2, <2>1, <2>2, <2>3
<1>4. QED
  BY <1>3 DEF Congruent

LEMMA CongruentClose ==
  ASSUME NEW a \in Int, NEW b \in Int, Congruent(a, b),
         a - b < Word32, b - a < Word32
  PROVE  a = b
<1>1. PICK k \in Int : a - b = k * Word32
  BY DEF Congruent
<1>2. a - b \in Int /\ -Word32 < a - b /\ Word32 \in Int
  BY Word32Assumption
<1> DEFINE d == a - b
<1>3. d \in Int /\ d = k * Word32 /\ -Word32 < d /\ d < Word32
  BY <1>1, <1>2
<1> HIDE DEF d
<1>4. d = 0
  BY <1>3, Multiple
<1>5. QED
  BY <1>4 DEF d

LEMMA CongruentMoved ==
  ASSUME NEW a \in Int, NEW b \in Int, NEW c \in Int
  PROVE  /\ Congruent(a, b) <=> Congruent(a + c, b + c)
         /\ Congruent(a, b) <=> Congruent(a - c, b - c)
         /\ Congruent(a, a) /\ Congruent(a + Word32, a) /\ Congruent(a - Word32, a)
<1>1. (a + c) - (b + c) = a - b /\ (a - c) - (b - c) = a - b
  OBVIOUS
<1>2. /\ a - a = 0 * Word32
      /\ (a + Word32) - a = 1 * Word32
      /\ (a - Word32) - a = (-1) * Word32
  BY Word32Assumption
<1>3. QED
  BY <1>1, <1>2 DEF Congruent

-----------------------------------------------------------------------------
(* A wrapped number is its absolute number counted from the isn.           *)
LEMMA Wrapped ==
  ASSUME NEW isn_ \in SequenceNumber, NEW n \in Nat
  PROVE  Wrap(n, isn_) \in SequenceNumber /\ Congruent(Wrap(n, isn_) - isn_, n)
<1> DEFINE w == Wrap(n, isn_)
<1>1. isn_ \in Int /\ isn_ + n \in Int /\ w = (isn_ + n) % Word32
  BY Word32Assumption DEF SequenceNumber, Wrap, Advanced
<1>2. w \in SequenceNumber /\ Congruent(isn_ + n, w)
  BY <1>1, Remainder
<1>3. w \in Int
  BY <1>2, Word32Assumption DEF SequenceNumber
<1> HIDE DEF w
<1>4. Congruent((isn_ + n) - isn_, w - isn_) /\ (isn_ + n) - isn_ = n
  <2> DEFINE a == isn_ + n
  <2>1. a \in Int /\ Congruent(a, w)
    BY <1>1, <1>2
  <2>2. a - isn_ = n
    BY <1>1
  <2> HIDE DEF a
  <2>3. Congruent(a - isn_, w - isn_)
    BY <1>1, <1>3, <2>1, CongruentMoved
  <2>4. QED
    BY <2>2, <2>3 DEF a
<1>5. Congruent(w - isn_, n)
  BY <1>1, <1>3, <1>4, CongruentSwapped
<1>6. QED
  BY <1>2, <1>5 DEF w

LEMMA Offset ==
  ASSUME NEW isn_ \in SequenceNumber, NEW seqno \in SequenceNumber
  PROVE  /\ Offset32(seqno, isn_) \in SequenceNumber
         /\ Congruent(Offset32(seqno, isn_), seqno - isn_)
<1>1. isn_ \in 0..Word32 - 1 /\ seqno \in 0..Word32 - 1 /\ Word32 \in Nat
  BY Word32Assumption DEF SequenceNumber
<1>2. CASE seqno < isn_
  <2>1. Offset32(seqno, isn_) = (seqno - isn_) + Word32
    BY <1>1, <1>2 DEF Offset32
  <2>2. (seqno - isn_) + Word32 \in SequenceNumber /\ seqno - isn_ \in Int
    BY <1>1, <1>2 DEF SequenceNumber
  <2>3. QED
    BY <2>1, <2>2, CongruentMoved
<1>3. CASE ~(seqno < isn_)
  <2>1. Offset32(seqno, isn_) = seqno - isn_
    BY <1>1, <1>3 DEF Offset32
  <2>2. seqno - isn_ \in SequenceNumber /\ seqno - isn_ \in Int
    BY <1>1, <1>3 DEF SequenceNumber
  <2>3. QED
    BY <2>1, <2>2, CongruentMoved
<1>4. QED
  BY <1>2, <1>3

(* unwrap returns a number with the given offset that no other one is      *)
(* closer to the checkpoint than (src/src/wrapping_integers.cc:16-60).     *)
LEMMA UnwrapClosest ==
  ASSUME NEW isn_ \in SequenceNumber, NEW seqno \in SequenceNumber, NEW at \in Nat,
         at + 2 * Word32 < Word64
  PROVE  LET n == Unwrap(seqno, isn_, at)
         IN  /\ n \in 0..at + 2 * Word32
             /\ Congruent(n, seqno - isn_)
             /\ \A m \in Nat : Congruent(m, seqno - isn_)
                  => AbsoluteDelta(at, n) <= AbsoluteDelta(at, m)
<1> DEFINE tmp  == Offset32(seqno, isn_)
           up   == at + ((tmp - at) % Word32)
           down == at - ((at - tmp) % Word32)
           dist == seqno - isn_
<1>1. /\ tmp \in 0..Word32 - 1 /\ Congruent(tmp, dist) /\ dist \in Int
      /\ Word32 \in Nat \ {0} /\ Word64 \in Nat /\ tmp \in Int
  BY Offset, Word32Assumption, Word64Assumption DEF SequenceNumber
<1> HIDE DEF tmp, dist
<1>2. CASE tmp >= at
  <2>1. up = tmp
    <3>1. tmp - at \in 0..Word32 - 1
      BY <1>1, <1>2
    <3>2. (tmp - at) % Word32 = tmp - at
      <4> DEFINE x == tmp - at
      <4>1. x \in 0..Word32 - 1 /\ Word32 \in Nat \ {0}
        BY <1>1, <3>1
      <4> HIDE DEF x
      <4>2. x % Word32 = x
        BY <4>1
      <4>3. QED
        BY <4>2 DEF x
    <3>3. QED
      BY <1>1, <3>2
  <2>2. Difference64(tmp, Word32) = tmp - Word32 + Word64
    BY <1>1 DEF Difference64
  <2>3. AbsoluteDelta(at, tmp) = tmp - at
    BY <1>1, <1>2 DEF AbsoluteDelta
  <2>4. AbsoluteDelta(at, tmp - Word32 + Word64) >= tmp - at
    BY <1>1, <1>2 DEF AbsoluteDelta
  <2>5. Unwrap(seqno, isn_, at) = tmp
    <3>1. Unwrap(seqno, isn_, at)
            = IF AbsoluteDelta(at, Difference64(up, Word32)) < AbsoluteDelta(at, up)
              THEN Difference64(up, Word32) ELSE up
      BY <1>2 DEF Unwrap, tmp
    <3> HIDE DEF up
    <3>2. ~(AbsoluteDelta(at, tmp - Word32 + Word64) < AbsoluteDelta(at, tmp))
      BY <1>1, <2>3, <2>4 DEF AbsoluteDelta
    <3>3. QED
      BY <2>1, <2>2, <3>1, <3>2
  <2>6. ASSUME NEW m \in Nat, Congruent(m, dist)
        PROVE  AbsoluteDelta(at, tmp) <= AbsoluteDelta(at, m)
    <3>1. Congruent(m, tmp)
      BY <1>1, <2>6, CongruentSwapped, CongruentJoined
    <3>2. CASE m < tmp
      <4>1. m - tmp < Word32 /\ tmp - m < Word32
        BY <1>1, <3>2
      <4>2. m = tmp
        BY <1>1, <3>1, <4>1, CongruentClose
      <4>3. QED
        BY <1>1, <3>2, <4>2
    <3>3. CASE m >= tmp
      BY <1>1, <1>2, <3>3 DEF AbsoluteDelta
    <3>4. QED
      BY <1>1, <3>2, <3>3
  <2>7. tmp \in 0..at + 2 * Word32
    BY <1>1
  <2>8. QED
    BY <1>1, <2>5, <2>6, <2>7 DEF dist
<1>3. CASE ~(tmp >= at)
  <2> DEFINE r == (at - tmp) % Word32
  <2>1. at - tmp \in Nat /\ at - tmp > 0
    BY <1>1, <1>3
  <2>2. r \in 0..Word32 - 1 /\ Congruent(at - tmp, r) /\ r <= at - tmp
    <3>1. r \in SequenceNumber /\ Congruent(at - tmp, r)
      BY <2>1, Remainder
    <3>2. CASE at - tmp < r
      <4>1. r \in Int /\ at - tmp \in Int /\ (at - tmp) - r < Word32 /\ r - (at - tmp) < Word32
        BY <1>1, <2>1, <3>1, <3>2 DEF SequenceNumber
      <4> HIDE DEF r
      <4>2. at - tmp = r
        BY <3>1, <4>1, CongruentClose
      <4>3. QED
        BY <3>1, <4>1, <4>2 DEF SequenceNumber
    <3> HIDE DEF r
    <3>3. QED
      BY <1>1, <2>1, <3>1, <3>2 DEF SequenceNumber
  <2>3. down = at - r
    OBVIOUS
  <2> HIDE DEF down, r
  <2>4. /\ down \in Nat /\ down <= at /\ at - down < Word32
        /\ Congruent(down, dist)
    <3>1. down \in Nat /\ down <= at /\ at - down < Word32 /\ r \in Int
      <4>1. r \in Nat /\ r < Word32 /\ r <= at - tmp
        BY <1>1, <2>2
      <4>2. at - tmp <= at /\ at - tmp \in Int
        BY <1>1
      <4>3. r <= at
        BY <4>1, <4>2
      <4>4. QED
        BY <1>1, <2>3, <4>1, <4>3
    <3> DEFINE x == at - tmp
               y == tmp - r
    <3>2. Congruent(x + y, r + y)
      <4>1. x \in Int /\ y \in Int /\ Congruent(x, r)
        BY <1>1, <2>1, <2>2, <3>1
      <4> HIDE DEF x, y
      <4>2. QED
        BY <3>1, <4>1, CongruentMoved
    <3>3. x + y = down /\ r + y = tmp
      BY <1>1, <2>3, <3>1
    <3> HIDE DEF x, y
    <3>4. Congruent(down, tmp)
      BY <3>2, <3>3
    <3>5. QED
      BY <1>1, <3>1, <3>4, CongruentJoined
  <2>5. Sum64(down, Word32) = down + Word32
    <3> DEFINE x == down + Word32
    <3>1. x \in 0..Word64 - 1 /\ Word64 \in Nat \ {0}
      BY <1>1, <2>4, Word64Assumption
    <3> HIDE DEF x
    <3>2. x % Word64 = x
      BY <3>1
    <3>3. QED
      BY <3>2 DEF Sum64, x
  <2> DEFINE other == down + Word32
  <2>6. other \in Nat /\ Congruent(other, dist) /\ other > at
    <3>1. other \in Nat /\ other > at
      BY <1>1, <2>4
    <3>2. Congruent(other, down)
      BY <1>1, <2>4, CongruentMoved
    <3> HIDE DEF other
    <3>3. QED
      BY <1>1, <2>4, <3>1, <3>2, CongruentJoined
  <2>7. Unwrap(seqno, isn_, at)
          = IF AbsoluteDelta(at, other) < AbsoluteDelta(at, down) THEN other ELSE down
    <3>1. Unwrap(seqno, isn_, at)
            = IF AbsoluteDelta(at, Sum64(down, Word32)) < AbsoluteDelta(at, down)
              THEN Sum64(down, Word32) ELSE down
      BY <1>3 DEF Unwrap, tmp, down
    <3>2. QED
      BY <2>5, <3>1
  <2>8. ASSUME NEW m \in Nat, Congruent(m, dist)
        PROVE  m <= down \/ m >= other
    <3>1. CASE down < m /\ m < other
      <4>1. m - down < Word32 /\ down - m < Word32
        BY <1>1, <2>4, <3>1
      <4>2. Congruent(m, down)
        BY <1>1, <2>4, <2>8, CongruentSwapped, CongruentJoined
      <4>3. m = down
        BY <2>4, <4>1, <4>2, CongruentClose
      <4>4. QED
        BY <2>4, <3>1, <4>3
    <3> HIDE DEF other
    <3>2. QED
      BY <2>4, <2>6, <3>1
  <2>9. other <= at + 2 * Word32 /\ down <= at + 2 * Word32
    BY <1>1, <2>4
  <2> HIDE DEF other
  <2>10. ASSUME NEW m \in Nat, Congruent(m, dist)
         PROVE  \/ AbsoluteDelta(at, down) <= AbsoluteDelta(at, m)
                \/ AbsoluteDelta(at, other) <= AbsoluteDelta(at, m)
    <3>1. m <= down \/ m >= other
      BY <2>8, <2>10
    <3>2. QED
      BY <2>4, <2>6, <3>1 DEF AbsoluteDelta
  <2>11. AbsoluteDelta(at, down) \in Nat /\ AbsoluteDelta(at, other) \in Nat
    BY <2>4, <2>6 DEF AbsoluteDelta
  <2>12. \A m \in Nat : AbsoluteDelta(at, m) \in Nat
    BY DEF AbsoluteDelta
  <2> DEFINE n == IF AbsoluteDelta(at, other) < AbsoluteDelta(at, down) THEN other ELSE down
  <2>13. n \in 0..at + 2 * Word32 /\ Congruent(n, dist)
    BY <1>1, <2>4, <2>6, <2>9
  <2>14. ASSUME NEW m \in Nat, Congruent(m, dist)
         PROVE  AbsoluteDelta(at, n) <= AbsoluteDelta(at, m)
    BY <2>10, <2>11, <2>12, <2>14
  <2> HIDE DEF n
  <2>15. Unwrap(seqno, isn_, at) = n
    BY <2>7 DEF n
  <2>16. QED
    BY <2>13, <2>14, <2>15 DEF dist
<1>4. QED
  BY <1>2, <1>3

(* What was wrapped is recovered at a checkpoint less than half the        *)
(* sequence space away.                                                    *)
LEMMA UnwrapWrapped ==
  ASSUME NEW isn_ \in SequenceNumber, NEW n \in Nat, NEW at \in Nat,
         at + 2 * Word32 < Word64, 2 * AbsoluteDelta(n, at) < Word32
  PROVE  Unwrap(Wrap(n, isn_), isn_, at) = n
<1> DEFINE w == Wrap(n, isn_)
           u == Unwrap(w, isn_, at)
           dist == w - isn_
<1>1. w \in SequenceNumber /\ Congruent(dist, n) /\ Word32 \in Nat /\ dist \in Int
  BY Wrapped, Word32Assumption DEF SequenceNumber
<1> HIDE DEF w
<1>2. /\ u \in 0..at + 2 * Word32
      /\ Congruent(u, dist)
      /\ \A m \in Nat : Congruent(m, dist) => AbsoluteDelta(at, u) <= AbsoluteDelta(at, m)
  BY <1>1, UnwrapClosest
<1> HIDE DEF u, dist
<1>3. u \in Nat
  BY <1>1, <1>2
<1>4. Congruent(u, n) /\ Congruent(n, dist)
  BY <1>1, <1>2, <1>3, CongruentSwapped, CongruentJoined
<1>5. AbsoluteDelta(at, u) <= AbsoluteDelta(at, n)
  BY <1>2, <1>4
<1>6. u - n < Word32 /\ n - u < Word32
  BY <1>1, <1>3, <1>5 DEF AbsoluteDelta
<1>7. u = n
  BY <1>3, <1>4, <1>6, CongruentClose
<1>8. QED
  BY <1>7 DEF u, w

=============================================================================

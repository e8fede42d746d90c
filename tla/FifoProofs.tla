----------------------------- MODULE FifoProofs -----------------------------
(***************************************************************************)
(* Proofs about the fifo channel, for every capacity and every length of   *)
(* the string.  What CountExact says of the two indices is kept in a form  *)
(* without modulo: the write index is mElementNum places after the read    *)
(* index, unless it has wrapped around the buffer once.  What the channel  *)
(* holds is stated by ContentInOrder, which needs the arithmetic of modulo *)
(* of Remainders.                                                          *)
(***************************************************************************)
EXTENDS Fifo, Remainders, SequenceTheorems, TLAPS

\* The distance of the indices is the count.
IndexDistance == \/ writeIndex = readIndex + mElementNum
                 \/ writeIndex = readIndex + mElementNum - mSize

\* The strengthening of CountExact that every step preserves.
CountInv == /\ TypeOK
            /\ mElementNum \in 0 .. mSize
            /\ IndexDistance
            /\ consumer = "woken" => mElementNum > 0
            /\ producer = "woken" => mElementNum < mSize

\* The next index stays in the buffer and is one place on, or back at the start.
LEMMA NextIndexWraps ==
    ASSUME NEW k \in 0 .. (mSize - 1)
    PROVE  /\ NextIndex(k) \in 0 .. (mSize - 1)
           /\ NextIndex(k) = IF k = mSize - 1 THEN 0 ELSE k + 1
  BY SizeAssumption DEF NextIndex

\* The producer's i stays in the string.
LEMMA CharWraps ==
    ASSUME NEW k \in Char
    PROVE  (k + 1) % Length \in Char
  BY LengthAssumption DEF Char

\* The type invariant is inductive, whatever mElementNum held at the start.
LEMMA TypeInit == Init => TypeOK
  <1> SUFFICES ASSUME Init PROVE TypeOK
    OBVIOUS
  <1>1. 0 \in 0 .. (mSize - 1) /\ 0 \in Char
    BY SizeAssumption, LengthAssumption DEF Char
  <1>2. buffer \in [0 .. (mSize - 1) -> Char \cup {Garbage}]
    BY DEF Init
  <1> QED
    BY <1>1, <1>2, CountAssumption DEF Init, TypeOK, ThreadState

LEMMA TypeNext == TypeOK /\ [Next]_vars => TypeOK'
  <1> SUFFICES ASSUME TypeOK, [Next]_vars PROVE TypeOK'
    OBVIOUS
  <1> USE DEF TypeOK
  <1>1. CASE ProducerWaits
    BY <1>1 DEF ProducerWaits, channelVars, consumerVars, ThreadState
  <1>2. CASE ProducerWrites
    <2>1. written' \in Char
      BY <1>2, CharWraps DEF ProducerWrites
    <2>2. writeIndex' \in 0 .. (mSize - 1)
      BY <1>2, NextIndexWraps DEF ProducerWrites, Insert
    <2>3. buffer' \in [0 .. (mSize - 1) -> Char \cup {Garbage}]
      BY <1>2 DEF ProducerWrites, Insert
    <2>4. mElementNum' \in Int
      BY <1>2 DEF ProducerWrites, Insert
    <2> QED
      BY <1>2, <2>1, <2>2, <2>3, <2>4
      DEF ProducerWrites, Insert, consumerVars, ThreadState
  <1>3. CASE ConsumerWaits
    BY <1>3 DEF ConsumerWaits, channelVars, producerVars, ThreadState
  <1>4. CASE ConsumerReads
    <2>1. read' \in Char
      BY <1>4, CharWraps DEF ConsumerReads
    <2>2. readIndex' \in 0 .. (mSize - 1)
      BY <1>4, NextIndexWraps DEF ConsumerReads, Remove
    <2>3. received' \in Char \cup {Garbage}
      BY <1>4 DEF ConsumerReads, Remove
    <2>4. mElementNum' \in Int
      BY <1>4 DEF ConsumerReads, Remove
    <2> QED
      BY <1>4, <2>1, <2>2, <2>3, <2>4
      DEF ConsumerReads, Remove, producerVars, ThreadState
  <1>5. CASE Update
    BY <1>5 DEF Update, Wake, ThreadState
  <1>6. ASSUME NEW clocks \in {{"slow"}, {"fast"}, {"slow", "fast"}}, Tick(clocks)
        PROVE  TypeOK'
    BY <1>6 DEF Tick, Edge, channelVars, ThreadState
  <1>7. CASE UNCHANGED vars
    BY <1>7 DEF vars, channelVars, producerVars, consumerVars
  <1> QED
    BY <1>1, <1>2, <1>3, <1>4, <1>5, <1>6, <1>7 DEF Next

-----------------------------------------------------------------------------
\* The indices never leave the buffer and the two threads never leave the string,
\* whatever the uninitialised count holds (fifo.h:8-14).
THEOREM TypeCorrect == Spec => []TypeOK
  BY TypeInit, TypeNext, PTL DEF Spec

-----------------------------------------------------------------------------
LEMMA CountInit ==
    ASSUME InitialElementNum = {0}
    PROVE  Init => CountInv
  <1> SUFFICES ASSUME Init PROVE CountInv
    OBVIOUS
  <1>1. TypeOK
    BY TypeInit
  <1> QED
    BY <1>1, SizeAssumption DEF Init, CountInv, IndexDistance

\* A write with room, or after data_read_event, leaves the indices in agreement.
LEMMA CountWrites == CountInv /\ ProducerWrites => CountInv'
  <1> SUFFICES ASSUME CountInv, ProducerWrites PROVE CountInv'
    OBVIOUS
  <1> USE DEF CountInv
  <1>1. TypeOK'
    BY TypeNext DEF Next
  <1>2. mElementNum \in 0 .. (mSize - 1)
    BY SizeAssumption DEF ProducerWrites, full
  <1>3. /\ mElementNum' = mElementNum + 1 /\ readIndex' = readIndex
        /\ writeIndex' = IF writeIndex = mSize - 1 THEN 0 ELSE writeIndex + 1
        /\ producer' = "clock"
    BY NextIndexWraps DEF ProducerWrites, Insert, TypeOK
  <1>4. IndexDistance'
    BY <1>2, <1>3, SizeAssumption DEF TypeOK, IndexDistance
  <1> QED
    BY <1>1, <1>2, <1>3, <1>4, SizeAssumption

LEMMA CountReads == CountInv /\ ConsumerReads => CountInv'
  <1> SUFFICES ASSUME CountInv, ConsumerReads PROVE CountInv'
    OBVIOUS
  <1> USE DEF CountInv
  <1>1. TypeOK'
    BY TypeNext DEF Next
  <1>2. mElementNum \in 1 .. mSize
    BY SizeAssumption DEF ConsumerReads, empty
  <1>3. /\ mElementNum' = mElementNum - 1 /\ writeIndex' = writeIndex
        /\ readIndex' = IF readIndex = mSize - 1 THEN 0 ELSE readIndex + 1
        /\ consumer' = "clock"
    BY NextIndexWraps DEF ConsumerReads, Remove, TypeOK
  <1>4. IndexDistance'
    BY <1>2, <1>3, SizeAssumption DEF TypeOK, IndexDistance
  <1> QED
    BY <1>1, <1>2, <1>3, <1>4, SizeAssumption

LEMMA CountNext == CountInv /\ [Next]_vars => CountInv'
  <1> SUFFICES ASSUME CountInv, [Next]_vars PROVE CountInv'
    OBVIOUS
  <1>1. TypeOK'
    BY TypeNext DEF CountInv
  <1> USE <1>1 DEF CountInv, IndexDistance
  <1>2. CASE ProducerWaits
    BY <1>2 DEF ProducerWaits, channelVars, consumerVars
  <1>3. CASE ProducerWrites
    BY <1>3, CountWrites
  <1>4. CASE ConsumerWaits
    BY <1>4 DEF ConsumerWaits, channelVars, producerVars
  <1>5. CASE ConsumerReads
    BY <1>5, CountReads
  <1>6. CASE Update
    BY <1>6, SizeAssumption DEF Update, Evaluated, Wake, full
  <1>7. ASSUME NEW clocks \in {{"slow"}, {"fast"}, {"slow", "fast"}}, Tick(clocks)
        PROVE  CountInv'
    BY <1>7 DEF Tick, Evaluated, Edge, channelVars
  <1>8. CASE UNCHANGED vars
    BY <1>8 DEF vars, channelVars, producerVars, consumerVars
  <1> QED
    BY <1>2, <1>3, <1>4, <1>5, <1>6, <1>7, <1>8 DEF Next

LEMMA CountInvSuffices == CountInv => CountExact
  <1> SUFFICES ASSUME CountInv PROVE CountExact
    OBVIOUS
  <1> USE DEF CountInv
  <1>1. \/ writeIndex - readIndex = mElementNum
        \/ writeIndex - readIndex = mElementNum - mSize
    BY SizeAssumption DEF IndexDistance, TypeOK
  <1>2. (mElementNum - mSize) % mSize = mElementNum % mSize
    BY SizeAssumption
  <1> QED
    BY <1>1, <1>2 DEF CountExact

-----------------------------------------------------------------------------
\* A channel that starts with a count of zero keeps it exact, and a thread that is
\* woken, which does not look again (fifo.cc:6, 22), finds what it was woken for,
\* for every capacity of the channel and every interleaving of the two threads.
THEOREM CountStaysExact ==
    ASSUME InitialElementNum = {0}
    PROVE  Spec => []CountExact
  <1>1. Init => CountInv
    BY CountInit
  <1>2. CountInv /\ [Next]_vars => CountInv'
    BY CountNext
  <1>3. CountInv => CountExact
    BY CountInvSuffices
  <1> QED
    BY <1>1, <1>2, <1>3, PTL DEF Spec

-----------------------------------------------------------------------------
\* The places of fewer than mSize successive elements differ.
LEMMA PlacesDiffer ==
    ASSUME NEW r \in 0 .. (mSize - 1), NEW j \in 0 .. (mSize - 1),
           NEW k \in 0 .. (mSize - 1), j # k
    PROVE  (r + j) % mSize # (r + k) % mSize
  <1>1. (r + j) % mSize = IF r + j < mSize THEN r + j ELSE r + j - mSize
    BY SizeAssumption
  <1>2. (r + k) % mSize = IF r + k < mSize THEN r + k ELSE r + k - mSize
    BY SizeAssumption
  <1> QED
    BY <1>1, <1>2, SizeAssumption

-----------------------------------------------------------------------------
\* What is in the channel, from the next one to read to the last one written, is
\* the piece of the string that ends before the producer's i.
ContentInOrder ==
    /\ written = (read + mElementNum) % Length
    /\ writeIndex = (readIndex + mElementNum) % mSize
    /\ \A j \in 0 .. (mElementNum - 1) :
          buffer[(readIndex + j) % mSize] = (read + j) % Length

OrderInv == CountInv /\ ContentInOrder

LEMMA OrderInit ==
    ASSUME InitialElementNum = {0}
    PROVE  Init => OrderInv
  <1> SUFFICES ASSUME Init PROVE OrderInv
    OBVIOUS
  <1>1. CountInv
    BY CountInit
  <1>2. 0 % Length = 0 /\ 0 % mSize = 0
    BY SizeAssumption, LengthAssumption
  <1> QED
    BY <1>1, <1>2 DEF Init, OrderInv, ContentInOrder

LEMMA OrderWrites == OrderInv /\ ProducerWrites => ContentInOrder'
  <1> SUFFICES ASSUME OrderInv, ProducerWrites PROVE ContentInOrder'
    OBVIOUS
  <1> DEFINE n == mElementNum
  <1>1. /\ read \in Nat /\ readIndex \in 0 .. (mSize - 1)
        /\ writeIndex \in 0 .. (mSize - 1)
        /\ DOMAIN buffer = 0 .. (mSize - 1)
    BY SizeAssumption DEF OrderInv, CountInv, TypeOK, Char
  <1>2. n \in 0 .. (mSize - 1)
    BY SizeAssumption DEF OrderInv, CountInv, ProducerWrites, full
  <1>3. /\ buffer' = [buffer EXCEPT ![writeIndex] = written]
        /\ writeIndex' = (writeIndex + 1) % mSize
        /\ written' = (written + 1) % Length
        /\ mElementNum' = n + 1
        /\ read' = read /\ readIndex' = readIndex
    BY DEF ProducerWrites, Insert, NextIndex, consumerVars
  <1>4. written = (read + n) % Length /\ writeIndex = (readIndex + n) % mSize
    BY DEF OrderInv, ContentInOrder
  <1>5. written' = (read + (n + 1)) % Length
    <2>1. read + n \in Nat /\ (read + n) + 1 = read + (n + 1)
      BY <1>1, <1>2
    <2>2. (((read + n) % Length) + 1) % Length = ((read + n) + 1) % Length
      BY <2>1, RemainderAdds, LengthAssumption
    <2> QED
      BY <2>1, <2>2, <1>3, <1>4
  <1>6. writeIndex' = (readIndex + (n + 1)) % mSize
    <2>1. readIndex + n \in Nat /\ (readIndex + n) + 1 = readIndex + (n + 1)
      BY <1>1, <1>2
    <2>2. (((readIndex + n) % mSize) + 1) % mSize = ((readIndex + n) + 1) % mSize
      BY <2>1, RemainderAdds, SizeAssumption
    <2> QED
      BY <2>1, <2>2, <1>3, <1>4
  <1>7. ASSUME NEW j \in 0 .. n
        PROVE  buffer'[(readIndex + j) % mSize] = (read + j) % Length
    <2>1. CASE j = n
      BY <2>1, <1>1, <1>3, <1>4
    <2>2. CASE j # n
      <3>1. j \in 0 .. (n - 1)
        BY <2>2, <1>2
      <3>2. (readIndex + j) % mSize # writeIndex
        <4>1. j \in 0 .. (mSize - 1)
          BY <1>2, SizeAssumption
        <4> QED
          BY <4>1, <2>2, <1>1, <1>2, <1>4, PlacesDiffer
      <3>3. buffer'[(readIndex + j) % mSize] = buffer[(readIndex + j) % mSize]
        BY <3>2, <1>1, <1>2, <1>3, SizeAssumption
      <3> QED
        BY <3>1, <3>3 DEF OrderInv, ContentInOrder
    <2> QED
      BY <2>1, <2>2
  <1>8. 0 .. (mElementNum' - 1) = 0 .. n
    BY <1>2, <1>3
  <1> QED
    BY <1>3, <1>5, <1>6, <1>7, <1>8 DEF ContentInOrder

LEMMA OrderReads == OrderInv /\ ConsumerReads => ContentInOrder' /\ received' = read
  <1> SUFFICES ASSUME OrderInv, ConsumerReads
               PROVE  ContentInOrder' /\ received' = read
    OBVIOUS
  <1> DEFINE n == mElementNum
  <1>1. /\ read \in 0 .. (Length - 1) /\ readIndex \in 0 .. (mSize - 1)
    BY DEF OrderInv, CountInv, TypeOK, Char
  <1>2. n \in 1 .. mSize
    BY SizeAssumption DEF OrderInv, CountInv, ConsumerReads, empty
  <1>3. /\ received' = buffer[readIndex]
        /\ readIndex' = (readIndex + 1) % mSize
        /\ read' = (read + 1) % Length
        /\ mElementNum' = n - 1
        /\ buffer' = buffer /\ writeIndex' = writeIndex /\ written' = written
    BY DEF ConsumerReads, Remove, NextIndex, producerVars
  <1>4. ASSUME NEW b \in Nat
        PROVE  /\ (read' + b) % Length = (read + (b + 1)) % Length
               /\ (readIndex' + b) % mSize = (readIndex + (b + 1)) % mSize
    <2>1. /\ (read' + b) % Length = ((read + 1) + b) % Length
          /\ (readIndex' + b) % mSize = ((readIndex + 1) + b) % mSize
      BY <1>1, <1>3, RemainderAdds, SizeAssumption, LengthAssumption,
         read + 1 \in Nat, readIndex + 1 \in Nat
    <2>2. (read + 1) + b = read + (b + 1) /\ (readIndex + 1) + b = readIndex + (b + 1)
      BY <1>1
    <2> QED
      BY <2>1, <2>2
  <1>5. /\ written' = (read' + mElementNum') % Length
        /\ writeIndex' = (readIndex' + mElementNum') % mSize
    <2>1. n - 1 \in Nat /\ (n - 1) + 1 = n
      BY <1>2
    <2> QED
      BY <2>1, <1>3, <1>4 DEF OrderInv, ContentInOrder
  <1>6. ASSUME NEW j \in 0 .. (n - 2)
        PROVE  buffer'[(readIndex' + j) % mSize] = (read' + j) % Length
    <2>1. j \in Nat /\ j + 1 \in 0 .. (n - 1)
      BY <1>2
    <2> QED
      BY <2>1, <1>3, <1>4 DEF OrderInv, ContentInOrder
  <1>7. received' = read
    <2>1. 0 \in 0 .. (n - 1)
      BY <1>2
    <2>2. buffer[(readIndex + 0) % mSize] = (read + 0) % Length
      BY <2>1 DEF OrderInv, ContentInOrder
    <2>3. (readIndex + 0) % mSize = readIndex /\ (read + 0) % Length = read
      BY <1>1, SizeAssumption, LengthAssumption
    <2> QED
      BY <2>2, <2>3, <1>3
  <1>8. 0 .. (mElementNum' - 1) = 0 .. (n - 2)
    BY <1>2, <1>3
  <1> QED
    BY <1>3, <1>5, <1>6, <1>7, <1>8 DEF ContentInOrder

\* The other steps leave the channel and the two threads' places alone.
LEMMA OthersKeepContent ==
    ASSUME \/ ProducerWaits \/ ConsumerWaits \/ Update
           \/ \E clocks \in {{"slow"}, {"fast"}, {"slow", "fast"}} : Tick(clocks)
           \/ UNCHANGED vars
    PROVE  UNCHANGED <<mElementNum, writeIndex, readIndex, buffer, written, read, received>>
  BY DEF ProducerWaits, ConsumerWaits, Update, Tick, vars, channelVars, producerVars,
         consumerVars

LEMMA OrderNext == OrderInv /\ [Next]_vars => OrderInv'
  <1> SUFFICES ASSUME OrderInv, [Next]_vars PROVE OrderInv'
    OBVIOUS
  <1>1. CountInv'
    BY CountNext DEF OrderInv
  <1>2. CASE ProducerWrites
    BY <1>1, <1>2, OrderWrites DEF OrderInv
  <1>3. CASE ConsumerReads
    BY <1>1, <1>3, OrderReads DEF OrderInv
  <1>4. CASE UNCHANGED <<mElementNum, writeIndex, readIndex, buffer, written, read, received>>
    BY <1>1, <1>4 DEF OrderInv, ContentInOrder
  <1> QED
    BY <1>2, <1>3, <1>4, OthersKeepContent DEF Next

\* The k-th character read is the k-th of the string, whatever the capacity, the
\* length of the string and the interleaving (producer.cc:5).
THEOREM StringArrivesInOrder ==
    ASSUME InitialElementNum = {0}
    PROVE  Spec => ReadsInOrder
  <1>1. Init => OrderInv
    BY OrderInit
  <1>2. OrderInv /\ [Next]_vars => OrderInv'
    BY OrderNext
  <1>3. OrderInv /\ [Next]_vars => [read' # read => received' = read]_vars
    <2> SUFFICES ASSUME OrderInv, [Next]_vars, read' # read PROVE received' = read
      OBVIOUS
    <2>1. CASE ProducerWrites
      BY <2>1 DEF ProducerWrites, consumerVars
    <2>2. CASE ConsumerReads
      BY <2>2, OrderReads
    <2> QED
      BY <2>1, <2>2, OthersKeepContent DEF Next
  <1> QED
    BY <1>1, <1>2, <1>3, PTL DEF Spec, ReadsInOrder

-----------------------------------------------------------------------------
(***************************************************************************)
(* The refinement of the bounded queue.                                    *)
(***************************************************************************)
LEMMA QueueType == OrderInv => contents \in Seq(Char) /\ Len(contents) = mElementNum
  <1> SUFFICES ASSUME OrderInv
               PROVE  contents \in Seq(Char) /\ Len(contents) = mElementNum
    OBVIOUS
  <1>1. mElementNum \in Nat /\ readIndex \in Nat /\ read \in Nat
    BY SizeAssumption DEF OrderInv, CountInv, TypeOK, Char
  <1>2. ASSUME NEW k \in 1 .. mElementNum
        PROVE  buffer[(readIndex + k - 1) % mSize] \in Char
    <2>1. k - 1 \in 0 .. (mElementNum - 1) /\ readIndex + k - 1 = readIndex + (k - 1)
      BY <1>1
    <2>2. buffer[(readIndex + (k - 1)) % mSize] = (read + (k - 1)) % Length
      BY <2>1 DEF OrderInv, ContentInOrder
    <2>3. (read + (k - 1)) % Length \in Char
      BY <2>1, <1>1, LengthAssumption DEF Char
    <2> QED
      BY <2>1, <2>2, <2>3
  <1>3. contents \in [1 .. mElementNum -> Char]
    BY <1>2 DEF contents
  <1> QED
    BY <1>1, <1>3

\* A sequence is the function of its elements.
LEMMA Elements ==
    ASSUME NEW S, NEW q \in Seq(S)
    PROVE  /\ q = [k \in 1 .. Len(q) |-> q[k]]
           /\ Len(q) \in Nat
  OBVIOUS

LEMMA AppendByElements ==
    ASSUME NEW S, NEW q \in Seq(S), NEW c \in S, NEW n \in Nat, Len(q) = n
    PROVE  Append(q, c) = [k \in 1 .. (n + 1) |-> IF k = n + 1 THEN c ELSE q[k]]
  <1> DEFINE r == Append(q, c)
  <1>1. /\ r \in Seq(S) /\ Len(r) = n + 1
        /\ \A k \in 1 .. (n + 1) : r[k] = IF k = n + 1 THEN c ELSE q[k]
    BY AppendProperties
  <1> HIDE DEF r
  <1>2. r = [k \in 1 .. (n + 1) |-> r[k]]
    BY <1>1, Elements
  <1> QED
    BY <1>1, <1>2 DEF r

LEMMA TailByElements ==
    ASSUME NEW S, NEW q \in Seq(S), NEW n \in Nat \ {0}, Len(q) = n
    PROVE  Tail(q) = [k \in 1 .. (n - 1) |-> q[k + 1]] /\ q # << >>
  <1> DEFINE r == Tail(q)
  <1>1. q # << >>
    OBVIOUS
  <1>2. /\ r \in Seq(S) /\ Len(r) = n - 1
        /\ \A k \in 1 .. (n - 1) : r[k] = q[k + 1]
    BY <1>1, HeadTailProperties
  <1> HIDE DEF r
  <1>3. r = [k \in 1 .. (n - 1) |-> r[k]]
    BY <1>2, Elements
  <1> QED
    BY <1>1, <1>2, <1>3 DEF r

LEMMA WriteMaps == OrderInv /\ ProducerWrites => BQ!Write(written)
  <1> SUFFICES ASSUME OrderInv, ProducerWrites PROVE BQ!Write(written)
    OBVIOUS
  <1> DEFINE n == mElementNum
  <1>1. /\ n \in 0 .. (mSize - 1) /\ n' = n + 1 /\ readIndex' = readIndex
        /\ readIndex \in 0 .. (mSize - 1) /\ writeIndex \in 0 .. (mSize - 1)
        /\ buffer' = [buffer EXCEPT ![writeIndex] = written]
        /\ DOMAIN buffer = 0 .. (mSize - 1)
        /\ writeIndex = (readIndex + n) % mSize
    BY SizeAssumption
    DEF OrderInv, CountInv, TypeOK, ContentInOrder, ProducerWrites, Insert, full
  <1>2. contents \in Seq(Char) /\ Len(contents) = n
    BY QueueType
  <1>3. ASSUME NEW k \in 1 .. (n + 1)
        PROVE  contents'[k] = IF k = n + 1 THEN written ELSE contents[k]
    <2>1. readIndex + k - 1 = readIndex + (k - 1)
      BY <1>1
    <2>2. contents'[k] = buffer'[(readIndex + (k - 1)) % mSize]
      BY <1>1, <2>1 DEF contents
    <2>3. CASE k = n + 1
      BY <2>2, <2>3, <1>1
    <2>4. CASE k # n + 1
      <3>1. k \in 1 .. n /\ k - 1 \in 0 .. (mSize - 1) /\ n \in 0 .. (mSize - 1) /\ k - 1 # n
        BY <2>4, <1>1, SizeAssumption
      <3>2. (readIndex + (k - 1)) % mSize # writeIndex
        BY <3>1, <1>1, PlacesDiffer
      <3>3. (readIndex + (k - 1)) % mSize \in 0 .. (mSize - 1)
        BY <3>1, <1>1, SizeAssumption
      <3>4. contents[k] = buffer[(readIndex + (k - 1)) % mSize]
        BY <3>1, <2>1 DEF contents
      <3> QED
        BY <2>2, <2>4, <3>2, <3>3, <3>4, <1>1
    <2> QED
      BY <2>3, <2>4
  <1>4. contents' = [k \in 1 .. (n + 1) |-> IF k = n + 1 THEN written ELSE contents[k]]
    <2>1. contents' = [k \in 1 .. (n + 1) |-> contents'[k]]
      BY <1>1 DEF contents
    <2> QED
      BY <2>1, <1>3
  <1>5. contents' = Append(contents, written)
    <2> DEFINE q == contents   c == written
    <2>1. q \in Seq(Char) /\ Len(q) = n /\ n \in Nat
      BY <1>1, <1>2
    <2>2. contents' = [k \in 1 .. (n + 1) |-> IF k = n + 1 THEN c ELSE q[k]]
      BY <1>4
    <2>3. c \in Char
      BY DEF OrderInv, CountInv, TypeOK
    <2> HIDE DEF q, n, c
    <2>4. Append(q, c) = [k \in 1 .. (n + 1) |-> IF k = n + 1 THEN c ELSE q[k]]
      BY <2>1, <2>3, AppendByElements
    <2> QED
      BY <2>2, <2>4 DEF q, c
  <1> QED
    BY <1>1, <1>2, <1>5, SizeAssumption DEF BQ!Write

LEMMA ReadMaps == OrderInv /\ ConsumerReads => BQ!Read
  <1> SUFFICES ASSUME OrderInv, ConsumerReads PROVE BQ!Read
    OBVIOUS
  <1> DEFINE n == mElementNum
  <1>1. /\ n \in 1 .. mSize /\ n' = n - 1 /\ buffer' = buffer
        /\ readIndex' = (readIndex + 1) % mSize
        /\ readIndex \in Nat
    BY SizeAssumption
    DEF OrderInv, CountInv, TypeOK, ConsumerReads, Remove, NextIndex, empty
  <1>2. contents \in Seq(Char) /\ Len(contents) = n
    BY QueueType
  <1>3. ASSUME NEW k \in 1 .. (n - 1)
        PROVE  contents'[k] = contents[k + 1]
    <2>1. /\ k - 1 \in Nat /\ k + 1 \in 1 .. n
          /\ readIndex + 1 \in Nat
          /\ (readIndex + 1) + (k - 1) = readIndex + (k + 1) - 1
      BY <1>1
    <2>2. (((readIndex + 1) % mSize) + (k - 1)) % mSize = ((readIndex + 1) + (k - 1)) % mSize
      BY <2>1, RemainderAdds, SizeAssumption
    <2>3. contents'[k] = buffer[(readIndex' + k - 1) % mSize]
      BY <1>1 DEF contents
    <2>4. readIndex' + k - 1 = ((readIndex + 1) % mSize) + (k - 1)
      BY <1>1, SizeAssumption
    <2>5. contents[k + 1] = buffer[(readIndex + (k + 1) - 1) % mSize]
      BY <2>1 DEF contents
    <2> QED
      BY <2>1, <2>2, <2>3, <2>4, <2>5
  <1>4. contents' = [k \in 1 .. (n - 1) |-> contents[k + 1]]
    <2>1. contents' = [k \in 1 .. (n - 1) |-> contents'[k]]
      BY <1>1 DEF contents
    <2> QED
      BY <2>1, <1>3
  <1>5. contents' = Tail(contents) /\ contents # << >>
    BY <1>1, <1>2, <1>4, TailByElements
  <1> QED
    BY <1>5 DEF BQ!Read

\* The fifo channel implements the bounded queue.
THEOREM FifoImplementsQueue ==
    ASSUME InitialElementNum = {0}
    PROVE  Spec => ImplementsQueue
  <1>1. Init => OrderInv
    BY OrderInit
  <1>2. OrderInv /\ [Next]_vars => OrderInv'
    BY OrderNext
  <1>3. Init => BQ!Init
    <2> SUFFICES ASSUME Init PROVE contents = << >>
      BY DEF BQ!Init
    <2>1. OrderInv /\ mElementNum = 0
      BY OrderInit DEF Init
    <2> QED
      BY <2>1, QueueType
  <1>4. OrderInv /\ [Next]_vars => [BQ!Next]_contents
    <2> SUFFICES ASSUME OrderInv, [Next]_vars PROVE [BQ!Next]_contents
      OBVIOUS
    <2>1. CASE ProducerWrites
      <3>1. written \in Char
        BY DEF OrderInv, CountInv, TypeOK
      <3> QED
        BY <2>1, <3>1, WriteMaps DEF BQ!Next
    <2>2. CASE ConsumerReads
      BY <2>2, ReadMaps DEF BQ!Next
    <2>3. CASE UNCHANGED <<mElementNum, writeIndex, readIndex, buffer, written, read, received>>
      BY <2>3 DEF contents
    <2> QED
      BY <2>1, <2>2, <2>3, OthersKeepContent DEF Next
  <1> QED
    BY <1>1, <1>2, <1>3, <1>4, PTL DEF Spec, ImplementsQueue, BQ!Spec
-----------------------------------------------------------------------------
(***************************************************************************)
(* A count that does not start at zero.                                    *)
(***************************************************************************)

\* How far the count is off, in whole turns of the ring: by m, ever since the start.
OffBy(m) == \E k \in Int : writeIndex - readIndex = (mElementNum - m) + mSize * k

\* One place on in the ring is one more, but for whole turns.
LEMMA OnePlaceOn ==
    ASSUME NEW p \in 0 .. (mSize - 1)
    PROVE  NextIndex(p) = p + 1 + mSize * 0 \/ NextIndex(p) = p + 1 + mSize * (-1)
  <1>1. mSize * 0 = 0 /\ mSize * (-1) = -mSize
    BY SizeAssumption
  <1> QED
    BY <1>1, NextIndexWraps, SizeAssumption

LEMMA OffByStep ==
    ASSUME NEW m \in Int, TypeOK, OffBy(m), [Next]_vars
    PROVE  OffBy(m)'
  <1>1. PICK k \in Int : writeIndex - readIndex = (mElementNum - m) + mSize * k
    BY DEF OffBy
  <1>2. writeIndex \in Int /\ readIndex \in Int /\ mElementNum \in Int /\ mSize \in Int
    BY SizeAssumption DEF TypeOK
  <1>3. CASE ProducerWrites
    <2>1. PICK d \in {0, -1} : writeIndex' = writeIndex + 1 + mSize * d
      BY <1>3, OnePlaceOn DEF ProducerWrites, Insert, TypeOK
    <2>2. mSize * (k + d) = mSize * k + mSize * d /\ k + d \in Int
      BY <1>2
    <2>3. mElementNum' = mElementNum + 1 /\ readIndex' = readIndex
      BY <1>3 DEF ProducerWrites, Insert
    <2>4. writeIndex' - readIndex' = (mElementNum' - m) + mSize * (k + d)
      BY <1>1, <1>2, <2>1, <2>2, <2>3
    <2> QED
      BY <2>2, <2>4 DEF OffBy
  <1>4. CASE ConsumerReads
    <2>1. PICK d \in {0, -1} : readIndex' = readIndex + 1 + mSize * d
      BY <1>4, OnePlaceOn DEF ConsumerReads, Remove, TypeOK
    <2>2. mSize * (k - d) = mSize * k - mSize * d /\ k - d \in Int
      BY <1>2
    <2>3. mElementNum' = mElementNum - 1 /\ writeIndex' = writeIndex
      BY <1>4 DEF ConsumerReads, Remove
    <2>4. writeIndex' - readIndex' = (mElementNum' - m) + mSize * (k - d)
      BY <1>1, <1>2, <2>1, <2>2, <2>3
    <2> QED
      BY <2>2, <2>4 DEF OffBy
  <1>5. CASE UNCHANGED <<writeIndex, readIndex, mElementNum>>
    BY <1>5 DEF OffBy
  <1> QED
    BY <1>3, <1>4, <1>5
    DEF Next, ProducerWaits, ConsumerWaits, Update, Tick, vars, channelVars

\* A count that is off is off for good: unless what mElementNum held at the start
\* (fifo.h:8-14 leaves it as it is) is a whole number of turns of the ring, the
\* count and the indices disagree in every state of every run.  No pattern of
\* reads, writes and waits sets it right.
THEOREM WrongCountNeverHeals ==
    ASSUME NEW m \in Int, \A k \in Int : m # mSize * k
    PROVE  Spec /\ mElementNum = m => []~CountExact
  <1>1. Init /\ mElementNum = m => OffBy(m)
    <2>1. mSize * 0 = 0
      BY SizeAssumption
    <2> SUFFICES ASSUME Init, mElementNum = m PROVE OffBy(m)
      OBVIOUS
    <2>2. writeIndex - readIndex = (mElementNum - m) + mSize * 0
      BY <2>1 DEF Init
    <2> QED
      BY <2>2 DEF OffBy
  <1>2. TypeOK /\ OffBy(m) => ~CountExact
    <2> SUFFICES ASSUME TypeOK, OffBy(m), CountExact PROVE FALSE
      OBVIOUS
    <2>1. PICK k \in Int : writeIndex - readIndex = (mElementNum - m) + mSize * k
      BY DEF OffBy
    <2> DEFINE distance == writeIndex - readIndex
    <2>2. /\ distance \in Int /\ mElementNum \in Int
          /\ distance % mSize = mElementNum % mSize
      BY SizeAssumption DEF TypeOK, CountExact
    <2> HIDE DEF distance
    <2>3. PICK c \in Int : distance = mElementNum + mSize * c
      BY <2>2, SizeAssumption, SameRemainder
    <2>4. m = mSize * (k - c) /\ k - c \in Int
      <3>1. mSize * (k - c) = mSize * k - mSize * c
        BY SizeAssumption
      <3> QED
        BY <2>1, <2>2, <2>3, <3>1, SizeAssumption DEF distance
    <2> QED
      BY <2>4
  <1>3. TypeOK /\ OffBy(m) /\ [Next]_vars => OffBy(m)'
    BY OffByStep
  <1> QED
    BY <1>1, <1>2, <1>3, TypeCorrect, PTL DEF Spec
-----------------------------------------------------------------------------
(***************************************************************************)
(* Wake-ups.                                                               *)
(***************************************************************************)

\* A thread that waits has its reason, or the end of the delta cycle will wake it.
WaitsForAReason ==
    /\ consumer = "wait" => empty \/ updateRequested
    /\ producer = "wait" => full \/ updateRequested

\* No wake-up is lost: whatever the order of the two threads in a delta cycle, and whatever
\* mElementNum held at the start, a reader waits only while the channel is empty
\* and a writer only while it is full, but for the rest of the delta cycle that ends
\* the reason; so the two never wait for each other. What WaitsEnd adds is that
\* the other thread goes on.
THEOREM NoWakeUpLost ==
    Spec => [](/\ WaitsForAReason
               /\ {producer, consumer} = {"wait"} => updateRequested)
  <1>1. Init => WaitsForAReason
    BY DEF Init, WaitsForAReason
  <1>2. TypeOK /\ WaitsForAReason /\ [Next]_vars => WaitsForAReason'
    <2> SUFFICES ASSUME TypeOK, WaitsForAReason, [Next]_vars PROVE WaitsForAReason'
      OBVIOUS
    <2> USE DEF WaitsForAReason, empty, full
    <2>1. CASE ProducerWaits \/ ConsumerWaits
      BY <2>1 DEF ProducerWaits, ConsumerWaits, channelVars, producerVars, consumerVars
    <2>2. CASE ProducerWrites \/ ConsumerReads
      BY <2>2 DEF ProducerWrites, Insert, ConsumerReads, Remove
    <2>3. CASE Update
      BY <2>3, SizeAssumption DEF Update, Wake, TypeOK
    <2>4. CASE \E clocks \in {{"slow"}, {"fast"}, {"slow", "fast"}} : Tick(clocks)
      BY <2>4 DEF Tick, Edge, channelVars
    <2>5. CASE UNCHANGED vars
      BY <2>5 DEF vars, channelVars, producerVars, consumerVars
    <2> QED
      BY <2>1, <2>2, <2>3, <2>4, <2>5 DEF Next
  <1>3. TypeOK /\ WaitsForAReason => ({producer, consumer} = {"wait"} => updateRequested)
    BY SizeAssumption DEF TypeOK, WaitsForAReason, empty, full
  <1> QED
    BY <1>1, <1>2, <1>3, TypeCorrect, PTL DEF Spec
=============================================================================

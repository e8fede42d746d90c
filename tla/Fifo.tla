--------------------------------- MODULE Fifo ---------------------------------
(***************************************************************************)
(* fifo_wait_notify: a producer and a consumer thread, each on its own     *)
(* clock, and the primitive channel fifo between them.                     *)
(*                                                                         *)
(* The SystemC kernel runs in delta cycles: the runnable threads run one   *)
(* after the other in an order it chooses; when none is left, update() is  *)
(* called if it was requested, and the events it notifies with a delay of  *)
(* zero wake the threads that wait for them, which run in the next cycle;  *)
(* with nothing left to do time advances to an edge of a clock.  The model *)
(* lets the edges of the two clocks fall in any order, together or apart,  *)
(* which covers the periods of main.cc (100 and 50 ns).                    *)
(***************************************************************************)
EXTENDS Integers, Sequences

CONSTANTS mSize,              \* capacity of the channel (16 in main.cc)
          Length,             \* length of the producer's string (37)
          InitialElementNum   \* what mElementNum may hold before the first call

ASSUME SizeAssumption == mSize \in Nat \ {0}
ASSUME LengthAssumption == Length \in Nat \ {0}
ASSUME CountAssumption == InitialElementNum \subseteq Int

Char == 0 .. (Length - 1)     \* a character of testString, by its position

Garbage == -1                 \* what new char[size] leaves in the buffer

VARIABLES
    mElementNum, writeIndex, readIndex, buffer,   \* the channel
    updateRequested,          \* request_update() was called in this delta cycle
    producer, written,        \* state of do_writes and its i
    consumer,                 \* state of do_reads
    received,                 \* the element of receivedString stored last
    read                      \* history: characters read so far, modulo Length

channelVars == <<mElementNum, writeIndex, readIndex, buffer, updateRequested>>
producerVars == <<producer, written>>
consumerVars == <<consumer, read, received>>
vars == <<channelVars, producerVars, consumerVars>>

\* A thread waits for a clock edge, is about to call the channel, waits inside the
\* call for its event, or has been woken by it.
ThreadState == {"clock", "call", "wait", "woken"}

TypeOK ==
    /\ mElementNum \in Int
    /\ writeIndex \in 0 .. (mSize - 1)
    /\ readIndex \in 0 .. (mSize - 1)
    /\ buffer \in [0 .. (mSize - 1) -> Char \cup {Garbage}]
    /\ updateRequested \in BOOLEAN
    /\ producer \in ThreadState /\ written \in Char
    /\ consumer \in ThreadState /\ read \in Char /\ received \in Char \cup {Garbage}

\* The constructor of fifo gives every member a value but mElementNum (fifo.h:8-14).
Init ==
    /\ mElementNum \in InitialElementNum
    /\ writeIndex = 0 /\ readIndex = 0
    /\ buffer = [k \in 0 .. (mSize - 1) |-> Garbage]
    /\ updateRequested = FALSE
    /\ producer = "clock" /\ written = 0
    /\ consumer = "clock" /\ read = 0 /\ received = Garbage

-----------------------------------------------------------------------------
FullLate == mElementNum > mSize

full == mElementNum >= mSize

EmptyLate == mElementNum < 0

empty == mElementNum <= 0

NextIndexUnbounded(k) == k + 1

NextIndex(k) == (k + 1) % mSize

\* The rest of write(), after the wait.
Insert(c) ==
    /\ buffer' = [buffer EXCEPT ![writeIndex] = c]
    /\ writeIndex' = NextIndex(writeIndex)
    /\ mElementNum' = mElementNum + 1
    /\ updateRequested' = TRUE
    /\ UNCHANGED readIndex

RemoveUnannounced ==
    /\ received' = buffer[readIndex]
    /\ readIndex' = NextIndex(readIndex)
    /\ mElementNum' = mElementNum - 1
    /\ UNCHANGED <<buffer, writeIndex, updateRequested>>

\* The rest of read(), after the wait.
Remove ==
    /\ received' = buffer[readIndex]
    /\ readIndex' = NextIndex(readIndex)
    /\ mElementNum' = mElementNum - 1
    /\ updateRequested' = TRUE
    /\ UNCHANGED <<buffer, writeIndex>>

\* do_writes calls write(testString[i]) and finds the channel full.
ProducerWaits ==
    /\ producer = "call" /\ full
    /\ producer' = "wait"
    /\ UNCHANGED <<channelVars, written, consumerVars>>

\* do_writes writes: there was room, or data_read_event came; it looks only once.
ProducerWrites ==
    /\ \/ producer = "call" /\ ~full
       \/ producer = "woken"
    /\ Insert(written)
    /\ written' = (written + 1) % Length
    /\ producer' = "clock"
    /\ UNCHANGED consumerVars

\* do_reads calls read() and finds the channel empty.
ConsumerWaits ==
    /\ consumer = "call" /\ empty
    /\ consumer' = "wait"
    /\ UNCHANGED <<channelVars, producerVars, read, received>>

\* do_reads reads: there was an element, or data_written_event came.  Its i, the
\* place in receivedString (1024 of them), decides nothing and is left out.
ConsumerReads ==
    /\ \/ consumer = "call" /\ ~empty
       \/ consumer = "woken"
    /\ Remove
    /\ read' = (read + 1) % Length
    /\ consumer' = "clock"
    /\ UNCHANGED producerVars

-----------------------------------------------------------------------------
\* No thread is left to run in this delta cycle.
Evaluated == {producer, consumer} \cap {"call", "woken"} = {}

Wake(thread) == IF thread = "wait" THEN "woken" ELSE thread

\* update(), and the two events it notifies.
Update ==
    /\ Evaluated /\ updateRequested
    /\ updateRequested' = FALSE
    /\ consumer' = IF mElementNum > 0 THEN Wake(consumer) ELSE consumer
    /\ producer' = IF ~full THEN Wake(producer) ELSE producer
    /\ UNCHANGED <<mElementNum, writeIndex, readIndex, buffer, written, read, received>>

Edge(thread) == IF thread = "clock" THEN "call" ELSE thread

\* Time advances to an edge of the clocks that tick: the slow one is the
\* producer's, the fast one the consumer's.
Tick(clocks) ==
    /\ Evaluated /\ ~updateRequested
    /\ producer' = IF "slow" \in clocks THEN Edge(producer) ELSE producer
    /\ consumer' = IF "fast" \in clocks THEN Edge(consumer) ELSE consumer
    /\ UNCHANGED <<channelVars, written, read, received>>

Next ==
    \/ ProducerWaits \/ ProducerWrites
    \/ ConsumerWaits \/ ConsumerReads
    \/ Update
    \/ \E clocks \in {{"slow"}, {"fast"}, {"slow", "fast"}} : Tick(clocks)

\* The kernel runs what is runnable, ends the delta cycle, and both clocks tick.
Fairness ==
    /\ WF_vars(ProducerWaits \/ ProducerWrites)
    /\ WF_vars(ConsumerWaits \/ ConsumerReads)
    /\ WF_vars(Update)
    /\ WF_vars(Tick({"slow"}) \/ Tick({"slow", "fast"}))
    /\ WF_vars(Tick({"fast"}) \/ Tick({"slow", "fast"}))

Spec == Init /\ [][Next]_vars

FairSpec == Spec /\ Fairness

-----------------------------------------------------------------------------
(***************************************************************************)
(* Properties.                                                             *)
(***************************************************************************)

\* The count both sides trust agrees with the distance of the two indices, and a
\* woken thread, which does not look again, finds what it was woken for (fifo.cc:6
\* and 22 test with if, not while).
CountExact ==
    /\ mElementNum \in 0 .. mSize
    /\ (writeIndex - readIndex) % mSize = mElementNum % mSize
    /\ consumer = "woken" => mElementNum > 0
    /\ producer = "woken" => mElementNum < mSize

\* What the producer's string says of the channel (producer.cc:5): what is read is
\* what was written, not reversed: the k-th character read is the k-th of the string.
ReadsInOrder == [][read' # read => received' = read]_vars

\* No wake-up is lost: a thread that waits in read() or write() is woken, whatever
\* the order of the two threads in a delta cycle.
WaitsEnd == /\ consumer = "wait" ~> consumer = "woken"
            /\ producer = "wait" ~> producer = "woken"

\* The channel implements the bounded queue.
contents == [k \in 1 .. mElementNum |-> buffer[(readIndex + k - 1) % mSize]]

BQ == INSTANCE BoundedQueue WITH Size <- mSize, queue <- contents
ImplementsQueue == BQ!Spec
=============================================================================

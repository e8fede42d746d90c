------------------------------ MODULE Decoupled ------------------------------
(* Temporal decoupling: temporal_decoupling/Initiator1.h (the writer, which *)
(* uses direct memory access), Initiator2.h (the reader), Bus.h, Memory.h.  *)
(*                                                                          *)
(* An initiator runs ahead of simulation time: it adds what its accesses    *)
(* cost to a local time and hands the kernel over only when that passes the *)
(* end of a quantum. Threads due at the same time run in any order.         *)
(*                                                                          *)
(* Times are in units of 5 ns. Addresses count words, of which the program  *)
(* uses each fourth byte address; a byte range that ends in 3 modulo 4 ends *)
(* with its last word.                                                      *)
EXTENDS Integers, FiniteSetsExt

CONSTANTS
  Targets,   \* targetNum of the bus: the number of memories
  Words,     \* words of the address that the bus hands to a memory
  MemSize,   \* MEM_SIZE: words in a memory, and in a pass of an initiator
  Quantum,   \* global quantum
  Inc,       \* what an iteration costs besides its access
  Latency,   \* of a b_transport
  DmiLatency,\* of a direct access
  Start,     \* when the reader starts
  Last,      \* wait of the writer before it dumps the memories
  Period     \* of the invalidations of a memory, of which there are three

ASSUME SizesAssumption ==
  /\ {Targets, Words, Quantum, Inc, Latency, DmiLatency, Period} \subseteq Nat \ {0}
  /\ {Start, Last} \subseteq Nat
  /\ MemSize = Targets * Words

\* The reader waits a quantum before it starts (Initiator2.h:35), and a direct
\* access takes no longer than one through the bus (Memory.h:27, 66).
ASSUME TimesAssumption == Quantum <= Start /\ DmiLatency <= Latency

VARIABLES
  now,     \* sc_time_stamp
  running, \* the initiator the kernel has started and not got back, or "none"
  wr, rd,  \* Initiator1 and Initiator2: loop index i, when it is to go on or
           \* went on (wake), its quantum keeper, the last word of data it got
  dmi,     \* dmiData and isDmiValid of the writer
  memory,  \* memory[m][w]; -1 is what the constructor put there
  left     \* invalidations each memory has still to make

vars == <<now, running, wr, rd, dmi, memory, left>>
Memories == 0 .. Targets - 1
-----------------------------------------------------------------------------
\* Bus: which memory an address goes to, which word of it, and back.
Route(a) == (a \div Words) % Targets
Masked(a) == a % Words
ComposeUnmasked(m, w) == m * Words + w
Compose(m, w) == m * Words + (w % Words)

\* tlm_quantumkeeper: the next multiple of the quantum after t.
NextSync(t) == t + Quantum - (t % Quantum)

\* The reader starts with a wait.
ReaderAtOnce == 0
ReaderStart == Start

\* Both quantum keepers are reset at time 0, the reader's before it waits.
Init ==
  LET thread(t) == [at |-> "loop", i |-> 0, wake |-> t,
                    local |-> 0, sync |-> NextSync(0), data |-> -1]
  IN  /\ now = 0 /\ running = "none"
      /\ wr = thread(0) /\ rd = thread(ReaderStart)
      /\ dmi = [valid |-> FALSE, mem |-> 0, start |-> 0, end |-> 0]
      /\ memory = [m \in Memories |-> [w \in 0 .. MemSize - 1 |-> -1]]
      /\ left = [m \in Memories |-> 3]

\* The kernel starts a thread that is due when no other runs.
Runs(name, t) == \/ running = name
                 \/ running = "none" /\ t.at # "ended" /\ t.wake = now

LoopingOnce(t) == t.i <= MemSize
Looping(t) == t.i < MemSize

NeedSyncLocal(t, local) == local >= t.sync
NeedSync(t, local) == t.wake + local >= t.sync

\* The end of an iteration: set, inc, need_sync, and sync, which waits for the
\* local time and resets the keeper. "got" is what the access read, if it did.
Iterated(name, t, cost, got) ==
  LET local == t.local + cost + Inc
      wake == t.wake + local
      next == [t EXCEPT !.i = @ + 1, !.data = got]
  IN  IF NeedSync(t, local)
      THEN [thread |-> [next EXCEPT !.wake = wake, !.local = 0, !.sync = NextSync(wake)],
            running |-> "none"]
      ELSE [thread |-> [next EXCEPT !.wake = now, !.local = local], running |-> name]
-----------------------------------------------------------------------------
DmiCovers(a) == dmi.valid /\ a \in dmi.start .. dmi.end

\* A write through the pointer.
WriterDmi ==
  LET after == Iterated("writer", wr, DmiLatency, wr.data)
  IN  /\ Runs("writer", wr) /\ wr.at = "loop" /\ Looping(wr) /\ DmiCovers(wr.i)
      /\ memory' = [memory EXCEPT ![dmi.mem][wr.i - dmi.start] = wr.i]
      /\ wr' = after.thread /\ running' = after.running
      /\ UNCHANGED <<now, rd, dmi, left>>

\* A write through the bus, after which the pointer is asked for. The memory
\* fills it in and returns no value: any is as good as another.
WriterTransport ==
  LET after == Iterated("writer", wr, Latency, wr.data)
      m == Route(wr.i)
  IN  /\ Runs("writer", wr) /\ wr.at = "loop" /\ Looping(wr) /\ ~DmiCovers(wr.i)
      /\ memory' = [memory EXCEPT ![m][Masked(wr.i)] = wr.i]
      /\ \E granted \in BOOLEAN :
           dmi' = [valid |-> granted, mem |-> m,
                   start |-> Compose(m, 0), end |-> Compose(m, MemSize - 1)]
      /\ wr' = after.thread /\ running' = after.running
      /\ UNCHANGED <<now, rd, left>>

\* After the loop the writer waits, whatever local time it has left, and dumps.
WriterLeavesLoop ==
  /\ Runs("writer", wr) /\ wr.at = "loop" /\ ~Looping(wr)
  /\ wr' = [wr EXCEPT !.at = "last", !.wake = now + Last, !.local = 0]
  /\ running' = "none"
  /\ UNCHANGED <<now, rd, dmi, memory, left>>

WriterEnds ==
  /\ Runs("writer", wr) /\ wr.at = "last"
  /\ wr' = [wr EXCEPT !.at = "ended"]
  /\ UNCHANGED <<now, running, rd, dmi, memory, left>>

\* The reader goes through the bus only; it is told of the pointer, and of its
\* invalidation, and takes no notice.
ReaderReads ==
  LET after == Iterated("reader", rd, Latency, memory[Route(rd.i)][Masked(rd.i)])
  IN  /\ Runs("reader", rd) /\ rd.at = "loop" /\ Looping(rd)
      /\ rd' = after.thread /\ running' = after.running
      /\ UNCHANGED <<now, wr, dmi, memory, left>>

ReaderEnds ==
  /\ Runs("reader", rd) /\ rd.at = "loop" /\ ~Looping(rd)
  /\ rd' = [rd EXCEPT !.at = "ended", !.local = 0]
  /\ running' = "none"
  /\ UNCHANGED <<now, wr, dmi, memory, left>>

\* The thread of a memory: the bus tells every initiator, and the writer gives
\* its pointer up whatever range it is told.
Invalidation(m) == Period * (4 - left[m])
Invalidate(m) ==
  /\ running = "none" /\ left[m] > 0 /\ Invalidation(m) = now
  /\ dmi' = [dmi EXCEPT !.valid = FALSE]
  /\ left' = [left EXCEPT ![m] = @ - 1]
  /\ UNCHANGED <<now, running, wr, rd, memory>>

\* Time goes to the next event when nothing is due.
Events == { t.wake : t \in { u \in {wr, rd} : u.at # "ended" } }
            \cup { Invalidation(m) : m \in { n \in Memories : left[n] > 0 } }
Advance ==
  /\ running = "none" /\ Events # {} /\ now \notin Events
  /\ now' = Min(Events)
  /\ UNCHANGED <<running, wr, rd, dmi, memory, left>>

Next == \/ WriterDmi \/ WriterTransport \/ WriterLeavesLoop \/ WriterEnds
        \/ ReaderReads \/ ReaderEnds
        \/ \E m \in Memories : Invalidate(m)
        \/ Advance

Spec == Init /\ [][Next]_vars
-----------------------------------------------------------------------------
Threads == [at : {"loop", "last", "ended"}, i : 0 .. MemSize, wake : Nat, local : Nat,
            sync : Nat, data : -1 .. MemSize - 1]

\* An initiator never goes past the end of its pass, a pointer never past the
\* memories, and no event is ever left behind in the past.
TypeOK ==
  /\ now \in Nat /\ running \in {"none", "writer", "reader"}
  /\ wr \in Threads /\ rd \in Threads
  /\ dmi.start \in 0 .. MemSize - 1 /\ dmi.end \in 0 .. MemSize - 1 /\ dmi.mem \in Memories
  /\ left \in [Memories -> 0 .. 3]
  /\ running = "none" => \A t \in Events : t >= now

\* Whichever way the words are written, through pointers that come, go and
\* are used for a range, or through the bus: the words written so far are in
\* the memories the bus routes their addresses to (Bus.h:92), and in those
\* places only. The dump of Initiator1.h:87 shows them all.
WritesLand ==
  memory = [m \in Memories |-> [w \in 0 .. MemSize - 1 |->
              IF w < Words /\ m * Words + w < wr.i THEN m * Words + w ELSE -1]]

\* Each runs ahead of the other by up to a quantum, and yet every word the
\* reader reads (Initiator2.h:55) is the one the writer has put there.
ReadsSeeWrites == rd.i > 0 => rd.data = rd.i - 1

\* The time an initiator has reached, with what it is ahead.
Reached(t) == t.wake + t.local

\* An initiator ahead of simulation time hands over in the iteration that
\* reaches the end of the quantum (Initiator1.h:81): while it runs it is in
\* the quantum of the simulation time, and while it waits less than an
\* iteration past the end of the one it ran in.
LeadBounded ==
  \A t \in {wr, rd} :
    t.at = "loop" /\ t.i > 0 =>
      /\ t.local > 0 => Reached(t) < NextSync(now)
      /\ Reached(t) < NextSync(now) + Inc + Latency
=============================================================================

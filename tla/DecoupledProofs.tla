--------------------------- MODULE DecoupledProofs ---------------------------
(***************************************************************************)
(* Temporal decoupling, for memories of every number and size, every       *)
(* quantum, latency and period, and every decision to grant a pointer.     *)
(*                                                                         *)
(* That the reader finds what the writer wrote is a matter of time alone:  *)
(* the two never wait for each other.  The invariant keeps the time each   *)
(* of them has reached as a function of its loop index, and how far ahead  *)
(* of simulation time it may be.                                           *)
(***************************************************************************)
EXTENDS Decoupled, Remainders, WellFoundedInduction, TLAPS

-----------------------------------------------------------------------------
Typed ==
    /\ now \in Nat /\ running \in {"none", "writer", "reader"}
    /\ wr \in Threads /\ rd \in Threads
    /\ dmi \in [valid : BOOLEAN, mem : Memories, start : 0 .. MemSize - 1, end : 0 .. MemSize - 1]
    /\ left \in [Memories -> 0 .. 3]

\* A valid pointer covers what the bus routes to its memory, and no more.
PointerRight == dmi.valid => /\ dmi.start = dmi.mem * Words
                             /\ dmi.end = dmi.start + Words - 1

\* A thread that has not ended is not late; the one that runs goes on now.
Waits(name, t) ==
    /\ t.at # "ended" => t.wake >= now
    /\ running = name => t.at = "loop" /\ t.wake = now
    /\ t.at # "loop" => t.i = MemSize

InvalidationsAhead == \A m \in Memories : left[m] > 0 => Invalidation(m) >= now

\* Only the thread that runs is ahead of simulation time, and that within its
\* quantum; one that waits does so less than an iteration after its quantum.
Leads(name, t) ==
    t.at = "loop" => /\ t.local > 0 => running = name /\ Reached(t) < t.sync
                     /\ t.sync <= NextSync(t.wake)
                     /\ t.i > 0 => Reached(t) < NextSync(now) + Inc + Latency

\* The time each has reached.
Step == Latency + Inc
Paced == /\ wr.at = "loop" => Reached(wr) <= Step * wr.i
         /\ rd.at = "loop" => Reached(rd) = Start + Step * rd.i

\* The inductive invariant.
IInv == /\ Typed /\ PointerRight
        /\ Waits("writer", wr) /\ Waits("reader", rd) /\ InvalidationsAhead
        /\ Leads("writer", wr) /\ Leads("reader", rd) /\ Paced
        /\ WritesLand /\ ReadsSeeWrites

-----------------------------------------------------------------------------
(***************************************************************************)
(* Lemmas: the sizes, the routes of the bus, and the ends of the quanta.   *)
(***************************************************************************)

\* The assumptions on the constants, one by one.
LEMMA Sizes ==
    /\ Targets \in Nat /\ Words \in Nat /\ Quantum \in Nat /\ Inc \in Nat /\ Latency \in Nat
    /\ DmiLatency \in Nat /\ Period \in Nat /\ Start \in Nat /\ Last \in Nat
    /\ Targets >= 1 /\ Words >= 1 /\ Quantum >= 1 /\ Inc >= 1 /\ Latency >= 1
    /\ DmiLatency >= 1 /\ Period >= 1
    /\ MemSize = Words * Targets /\ MemSize \in Nat /\ MemSize >= Words
BY SizesAssumption

\* The words of memory m are the addresses from m * Words on; none is beyond the last.
LEMMA InMemory ==
    ASSUME NEW m \in Memories, NEW w \in 0 .. Words - 1
    PROVE  m * Words + w \in 0 .. MemSize - 1 /\ m * Words \in Nat
<1>1. /\ m \in Nat /\ m <= Targets - 1 /\ Targets \in Nat /\ Words \in Nat
      /\ w \in Nat /\ w <= Words - 1
  BY Sizes DEF Memories
<1>2. m * Words \in Nat /\ (Targets - 1 - m) * Words \in Nat
  BY <1>1
<1>3. (Targets - 1 - m) * Words = Words * Targets - Words - m * Words
  BY <1>1
<1>. QED  BY <1>1, <1>2, <1>3, Sizes

\* The bus routes address m * Words + w to word w of memory m.
LEMMA RouteOf ==
    ASSUME NEW m \in Memories, NEW w \in 0 .. Words - 1
    PROVE  Route(m * Words + w) = m /\ Masked(m * Words + w) = w
<1>1. m \in Nat /\ m < Targets /\ Targets \in Nat \ {0} /\ Words \in Nat \ {0}
  BY Sizes DEF Memories
<1>2. m * Words + w = Words * m + w
  BY <1>1, Sizes
<1>3. (Words * m + w) \div Words = m /\ (Words * m + w) % Words = w
  BY <1>1, QuotientOf
<1>4. m % Targets = m
  BY <1>1
<1>. QED  BY <1>2, <1>3, <1>4 DEF Route, Masked

\* Every address of a pass is a word of the memory it is routed to.
LEMMA AddressOf ==
    ASSUME NEW a \in 0 .. MemSize - 1
    PROVE  /\ Route(a) \in Memories /\ Masked(a) \in 0 .. Words - 1
           /\ a = Route(a) * Words + Masked(a)
<1>1. a \in Nat /\ a < Words * Targets /\ Targets \in Nat \ {0} /\ Words \in Nat \ {0}
  BY Sizes
<1>. DEFINE q == a \div Words
<1>2. a = Words * q + (a % Words) /\ q \in Nat /\ a % Words \in 0 .. Words - 1
  BY <1>1, Division
<1>3. q < Targets
  BY <1>1, QuotientBelow
<1>. HIDE DEF q
<1>4. q % Targets = q
  BY <1>1, <1>2, <1>3
<1>5. Route(a) = q /\ Masked(a) = a % Words
  BY <1>4 DEF Route, Masked, q
<1>6. Words * q = q * Words
  BY <1>1, <1>2
<1>. QED  BY <1>1, <1>2, <1>3, <1>5, <1>6 DEF Memories

\* What the bus makes of the range of a whole memory.
LEMMA ComposeRange ==
    ASSUME NEW m \in Memories
    PROVE  /\ Compose(m, 0) = m * Words
           /\ Compose(m, MemSize - 1) = m * Words + (Words - 1)
<1>1. Words \in Nat \ {0} /\ Targets - 1 \in Nat
  BY Sizes
<1>2. 0 % Words = 0
  BY <1>1
<1>3. MemSize - 1 = Words * (Targets - 1) + (Words - 1)
  BY <1>1, Sizes
<1>4. (MemSize - 1) % Words = Words - 1
  <2>1. Words - 1 \in 0 .. (Words - 1)
    BY <1>1
  <2>. QED  BY <1>1, <1>3, <2>1, QuotientOf
<1>5. m * Words \in Nat
  BY <1>1 DEF Memories
<1>. QED  BY <1>2, <1>4, <1>5 DEF Compose

\* The next end of a quantum is ahead by at most one quantum, and never goes back.
LEMMA NextSyncAhead ==
    ASSUME NEW t \in Nat
    PROVE  NextSync(t) \in Nat /\ t < NextSync(t) /\ NextSync(t) <= t + Quantum
<1>1. Quantum \in Nat \ {0}
  BY Sizes
<1>2. t % Quantum \in 0 .. (Quantum - 1)
  BY <1>1, Division
<1>. QED  BY <1>1, <1>2 DEF NextSync

LEMMA NextSyncGrows ==
    ASSUME NEW t \in Nat, NEW u \in Nat, t <= u
    PROVE  NextSync(t) <= NextSync(u)
<1>1. Quantum \in Nat \ {0}
  BY Sizes
<1>2. /\ t = Quantum * (t \div Quantum) + (t % Quantum) /\ t \div Quantum \in Nat
      /\ u = Quantum * (u \div Quantum) + (u % Quantum) /\ u \div Quantum \in Nat
      /\ t % Quantum \in Nat /\ u % Quantum \in Nat
  BY <1>1, Division
<1>3. Quantum * (t \div Quantum) <= Quantum * (u \div Quantum)
  BY <1>1, QuotientGrows
<1>. DEFINE a == Quantum * (t \div Quantum)   b == Quantum * (u \div Quantum)
<1>4. a \in Nat /\ b \in Nat
  BY <1>1, <1>2
<1>5. NextSync(t) = a + Quantum /\ NextSync(u) = b + Quantum
  <2>1. t = a + (t % Quantum) /\ u = b + (u % Quantum)
    BY <1>2
  <2>. HIDE DEF a, b
  <2>. QED  BY <1>1, <1>2, <1>4, <2>1 DEF NextSync
<1>. HIDE DEF a, b
<1>6. a <= b
  BY <1>3 DEF a, b
<1>. QED  BY <1>1, <1>4, <1>5, <1>6

\* A set of times that is not empty has a first one.
LEMMA FirstEvent ==
    ASSUME NEW S, S \subseteq Nat, S # {}
    PROVE  Min(S) \in S /\ \A e \in S : Min(S) <= e
<1>1. \E x \in S : \A y \in S : ~(<<y, x>> \in OpToRel(<, Nat))
  BY NatLessThanWellFounded, WFMin
<1>2. PICK x \in S : \A y \in S : ~(<<y, x>> \in OpToRel(<, Nat))
  BY <1>1
<1>3. ASSUME NEW y \in S PROVE x <= y
  <2>1. <<y, x>> \in Nat \X Nat
    OBVIOUS
  <2>2. ~(y < x)
    BY <1>2, <2>1 DEF OpToRel
  <2>. QED  BY <2>2
<1>. QED  BY <1>3 DEF Min

-----------------------------------------------------------------------------
(***************************************************************************)
(* One iteration of an initiator that runs, whatever its access.           *)
(***************************************************************************)

LEMMA Iteration ==
    ASSUME NEW name \in {"writer", "reader"}, NEW t \in Threads,
           NEW cost \in Nat, cost <= Latency, NEW got \in -1 .. MemSize - 1,
           now \in Nat, Runs(name, t), t.at = "loop", Looping(t),
           Waits(name, t), Leads(name, t)
    PROVE  LET a == Iterated(name, t, cost, got)
               u == a.thread
           IN  /\ u \in Threads /\ u.at = "loop" /\ u.i = t.i + 1 /\ u.data = got
               /\ a.running \in {"none", name}
               /\ Reached(u) = Reached(t) + cost + Inc
               /\ u.wake >= now
               /\ a.running = name => u.wake = now
               /\ u.local > 0 => a.running = name /\ Reached(u) < u.sync
               /\ u.sync <= NextSync(u.wake)
               /\ Reached(u) < NextSync(now) + Inc + Latency
<1>1. /\ t.wake = now /\ t.i \in Nat /\ t.i < MemSize /\ t.local \in Nat /\ t.sync \in Nat
      /\ t.sync <= NextSync(now)
      /\ t.local > 0 => now + t.local < t.sync
      /\ Inc \in Nat /\ Latency \in Nat /\ MemSize \in Nat
  BY Sizes DEF Runs, Waits, Leads, Threads, Looping, Reached
<1>2. NextSync(now) \in Nat /\ now < NextSync(now)
  BY NextSyncAhead
<1>. DEFINE local == t.local + cost + Inc
            next == [t EXCEPT !.i = @ + 1, !.data = got]
<1>3. local \in Nat /\ now + local < NextSync(now) + Inc + Latency
  BY <1>1, <1>2
<1>4. next = [at |-> "loop", i |-> t.i + 1, wake |-> now, local |-> t.local,
              sync |-> t.sync, data |-> got]
  <2>1. PICK n, l, s, d : t = [at |-> "loop", i |-> n, wake |-> now, local |-> l,
                               sync |-> s, data |-> d]
    <3>1. t = [at |-> t.at, i |-> t.i, wake |-> t.wake, local |-> t.local,
               sync |-> t.sync, data |-> t.data]
      BY DEF Threads
    <3>2. t = [at |-> "loop", i |-> t.i, wake |-> now, local |-> t.local,
               sync |-> t.sync, data |-> t.data]
      BY <1>1, <3>1
    <3>. QED  BY <3>2
  <2>2. next = [at |-> "loop", i |-> n + 1, wake |-> now, local |-> l,
                sync |-> s, data |-> got]
    <3>1. t.i = n
      BY <2>1
    <3>2. next = [t EXCEPT !.i = n + 1, !.data = got]
      BY <3>1
    <3>. HIDE DEF next
    <3>. QED  BY <2>1, <3>2
  <2>. QED  BY <2>1, <2>2
<1>. DEFINE a == Iterated(name, t, cost, got)
<1>5. a = IF now + local >= t.sync
            THEN [thread |-> [next EXCEPT !.wake = now + local, !.local = 0,
                                          !.sync = NextSync(now + local)],
                  running |-> "none"]
            ELSE [thread |-> [next EXCEPT !.wake = now, !.local = local], running |-> name]
  BY <1>1 DEF Iterated, NeedSync
<1>. HIDE DEF a, next
<1>6. CASE now + local >= t.sync
  <2>1. /\ a.running = "none"
        /\ a.thread = [next EXCEPT !.wake = now + local, !.local = 0,
                                   !.sync = NextSync(now + local)]
    BY <1>5, <1>6
  <2>2. NextSync(now + local) \in Nat /\ now + local \in Nat
    BY <1>3, NextSyncAhead
  <2>. HIDE DEF local
  <2>3. a.thread = [at |-> "loop", i |-> t.i + 1, wake |-> now + local, local |-> 0,
                    sync |-> NextSync(now + local), data |-> got]
    BY <1>4, <2>1
  <2>6. a.thread \in Threads
    BY <1>1, <2>2, <2>3 DEF Threads
  <2>4. a.running # name
    BY <2>1
  <2>5. Reached(a.thread) = now + local /\ Reached(t) = now + t.local
    BY <1>1, <1>3, <2>3 DEF Reached
  <2>7. /\ a.thread.at = "loop" /\ a.thread.i = t.i + 1 /\ a.thread.data = got
        /\ a.thread.wake = now + local /\ a.thread.local = 0
        /\ a.thread.sync = NextSync(now + local)
    BY <2>3
  <2>8. now + local = (now + t.local) + cost + Inc
    BY <1>1, <1>3 DEF local
  <2>9. /\ now + local >= now /\ ~(0 > 0)
        /\ NextSync(now + local) <= NextSync(now + local)
    BY <1>3, <2>2
  <2>. QED  BY <1>3, <2>1, <2>4, <2>5, <2>6, <2>7, <2>8, <2>9 DEF a
<1>7. CASE ~(now + local >= t.sync)
  <2>1. /\ a.running = name
        /\ a.thread = [next EXCEPT !.wake = now, !.local = local]
    BY <1>5, <1>7
  <2>. HIDE DEF local
  <2>3. a.thread = [at |-> "loop", i |-> t.i + 1, wake |-> now, local |-> local,
                    sync |-> t.sync, data |-> got]
    BY <1>4, <2>1
  <2>6. a.thread \in Threads
    BY <1>1, <1>3, <2>3 DEF Threads
  <2>5. Reached(a.thread) = now + local /\ Reached(t) = now + t.local
    BY <1>1, <1>3, <2>3 DEF Reached
  <2>7. /\ a.thread.at = "loop" /\ a.thread.i = t.i + 1 /\ a.thread.data = got
        /\ a.thread.wake = now /\ a.thread.local = local /\ a.thread.sync = t.sync
    BY <2>3
  <2>8. now + local = (now + t.local) + cost + Inc
    BY <1>1, <1>3 DEF local
  <2>9. now + local < t.sync /\ now >= now
    BY <1>1, <1>3, <1>7
  <2>. QED  BY <1>1, <1>3, <2>1, <2>5, <2>6, <2>7, <2>8, <2>9 DEF a
<1>. QED  BY <1>6, <1>7

\* A thread that another one's step leaves alone.
LEMMA OtherWaits ==
    ASSUME NEW name \in {"writer", "reader"}, NEW t, NEW other \in {"writer", "reader"},
           name # other, Waits(name, t), Leads(name, t), t \in Threads,
           running \in {"none", other}, running' \in {"none", other}, now' = now
    PROVE  Waits(name, t)' /\ Leads(name, t)'
BY DEF Waits, Leads, Reached, NextSync

\* The time reached in i + 1 iterations.
LEMMA StepMore ==
    ASSUME NEW n \in Nat
    PROVE  Step * (n + 1) = Step * n + Latency + Inc /\ Step * n \in Nat
BY Sizes DEF Step

-----------------------------------------------------------------------------
(***************************************************************************)
(* Every action preserves the invariant; one lemma per action.             *)
(***************************************************************************)

LEMMA InitInv == Init => IInv
<1>. SUFFICES ASSUME Init PROVE IInv
  OBVIOUS
<1>1. NextSync(0) \in Nat /\ 0 < NextSync(0)
  BY NextSyncAhead
<1>2. NextSync(0) <= NextSync(Start)
  BY Sizes, NextSyncGrows
<1>3. /\ now = 0 /\ running = "none"
      /\ wr = [at |-> "loop", i |-> 0, wake |-> 0, local |-> 0, sync |-> NextSync(0), data |-> -1]
      /\ rd = [at |-> "loop", i |-> 0, wake |-> Start, local |-> 0, sync |-> NextSync(0),
               data |-> -1]
      /\ dmi = [valid |-> FALSE, mem |-> 0, start |-> 0, end |-> 0]
      /\ memory = [m \in Memories |-> [w \in 0 .. MemSize - 1 |-> -1]]
      /\ left = [m \in Memories |-> 3]
  BY DEF Init, ReaderStart
<1>4. Typed
  <2>1. -1 \in -1 .. MemSize - 1 /\ 0 \in 0 .. MemSize - 1 /\ 0 \in 0 .. MemSize
    BY Sizes
  <2>2. 0 \in Memories
    BY Sizes DEF Memories
  <2>3. wr \in Threads /\ rd \in Threads
    BY <1>1, <1>3, <2>1, Sizes DEF Threads
  <2>. QED  BY <1>3, <2>1, <2>2, <2>3 DEF Typed
<1>5. /\ Waits("writer", wr) /\ Waits("reader", rd) /\ PointerRight
      /\ Leads("writer", wr) /\ Leads("reader", rd)
  BY <1>1, <1>2, <1>3, Sizes DEF Waits, Leads, PointerRight
<1>6. InvalidationsAhead
  BY <1>3, Sizes DEF InvalidationsAhead, Invalidation
<1>7. Paced
  BY <1>3, Sizes DEF Paced, Reached, Step
<1>8. WritesLand
  <2>1. \A m \in Memories, w \in 0 .. MemSize - 1 : ~(w < Words /\ m * Words + w < wr.i)
    BY <1>3, Sizes, InMemory
  <2>. QED  BY <1>3, <2>1 DEF WritesLand
<1>9. ReadsSeeWrites
  BY <1>3 DEF ReadsSeeWrites
<1>. QED  BY <1>4, <1>5, <1>6, <1>7, <1>8, <1>9 DEF IInv

\* The writer's next word, put where the bus routes its address.
LEMMA WriteLands ==
    ASSUME Typed, WritesLand, NEW m \in Memories, NEW w \in 0 .. Words - 1,
           wr.i = m * Words + w, wr'.i = wr.i + 1,
           memory' = [memory EXCEPT ![m][w] = wr.i]
    PROVE  WritesLand'
<1>. DEFINE Word(n, v, k) == IF v < Words /\ n * Words + v < k THEN n * Words + v ELSE -1
<1>1. memory = [n \in Memories |-> [v \in 0 .. MemSize - 1 |-> Word(n, v, wr.i)]]
  BY DEF WritesLand
<1>2. w \in 0 .. MemSize - 1 /\ wr.i \in Nat /\ wr.i < wr.i + 1 /\ w < Words
  BY Sizes DEF Typed, Threads
<1>3. ASSUME NEW n \in Memories, NEW v \in 0 .. MemSize - 1, ~(n = m /\ v = w)
      PROVE  Word(n, v, wr.i + 1) = Word(n, v, wr.i)
  <2>1. CASE v < Words
    <3>1. v \in 0 .. Words - 1
      BY <2>1, Sizes
    <3>2. n * Words + v # wr.i
      BY <1>3, <3>1, RouteOf
    <3>3. n * Words + v \in Nat
      BY <3>1, InMemory
    <3>4. n * Words + v < wr.i + 1 <=> n * Words + v < wr.i
      BY <1>2, <3>2, <3>3
    <3>. QED  BY <3>4
  <2>2. CASE ~(v < Words)
    BY <2>2
  <2>. QED  BY <2>1, <2>2
<1>4. Word(m, w, wr.i + 1) = wr.i
  BY <1>2
<1>. HIDE DEF Word
<1>. DEFINE Row(n, k) == [v \in 0 .. MemSize - 1 |-> Word(n, v, k)]
<1>5. ASSUME NEW n \in Memories
      PROVE  memory'[n] = Row(n, wr.i + 1)
  <2>1. CASE n = m
    <3>1. memory'[n] = [[v \in 0 .. MemSize - 1 |-> Word(m, v, wr.i)] EXCEPT ![w] = wr.i]
      BY <1>1, <2>1
    <3>2. memory'[n] = [v \in 0 .. MemSize - 1 |-> IF v = w THEN wr.i ELSE Word(m, v, wr.i)]
      BY <3>1
    <3>3. \A v \in 0 .. MemSize - 1 :
             (IF v = w THEN wr.i ELSE Word(m, v, wr.i)) = Word(m, v, wr.i + 1)
      BY <1>3, <1>4
    <3>. QED  BY <2>1, <3>2, <3>3
  <2>2. CASE n # m
    <3>1. memory'[n] = [v \in 0 .. MemSize - 1 |-> Word(n, v, wr.i)]
      BY <1>1, <2>2
    <3>2. \A v \in 0 .. MemSize - 1 : Word(n, v, wr.i) = Word(n, v, wr.i + 1)
      BY <1>3, <2>2
    <3>. QED  BY <3>1, <3>2
  <2>. QED  BY <2>1, <2>2
<1>6. memory' = [n \in Memories |-> memory'[n]]
  BY <1>1
<1>. HIDE DEF Row
<1>7. memory' = [n \in Memories |-> Row(n, wr.i + 1)]
  BY <1>5, <1>6
<1>8. memory' = [n \in Memories |-> Row(n, wr'.i)]
  BY <1>7
<1>. QED  BY <1>8 DEF WritesLand, Row, Word

\* What an iteration of the writer does to everything but the memories and the pointer.
LEMMA WriterIterates ==
    ASSUME IInv, NEW cost \in {DmiLatency, Latency},
           Runs("writer", wr), wr.at = "loop", Looping(wr),
           wr' = Iterated("writer", wr, cost, wr.data).thread,
           running' = Iterated("writer", wr, cost, wr.data).running,
           UNCHANGED <<now, rd, left>>
    PROVE  /\ wr' \in Threads /\ wr'.i = wr.i + 1 /\ running' \in {"none", "writer"}
           /\ Waits("writer", wr)' /\ Waits("reader", rd)' /\ InvalidationsAhead'
           /\ Leads("writer", wr)' /\ Leads("reader", rd)' /\ Paced' /\ ReadsSeeWrites'
<1>1. /\ now \in Nat /\ wr \in Threads /\ rd \in Threads /\ wr.data \in -1 .. MemSize - 1
      /\ wr.i \in Nat /\ cost \in Nat /\ cost <= Latency /\ Inc \in Nat /\ Latency \in Nat
  BY Sizes, TimesAssumption DEF IInv, Typed, Threads
<1>2. /\ wr' \in Threads /\ wr'.at = "loop" /\ wr'.i = wr.i + 1
      /\ running' \in {"none", "writer"}
      /\ Reached(wr') = Reached(wr) + cost + Inc
      /\ wr'.wake >= now
      /\ running' = "writer" => wr'.wake = now
      /\ wr'.local > 0 => running' = "writer" /\ Reached(wr') < wr'.sync
      /\ wr'.sync <= NextSync(wr'.wake)
      /\ Reached(wr') < NextSync(now) + Inc + Latency
  BY <1>1, Iteration DEF IInv
<1>3. running \in {"none", "writer"}
  BY DEF Runs
<1>4. Waits("writer", wr)' /\ Leads("writer", wr)'
  BY <1>2 DEF Waits, Leads, Reached, NextSync
<1>5. Waits("reader", rd)' /\ Leads("reader", rd)'
  BY <1>1, <1>2, <1>3, OtherWaits DEF IInv
<1>6. Paced'
  <2>1. Reached(wr) <= Step * wr.i /\ Reached(wr) \in Nat
    BY <1>1 DEF IInv, Paced, Reached, Threads
  <2>2. Step * (wr.i + 1) = Step * wr.i + Latency + Inc /\ Step * wr.i \in Nat
    BY <1>1, StepMore
  <2>3. Reached(wr') <= Step * wr'.i
    BY <1>1, <1>2, <2>1, <2>2
  <2>4. (wr.at = "loop" => Reached(wr) <= Step * wr.i)'
    BY <2>3 DEF Reached, Step
  <2>5. (rd.at = "loop" => Reached(rd) = Start + Step * rd.i)'
    BY DEF IInv, Paced, Reached, Step
  <2>. QED  BY <2>4, <2>5 DEF Paced
<1>7. InvalidationsAhead' /\ ReadsSeeWrites'
  BY DEF IInv, InvalidationsAhead, Invalidation, ReadsSeeWrites
<1>. QED  BY <1>2, <1>4, <1>5, <1>6, <1>7

LEMMA WriterDmiInv == IInv /\ WriterDmi => IInv'
<1>. SUFFICES ASSUME IInv, WriterDmi PROVE IInv'
  OBVIOUS
<1>1. /\ Runs("writer", wr) /\ wr.at = "loop" /\ Looping(wr) /\ DmiCovers(wr.i)
      /\ wr' = Iterated("writer", wr, DmiLatency, wr.data).thread
      /\ running' = Iterated("writer", wr, DmiLatency, wr.data).running
      /\ memory' = [memory EXCEPT ![dmi.mem][wr.i - dmi.start] = wr.i]
      /\ UNCHANGED <<now, rd, dmi, left>>
  BY DEF WriterDmi
<1>2. /\ wr' \in Threads /\ wr'.i = wr.i + 1 /\ running' \in {"none", "writer"}
      /\ Waits("writer", wr)' /\ Waits("reader", rd)' /\ InvalidationsAhead'
      /\ Leads("writer", wr)' /\ Leads("reader", rd)' /\ Paced' /\ ReadsSeeWrites'
  BY <1>1, WriterIterates
<1>3. Typed'
  BY <1>1, <1>2 DEF IInv, Typed
<1>4. PointerRight'
  BY <1>1 DEF IInv, PointerRight
<1>5. WritesLand'
  <2>1. /\ dmi.mem \in Memories /\ dmi.mem \in Nat /\ wr.i \in Nat /\ dmi.start \in Nat
        /\ dmi.start = dmi.mem * Words /\ dmi.start <= wr.i /\ wr.i <= dmi.start + Words - 1
    BY <1>1 DEF IInv, Typed, Threads, PointerRight, DmiCovers, Memories
  <2>. DEFINE w == wr.i - dmi.start
  <2>2. w \in 0 .. Words - 1 /\ wr.i = dmi.start + w
    BY <2>1, Sizes
  <2>3. memory' = [memory EXCEPT ![dmi.mem][w] = wr.i]
    BY <1>1
  <2>. HIDE DEF w
  <2>4. wr.i = dmi.mem * Words + w
    BY <2>1, <2>2
  <2>. QED  BY <1>2, <2>1, <2>2, <2>3, <2>4, WriteLands DEF IInv
<1>. QED  BY <1>2, <1>3, <1>4, <1>5 DEF IInv

LEMMA WriterTransportInv == IInv /\ WriterTransport => IInv'
<1>. SUFFICES ASSUME IInv, WriterTransport PROVE IInv'
  OBVIOUS
<1>. DEFINE m == Route(wr.i)
            w == Masked(wr.i)
<1>1. /\ Runs("writer", wr) /\ wr.at = "loop" /\ Looping(wr)
      /\ wr' = Iterated("writer", wr, Latency, wr.data).thread
      /\ running' = Iterated("writer", wr, Latency, wr.data).running
      /\ memory' = [memory EXCEPT ![m][w] = wr.i]
      /\ \E granted \in BOOLEAN :
            dmi' = [valid |-> granted, mem |-> m,
                    start |-> Compose(m, 0), end |-> Compose(m, MemSize - 1)]
      /\ UNCHANGED <<now, rd, left>>
  BY DEF WriterTransport
<1>2. /\ wr' \in Threads /\ wr'.i = wr.i + 1 /\ running' \in {"none", "writer"}
      /\ Waits("writer", wr)' /\ Waits("reader", rd)' /\ InvalidationsAhead'
      /\ Leads("writer", wr)' /\ Leads("reader", rd)' /\ Paced' /\ ReadsSeeWrites'
  BY <1>1, WriterIterates
<1>3. wr.i \in 0 .. MemSize - 1
  BY <1>1, Sizes DEF IInv, Typed, Threads, Looping
<1>4. m \in Memories /\ w \in 0 .. Words - 1 /\ wr.i = m * Words + w
  BY <1>3, AddressOf
<1>. HIDE DEF m, w
<1>5. /\ Compose(m, 0) = m * Words /\ Compose(m, MemSize - 1) = m * Words + (Words - 1)
      /\ m * Words \in Nat /\ Words \in Nat /\ Words >= 1
      /\ m * Words + 0 \in 0 .. MemSize - 1 /\ m * Words + (Words - 1) \in 0 .. MemSize - 1
  <2>1. 0 \in 0 .. Words - 1 /\ Words - 1 \in 0 .. Words - 1
    BY Sizes
  <2>. QED  BY <1>4, <2>1, Sizes, ComposeRange, InMemory
<1>6. PICK granted \in BOOLEAN :
         dmi' = [valid |-> granted, mem |-> m,
                 start |-> m * Words, end |-> m * Words + (Words - 1)]
  BY <1>1, <1>5
<1>7. Typed'
  <2>1. m * Words \in 0 .. MemSize - 1
    BY <1>5
  <2>2. dmi' \in [valid : BOOLEAN, mem : Memories,
                  start : 0 .. MemSize - 1, end : 0 .. MemSize - 1]
    BY <1>4, <1>5, <1>6, <2>1
  <2>. QED  BY <1>1, <1>2, <2>2 DEF IInv, Typed
<1>8. PointerRight'
  BY <1>5, <1>6 DEF PointerRight
<1>9. WritesLand'
  BY <1>1, <1>2, <1>4, WriteLands DEF IInv
<1>. QED  BY <1>2, <1>7, <1>8, <1>9 DEF IInv

\* The writer leaves its loop, and ends; the reader's part is as it was.
LEMMA WriterStopsInv ==
    ASSUME IInv, Runs("writer", wr), wr' \in Threads, wr'.at # "loop",
           wr'.i = MemSize, wr.i = MemSize,
           wr'.at # "ended" => wr'.wake >= now,
           running' = "none", UNCHANGED <<now, rd, dmi, memory, left>>
    PROVE  IInv'
<1>1. Typed' /\ PointerRight' /\ InvalidationsAhead'
  BY DEF IInv, Typed, PointerRight, InvalidationsAhead, Invalidation
<1>2. Waits("writer", wr)' /\ Leads("writer", wr)'
  BY DEF Waits, Leads
<1>3. Waits("reader", rd)' /\ Leads("reader", rd)'
  BY OtherWaits DEF Runs, IInv, Typed
<1>4. Paced'
  BY DEF IInv, Paced, Reached, Step
<1>5. WritesLand'
  <2>1. wr'.i = wr.i
    OBVIOUS
  <2>. QED  BY <2>1 DEF IInv, WritesLand
<1>6. ReadsSeeWrites'
  BY DEF IInv, ReadsSeeWrites
<1>. QED  BY <1>1, <1>2, <1>3, <1>4, <1>5, <1>6 DEF IInv

LEMMA WriterLeavesLoopInv == IInv /\ WriterLeavesLoop => IInv'
<1>. SUFFICES ASSUME IInv, WriterLeavesLoop PROVE IInv'
  OBVIOUS
<1>1. /\ Runs("writer", wr) /\ wr.at = "loop" /\ ~Looping(wr) /\ running' = "none"
      /\ wr' = [wr EXCEPT !.at = "last", !.wake = now + Last, !.local = 0]
      /\ UNCHANGED <<now, rd, dmi, memory, left>>
  BY DEF WriterLeavesLoop
<1>2. wr \in Threads /\ now \in Nat /\ now + Last \in Nat /\ now + Last >= now
  BY Sizes DEF IInv, Typed
<1>3. wr.i = MemSize
  BY <1>1, <1>2, Sizes DEF Looping, Threads
<1>4. wr' \in Threads /\ wr'.at = "last" /\ wr'.i = wr.i /\ wr'.wake = now + Last
  BY <1>1, <1>2 DEF Threads
<1>. QED  BY <1>1, <1>2, <1>3, <1>4, WriterStopsInv

LEMMA WriterEndsInv == IInv /\ WriterEnds => IInv'
<1>. SUFFICES ASSUME IInv, WriterEnds PROVE IInv'
  OBVIOUS
<1>1. /\ Runs("writer", wr) /\ wr.at = "last" /\ wr' = [wr EXCEPT !.at = "ended"]
      /\ UNCHANGED <<now, running, rd, dmi, memory, left>>
  BY DEF WriterEnds
<1>2. running' = "none" /\ wr.i = MemSize
  BY <1>1 DEF Runs, IInv, Waits
<1>3. wr' \in Threads /\ wr'.at = "ended" /\ wr'.i = wr.i
  BY <1>1 DEF IInv, Typed, Threads
<1>. QED  BY <1>1, <1>2, <1>3, WriterStopsInv

\* More time is more iterations.
LEMMA StepGrows ==
    ASSUME NEW m \in Nat, NEW n \in Nat, Step * m < Step * n
    PROVE  m < n
<1>1. Step \in Nat
  BY Sizes DEF Step
<1>. SUFFICES ASSUME n <= m PROVE FALSE
  OBVIOUS
<1>2. m - n \in Nat /\ m = n + (m - n)
  OBVIOUS
<1>3. Step * m = Step * n + Step * (m - n) /\ Step * (m - n) \in Nat /\ Step * n \in Nat
  BY <1>1, <1>2
<1>. QED  BY <1>3

\* When the reader runs, the writer is past the reader's word: it has reached
\* at least the simulation time, and the reader, which started a quantum late,
\* is less than a quantum ahead of that.
LEMMA ReaderBehind ==
    ASSUME IInv, Runs("reader", rd), rd.at = "loop", Looping(rd)
    PROVE  rd.i < wr.i
<1>1. /\ now \in Nat /\ wr \in Threads /\ rd \in Threads
      /\ wr.i \in Nat /\ rd.i \in Nat /\ wr.wake \in Nat /\ rd.local \in Nat /\ rd.sync \in Nat
      /\ wr.local \in Nat
      /\ rd.wake = now /\ rd.i < MemSize
  BY DEF IInv, Typed, Threads, Runs, Waits, Looping
<1>2. CASE wr.at # "loop"
  BY <1>1, <1>2 DEF IInv, Waits
<1>3. CASE wr.at = "loop"
  <2>1. running # "writer"
    BY DEF Runs
  <2>2. wr.local = 0 /\ wr.wake >= now
    BY <1>1, <1>3, <2>1 DEF IInv, Leads, Waits
  <2>3. now <= Step * wr.i
    <3>1. Reached(wr) <= Step * wr.i
      BY <1>3 DEF IInv, Paced
    <3>2. Reached(wr) = wr.wake
      BY <1>1, <2>2 DEF Reached
    <3>3. Step * wr.i \in Nat
      BY <1>1, StepMore
    <3>. QED  BY <1>1, <2>2, <3>1, <3>2, <3>3
  <2>4. Reached(rd) = Start + Step * rd.i /\ Reached(rd) = now + rd.local
    BY <1>1 DEF IInv, Paced, Reached
  <2>5. now + rd.local < now + Quantum
    <3>1. NextSync(now) \in Nat /\ NextSync(now) <= now + Quantum
      BY <1>1, NextSyncAhead
    <3>2. rd.local > 0 => now + rd.local < rd.sync /\ rd.sync <= NextSync(now)
      BY <1>1 DEF IInv, Leads, Reached
    <3>. QED  BY <1>1, <3>1, <3>2, Sizes
  <2>6. Step * rd.i \in Nat /\ Step * wr.i \in Nat
    BY <1>1, StepMore
  <2>7. Step * rd.i < Step * wr.i
    BY <1>1, <2>3, <2>4, <2>5, <2>6, Sizes, TimesAssumption
  <2>. QED  BY <1>1, <2>7, StepGrows
<1>. QED  BY <1>2, <1>3

LEMMA ReaderReadsInv == IInv /\ ReaderReads => IInv'
<1>. SUFFICES ASSUME IInv, ReaderReads PROVE IInv'
  OBVIOUS
<1>. DEFINE got == memory[Route(rd.i)][Masked(rd.i)]
<1>1. /\ Runs("reader", rd) /\ rd.at = "loop" /\ Looping(rd)
      /\ rd' = Iterated("reader", rd, Latency, got).thread
      /\ running' = Iterated("reader", rd, Latency, got).running
      /\ UNCHANGED <<now, wr, dmi, memory, left>>
  BY DEF ReaderReads
<1>2. /\ now \in Nat /\ rd \in Threads /\ wr \in Threads /\ rd.i \in Nat /\ wr.i \in Nat
      /\ rd.i \in 0 .. MemSize - 1 /\ Latency \in Nat /\ Inc \in Nat /\ Latency <= Latency
  BY <1>1, Sizes DEF IInv, Typed, Threads, Looping
<1>3. got = rd.i
  <2>1. rd.i < wr.i
    BY <1>1, ReaderBehind
  <2>2. /\ Route(rd.i) \in Memories /\ Masked(rd.i) \in 0 .. Words - 1
        /\ rd.i = Route(rd.i) * Words + Masked(rd.i)
    BY <1>2, AddressOf
  <2>. DEFINE m == Route(rd.i)   w == Masked(rd.i)
  <2>. HIDE DEF m, w
  <2>3. m \in Memories /\ w \in 0 .. Words - 1 /\ rd.i = m * Words + w /\ got = memory[m][w]
    BY <2>2 DEF m, w
  <2>. HIDE DEF got
  <2>4. w \in 0 .. MemSize - 1 /\ w < Words /\ m * Words + w < wr.i
    BY <2>1, <2>3, Sizes
  <2>5. memory[m][w] = m * Words + w
    BY <2>3, <2>4 DEF IInv, WritesLand
  <2>. QED  BY <2>3, <2>5
<1>4. got \in -1 .. MemSize - 1
  BY <1>2, <1>3, Sizes
<1>. HIDE DEF got
<1>5. /\ rd' \in Threads /\ rd'.at = "loop" /\ rd'.i = rd.i + 1 /\ rd'.data = got
      /\ running' \in {"none", "reader"}
      /\ Reached(rd') = Reached(rd) + Latency + Inc
      /\ rd'.wake >= now
      /\ running' = "reader" => rd'.wake = now
      /\ rd'.local > 0 => running' = "reader" /\ Reached(rd') < rd'.sync
      /\ rd'.sync <= NextSync(rd'.wake)
      /\ Reached(rd') < NextSync(now) + Inc + Latency
  BY <1>1, <1>2, <1>4, Iteration DEF IInv
<1>6. Typed' /\ PointerRight' /\ InvalidationsAhead'
  BY <1>1, <1>5 DEF IInv, Typed, PointerRight, InvalidationsAhead, Invalidation
<1>7. Waits("reader", rd)' /\ Leads("reader", rd)'
  BY <1>1, <1>5 DEF Waits, Leads, Reached, NextSync
<1>8. Waits("writer", wr)' /\ Leads("writer", wr)'
  BY <1>1, <1>2, <1>5, OtherWaits DEF IInv, Runs
<1>9. Paced'
  <2>1. Step * (rd.i + 1) = Step * rd.i + Latency + Inc /\ Step * rd.i \in Nat
    BY <1>2, StepMore
  <2>2. Reached(rd) = Start + Step * rd.i
    BY <1>1 DEF IInv, Paced
  <2>3. Reached(rd') = Start + Step * rd'.i
    BY <1>2, <1>5, <2>1, <2>2, Sizes
  <2>4. (wr.at = "loop" => Reached(wr) <= Step * wr.i)'
    BY <1>1 DEF IInv, Paced, Reached, Step
  <2>5. (rd.at = "loop" => Reached(rd) = Start + Step * rd.i)'
    BY <2>3 DEF Reached, Step
  <2>. QED  BY <2>4, <2>5 DEF Paced
<1>10. WritesLand'
  BY <1>1 DEF IInv, WritesLand
<1>11. ReadsSeeWrites'
  BY <1>2, <1>3, <1>5 DEF ReadsSeeWrites
<1>. QED  BY <1>6, <1>7, <1>8, <1>9, <1>10, <1>11 DEF IInv

LEMMA ReaderEndsInv == IInv /\ ReaderEnds => IInv'
<1>. SUFFICES ASSUME IInv, ReaderEnds PROVE IInv'
  OBVIOUS
<1>1. /\ Runs("reader", rd) /\ rd.at = "loop" /\ ~Looping(rd) /\ running' = "none"
      /\ rd' = [rd EXCEPT !.at = "ended", !.local = 0]
      /\ UNCHANGED <<now, wr, dmi, memory, left>>
  BY DEF ReaderEnds
<1>2. rd' \in Threads /\ rd'.at = "ended" /\ rd'.i = rd.i /\ rd'.data = rd.data
  BY <1>1 DEF IInv, Typed, Threads
<1>3. rd.i = MemSize
  BY <1>1, Sizes DEF IInv, Typed, Threads, Looping
<1>4. Typed' /\ PointerRight' /\ InvalidationsAhead'
  BY <1>1, <1>2 DEF IInv, Typed, PointerRight, InvalidationsAhead, Invalidation
<1>5. Waits("reader", rd)' /\ Leads("reader", rd)'
  BY <1>1, <1>2, <1>3 DEF Waits, Leads
<1>6. Waits("writer", wr)' /\ Leads("writer", wr)'
  BY <1>1, OtherWaits DEF IInv, Runs, Typed
<1>7. Paced'
  BY <1>1, <1>2 DEF IInv, Paced, Reached, Step
<1>8. WritesLand' /\ ReadsSeeWrites'
  BY <1>1, <1>2 DEF IInv, WritesLand, ReadsSeeWrites
<1>. QED  BY <1>4, <1>5, <1>6, <1>7, <1>8 DEF IInv

\* A memory's next invalidation is a period after the one it has made.
LEMMA InvalidateInv == ASSUME NEW m \in Memories PROVE IInv /\ Invalidate(m) => IInv'
<1>. SUFFICES ASSUME IInv, Invalidate(m) PROVE IInv'
  OBVIOUS
<1>1. /\ running = "none" /\ left[m] > 0 /\ Invalidation(m) = now
      /\ dmi' = [dmi EXCEPT !.valid = FALSE] /\ left' = [left EXCEPT ![m] = left[m] - 1]
      /\ UNCHANGED <<now, running, wr, rd, memory>>
  BY DEF Invalidate
<1>2. left \in [Memories -> 0 .. 3] /\ left' \in [Memories -> 0 .. 3] /\ left[m] \in 0 .. 3
  BY <1>1 DEF IInv, Typed
<1>3. Typed'
  <2>1. dmi' \in [valid : BOOLEAN, mem : Memories,
                  start : 0 .. MemSize - 1, end : 0 .. MemSize - 1]
    BY <1>1 DEF IInv, Typed
  <2>. QED  BY <1>1, <1>2, <2>1 DEF IInv, Typed
<1>4. PointerRight'
  BY <1>1 DEF IInv, Typed, PointerRight
<1>5. InvalidationsAhead'
  <2>1. ASSUME NEW n \in Memories, left'[n] > 0 PROVE Period * (4 - left'[n]) >= now
    <3>1. CASE n = m
      <4>1. left'[n] = left[m] - 1
        BY <1>1, <1>2, <3>1
      <4>2. Period * (4 - (left[m] - 1)) = Period * (4 - left[m]) + Period
        BY <1>2, Sizes
      <4>3. Period * (4 - left[m]) = now /\ now \in Nat
        BY <1>1 DEF Invalidation, IInv, Typed
      <4>. QED  BY <4>1, <4>2, <4>3, Sizes
    <3>2. CASE n # m
      <4>1. left'[n] = left[n]
        BY <1>1, <1>2, <3>2
      <4>. QED  BY <2>1, <4>1 DEF IInv, InvalidationsAhead, Invalidation
    <3>. QED  BY <3>1, <3>2
  <2>2. now' = now
    BY <1>1
  <2>. QED  BY <2>1, <2>2 DEF InvalidationsAhead, Invalidation
<1>6. /\ Waits("writer", wr)' /\ Waits("reader", rd)' /\ Leads("writer", wr)'
      /\ Leads("reader", rd)' /\ Paced' /\ WritesLand' /\ ReadsSeeWrites'
  BY <1>1 DEF IInv, Waits, Leads, Paced, Reached, Step, NextSync, WritesLand, ReadsSeeWrites
<1>. QED  BY <1>3, <1>4, <1>5, <1>6 DEF IInv

\* The events are times, and none is behind.
LEMMA EventsAhead ==
    ASSUME IInv
    PROVE  Events \subseteq Nat /\ \A e \in Events : e >= now
<1>1. \A t \in {wr, rd} : t.wake \in Nat /\ (t.at # "ended" => t.wake >= now)
  BY DEF IInv, Typed, Threads, Waits
<1>2. ASSUME NEW m \in Memories, left[m] > 0
      PROVE  Invalidation(m) \in Nat /\ Invalidation(m) >= now
  <2>1. 4 - left[m] \in Nat
    BY DEF IInv, Typed
  <2>2. Invalidation(m) \in Nat
    BY <2>1, Sizes DEF Invalidation
  <2>. QED  BY <1>2, <2>2 DEF IInv, InvalidationsAhead
<1>3. ASSUME NEW e \in Events PROVE e \in Nat /\ e >= now
  <2>1. CASE e \in { t.wake : t \in { u \in {wr, rd} : u.at # "ended" } }
    BY <1>1, <2>1
  <2>2. CASE e \in { Invalidation(m) : m \in { n \in Memories : left[n] > 0 } }
    BY <1>2, <2>2
  <2>. QED  BY <2>1, <2>2 DEF Events
<1>. QED  BY <1>3

\* Time passes no event, and nobody runs when it passes.
LEMMA AdvanceInv == IInv /\ Advance => IInv'
<1>. SUFFICES ASSUME IInv, Advance PROVE IInv'
  OBVIOUS
<1>1. /\ running = "none" /\ Events # {} /\ now' = Min(Events)
      /\ UNCHANGED <<running, wr, rd, dmi, memory, left>>
  BY DEF Advance
<1>2. Events \subseteq Nat /\ \A e \in Events : e >= now
  BY EventsAhead
<1>3. now' \in Events /\ \A e \in Events : now' <= e
  BY <1>1, <1>2, FirstEvent
<1>4. now \in Nat /\ now' \in Nat /\ now <= now'
  BY <1>2, <1>3 DEF IInv, Typed
<1>5. NextSync(now) <= NextSync(now') /\ NextSync(now) \in Nat /\ NextSync(now') \in Nat
  BY <1>4, NextSyncGrows, NextSyncAhead
<1>6. ASSUME NEW t \in {wr, rd}, t.at # "ended" PROVE t.wake >= now'
  <2>1. t.wake \in Events
    BY <1>6 DEF Events
  <2>. QED  BY <1>2, <1>3, <1>4, <2>1
<1>7. Waits("writer", wr)' /\ Waits("reader", rd)'
  BY <1>1, <1>6 DEF IInv, Waits
<1>8. InvalidationsAhead'
  <2>1. ASSUME NEW m \in Memories, left[m] > 0 PROVE Invalidation(m) >= now'
    <3>1. Invalidation(m) \in Events
      BY <2>1 DEF Events
    <3>. QED  BY <1>2, <1>3, <1>4, <3>1
  <2>. QED  BY <1>1, <2>1 DEF InvalidationsAhead, Invalidation
<1>9. ASSUME NEW name \in {"writer", "reader"}, NEW t \in Threads, Leads(name, t)
      PROVE  t.at = "loop" =>
                /\ ~(t.local > 0)
                /\ t.sync <= NextSync(t.wake)
                /\ t.i > 0 => Reached(t) < NextSync(now') + Inc + Latency
  <2>1. Reached(t) \in Nat
    BY DEF Reached, Threads
  <2>. QED  BY <1>1, <1>5, <1>9, <2>1, Sizes DEF Leads
<1>10. Leads("writer", wr)' /\ Leads("reader", rd)'
  <2>1. wr \in Threads /\ rd \in Threads
    BY DEF IInv, Typed
  <2>. QED  BY <1>1, <1>9, <2>1 DEF IInv, Leads, Reached, NextSync
<1>11. /\ Typed' /\ PointerRight' /\ Paced' /\ WritesLand' /\ ReadsSeeWrites'
  BY <1>1, <1>4 DEF IInv, Typed, PointerRight, Paced, Reached, Step, WritesLand, ReadsSeeWrites
<1>. QED  BY <1>7, <1>8, <1>10, <1>11 DEF IInv

-----------------------------------------------------------------------------
(***************************************************************************)
(* The theorems.                                                           *)
(***************************************************************************)

LEMMA InvInductive == IInv /\ [Next]_vars => IInv'
<1>. SUFFICES ASSUME IInv, [Next]_vars PROVE IInv'
  OBVIOUS
<1>1. CASE WriterDmi
  BY <1>1, WriterDmiInv
<1>2. CASE WriterTransport
  BY <1>2, WriterTransportInv
<1>3. CASE WriterLeavesLoop
  BY <1>3, WriterLeavesLoopInv
<1>4. CASE WriterEnds
  BY <1>4, WriterEndsInv
<1>5. CASE ReaderReads
  BY <1>5, ReaderReadsInv
<1>6. CASE ReaderEnds
  BY <1>6, ReaderEndsInv
<1>7. CASE \E m \in Memories : Invalidate(m)
  BY <1>7, InvalidateInv
<1>8. CASE Advance
  BY <1>8, AdvanceInv
<1>9. CASE UNCHANGED vars
  BY <1>9 DEF vars, IInv, Typed, PointerRight, Waits, InvalidationsAhead, Invalidation,
     Leads, Paced, Reached, Step, NextSync, WritesLand, ReadsSeeWrites
<1>. QED  BY <1>1, <1>2, <1>3, <1>4, <1>5, <1>6, <1>7, <1>8, <1>9 DEF Next

LEMMA InvAlways == Spec => []IInv
<1>1. Init => IInv
  BY InitInv
<1>2. IInv /\ [Next]_vars => IInv'
  BY InvInductive
<1>. QED  BY <1>1, <1>2, PTL DEF Spec

\* No initiator goes past the end of its pass, no pointer past the memories,
\* and the kernel never finds an event it has left behind (Initiator1.h:52,
\* Initiator2.h:38).
THEOREM TypeCorrect == Spec => []TypeOK
<1>1. IInv => TypeOK
  BY EventsAhead DEF IInv, Typed, TypeOK
<1>. QED  BY <1>1, InvAlways, PTL

\* Through pointers that are granted or not, and taken away at any time, every
\* word written so far is where the bus routes its address, and nowhere else.
THEOREM AlwaysLands == Spec => []WritesLand
<1>1. IInv => WritesLand
  BY DEF IInv
<1>. QED  BY <1>1, InvAlways, PTL

\* With a quantum and costs of any size, and the threads run in any order, the
\* reader never overtakes the writer: a start one quantum late is enough.
THEOREM AlwaysReadsWrites == Spec => []ReadsSeeWrites
<1>1. IInv => ReadsSeeWrites
  BY DEF IInv
<1>. QED  BY <1>1, InvAlways, PTL

\* An initiator hands over in the iteration that reaches the end of the quantum,
\* so it is never ahead by more than the quantum and one iteration.
THEOREM AlwaysLeadBounded == Spec => []LeadBounded
<1>1. IInv => LeadBounded
  <2>1. ASSUME IInv, NEW name \in {"writer", "reader"}, NEW t \in Threads,
               Waits(name, t), Leads(name, t), t.at = "loop", t.i > 0
        PROVE  /\ t.local > 0 => Reached(t) < NextSync(now)
               /\ Reached(t) < NextSync(now) + Inc + Latency
    <3>1. Reached(t) \in Nat /\ t.sync \in Nat /\ now \in Nat
      BY <2>1 DEF Reached, Threads, IInv, Typed
    <3>2. NextSync(now) \in Nat
      BY <3>1, NextSyncAhead
    <3>. QED  BY <2>1, <3>1, <3>2 DEF Waits, Leads
  <2>. QED  BY <2>1 DEF IInv, Typed, LeadBounded
<1>. QED  BY <1>1, InvAlways, PTL
=============================================================================

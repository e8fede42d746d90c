# SystemC-Study: TLA+ models, model checking and proofs

The repository is a set of SystemC and TLM-2.0 programs. They share no code beyond
copied headers (`MM.h`, the non-blocking `Initiator.h` and `Target.h`); each directory is
a system of its own. Paths below are relative to `src/` of the repository.

Contents: 1 inventory, 2 plan, 3 modules and their correspondence to the code, 4 runs,
5 fairness, 6 proofs, 7 what the runs found, 8 limits.

## 1. Inventory

| component | state | operations | interacts by | what is hard |
|---|---|---|---|---|
| **memory manager** `*/MM.h` | a doubly linked list of `access` nodes, cursors `free_list`, `empties` | `allocate`, `free` | called by initiators and, through the reference count, by `release()` on both sides of a socket | the two cursors over one list after a long mix of calls |
| **payload event queue pair** `payload_event_queue_tlm2` | initiator: thread position, `request_in_progress`, its event queue; target: `n_trans`, `response_in_progress`, `next_response_pending`, `end_req_pending`, its event queue; reference counts | `thread_process`, `nb_transport_fw/bw`, two `peq_cb`, `check_transaction`, `send_end_req`, `send_response`, the final `b_transport` | nb_transport calls with annotated random delays, `end_request_event`, the b/nb adapter of the socket | interleaving of queued phases with the thread, two exclusion rules, back-pressure, lost wake-ups, recycling of live objects |
| **bus** `multi_passthrough_socket_tlm2` | the above, four initiators and four targets, and the bus's `mMap` | the above and forward and backward routing | multi-passthrough sockets | several initiators against one `end_req_pending`; what is left when no notification is |
| **fifo channel** `fifo_wait_notify` | `mElementNum`, `readIndex`, `writeIndex`, `buffer`, two events | `read`, `write`, `full`, `update`; producer and consumer threads | blocking calls, `request_update`, zero-time notification, two clocks | wait/notify in delta cycles, `if` around `wait`, index wrap |
| stack channel `stack` | `top`, `data[1024]` | `nb_read`, `nb_write`, `reset` | two clocked threads polling one stack | a producer whose index wraps at 32 over a shorter literal |
| FIR filter `fir` | taps | `fir_core`, source, sink | clocked signals | arithmetic only |
| **FIR with handshake** `fir_handshaking` | taps, four ready/valid signals | `fir_core`, `source`, `sink` | ready/valid signals, read as the previous clock edge left them | ready flags raised once and never cleared |
| XOR `exor` | four NAND gates | `do_nand2` | signals, delta cycles | settling of a combinational network |
| blocking transport `simple_transaction_tlm2` | memory | `b_transport` | blocking call | address bound |
| DMI `simple_transaction_dmi_tlm2` (through the router's model) | memory, `isDmiValid`, `dmiData` | `b_transport`, `get_direct_mem_ptr`, invalidation | DMI pointer and its periodic invalidation | a wait between use and invalidation |
| **router** `simple_dispatching_tlm2` | four memories, DMI state | the above with address decoding | address masks | a DMI pointer for one target used beyond its range |
| **temporal decoupling** `temporal_decoupling` | two initiators with local time offsets, DMI, bus, memories | `b_transport`, DMI, debug transport, quantum keeper `sync` | quantum | one initiator running ahead of the other |
| **RISC CPU** `risc_cpu` | ten units joined by signals: fetch, bios, paging, icache, decode, exec, floating, mmxu (modelled), dcache and pic (idle in this program) | one clocked thread each | single-cycle valid strobes | a strobe that falls before its reader looks, branch and interrupt paths |

What makes them correct, by component, is the list of properties in section 4.
`PROJECT.json` lists the hazards, each at its line, with the properties that cover it or
the reason why none does.

## 2. Plan

1. *Done.* `FreePool`, `MM`, `BaseProtocol`, `AtPipeline`, `BoundedQueue`, `Fifo`, `AtBus`:
   the components with real concurrency or long-lived state; the proofs of `MM`,
   `AtPipeline` and `Fifo`.
2. *Done.* `RiscAlu`, `RiscCpu` (the processor by the clock edge), `Decoupled` (two local
   times, a quantum, direct accesses and their invalidation), `Dispatch` (the router),
   `Handshake` (ready and valid lines by the clock edge).
3. *Done.* The proofs of `AtBus`, `Decoupled`, `Handshake` and `RiscCpu`, of node recycling in `MM`, and the
   remainder lemmas of `Remainders` they share.
4. *Done.* What a taken branch of `RiscCpu` does, for every program without two branches side by side, and
   its types; what is left where nothing is pending any more in `AtPipeline` and `AtBus`, and how many steps at most it
   takes to get there; the length of a run of `Handshake`; three findings of the runs
   as theorems for every instance.
5. *Not planned:* the components of section 8.

## 3. Modules

| module | models | abstracts |
|---|---|---|
| `FreePool` | the contract of the memory manager: a last-in first-out pool, objects in use or free | nothing of the list |
| `MM` | `MM.h`: nodes as records with `next` and `prev`, cursors `free_list` and `empties`, actions `Allocate` and `Free` | a node is its position in the order of creation |
| `BaseProtocol` | the phases of a TLM-2.0 transaction, the two exclusion rules, the pipeline depth | who sends what |
| `AtPipeline` | `Initiator.h` and `Target.h` of `payload_event_queue_tlm2`; the pool through `FreePool` | delays, addresses and data |
| `AtBus` | the same two classes behind `Bus.h` of `multi_passthrough_socket_tlm2` | the order of the pool |
| `BoundedQueue` | a queue with a capacity | - |
| `Fifo` | `fifo.cc`, `producer.cc`, `consumer.cc` and the delta cycle that runs them | the distance between clock edges |
| `RiscAlu` | what each operation of `exec.cc`, `mmxu.cc` and `floating.cc` computes, as operators with the width as a constant | the flags C, V, Z |
| `RiscCpu` | `fetch.cc`, `bios.cc`, `paging.cc`, `icache.cc`, `decode.cc`, `exec.cc`, `floating.cc`, `mmxu.cc`, wired as in `main.cc`: one step is one clock edge of all units | an instruction is a record of its fields |
| `Decoupled` | `Initiator1.h`, `Initiator2.h`, `Bus.h`, `Memory.h` of `temporal_decoupling`, with the quantum keeper | a word written is its address |
| `Dispatch` | `Initiator.cc`, `Router.h`, `Memory.cc` of `simple_dispatching_tlm2` | data; what is kept is where each access lands |
| `Handshake` | `fir.cc`, `tb.cc` of `fir_handshaking`: one step is one clock edge of all threads | nothing but the output to the screen |

`MC*` modules add only definitions a run needs. `MMProofs`, `AtPipelineProofs`, `AtBusProofs`, `FifoProofs`,
`DecoupledProofs`, `HandshakeProofs` and `RiscCpuProofs` hold the theorems about the module they are named after,
`Remainders` holds lemmas on quotients and remainders.

Correspondence, beyond `PROJECT.json`'s map:

- **Processes.** SystemC threads are not preempted, so what a thread does up to its next
  `wait` is one action. `thread_process` is cut at `wait(end_request_event)` (`pc =
  "wait_end_request"`, then `"notified"` when the event came and the kernel has yet to
  run it), at the delay at the end of its loop (`pc = "gap"`) and inside `b_transport`.
  `end_request_event.notify()` without an argument wakes only a thread that is waiting
  already, so `EndRequest` leaves `pc` alone otherwise: the model can lose a wake-up.
- **Event queues.** `m_peq.notify(trans, phase, delay)` adds a pair to a set; the callback
  takes one out. The delays are random up to 9.7 ns per hop (`Util.h:6-10`), so any
  pending pair may be next, with one exception: `send_end_req` queues the internal
  event no earlier than END_REQ (`Target.h:171-182`, the second delay is added to the
  first) and BEGIN_RESP is sent from the internal event, so BEGIN_RESP of a transaction
  waits for its END_REQ (`EndReqFirst`). At equal times the queue of the initiator received END_REQ
  first. `RequestExclusion` rests on it: with the second delay not added to the first, a late
  END_REQ would end the request of the next transaction, and the mutant `EndReqAnyTime` breaks it. The bus example uses fixed delays in some places
  (1.5 ns, 0.1 ns, 10 ns); its model allows all the orders, which includes the real ones.
- **`Drained`.** The final `b_transport` comes 100 ns after the loop
  (`Initiator.h:103`); what remains of at most three transactions then takes at most
  about 80 ns of hops. The model waits for the event queues to be empty.
- **The b/nb adapter** of `simple_target_socket` is library code: it forwards BEGIN_REQ,
  keeps END_REQ to itself and answers BEGIN_RESP with TLM_COMPLETED, which wakes
  `b_transport`. `Backward` and `Complete` model what the target sees of it.
- **Reports.** `SC_REPORT_ERROR` throws and `SC_REPORT_FATAL` aborts: `report` records it and
  every action needs `Running`.
- **Branches not modelled** because no caller reaches them: TLM_UPDATED and
  TLM_COMPLETED from `nb_transport_fw` (attributes are always supported,
  `Target.h:53-60`), the illegal phases of both callbacks (no code sends them), a target
  number out of range in the bus (`address & 3` with four targets), the bus's
  `b_transport` and DMI calls (no initiator makes them).
- **Reference counts.** `Allocate` of `AtPipeline` folds `allocate()` and the `acquire()`
  that follows it. `UsesPoolCorrectly` maps `ref[t] > 0` to "in use" of `FreePool`, which `MM`
  implements: the two meet at the contract.
- **`fifo`.** `Update` is enabled only when no thread can run (`Evaluated`), and a clock ticks
  only when no update is requested. `{"slow", "fast"}` is an edge of both clocks, after
  which the two threads run in either order. Both clocks being free to tick in any
  order covers the periods of `main.cc` and all others. A consumer woken in a delta
  cycle may run before or after a producer. `read` counts the characters read and is a
  history variable; the consumer's own index, which only selects a place of
  `receivedString`, is left out. A channel of size 0 or less is not considered
  (`SizeAssumption`).
- **Clocked threads** (`RiscCpu`, `Handshake`). `sc_signal` values written in one evaluation are seen in the
  next, and all threads wait for the same edge, so the order of the threads within an edge does not matter: unprimed
  is what a thread reads, primed what it writes. `At(t, l, k)` is a `wait(k)` that
  goes on at `l`. Where two units drive one signal (`ram_dataout`; the floating unit's output lines, which
  `mmxu` shares), either may be last at an edge where both write.
- **`RiscCpu`.** `Issue` holds what every case of decode's switch hands to a unit; the cases differ in nothing
  else, and their timing is that of `add`. The timing of the model is that of the log
  `risc_cpu/README_TYPESCRIPT`. As in the code: a taken branch or jump also adds 0 and 0 into
  register 0; `jal` and `jr` do nothing; `lw` and `sw` drive lines that no port of `main.cc` reads; `addc` and
  `subc` carry a constant 0; `halt` is an instruction like any other and QUIT, which is what lies behind the end
  of the image, stops; PADD and PSUB of `mmxu` leave lane 0 unmasked, so a carry reaches the next lane.
  `floating.cc` may shift by a negative count, which the language leaves undefined: the model
  takes the count modulo the width, as the usual processors do. `arch` is a history variable: the registers
  of a machine that ends each instruction before it starts the next.
- **`Decoupled`.** `running` is the initiator that has not given the kernel back: it goes on
  without a wait until the quantum keeper says `need_sync`. `wake` is the simulation time at which
  it last did or next will run, `local` the keeper's local time. `get_direct_mem_ptr` of
  `Memory.h:61` has no return statement: whatever `isDmiValid` becomes is a choice (`granted`), in
  `Dispatch` too. The reader's transactions come from `MM` and are not part of the model.
- **`Dispatch`.** Also stands for `simple_transaction_dmi_tlm2`, whose initiator and memory are the
  same with one memory, a loop within it, and an error that a user may inject.

## 4. Runs

| run | instance | shows | distinct states |
|---|---|---|---|
| `mm` | 4 objects | the list stays linked and split without a gap, no object is shared or lost, nodes are recycled, and the list implements the pool | 1 616 |
| `at_pipeline` | 5 objects, 5 iterations and the final `b_transport` | no report, exact pipeline count, request exclusion, deferred acceptance released, no dangling reference, four objects suffice, completion, base protocol, pool contract | 27 276 |
| `at_bus` | 3 initiators, 2 targets, 2 iterations each, symmetric | the same rules per initiator and per target, and once no notification is left nothing is unfinished but what hangs on an overwritten request | 740 209 |
| `at_bus_deferred` | 2 initiators, 1 target | **violated**: a deferred request is never issued | 6 104 |
| `fifo` | capacity 3, string of 5 | exact count, order, no lost wake-up, bounded queue | 563 |
| `fifo_uninitialised` | the same, count starting at -1, 0, 1 or 3 | **violated**: the string arrives damaged | - |
| `risc_cpu` | every program of two free instructions of any kind between three fixed ones, memories of latency 2 and 4 | no strobe missed, operands current without interlocks, the right instruction for each address, on a branch too, where fetch does not put the address on the bus, addresses one by one whatever branches are taken (behind one each is handed over three times), fetch not past the image, words in every register, the program ends or traps in a division | 491 312 |
| `risc_branch` | the same, latency 2 | **violated**: a taken branch does not reach its target | - |
| `decoupled` | the program's own numbers, times in units of 5 ns | writes land where the bus routes them, reads see them, the lead is bounded | 20 227 |
| `dispatch` | the program's own numbers, two of four memories | **violated**: an access lands in the wrong memory | - |
| `handshake` | every stimulus of six samples over three values, 16 bits | each sample taken once and in order, right sums, no output lost, the end is reached | 11 664 |
| `handshake_sink` | the same | **violated**: an output is read twice | - |

Why the bounds are enough.

- `at_pipeline`: back-pressure keeps at most four objects live (`AtMostFourLive`, proved for any number),
  so five objects include one that was never needed, and five iterations fill the pipeline, put off a
  request, put off a response, block the thread and recycle an object. The 1000 iterations
  of the code repeat these.
- `at_bus`: a target has to be full (two accepted) while two further requests arrive: three
  initiators with two iterations each do so at one target while the other is also in use. Initiators,
  targets and slots are interchangeable and the run checks only invariants, so symmetry is sound.
- `fifo`: a capacity of 3 against a string of 5 lets the indices wrap at different places from the string,
  and every combination of full, empty, waiting and woken occurs. The proofs cover all other sizes.
- `risc_cpu`: an instruction is over before the second after it is issued (two fetches apart), so two free
  instructions and a last one that uses their results show every pair side by side; they sit across the
  border from bios to cache. Words are shortened to four lanes of two bits, of which three are the
  exponent of a number: every operation, wrap, saturation and trap still occurs, with operands 1, -1 and
  the least integer, whose quotient by -1 overflows. A
  latency above 2 changes how the bios counts (`bios.cc`): 2, the value of `main.cc:85`, and 4 show both. The
  proofs cover every latency from two cycles on (`LatencyAssumption`). A latency of one is excluded: with a bios long
  enough, a product would come out while decode is busy with the next instruction.
- `decoupled`, `dispatch`: nothing is scaled down but the number of memories in `dispatch`, where
  the passage from the first to the second is the one the loop makes.
- `handshake`: five taps, so six samples fill them and shift one out; 32767 times a coefficient
  overflows 16 bits.
- `mm`: with four objects every place of the cursor in the list occurs: at its end, inside, before the first node.

Each property of a passing run has a mutant, a plausible slip in the code (a dropped
`acquire`, a limit off by one, a missing notify, a cursor not advanced) that breaks it.
The mutants stand before the definition they change, named after what is wrong.

## 5. Fairness

`AtPipeline` and `AtBus`: weak fairness of every ready thread and of the delivery of every queued
notification. The kernel runs all ready processes and advances to the next timed
notification until none is left; delays are bounded, so no pending notification is put
off for ever. Weak fairness per transaction is enough since a pending pair stays pending
until delivered. `Fifo`: weak fairness of each thread, of `Update`, and of the tick of each
clock, since a clock that is waited for always has a next edge within `sc_start`'s time
(which the model takes as unbounded; the default is 6000 ns). `RiscCpu` and `Handshake`: weak fairness of the
clock edge alone, since `sc_start()` keeps the clock going until `sc_stop`; no unit is given
more than that. `Decoupled` and `Dispatch`: none, only safety is stated.

## 6. Proofs

All by TLAPS, for every number of objects, iterations, initiators, targets, capacities, string lengths,
samples, quanta and memory latencies the assumptions allow. These are named in the modules, and TLC evaluates
them on every run:

| assumption | module | why the code justifies it |
|---|---|---|
| `NullAssumption` | `MM`, `AtPipeline`, `AtBus` | the null pointer is no object |
| `CountAssumption` | `AtPipeline`, `AtBus`, `Fifo` | loop bounds are natural, the count is an `int` |
| `SizeAssumption`, `LengthAssumption` | `Fifo` | neither channel nor string is empty |
| `SizesAssumption` | `Decoupled`, `Handshake`, `RiscCpu` | the program's sizes and times, none of which is zero; the instruction cache begins where the bios ends |
| `TimesAssumption` | `Decoupled` | the reader starts a quantum late (`Initiator2.h:35`); a direct access costs no more than a transaction (`Memory.h:27`, `66`) |
| `LatencyAssumption` | `RiscCpu` | memories take two cycles or more (`main.cc:85`) |
| `ContentsAssumption` | `RiscCpu` | an image holds instructions, whose fields are cut to the width of a register number (`decode.cc:102-113`); the registers hold words |
| `WidthsAssumption` | `RiscAlu` | lanes, exponent and fraction have bits |

Three theorems about the fifo also assume `InitialElementNum = {0}`, as the violated run shows they must, and
`RiscCpuProofs.TypeCorrect` assumes `UnitsComputeWords`, which the run `risc_cpu` evaluates at its width (see below).

- `MMProofs`. The inductive invariant is type correctness with `Linked` and `NeverSharedOrLost`:
  the list's shape is needed to know that `free_list.next` is the node below, and the shape in
  turn needs that `empties` is the node above. `ImplementsPool` follows by mapping
  the nodes from `free_list` down to a sequence. `NodesRecycled` compares the length of the list with the number of
  objects ever created: a new node is made only by a `free` that finds none above the cursor, so that every node holds
  a free object, no two the same, and the object now freed is one more. The invariant is strengthened
  with the finiteness of the set of objects.
- `AtPipelineProofs`. None of the properties is inductive: n_trans is a number while the
  transactions it counts sit in four places, and the reference count of a transaction depends on
  which place. The proof gives every transaction a stage (`st`), says in one conjunct what each
  stage means for the queues, pending pointers and count of references, and in others how
  stages may coexist (at most one at each of request, response, and thread). Each action
  moves one transaction, or up to three for END_RESP, to its next stage; one lemma
  per action shows the whole invariant again. From it follow the count, both exclusion rules, the absence of
  reports, reachability implying liveness, the bound of four, and the two refinements (`BaseProtocol`, `FreePool`).
  `QuietMeansDone` is the half of `EverythingCompletes` that is safety: whenever both event queues are empty the
  thread can run or has ended, nothing is in flight or put off, and no object is in use but the thread's next one. A lost
  wake-up or a deferred call nobody makes would show here. That the queues do run empty is `StepsAreBounded`: a
  natural number, `Remaining`, falls at every step. It adds up seven for each transaction not yet generated, what the final
  call still takes, and for each transaction under way the events still to come (`Outstanding`). A callback ends one event
  and starts none that was not counted; generating a transaction costs seven and adds six at most. So the pair takes at most
  `7 * NbTransactions + 8` steps, and all that is left to fairness is that a possible step is taken.
- `FifoProofs`. `CountExact` is stated with a modulo; the invariant keeps the distance of the indices without it.
  `ContentInOrder` says what the buffer holds: the j-th unread element is the j-th character after
  the last one read. Keeping it needs `RemainderAdds` of `Remainders`, which is proved from uniqueness of the
  remainder since the SMT backend knows nothing of a product of two variables. It yields
  `ReadsInOrder` and the refinement of `BoundedQueue`. `WrongCountNeverHeals` is what the run `fifo_uninitialised`
  shows, for every instance: the distance of the indices is the count less what it held at the start, but for whole turns of the
  ring (`OffBy`), so a start that is no multiple of the capacity leaves the count wrong in every state. `NoWakeUpLost` is
  the half of `WaitsEnd` that is safety, whatever the count starts with: who waits has a reason to, or `update()`, which wakes it,
  is still to come in this delta cycle; so the two threads never wait for each other.

- `AtBusProofs`. Stages as in `AtPipelineProofs`, per target, and one more: `lost`, for a request that was put off and
  then overwritten by the next. Nothing at the target holds such a request, yet its initiator still has it as its
  request in progress. All safety properties hold in spite of it. `StuckForEver` says for every instance what the run
  `at_bus_deferred` shows on one: once an initiator waits for the end of a request that is lost, it always will. `AloneNeverOverwritten` is its other
  side: with a single initiator nothing is ever lost, on however many targets. `QuietButForTheStuck` (`OnlyOverwrittenLost`) says that this is
  all that goes wrong: whenever no notification is left every target is idle, and a thread that still waits is one of
  `StuckForEver`'s. Like the last part of `PipelineCount`, it needs that a request is put off only behind two others and that a thread waits only while a request is
  open (`Owed`). `AloneNeverWaits` combines the two. `StepsAreBounded` is the theorem of `AtPipelineProofs` for the bus, at most seven
  steps for each transaction of each initiator; an overwritten request only makes the number fall faster. It assumes
  that the initiators are finitely many. Together they say how every run on the bus ends.
- `DecoupledProofs`. `WritesLand` needs that a valid pointer of the writer has exactly the range of the memory it
  points into (`PointerRight`). `ReadsSeeWrites` is about time: nothing tells the reader that a word has been written, but
  it has spent `Latency + Inc` on each word since its late start, and the writer at most that on each of its own
  (`Paced`). With what the keepers allow (`Leads`) the reader is never past the writer (`ReaderBehind`), also while one has
  run its quantum and the other has not. `Leads` gives `LeadBounded` as well.
- `HandshakeProofs`. The three threads go through five phases (`Beginning`, `FirstTaken`, `FirstRead`, then
  `Offered` and `Answered` in turn), one per clock edge. Each phase says which lines are up and how far the three
  counters are apart; the first output, which is read twice, is the reason for the phases before the last two. No
  property follows from the ready lines, which are never lowered, and that is the point of the proof. `LastNeverRead`
  is the finding of `handshake_sink` for every number of samples above one: from its second look on the sink is one output
  behind, and when the simulation stops the last output is there and unread. `EdgesCounted` gives the length of the
  simulation, `2 * Samples + 3` edges of the clock, by a number that falls by one at each and is zero when `sc_stop` is called.
- `RiscCpuProofs`. Two invariants. `MInv` is about the memories: whichever unit drives the bus, with whatever
  latency, what it will answer belongs to the address fetch keeps on the bus. It yields the first half of `RightInstruction`. `TInv` is
  about time: nothing interlocks decode and the units, so the invariant says how many edges away the next
  instruction is at least (`InstrDue`), how many until decode is at its loop (`LoopDue`), until operands are on the
  lines (`OperandsDue`) and until a result is out (`ResultDue`), and that each is early enough for the next. The
  registers of the reference machine are those of the processor, with the one result on its way written. It
  yields `StrobesSeen` and `OperandsCurrent`, whatever the units compute. `Counting` adds that fetch's address is one
  ahead of the program counter until a branch is taken, for which decode's `next_pc` must be up before the
  first instruction comes. The three together say that until then the processor runs the memory image from address 1
  on as a sequential machine does. `Branching` says what happens after, in programs without two branches side by side
  (`Sparse`): decode works at what fetch handed over last (`InStep`), fetch's address is one ahead of the program counter, or on
  it while `lock_tmp` counts (`Fetching`), and a branch that is up names, by the time fetch looks, the instruction
  fetch is about to hand over again (`Pending`). Together these give `InSequence`, and the second half of
  `RightInstruction`: on a branch fetch reads with the old address on the bus (`fetch.cc:118`), and the address it has taken over is the
  same only because decode has overwritten the target by then (`decode.cc:408`). Each of the two faults hides the other; with the
  target kept, fetch would report a word of another address. `Sparse` is needed: behind a taken branch that
  stands behind another fetch takes over an address decode did compute. `Ending` adds that the program counter never passes the QUIT
  behind the image (`StaysInImage`). `TypeCorrect` then follows: an instruction comes from the image, its fields
  name registers, the operands decode hands over are words and the operation is one the unit knows (`Words`), so the result is a
  word, if `UnitsComputeWords` holds. That hypothesis has no variable: it says that, for every two words and every operation that decode
  issues, the unit's formula gives a word. `MCRiscCpu` states it as an ASSUME, which TLC evaluates for all words of its width. It cannot be
  proved for every width: sums over sets of bits are an induction over data, and the provers do not
  even know that `2^n` is a number when `n` is not a literal. The attempt at latency one failed for a good
  reason, hence `LatencyAssumption`.

Only model-checked: `EverythingCompletes`, `WaitsEnd`, `ProgramEnds` and `SinkEnds`, since liveness under fairness is out of
the prover's reach. Of the first `QuietMeansDone` and `StepsAreBounded` prove all but that a possible step is
taken, of the last `EdgesCounted` all but that the clock ticks, and of the second `NoWakeUpLost` what is safety. `UnitsComputeWords`,
on which `TypeOK` of `RiscCpu` rests, is evaluated by TLC and not proved; the other theorems about the processor do not rest on it.
That `TypeOK` is also only model-checked, on the programs of the run, for programs that have two branches side by side: a taken branch out of another may leave the image in general.

## 7. Findings

1. `multi_passthrough_socket_tlm2/Target.h:83` keeps one deferred request. With several
   initiators a second request that arrives while the pipeline is full overwrites the
   first, whose END_REQ is then never sent: its initiator waits for ever on
   `end_request_event`. The comments at lines 81 and 115 say the deferred END_REQ is issued. With one
   initiator (`payload_event_queue_tlm2`) the BEGIN_REQ rule leaves room for one only, and
   `PipelineCount` and `EverythingCompletes` hold. The theorem `StuckForEver` says that nothing ever
   revives such an initiator, `AloneNeverOverwritten` that one initiator cannot get there.
2. `fifo_wait_notify/fifo.h:8-14` leaves `mElementNum` uninitialised. With a positive value the
   consumer reads what was never written; with a negative one the channel takes more than its
   buffer holds and overwrites when the reader is slow. By `WrongCountNeverHeals` it never recovers. The producer's string
   (`producer.cc:5`) says of itself that it will not be reversed; it does not arrive as
   written at all.
3. `risc_cpu/decode.cc:408` holds a branch's target on its line for one cycle and puts the address of the next
   instruction there while `branch_valid` is still up; fetch reads it two cycles later
   and, at `fetch.cc:118`, does not write it to the bus anyway. A taken branch goes nowhere: in the
   repository's own log the branch at 0x1f with `pc+=(-6)` is followed by 0x20. `decode.h:59` calls the line
   "branch target address". What the branch does is have the instruction behind it handed over three times, the second and third time
   counted by `lock_tmp` (`fetch.cc:116`, `140`): in the log 0x20 comes at 222, 229 and 237, then 0x21. Proved
   for every program without two branches side by side (`AlwaysInSequence`); if the instruction behind a taken branch is a taken branch too,
   fetch ends up at the address after its target.
4. `simple_dispatching_tlm2/Initiator.cc:16` uses a valid pointer for any address. The loop crosses byte
   address 256 between two memories, where the access goes to word 64 of the first memory. The
   sister program tests the range (`temporal_decoupling/Initiator1.h:38`).
5. `fir_handshaking/tb.cc:45` raises `out_ready` only when it reads: the filter sees it one edge later, and the
   sink, which looks at each edge, reads the first output twice. The last one is never read (`LastNeverRead`, for any number above one). From
   the second on neither ready line has any effect, since neither is lowered; the
   two sides stay in step because a source needs two edges per sample, which `NoOutputLost` shows to be enough.

## 8. Limits

Not modelled:

- `risc_cpu/dcache.cc` and `pic.cc`, and the interrupt path of `fetch.cc`: `main.cc` drives none of their
  request lines (`mmic_*`, `ireq0` to `ireq3`), so they never leave their first wait. A model would have to invent
  what drives them. The write operations of `bios`, `paging` and `icache` are not reached for the same reason.
- `exec.cc`'s flags and its two shift operations: nothing reads the flags, and decode issues no shift.
- `risc_cpu/assembler.pl`, the memory images, makefiles, the PDFs of `doc`: text and data.
- `stack`: a consumer twice as fast as the producer keeps at most one character in it. What lies behind the literal
  of `producer.cpp:11` is up to the build.
- `exor`: four gates and four vectors, which its test bench goes through whole. `fir`: the sums
  of `Handshake` without its lines. `simple_transaction_tlm2`: sequential, and part of `Dispatch`.
- `transport_dbg` and the dumps: they only read.

The data exchanged by the
AT examples is left out, and with it one hazard: `data[i % 16]` is shared by transactions sixteen
iterations apart. Four are live at once, but one may stay in the pipeline while others
pass it through the second place, so being four does not keep sixteen apart; only the
delays make it unlikely.

---------------------------- MODULE RiscCpuProofs ----------------------------
(***************************************************************************)
(* The processor, for every program, every number of registers, every      *)
(* latency from two cycles on, and whatever the three units compute.       *)
(*                                                                         *)
(* Two invariants that rest on different parts of it.  The first is about  *)
(* the memories: an answer belongs to the address that is on the bus.  The *)
(* second is about time: nothing interlocks decode and the units, so what  *)
(* keeps them apart is how many edges each needs and how many there are at *)
(* least between two instructions.                                         *)
(***************************************************************************)
EXTENDS RiscCpu, TLAPS

-----------------------------------------------------------------------------
(***************************************************************************)
(* The invariant of the memories.                                          *)
(***************************************************************************)

\* The records of the units, whatever their fields hold, and their lines.
FetchShape ==
    /\ DOMAIN ifu = {"at", "n", "addr", "lock", "mode", "cs", "bus", "ivalid", "instr", "pc",
                     "bclear"}
    /\ ifu.at \in {"start", "poll", "strobe", "gap", "head"}
    /\ ifu.cs <=> ifu.at = "poll"
    /\ ifu.ivalid <=> ifu.at = "strobe"
    /\ latency \in Nat /\ latency >= 2
MemoryShape ==
    /\ DOMAIN bios = {"at", "n", "addr", "valid"}
    /\ bios.valid <=> bios.at = "valid"
    /\ bios.at = "valid" => bios.n = 0
    /\ DOMAIN paging = {"at", "n", "cs", "phys", "valid"}
    /\ paging.cs <=> paging.at = "await"
    /\ paging.valid <=> paging.at = "valid"
    /\ paging.at = "valid" => paging.n = 0
    /\ DOMAIN icache = {"at", "n", "addr", "data", "valid", "pid"}
    /\ icache.valid <=> icache.at = "valid"
    /\ icache.at = "valid" => icache.n = 0

\* The address on the bus is the one fetch will name with the instruction.
Named == /\ ifu.at = "start" => ifu.mode = "boot"
         /\ ifu.at = "poll" => IF ifu.mode = "branch" THEN ifu.pc = ifu.bus
                               ELSE ifu.addr = ifu.bus
         /\ ifu.at \in {"strobe", "gap", "head"} => ifu.pc = ifu.bus
         /\ ifu.at = "strobe" => ifu.instr = Image(ifu.bus)

\* A memory works for fetch only while fetch waits, and for the address on the
\* bus; only one of them, for their addresses are apart.
Answering ==
    /\ bios.at \in {"delay", "valid"} =>
          ifu.at = "poll" /\ bios.addr = ifu.bus /\ InBios(ifu.bus)
    /\ paging.at \in {"await", "valid"} =>
          ifu.at = "poll" /\ paging.phys = ifu.bus /\ ~InBios(ifu.bus)
    /\ icache.at \in {"read", "valid"} =>
          paging.at = "await" /\ paging.n = 0 /\ icache.addr = paging.phys
    /\ paging.at = "await" => paging.n \in 0 .. 1
    /\ bios.valid \/ paging.valid => ramdata = Image(ifu.bus)
    /\ icache.valid => icache.data = Image(icache.addr)

MInv == FetchShape /\ MemoryShape /\ Named /\ Answering

-----------------------------------------------------------------------------
(***************************************************************************)
(* The invariant of the pipeline: the edges that are left, at least or     *)
(* exactly, until something can be seen.                                   *)
(***************************************************************************)

\* The records of decode and of the units.
PipeShape ==
    /\ DOMAIN idu = {"at", "n", "instr", "todo", "jump", "pc", "out", "nextPc", "bvalid",
                     "btarget", "pidValid"}
    /\ DOMAIN idu.out = {"unit", "op", "a", "b", "dest"}
    /\ DOMAIN ieu = {"at", "n", "result", "dest", "valid", "data", "destout"}
    /\ DOMAIN fpu = {"at", "n", "result", "dest"}
    /\ DOMAIN mmu = {"at", "n", "result", "dest"}
    /\ DOMAIN fout = {"valid", "data", "dest"}

\* How long each thread can be where it is.
Waiting ==
    /\ ifu.n \in 0 .. latency /\ (ifu.at # "poll" => ifu.n = 0)
    /\ idu.at \in {"loop", "decode", "lower", "end", "stop"}
    /\ idu.n \in 0 .. 2 /\ (idu.at \in {"decode", "lower", "stop"} => idu.n = 0)
    /\ ieu.at \in {"loop", "write", "lower"} /\ ieu.n \in 0 .. 3
    /\ ieu.at = "write" => ieu.n <= 1
    /\ ieu.at = "lower" => ieu.n = 0
    /\ fpu.at \in {"loop", "write", "lower"} /\ fpu.n \in 0 .. 4
    /\ fpu.at = "write" => fpu.n <= 1
    /\ fpu.at = "lower" => fpu.n = 0
    /\ mmu.at \in {"loop", "write", "lower"} /\ mmu.n \in 0 .. 3
    /\ mmu.at = "write" => mmu.n <= 1
    /\ mmu.at = "lower" => mmu.n = 0

\* Until fetch can hand over the next instruction, at the earliest.
InstrDue == IF ifu.at = "strobe" THEN 0
            ELSE IF ifu.at = "poll" THEN ifu.n + 1 ELSE latency + 2
\* Until decode, which waits at l for n edges, looks at results and instructions.
LoopFrom(l, n) == IF l = "loop" THEN n
                  ELSE IF l = "end" THEN n + 1
                  ELSE IF l = "lower" THEN 2 ELSE 3
LoopDue == LoopFrom(idu.at, idu.n)
\* Until the next operands are on the lines, at the earliest, decode being at l
\* and the next instruction i edges away.
OperandsFrom(l, i) == IF l = "lower" THEN 0 ELSE IF l = "decode" THEN 1 ELSE i + 2
OperandsDue == OperandsFrom(idu.at, InstrDue)
\* Until a unit that waits for w edges after it has lowered its line looks at
\* operands, and until its result is on the lines.
FreeDue(t, w) == IF t.at = "loop" THEN t.n
                 ELSE IF t.at = "write" THEN t.n + 1 + w ELSE w
ResultDue(t) == IF t.at = "write" THEN t.n + 1 ELSE 0

InTime ==
    /\ LoopDue <= InstrDue
    /\ idu.at = "decode" => InstrDue >= latency + 2
    /\ idu.at \in {"lower", "stop"} => InstrDue >= latency + 1
    /\ FreeDue(ieu, 1) <= OperandsDue
    /\ FreeDue(fpu, 2) <= OperandsDue
    /\ FreeDue(mmu, 1) <= OperandsDue

\* A result that is on its way comes when decode is in its loop, and before the
\* next instruction does; so there is only one.
Awaited(t) == t.at # "loop" => /\ LoopDue <= ResultDue(t) /\ ResultDue(t) <= InstrDue
                               /\ idu.at \in {"loop", "end"}
OneAtATime == /\ ieu.at = "loop" \/ fpu.at = "loop"
              /\ ieu.at = "loop" \/ mmu.at = "loop"
              /\ fpu.at = "loop" \/ mmu.at = "loop"

\* The lines that are up.
Lines ==
    /\ idu.at # "lower" => idu.out.unit = "none"
    /\ idu.out.unit \in {"none", "exec", "float", "mmx"}
    /\ ieu.valid <=> ieu.at = "lower"
    /\ ieu.at = "lower" => ieu.data = ieu.result /\ ieu.destout = ieu.dest
    /\ fout.valid <=> fpu.at = "lower" \/ mmu.at = "lower"
    /\ fpu.at = "lower" => fout.data = fpu.result /\ fout.dest = fpu.dest
    /\ mmu.at = "lower" => fout.data = mmu.result /\ fout.dest = mmu.dest

\* The registers once the result that is on its way is in them.
Landed(t, r) == IF t.at = "loop" THEN r ELSE [r EXCEPT ![t.dest] = t.result]
LandedRegs == Landed(mmu, Landed(fpu, Landed(ieu, regs)))

\* What the unit that u names makes of the registers r, and of the result l of
\* the integer unit.
ComputedBy(u, r, l) ==
    LET x == ExecResult(u.op, u.a, u.b, l)
    IN  IF u.unit = "none" \/ Traps(u) THEN [r |-> r, last |-> l]
        ELSE CASE u.unit = "exec" -> [r |-> [r EXCEPT ![u.dest] = x], last |-> x]
               [] u.unit = "float" ->
                    [r |-> [r EXCEPT ![u.dest] = FloatResult(u.op, u.a, u.b)], last |-> l]
               [] u.unit = "mmx" ->
                    [r |-> [r EXCEPT ![u.dest] = MmxResult(u.op, u.a, u.b)], last |-> l]
Computes == ComputedBy(idu.out, regs, ieu.result)

\* The reference machine is ahead by what is on its way.
Reference ==
    /\ arch = IF idu.at = "lower" THEN Computes ELSE [r |-> LandedRegs, last |-> ieu.result]
    /\ idu.at = "decode" => idu.todo = Issue(idu.instr, regs)

TInv == PipeShape /\ Waiting /\ InTime /\ Awaited(ieu) /\ Awaited(fpu) /\ Awaited(mmu)
          /\ OneAtATime /\ Lines /\ Reference

-----------------------------------------------------------------------------
(***************************************************************************)
(* The memories: what each unit does in a step.                            *)
(***************************************************************************)

\* Fetch goes on by one edge, whatever it waits for.
LEMMA FetchDoes ==
    ASSUME FetchShape, Fetch, latency' = latency
    PROVE  /\ FetchShape'
           /\ \/ /\ ifu.n > 0 /\ ifu'.n = ifu.n - 1
                 /\ UNCHANGED <<ifu.at, ifu.addr, ifu.mode, ifu.bus, ifu.pc, ifu.instr>>
              \/ /\ ifu.at = "start" /\ ifu.n = 0 /\ ifu'.at = "poll" /\ ifu'.n = latency
                 /\ ifu'.bus = ifu.addr /\ UNCHANGED <<ifu.addr, ifu.mode>>
              \/ /\ ifu.at = "poll" /\ ifu.n = 0 /\ (bios.valid \/ paging.valid)
                 /\ ifu'.at = "strobe" /\ ifu'.n = 0 /\ ifu'.instr = ramdata
                 /\ ifu'.bus = ifu.bus
                 /\ ifu'.pc = IF ifu.mode = "branch" THEN ifu.pc ELSE ifu.addr
              \/ /\ ifu.at = "poll" /\ ifu.n = 0 /\ ~(bios.valid \/ paging.valid) /\ ifu' = ifu
              \/ /\ ifu.at = "strobe" /\ ifu.n = 0 /\ ifu'.at = "gap" /\ ifu'.n = 0
                 /\ UNCHANGED <<ifu.bus, ifu.pc>>
              \/ /\ ifu.at = "gap" /\ ifu.n = 0 /\ ifu'.at = "head" /\ ifu'.n = 0
                 /\ UNCHANGED <<ifu.bus, ifu.pc>>
              \/ /\ ifu.at \in {"gap", "head"} /\ ifu.n = 0 /\ ifu'.at = "poll"
                 /\ ifu'.n = latency
                 /\ \/ ifu'.mode = "branch" /\ UNCHANGED <<ifu.bus, ifu.pc>>
                    \/ ifu'.mode = "next" /\ ifu'.bus = ifu.addr /\ UNCHANGED ifu.addr
<1>1. latency \in Nat /\ latency + 1 - 1 = latency /\ 1 - 1 = 0
  BY DEF FetchShape
<1>2. CASE ifu.n > 0 /\ ifu' = Tick(ifu)
  BY <1>2 DEF FetchShape, Tick
<1>3. CASE FetchStart
  BY <1>1, <1>3 DEF FetchShape, FetchStart, Ready, At
<1>4. CASE FetchPoll
  BY <1>1, <1>4 DEF FetchShape, FetchPoll, Ready, At
<1>5. CASE FetchLower
  BY <1>1, <1>5 DEF FetchShape, FetchLower, Ready, At
<1>6. CASE Ready(ifu, "gap") /\ ifu.lock = 1 /\ ifu' = At([ifu EXCEPT !.bclear = TRUE], "head", 1)
  BY <1>1, <1>6 DEF FetchShape, Ready, At
<1>7. CASE (Ready(ifu, "gap") \/ Ready(ifu, "head")) /\ FetchHead
  <2>1. ifu.at \in {"gap", "head"} /\ ifu.n = 0
    BY <1>7 DEF Ready
  <2>2. CASE idu.bvalid
    BY <1>1, <1>7, <2>1, <2>2 DEF FetchShape, FetchHead, At
  <2>3. CASE ~idu.bvalid
    BY <1>1, <1>7, <2>1, <2>3 DEF FetchShape, FetchHead, At
  <2>. QED  BY <2>2, <2>3
<1>. QED  BY <1>2, <1>3, <1>4, <1>5, <1>6, <1>7 DEF Fetch, FetchGap

\* While no answer is on the lines, fetch waits and the bus stays.
LEMMA FetchWaits ==
    ASSUME FetchShape, Fetch, latency' = latency, ifu.at = "poll", ~bios.valid, ~paging.valid
    PROVE  ifu'.at = "poll" /\ ifu'.bus = ifu.bus
BY FetchDoes

\* The bios starts to work for an address of its own, keeps that, and answers it.
LEMMA BiosDoes ==
    ASSUME MemoryShape, Bios
    PROVE  /\ DOMAIN bios' = {"at", "n", "addr", "valid"}
           /\ bios'.valid <=> bios'.at = "valid"
           /\ bios'.at = "valid" => bios'.n = 0
           /\ bios'.at \in {"delay", "valid"} =>
                 \/ bios.at = "idle" /\ ifu.cs /\ InBios(ifu.bus) /\ bios'.addr = ifu.bus
                 \/ bios.at = "delay" /\ bios'.addr = bios.addr
           /\ bios'.at = "valid" => BiosAnswers /\ BiosAddress = bios'.addr
<1>1. 1 - 1 = 0 /\ ~(0 > 0)
  OBVIOUS
<1>2. CASE bios.n > 0 /\ bios' = Tick(bios)
  BY <1>1, <1>2 DEF MemoryShape, Tick
<1>3. CASE Ready(bios, "idle") /\ ~ifu.cs /\ bios' = bios
  BY <1>3 DEF MemoryShape, Ready
<1>4. CASE bios' = At([bios EXCEPT !.valid = FALSE], "idle", 2)
  BY <1>4 DEF MemoryShape, At
<1>5. CASE BiosSelected /\ ~BiosAnswers
           /\ bios' = At([bios EXCEPT !.addr = ifu.bus], "delay", latency - 2)
  BY <1>5 DEF MemoryShape, At, BiosSelected, Ready
<1>6. CASE BiosAnswers
           /\ bios' = At([bios EXCEPT !.addr = BiosAddress, !.valid = TRUE], "valid", 1)
  <2>1. /\ DOMAIN bios' = {"at", "n", "addr", "valid"} /\ bios'.valid /\ bios'.at = "valid"
        /\ bios'.n = 0 /\ bios'.addr = BiosAddress
    BY <1>1, <1>6 DEF MemoryShape, At
  <2>2. \/ bios.at = "idle" /\ ifu.cs /\ InBios(ifu.bus) /\ BiosAddress = ifu.bus
        \/ bios.at = "delay" /\ BiosAddress = bios.addr
    BY <1>6 DEF BiosAnswers, BiosSelected, BiosAddress, Ready
  <2>. QED  BY <1>6, <2>1, <2>2
<1>. QED  BY <1>2, <1>3, <1>4, <1>5, <1>6 DEF Bios

\* Paging starts for any other address, keeps that, and answers when the cache does.
LEMMA PagingDoes ==
    ASSUME MemoryShape, Paging, paging.at = "await" => paging.n \in 0 .. 1
    PROVE  /\ DOMAIN paging' = {"at", "n", "cs", "phys", "valid"}
           /\ paging'.cs <=> paging'.at = "await"
           /\ paging'.valid <=> paging'.at = "valid"
           /\ paging'.at = "valid" => paging'.n = 0 /\ PagingAnswers
           /\ paging'.at = "await" => paging'.n \in 0 .. 1
           /\ paging'.at \in {"await", "valid"} =>
                 \/ paging.at = "idle" /\ ifu.cs /\ ~InBios(ifu.bus) /\ paging'.phys = ifu.bus
                 \/ paging.at = "await" /\ paging'.phys = paging.phys
           /\ paging.at = "await" /\ ~icache.valid =>
                 paging'.at = "await" /\ paging'.n = 0 /\ paging'.phys = paging.phys
<1>1. 1 - 1 = 0 /\ ~(0 > 0) /\ 2 - 1 = 1
  OBVIOUS
<1>2. CASE paging.n > 0 /\ paging' = Tick(paging)
  BY <1>1, <1>2 DEF MemoryShape, Tick
<1>3. CASE /\ Ready(paging, "idle")
           /\ paging' = IF ifu.cs /\ ~InBios(ifu.bus)
                        THEN At([paging EXCEPT !.cs = TRUE, !.phys = ifu.bus], "await", 2)
                        ELSE paging
  BY <1>1, <1>3 DEF MemoryShape, Ready, At
<1>4. CASE Ready(paging, "await") /\ ~icache.valid /\ paging' = paging
  BY <1>4 DEF MemoryShape, Ready
<1>5. CASE PagingAnswers /\ paging' = At([paging EXCEPT !.valid = TRUE, !.cs = FALSE], "valid", 1)
  BY <1>1, <1>5 DEF MemoryShape, PagingAnswers, Ready, At
<1>6. CASE Ready(paging, "valid") /\ paging' = At([paging EXCEPT !.valid = FALSE], "idle", 2)
  BY <1>6 DEF MemoryShape, Ready, At
<1>. QED  BY <1>2, <1>3, <1>4, <1>5, <1>6 DEF Paging

\* The cache starts for the address paging has on its lines, and answers it.
LEMMA ICacheDoes ==
    ASSUME MemoryShape, ICache
    PROVE  /\ DOMAIN icache' = {"at", "n", "addr", "data", "valid", "pid"}
           /\ icache'.valid <=> icache'.at = "valid"
           /\ icache'.at = "valid" => icache'.n = 0 /\ icache'.data = Image(icache'.addr)
           /\ icache'.at \in {"read", "valid"} =>
                 \/ icache.at = "idle" /\ paging.cs /\ icache'.addr = paging.phys
                 \/ icache.at = "read" /\ icache'.addr = icache.addr
<1>1. 1 - 1 = 0 /\ ~(0 > 0)
  OBVIOUS
<1>2. CASE icache.n > 0 /\ icache' = Tick(icache)
  BY <1>1, <1>2 DEF MemoryShape, Tick
<1>3. CASE /\ Ready(icache, "idle")
           /\ icache' = IF ~paging.cs \/ InBios(paging.phys) THEN icache
                        ELSE IF idu.pidValid
                        THEN At([icache EXCEPT !.addr = paging.phys, !.pid = idu.instr.imm],
                                "read", 3)
                        ELSE At([icache EXCEPT !.addr = paging.phys], "read", 1)
  BY <1>1, <1>3 DEF MemoryShape, Ready, At
<1>4. CASE Ready(icache, "read")
           /\ icache' = At([icache EXCEPT !.data = Image(icache.addr), !.valid = TRUE], "valid", 1)
  BY <1>1, <1>4 DEF MemoryShape, Ready, At
<1>5. CASE Ready(icache, "valid") /\ icache' = At([icache EXCEPT !.valid = FALSE], "idle", 2)
  BY <1>5 DEF MemoryShape, Ready, At
<1>. QED  BY <1>2, <1>3, <1>4, <1>5 DEF ICache

LEMMA MInit == Init => MInv
BY LatencyAssumption DEF Init, MInv, FetchShape, MemoryShape, Named, Answering

LEMMA MStep == MInv /\ [Next]_vars => MInv'
<1>. SUFFICES ASSUME MInv, Next PROVE MInv'
  BY DEF vars, MInv, FetchShape, MemoryShape, Named, Answering, Image
<1>1. /\ Fetch /\ Bios /\ Paging /\ ICache /\ RamData
      /\ UNCHANGED <<program, latency>>
  BY DEF Next
<1>2. FetchShape /\ MemoryShape /\ Named /\ Answering
  BY DEF MInv
<1>3. \A a : Image(a)' = Image(a)
  BY <1>1 DEF Image
<1>4. FetchShape'
  BY <1>1, <1>2, FetchDoes
<1>5. MemoryShape'
  BY <1>1, <1>2, BiosDoes, PagingDoes, ICacheDoes DEF MemoryShape, Answering
<1>6. Named'
  <2>1. /\ ifu'.at = "start" => ifu'.mode = "boot"
        /\ ifu'.at = "poll" => IF ifu'.mode = "branch" THEN ifu'.pc = ifu'.bus
                               ELSE ifu'.addr = ifu'.bus
        /\ ifu'.at \in {"strobe", "gap", "head"} => ifu'.pc = ifu'.bus
        /\ ifu'.at = "strobe" => ifu'.instr = Image(ifu'.bus)
    BY <1>1, <1>2, FetchDoes DEF FetchShape, Named, Answering
  <2>. QED  BY <1>1, <2>1 DEF Named, Image
<1>7. (bios.at \in {"delay", "valid"} =>
          ifu.at = "poll" /\ bios.addr = ifu.bus /\ InBios(ifu.bus))'
  BY <1>1, <1>2, BiosDoes, FetchWaits DEF FetchShape, MemoryShape, Answering
<1>8. (paging.at \in {"await", "valid"} =>
          ifu.at = "poll" /\ paging.phys = ifu.bus /\ ~InBios(ifu.bus))'
  BY <1>1, <1>2, PagingDoes, FetchWaits DEF FetchShape, MemoryShape, Answering
<1>9. (icache.at \in {"read", "valid"} =>
          paging.at = "await" /\ paging.n = 0 /\ icache.addr = paging.phys)'
  BY <1>1, <1>2, PagingDoes, ICacheDoes DEF MemoryShape, Answering
<1>10. (paging.at = "await" => paging.n \in 0 .. 1)'
  BY <1>1, <1>2, PagingDoes DEF Answering
<1>11. (bios.valid \/ paging.valid => ramdata = Image(ifu.bus))'
  <2>1. BiosAnswers => ~PagingAnswers
    BY <1>2 DEF BiosAnswers, BiosSelected, PagingAnswers, Ready, Answering
  <2>2. ASSUME bios'.valid PROVE ramdata' = Image(ifu'.bus)
    <3>1. BiosAnswers /\ BiosAddress = bios'.addr /\ bios'.at = "valid"
      BY <1>1, <1>2, <2>2, BiosDoes
    <3>2. bios'.addr = ifu'.bus /\ InBios(ifu'.bus)
      BY <1>7, <3>1 DEF InBios
    <3>3. ramdata' = program[BiosAddress]
      BY <1>1, <2>1, <3>1 DEF RamData
    <3>. QED  BY <3>1, <3>2, <3>3 DEF Image
  <2>3. ASSUME paging'.valid PROVE ramdata' = Image(ifu'.bus)
    <3>1. PagingAnswers /\ paging'.at = "valid"
      BY <1>1, <1>2, <2>3, PagingDoes DEF Answering
    <3>2. ramdata' = icache.data
      BY <1>1, <2>1, <3>1 DEF RamData
    <3>3. icache.data = Image(paging.phys) /\ paging.phys = ifu.bus /\ ifu.at = "poll"
      BY <1>2, <3>1 DEF PagingAnswers, Ready, MemoryShape, Answering
    <3>4. ~bios.valid /\ ~paging.valid
      BY <1>2, <3>1 DEF PagingAnswers, Ready, MemoryShape, Answering
    <3>5. ifu'.bus = ifu.bus
      BY <1>1, <1>2, <3>3, <3>4, FetchWaits
    <3>. QED  BY <3>2, <3>3, <3>5
  <2>. QED  BY <1>3, <2>2, <2>3
<1>12. (icache.valid => icache.data = Image(icache.addr))'
  BY <1>1, <1>2, <1>3, ICacheDoes
<1>. QED  BY <1>4, <1>5, <1>6, <1>7, <1>8, <1>9, <1>10, <1>11, <1>12 DEF MInv, Answering

-----------------------------------------------------------------------------
(***************************************************************************)
(* The pipeline: what decode and the units do in a step.                   *)
(***************************************************************************)

\* What an instruction hands over, whatever it is.
LEMMA IssueShape ==
    ASSUME NEW i, NEW r
    PROVE  /\ DOMAIN Issue(i, r) = {"unit", "op", "a", "b", "dest"}
           /\ Issue(i, r).unit \in {"none", "exec", "float", "mmx"}
           /\ i.op \in {"quit", "invalid", "flush"} => Issue(i, r).unit = "none"
BY DEF Issue, AluCode, MoveCode, FloatCode, MmxCode, Branches

\* Decode goes on by one edge.
LEMMA DecodeDoes ==
    ASSUME PipeShape, Waiting, Reference, Decode
    PROVE  /\ DOMAIN idu' = DOMAIN idu /\ DOMAIN idu'.out = {"unit", "op", "a", "b", "dest"}
           /\ \/ /\ idu.n > 0 /\ idu'.at = idu.at /\ idu'.n = idu.n - 1
                 /\ UNCHANGED <<idu.out, idu.todo, idu.instr, regs, arch>>
              \/ /\ idu.at = "loop" /\ idu.n = 0 /\ ~ifu.ivalid /\ regs' = WriteBack
                 /\ idu'.at = "loop" /\ idu'.n = 0 /\ UNCHANGED <<idu.out, arch>>
              \/ /\ idu.at = "loop" /\ idu.n = 0 /\ ifu.ivalid /\ regs' = WriteBack
                 /\ idu'.at = "decode" /\ idu'.n = 0 /\ UNCHANGED <<idu.out, arch>>
                 /\ idu'.todo = Issue(idu'.instr, regs')
              \/ /\ idu.at = "decode" /\ idu.n = 0 /\ idu'.n = 0 /\ idu'.out = idu.todo
                 /\ \/ idu'.at = "lower"
                    \/ idu'.at \in {"end", "stop"} /\ idu.instr.op \in {"quit", "invalid"}
                 /\ Flush /\ arch' = After(arch, idu.instr)
              \/ /\ idu.at = "lower" /\ idu.n = 0 /\ idu'.at = "end" /\ idu'.n = 0
                 /\ idu'.out.unit = "none" /\ UNCHANGED <<regs, arch>>
              \/ /\ idu.at = "end" /\ idu.n = 0 /\ idu'.at = "loop" /\ idu'.n = 0
                 /\ UNCHANGED <<idu.out, regs, arch>>
              \/ /\ idu.at = "stop" /\ idu.n = 0 /\ idu'.at = "end" /\ idu'.n = 1
                 /\ UNCHANGED <<idu.out, regs, arch>>
<1>1. 1 - 1 = 0 /\ 2 - 1 = 1
  OBVIOUS
<1>2. CASE idu.n > 0 /\ idu' = Tick(idu) /\ UNCHANGED <<regs, arch, target>>
  BY <1>2 DEF PipeShape, Tick
<1>3. CASE DecodeLoop
  <2>1. idu.at = "loop" /\ idu.n = 0 /\ regs' = WriteBack /\ arch' = arch
    BY <1>3 DEF DecodeLoop, Ready
  <2>2. CASE ~ifu.ivalid
    <3>1. idu' = [idu EXCEPT !.nextPc = TRUE]
      BY <1>3, <2>2 DEF DecodeLoop
    <3>. QED  BY <2>1, <2>2, <3>1 DEF PipeShape
  <2>3. CASE ifu.ivalid
    <3>. DEFINE i == ifu.instr
                jump == /\ i.op \in Branches
                        /\ Taken(i.op, Signed(regs'[i.c]), Signed(regs'[i.a]))
                bvalid == idu.bvalid /\ ~ifu.bclear
    <3>1. idu' = At([idu EXCEPT !.pc = ifu.pc, !.instr = i, !.todo = Issue(i, regs'),
                                !.jump = jump, !.bvalid = bvalid], "decode", 1)
      BY <1>3, <2>3 DEF DecodeLoop
    <3>. HIDE DEF jump, bvalid
    <3>2. /\ DOMAIN idu' = DOMAIN idu /\ idu'.at = "decode" /\ idu'.n = 0 /\ idu'.out = idu.out
          /\ idu'.instr = i /\ idu'.todo = Issue(i, regs')
      BY <1>1, <3>1 DEF PipeShape, At
    <3>. QED  BY <2>1, <2>3, <3>2 DEF PipeShape
  <2>. QED  BY <2>2, <2>3
<1>4. CASE DecodeSwitch
  <2>. DEFINE i == idu.instr
              goal == IF i.op = "j" THEN i.imm ELSE idu.pc + i.imm
              next == CASE i.op = "invalid" -> "end" [] i.op = "quit" -> "stop"
                        [] OTHER -> "lower"
              pidValid == LoadPid
              bvalid == idu.bvalid \/ idu.jump
              btarget == IF idu.jump THEN goal ELSE idu.btarget
  <2>1. /\ idu.at = "decode" /\ idu.n = 0 /\ Flush /\ arch' = After(arch, i)
        /\ idu' = At([idu EXCEPT !.out = idu.todo, !.pidValid = pidValid, !.bvalid = bvalid,
                                 !.btarget = btarget], next, 1)
    BY <1>4 DEF DecodeSwitch, Ready
  <2>2. \/ next = "lower"
        \/ next \in {"end", "stop"} /\ i.op \in {"quit", "invalid"}
    OBVIOUS
  <2>. HIDE DEF next, pidValid, bvalid, btarget
  <2>3. DOMAIN idu' = DOMAIN idu /\ idu'.at = next /\ idu'.n = 0 /\ idu'.out = idu.todo
    BY <1>1, <2>1 DEF PipeShape, At
  <2>4. DOMAIN idu.todo = {"unit", "op", "a", "b", "dest"}
    BY <2>1, IssueShape DEF Reference
  <2>. QED  BY <2>1, <2>2, <2>3, <2>4
<1>5. CASE DecodeLower
  <2>. DEFINE btarget == IF idu.instr.op \in Branches THEN idu.pc + 1 ELSE idu.btarget
  <2>1. /\ idu.at = "lower" /\ idu.n = 0 /\ UNCHANGED <<regs, arch>>
        /\ idu' = At([idu EXCEPT !.out.unit = "none", !.pidValid = FALSE, !.btarget = btarget],
                     "end", 1)
    BY <1>5 DEF DecodeLower, Ready
  <2>. HIDE DEF btarget
  <2>2. /\ DOMAIN idu' = DOMAIN idu /\ idu'.at = "end" /\ idu'.n = 0
        /\ idu'.out = [idu.out EXCEPT !.unit = "none"]
    BY <1>1, <2>1 DEF PipeShape, At
  <2>. QED  BY <2>1, <2>2 DEF PipeShape
<1>6. CASE DecodeEnd
  BY <1>1, <1>6 DEF PipeShape, DecodeEnd, Ready, At
<1>7. CASE DecodeStop
  BY <1>1, <1>7 DEF PipeShape, DecodeStop, Ready, At
<1>. QED  BY <1>2, <1>3, <1>4, <1>5, <1>6, <1>7 DEF Decode

\* A unit goes on by one edge: when go, it starts, with a result x for register d.
\* It looks at operands w edges after it has lowered its line.
UnitStep(t, u, w, go, x, d) ==
    \/ t.n > 0 /\ u.at = t.at /\ u.n = t.n - 1 /\ u.result = t.result /\ u.dest = t.dest
    \/ /\ t.at = "loop" /\ t.n = 0 /\ go
       /\ u.at = "write" /\ u.n \in 0 .. 1 /\ u.result = x /\ u.dest = d
    \/ /\ t.at = "loop" /\ t.n = 0 /\ ~go
       /\ u.at = "loop" /\ u.n = 0 /\ u.result = t.result /\ u.dest = t.dest
    \/ /\ t.at = "write" /\ t.n = 0
       /\ u.at = "lower" /\ u.n = 0 /\ u.result = t.result /\ u.dest = t.dest
    \/ /\ t.at = "lower" /\ t.n = 0
       /\ u.at = "loop" /\ u.n = w - 1 /\ u.result = t.result /\ u.dest = t.dest

Goes(unit) == For(unit) /\ ~Traps(idu.out)

LEMMA ExecDoes ==
    ASSUME PipeShape, Waiting, Lines, Exec
    PROVE  /\ DOMAIN ieu' = DOMAIN ieu
           /\ UnitStep(ieu, ieu', 1, Goes("exec"),
                       ExecResult(idu.out.op, idu.out.a, idu.out.b, ieu.result), idu.out.dest)
           /\ ieu'.valid <=> ieu'.at = "lower"
           /\ ieu'.at = "lower" => ieu'.data = ieu'.result /\ ieu'.destout = ieu'.dest
<1>1. 1 - 1 = 0 /\ 2 - 1 = 1 /\ ~(0 > 0)
  OBVIOUS
<1>. DEFINE x == ExecResult(idu.out.op, idu.out.a, idu.out.b, ieu.result)
<1>2. CASE ieu.n > 0 /\ ieu' = Tick(ieu)
  BY <1>1, <1>2 DEF PipeShape, Waiting, Lines, Tick, UnitStep
<1>3. CASE /\ Ready(ieu, "loop")
           /\ ieu' = IF For("exec") /\ ~Traps(idu.out)
                     THEN Start(ieu, x, IF idu.out.op \in {5, 6} THEN 2 ELSE 1)
                     ELSE ieu
  <2>. HIDE DEF x
  <2>1. CASE Goes("exec")
    <3>1. PICK e \in {1, 2} : ieu' = Start(ieu, x, e)
      BY <1>3, <2>1 DEF Goes
    <3>2. e - 1 \in 0 .. 1
      OBVIOUS
    <3>. QED  BY <1>3, <2>1, <3>1, <3>2 DEF PipeShape, Lines, Ready, Start, At, UnitStep, x
  <2>2. CASE ~Goes("exec")
    BY <1>3, <2>2 DEF Lines, Ready, UnitStep, Goes
  <2>. QED  BY <2>1, <2>2
<1>4. CASE /\ Ready(ieu, "write")
           /\ ieu' = At([ieu EXCEPT !.valid = TRUE, !.data = ieu.result, !.destout = ieu.dest],
                        "lower", 1)
  BY <1>1, <1>4 DEF PipeShape, Ready, At, UnitStep
<1>5. CASE Ready(ieu, "lower") /\ ieu' = At([ieu EXCEPT !.valid = FALSE], "loop", 1)
  BY <1>1, <1>5 DEF PipeShape, Ready, At, UnitStep
<1>. QED  BY <1>2, <1>3, <1>4, <1>5 DEF Exec

LEMMA FloatingDoes ==
    ASSUME PipeShape, Waiting, Floating
    PROVE  /\ DOMAIN fpu' = DOMAIN fpu
           /\ UnitStep(fpu, fpu', 2, Goes("float"),
                       FloatResult(idu.out.op, idu.out.a, idu.out.b), idu.out.dest)
<1>1. 1 - 1 = 0 /\ 2 - 1 = 1 /\ ~(0 > 0) /\ 1 \in 0 .. 1
  OBVIOUS
<1>. DEFINE x == FloatResult(idu.out.op, idu.out.a, idu.out.b)
<1>2. CASE fpu.n > 0 /\ fpu' = Tick(fpu)
  BY <1>1, <1>2 DEF PipeShape, Tick, UnitStep
<1>3. CASE /\ Ready(fpu, "loop")
           /\ fpu' = IF For("float") /\ ~Traps(idu.out) THEN Start(fpu, x, 2) ELSE fpu
  <2>. HIDE DEF x
  <2>. QED  BY <1>1, <1>3 DEF PipeShape, Ready, Start, At, UnitStep, Goes, x
<1>4. CASE Ready(fpu, "write") /\ fpu' = At(fpu, "lower", 1)
  BY <1>1, <1>4 DEF PipeShape, Ready, At, UnitStep
<1>5. CASE Ready(fpu, "lower") /\ fpu' = At(fpu, "loop", 2)
  BY <1>1, <1>5 DEF PipeShape, Ready, At, UnitStep
<1>. QED  BY <1>2, <1>3, <1>4, <1>5 DEF Floating

LEMMA MmxuDoes ==
    ASSUME PipeShape, Waiting, Mmxu
    PROVE  /\ DOMAIN mmu' = DOMAIN mmu
           /\ UnitStep(mmu, mmu', 1, Goes("mmx"),
                       MmxResult(idu.out.op, idu.out.a, idu.out.b), idu.out.dest)
<1>1. 1 - 1 = 0 /\ 0 \in 0 .. 1
  OBVIOUS
<1>. DEFINE x == MmxResult(idu.out.op, idu.out.a, idu.out.b)
<1>2. CASE mmu.n > 0 /\ mmu' = Tick(mmu)
  BY <1>1, <1>2 DEF PipeShape, Tick, UnitStep
<1>3. CASE Ready(mmu, "loop") /\ mmu' = IF For("mmx") THEN Start(mmu, x, 1) ELSE mmu
  <2>1. For("mmx") <=> Goes("mmx")
    BY DEF For, Goes, Traps
  <2>. HIDE DEF x
  <2>. QED  BY <1>1, <1>3, <2>1 DEF PipeShape, Ready, Start, At, UnitStep, x
<1>4. CASE Ready(mmu, "write") /\ mmu' = At(mmu, "lower", 1)
  BY <1>1, <1>4 DEF PipeShape, Ready, At, UnitStep
<1>5. CASE Ready(mmu, "lower") /\ mmu' = At(mmu, "loop", 1)
  BY <1>1, <1>5 DEF PipeShape, Ready, At, UnitStep
<1>. QED  BY <1>2, <1>3, <1>4, <1>5 DEF Mmxu

-----------------------------------------------------------------------------
(***************************************************************************)
(* Time: how the edges that are left shrink in a step.                     *)
(***************************************************************************)

\* The next instruction comes nearer by one edge at most, and once it has been
\* handed over the one after it is as far away as fetch can make it.
LEMMA InstrNearer ==
    ASSUME FetchShape, Waiting, Fetch, latency' = latency
    PROVE  /\ InstrDue \in Nat /\ InstrDue' \in Nat
           /\ InstrDue' >= InstrDue - 1
           /\ InstrDue = 0 => InstrDue' = latency + 2
           /\ ifu'.n \in 0 .. latency /\ (ifu'.at # "poll" => ifu'.n = 0)
<1>1. /\ latency \in Nat /\ latency >= 2 /\ ifu.n \in 0 .. latency
      /\ ifu.at # "poll" => ifu.n = 0
      /\ ifu.at \in {"start", "poll", "strobe", "gap", "head"}
  BY DEF FetchShape, Waiting
<1>. QED  BY <1>1, FetchDoes DEF InstrDue

\* Decode is back in its loop before the next instruction, its operands come
\* nearer by one edge at most, and once they have been read the next are as far
\* away as the latency of the memories makes them.
LEMMA DecodeNearer ==
    ASSUME FetchShape, PipeShape, Waiting, InTime, Reference,
           Fetch, Decode, latency' = latency
    PROVE  /\ LoopDue \in Nat /\ LoopDue' \in Nat
           /\ LoopDue' <= InstrDue'
           /\ idu'.at \in {"loop", "decode", "lower", "end", "stop"}
           /\ idu'.n \in 0 .. 2 /\ (idu'.at \in {"decode", "lower", "stop"} => idu'.n = 0)
           /\ idu'.at = "decode" => InstrDue' >= latency + 2
           /\ idu'.at \in {"lower", "stop"} => InstrDue' >= latency + 1
           /\ idu.at \in {"loop", "end"} /\ InstrDue > 0 =>
                 /\ idu'.at \in {"loop", "end"}
                 /\ LoopDue' = IF LoopDue = 0 THEN 0 ELSE LoopDue - 1
           /\ idu.at = "lower" => idu'.at = "end" /\ LoopDue' = 1 /\ InstrDue' >= latency
           /\ OperandsDue \in Nat /\ OperandsDue' \in Nat
           /\ OperandsDue' >= IF idu.at = "lower" THEN latency + 2 ELSE OperandsDue - 1
<1>1. /\ latency \in Nat /\ latency >= 2
      /\ idu.at \in {"loop", "decode", "lower", "end", "stop"} /\ idu.n \in 0 .. 2
      /\ idu.at \in {"decode", "lower", "stop"} => idu.n = 0
  BY DEF FetchShape, Waiting
<1>2. /\ InstrDue \in Nat /\ InstrDue' \in Nat /\ InstrDue' >= InstrDue - 1
      /\ InstrDue = 0 => InstrDue' = latency + 2
  BY InstrNearer
<1>3. ifu.ivalid <=> InstrDue = 0
  BY <1>1 DEF FetchShape, Waiting, InstrDue
<1>4. /\ LoopFrom(idu.at, idu.n) <= InstrDue
      /\ idu.at = "decode" => InstrDue >= latency + 2
      /\ idu.at \in {"lower", "stop"} => InstrDue >= latency + 1
  BY DEF InTime, LoopDue
<1>5. \/ idu.n > 0 /\ idu'.at = idu.at /\ idu'.n = idu.n - 1
      \/ idu.at = "loop" /\ idu.n = 0 /\ InstrDue # 0 /\ idu'.at = "loop" /\ idu'.n = 0
      \/ idu.at = "loop" /\ idu.n = 0 /\ InstrDue = 0 /\ idu'.at = "decode" /\ idu'.n = 0
      \/ idu.at = "decode" /\ idu.n = 0 /\ idu'.n = 0 /\ idu'.at \in {"lower", "end", "stop"}
      \/ idu.at = "lower" /\ idu.n = 0 /\ idu'.at = "end" /\ idu'.n = 0
      \/ idu.at = "end" /\ idu.n = 0 /\ idu'.at = "loop" /\ idu'.n = 0
      \/ idu.at = "stop" /\ idu.n = 0 /\ idu'.at = "end" /\ idu'.n = 1
  BY <1>3, DecodeDoes
<1>6. /\ LoopDue = LoopFrom(idu.at, idu.n) /\ LoopDue' = LoopFrom(idu'.at, idu'.n)
      /\ OperandsDue = OperandsFrom(idu.at, InstrDue)
      /\ OperandsDue' = OperandsFrom(idu'.at, InstrDue')
  BY DEF LoopDue, OperandsDue
\* Decode goes from l with n edges left to m with k left, and the next
\* instruction from i edges away to j.
<1>7. PICK lat, i, j, l, n, m, k :
         /\ lat = latency /\ i = InstrDue /\ j = InstrDue'
         /\ l = idu.at /\ n = idu.n /\ m = idu'.at /\ k = idu'.n
  OBVIOUS
<1>8. /\ lat \in Nat /\ lat >= 2 /\ i \in Nat /\ j \in Nat /\ j >= i - 1
      /\ i = 0 => j = lat + 2
  BY <1>1, <1>2, <1>7
<1>9. /\ l \in {"loop", "decode", "lower", "end", "stop"} /\ n \in 0 .. 2
      /\ l \in {"decode", "lower", "stop"} => n = 0
  BY <1>1, <1>7
<1>10. /\ LoopFrom(l, n) <= i
       /\ l = "decode" => i >= lat + 2
       /\ l \in {"lower", "stop"} => i >= lat + 1
  BY <1>4, <1>7
<1>11. \/ n > 0 /\ m = l /\ k = n - 1
       \/ l = "loop" /\ n = 0 /\ i # 0 /\ m = "loop" /\ k = 0
       \/ l = "loop" /\ n = 0 /\ i = 0 /\ m = "decode" /\ k = 0
       \/ l = "decode" /\ n = 0 /\ k = 0 /\ m \in {"lower", "end", "stop"}
       \/ l = "lower" /\ n = 0 /\ m = "end" /\ k = 0
       \/ l = "end" /\ n = 0 /\ m = "loop" /\ k = 0
       \/ l = "stop" /\ n = 0 /\ m = "end" /\ k = 1
  BY <1>5, <1>7
<1>12. /\ LoopFrom(l, n) \in Nat /\ LoopFrom(m, k) \in Nat
       /\ LoopFrom(m, k) <= j
       /\ m \in {"loop", "decode", "lower", "end", "stop"}
       /\ k \in 0 .. 2 /\ (m \in {"decode", "lower", "stop"} => k = 0)
       /\ m = "decode" => j >= lat + 2
       /\ m \in {"lower", "stop"} => j >= lat + 1
       /\ l \in {"loop", "end"} /\ i > 0 =>
             /\ m \in {"loop", "end"}
             /\ LoopFrom(m, k) = IF LoopFrom(l, n) = 0 THEN 0 ELSE LoopFrom(l, n) - 1
       /\ l = "lower" => m = "end" /\ LoopFrom(m, k) = 1 /\ j >= lat
       /\ OperandsFrom(l, i) \in Nat /\ OperandsFrom(m, j) \in Nat
       /\ OperandsFrom(m, j) >= IF l = "lower" THEN lat + 2 ELSE OperandsFrom(l, i) - 1
  BY <1>8, <1>9, <1>10, <1>11 DEF LoopFrom, OperandsFrom
<1>. QED  BY <1>6, <1>7, <1>12

\* Only operands on the lines start a unit.
LEMMA GoesAtLower ==
    ASSUME Lines, NEW unit \in {"exec", "float", "mmx"}, Goes(unit)
    PROVE  idu.at = "lower" /\ idu.out.unit = unit
BY DEF Lines, Goes, For

\* Its result comes when decode is in its loop again, and before the next
\* instruction.
LEMMA UnitAwaited ==
    ASSUME FetchShape, PipeShape, Waiting, InTime, Reference, Lines,
           Fetch, Decode, latency' = latency,
           NEW t, NEW u, NEW w, NEW go \in BOOLEAN, NEW x, NEW d,
           UnitStep(t, u, w, go, x, d), t.n \in Nat,
           t.at \in {"loop", "write", "lower"}, t.at = "lower" => t.n = 0,
           Awaited(t), go => idu.at = "lower"
    PROVE  u.at # "loop" => /\ LoopDue' <= ResultDue(u) /\ ResultDue(u) <= InstrDue'
                            /\ idu'.at \in {"loop", "end"}
<1>. SUFFICES ASSUME u.at # "loop"
              PROVE  /\ LoopDue' <= ResultDue(u) /\ ResultDue(u) <= InstrDue'
                     /\ idu'.at \in {"loop", "end"}
  OBVIOUS
<1>1. /\ LoopDue \in Nat /\ LoopDue' \in Nat
      /\ idu.at \in {"loop", "end"} /\ InstrDue > 0 =>
            /\ idu'.at \in {"loop", "end"}
            /\ LoopDue' = IF LoopDue = 0 THEN 0 ELSE LoopDue - 1
      /\ idu.at = "lower" => idu'.at = "end" /\ LoopDue' = 1 /\ InstrDue' >= latency
  BY DecodeNearer
<1>2. /\ InstrDue \in Nat /\ InstrDue' \in Nat /\ InstrDue' >= InstrDue - 1
      /\ latency \in Nat /\ latency >= 2
  BY InstrNearer DEF FetchShape
<1>3. CASE t.at = "loop"
  <2>1. u.at = "write" /\ u.n \in 0 .. 1 /\ go
    BY <1>3 DEF UnitStep
  <2>2. ResultDue(u) = u.n + 1
    BY <2>1 DEF ResultDue
  <2>. HIDE DEF LoopDue, InstrDue
  <2>. QED  BY <1>1, <1>2, <2>1, <2>2
<1>4. CASE t.at = "write"
  <2>1. /\ LoopDue <= t.n + 1 /\ t.n + 1 <= InstrDue /\ idu.at \in {"loop", "end"}
    BY <1>4 DEF Awaited, ResultDue
  <2>2. ResultDue(u) = t.n
    BY <1>4 DEF ResultDue, UnitStep
  <2>. HIDE DEF LoopDue, InstrDue
  <2>. QED  BY <1>1, <1>2, <2>1, <2>2
<1>5. CASE t.at = "lower"
  BY <1>5 DEF UnitStep
<1>. QED  BY <1>3, <1>4, <1>5

-----------------------------------------------------------------------------
(***************************************************************************)
(* The result lines and the registers.                                     *)
(***************************************************************************)

\* What floating and mmxu put on the lines they share.
LEMMA FOutDoes ==
    ASSUME PipeShape, Waiting, Lines, OneAtATime, FOut
    PROVE  /\ DOMAIN fout' = {"valid", "data", "dest"}
           /\ fout'.valid <=> Ready(fpu, "write") \/ Ready(mmu, "write")
           /\ Ready(fpu, "write") => fout'.data = fpu.result /\ fout'.dest = fpu.dest
           /\ Ready(mmu, "write") => fout'.data = mmu.result /\ fout'.dest = mmu.dest
<1>. DEFINE Written(t) == CASE Ready(t, "write") ->
                                 {[valid |-> TRUE, data |-> t.result, dest |-> t.dest]}
                            [] Ready(t, "lower") -> {[fout EXCEPT !.valid = FALSE]}
                            [] OTHER -> {}
            all == Written(fpu) \cup Written(mmu)
<1>1. fout' \in IF all = {} THEN {fout} ELSE all
  BY DEF FOut
<1>2. /\ Written(fpu) = IF Ready(fpu, "write")
                        THEN {[valid |-> TRUE, data |-> fpu.result, dest |-> fpu.dest]}
                        ELSE IF Ready(fpu, "lower") THEN {[fout EXCEPT !.valid = FALSE]} ELSE {}
      /\ Written(mmu) = IF Ready(mmu, "write")
                        THEN {[valid |-> TRUE, data |-> mmu.result, dest |-> mmu.dest]}
                        ELSE IF Ready(mmu, "lower") THEN {[fout EXCEPT !.valid = FALSE]} ELSE {}
  BY DEF Ready
<1>3. fpu.at = "loop" \/ mmu.at = "loop"
  BY DEF OneAtATime
<1>. HIDE DEF Written
<1>4. CASE Ready(fpu, "write")
  <2>1. fout' = [valid |-> TRUE, data |-> fpu.result, dest |-> fpu.dest]
    BY <1>1, <1>2, <1>3, <1>4 DEF Ready
  <2>. QED  BY <1>3, <1>4, <2>1 DEF Ready
<1>5. CASE Ready(mmu, "write")
  <2>1. fout' = [valid |-> TRUE, data |-> mmu.result, dest |-> mmu.dest]
    BY <1>1, <1>2, <1>3, <1>5 DEF Ready
  <2>. QED  BY <1>3, <1>5, <2>1 DEF Ready
<1>6. CASE /\ ~Ready(fpu, "write") /\ ~Ready(mmu, "write")
           /\ Ready(fpu, "lower") \/ Ready(mmu, "lower")
  <2>1. fout' = [fout EXCEPT !.valid = FALSE]
    BY <1>1, <1>2, <1>6
  <2>. QED  BY <1>6, <2>1 DEF PipeShape
<1>7. CASE /\ ~Ready(fpu, "write") /\ ~Ready(mmu, "write")
           /\ ~Ready(fpu, "lower") /\ ~Ready(mmu, "lower")
  <2>1. fout' = fout
    BY <1>1, <1>2, <1>7
  <2>2. fpu.at # "lower" /\ mmu.at # "lower"
    BY <1>7 DEF Waiting, Ready
  <2>. QED  BY <1>7, <2>1, <2>2 DEF PipeShape, Lines
<1>. QED  BY <1>4, <1>5, <1>6, <1>7

LEMMA PipelineStep ==
    ASSUME FetchShape, TInv, Next
    PROVE  /\ PipeShape' /\ Waiting' /\ InTime' /\ Awaited(ieu)' /\ Awaited(fpu)' /\ Awaited(mmu)'
           /\ OneAtATime' /\ Lines'
<1>1. /\ Fetch /\ Decode /\ Exec /\ Floating /\ Mmxu /\ FOut /\ latency' = latency
      /\ PipeShape /\ Waiting /\ InTime /\ Awaited(ieu) /\ Awaited(fpu) /\ Awaited(mmu)
      /\ OneAtATime /\ Lines /\ Reference
  BY DEF Next, TInv
<1>. DEFINE xe == ExecResult(idu.out.op, idu.out.a, idu.out.b, ieu.result)
            xf == FloatResult(idu.out.op, idu.out.a, idu.out.b)
            xm == MmxResult(idu.out.op, idu.out.a, idu.out.b)
            d == idu.out.dest
<1>2. /\ UnitStep(ieu, ieu', 1, Goes("exec"), xe, d)
      /\ UnitStep(fpu, fpu', 2, Goes("float"), xf, d)
      /\ UnitStep(mmu, mmu', 1, Goes("mmx"), xm, d)
  BY <1>1, ExecDoes, FloatingDoes, MmxuDoes
<1>3. /\ ieu.at \in {"loop", "write", "lower"} /\ ieu.n \in Nat /\ (ieu.at = "lower" => ieu.n = 0)
      /\ fpu.at \in {"loop", "write", "lower"} /\ fpu.n \in Nat /\ (fpu.at = "lower" => fpu.n = 0)
      /\ mmu.at \in {"loop", "write", "lower"} /\ mmu.n \in Nat /\ (mmu.at = "lower" => mmu.n = 0)
  BY <1>1 DEF Waiting
<1>4. /\ Goes("exec") => idu.at = "lower" /\ idu.out.unit = "exec"
      /\ Goes("float") => idu.at = "lower" /\ idu.out.unit = "float"
      /\ Goes("mmx") => idu.at = "lower" /\ idu.out.unit = "mmx"
  BY <1>1, GoesAtLower
<1>5. Goes("exec") \in BOOLEAN /\ Goes("float") \in BOOLEAN /\ Goes("mmx") \in BOOLEAN
  BY DEF Goes, For, Traps
<1>. HIDE DEF xe, xf, xm, d
<1>6. PipeShape'
  BY <1>1, DecodeDoes, ExecDoes, FloatingDoes, MmxuDoes, FOutDoes DEF PipeShape
<1>7. Waiting'
  <2>1. /\ ifu'.n \in 0 .. latency' /\ (ifu'.at # "poll" => ifu'.n = 0)
        /\ idu'.at \in {"loop", "decode", "lower", "end", "stop"}
        /\ idu'.n \in 0 .. 2 /\ (idu'.at \in {"decode", "lower", "stop"} => idu'.n = 0)
    BY <1>1, InstrNearer, DecodeNearer
  <2>2. /\ ieu'.at \in {"loop", "write", "lower"} /\ ieu'.n \in 0 .. 3
        /\ ieu'.at = "write" => ieu'.n <= 1
        /\ ieu'.at = "lower" => ieu'.n = 0
    BY <1>1, <1>2 DEF Waiting, UnitStep
  <2>3. /\ fpu'.at \in {"loop", "write", "lower"} /\ fpu'.n \in 0 .. 4
        /\ fpu'.at = "write" => fpu'.n <= 1
        /\ fpu'.at = "lower" => fpu'.n = 0
    BY <1>1, <1>2 DEF Waiting, UnitStep
  <2>4. /\ mmu'.at \in {"loop", "write", "lower"} /\ mmu'.n \in 0 .. 3
        /\ mmu'.at = "write" => mmu'.n <= 1
        /\ mmu'.at = "lower" => mmu'.n = 0
    BY <1>1, <1>2 DEF Waiting, UnitStep
  <2>. QED  BY <2>1, <2>2, <2>3, <2>4 DEF Waiting
<1>8. InTime'
  <2>1. /\ LoopDue' <= InstrDue'
        /\ idu'.at = "decode" => InstrDue' >= latency' + 2
        /\ idu'.at \in {"lower", "stop"} => InstrDue' >= latency' + 1
    BY <1>1, DecodeNearer
  <2>2. PICK due \in Nat, next \in Nat :
           /\ due = OperandsDue /\ next = OperandsDue'
           /\ next >= IF idu.at = "lower" THEN latency + 2 ELSE due - 1
    BY <1>1, DecodeNearer
  <2>3. /\ next >= due - 1
        /\ idu.at = "lower" => next >= 4
    <3>1. latency \in Nat /\ latency >= 2
      BY DEF FetchShape
    <3>2. idu.at = "lower" => due = 0
      BY <2>2 DEF OperandsDue, OperandsFrom
    <3>. QED  BY <2>2, <3>1, <3>2
  <2>4. FreeDue(ieu, 1) <= due /\ FreeDue(fpu, 2) <= due /\ FreeDue(mmu, 1) <= due
    BY <1>1, <2>2 DEF InTime
  <2>5. FreeDue(ieu', 1) <= next
    <3>1. UnitStep(ieu, ieu', 1, Goes("exec"), xe, d)
      BY <1>2
    <3>. QED  BY <1>3, <1>4, <2>3, <2>4, <3>1 DEF UnitStep, FreeDue
  <2>6. FreeDue(fpu', 2) <= next
    <3>1. UnitStep(fpu, fpu', 2, Goes("float"), xf, d)
      BY <1>2
    <3>. QED  BY <1>3, <1>4, <2>3, <2>4, <3>1 DEF UnitStep, FreeDue
  <2>7. FreeDue(mmu', 1) <= next
    <3>1. UnitStep(mmu, mmu', 1, Goes("mmx"), xm, d)
      BY <1>2
    <3>. QED  BY <1>3, <1>4, <2>3, <2>4, <3>1 DEF UnitStep, FreeDue
  <2>. QED  BY <2>1, <2>2, <2>5, <2>6, <2>7 DEF InTime
<1>9. Awaited(ieu)'
  BY <1>1, <1>2, <1>3, <1>4, <1>5, UnitAwaited DEF Awaited
<1>10. Awaited(fpu)'
  BY <1>1, <1>2, <1>3, <1>4, <1>5, UnitAwaited DEF Awaited
<1>11. Awaited(mmu)'
  BY <1>1, <1>2, <1>3, <1>4, <1>5, UnitAwaited DEF Awaited
<1>12. OneAtATime'
  <2>1. CASE idu.at = "lower"
    <3>1. ieu.at = "loop" /\ fpu.at = "loop" /\ mmu.at = "loop"
      BY <1>1, <2>1 DEF Awaited
    <3>. QED  BY <1>2, <1>4, <3>1 DEF OneAtATime, UnitStep
  <2>2. CASE idu.at # "lower"
    <3>1. ~Goes("exec") /\ ~Goes("float") /\ ~Goes("mmx")
      BY <1>4, <2>2
    <3>. QED  BY <1>1, <1>2, <3>1 DEF OneAtATime, UnitStep
  <2>. QED  BY <2>1, <2>2
<1>13. Lines'
  <2>1. /\ idu'.at # "lower" => idu'.out.unit = "none"
        /\ idu'.out.unit \in {"none", "exec", "float", "mmx"}
    <3>1. idu.at = "decode" => /\ idu.todo.unit \in {"none", "exec", "float", "mmx"}
                               /\ idu.instr.op \in {"quit", "invalid"} => idu.todo.unit = "none"
      <4>1. idu.at = "decode" => idu.todo = Issue(idu.instr, regs)
        BY <1>1 DEF Reference
      <4>. QED  BY <4>1, IssueShape
    <3>2. /\ idu.at # "lower" => idu.out.unit = "none"
          /\ idu.out.unit \in {"none", "exec", "float", "mmx"}
      BY <1>1 DEF Lines
    <3>3. \/ idu'.at = idu.at /\ idu'.out = idu.out
          \/ idu.at \in {"loop", "end", "stop"} /\ idu'.out = idu.out
          \/ /\ idu.at = "decode" /\ idu'.out = idu.todo
             /\ \/ idu'.at = "lower"
                \/ idu.instr.op \in {"quit", "invalid"}
          \/ idu'.out.unit = "none"
      BY <1>1, DecodeDoes
    <3>. QED  BY <3>1, <3>2, <3>3
  <2>2. /\ ieu'.valid <=> ieu'.at = "lower"
        /\ ieu'.at = "lower" => ieu'.data = ieu'.result /\ ieu'.destout = ieu'.dest
    BY <1>1, ExecDoes
  <2>3. fpu'.at = "lower" <=> Ready(fpu, "write")
    BY <1>2, <1>3 DEF UnitStep, Ready
  <2>4. mmu'.at = "lower" <=> Ready(mmu, "write")
    BY <1>2, <1>3 DEF UnitStep, Ready
  <2>5. Ready(fpu, "write") => fpu'.result = fpu.result /\ fpu'.dest = fpu.dest
    BY <1>2 DEF UnitStep, Ready
  <2>6. Ready(mmu, "write") => mmu'.result = mmu.result /\ mmu'.dest = mmu.dest
    BY <1>2 DEF UnitStep, Ready
  <2>7. /\ fout'.valid <=> Ready(fpu, "write") \/ Ready(mmu, "write")
        /\ Ready(fpu, "write") => fout'.data = fpu.result /\ fout'.dest = fpu.dest
        /\ Ready(mmu, "write") => fout'.data = mmu.result /\ fout'.dest = mmu.dest
    BY <1>1, FOutDoes
  <2>. QED  BY <2>1, <2>2, <2>3, <2>4, <2>5, <2>6, <2>7 DEF Lines
<1>. QED  BY <1>6, <1>7, <1>8, <1>9, <1>10, <1>11, <1>12, <1>13

\* What the units do to the registers in a step.
LEMMA UnitsLand ==
    ASSUME FetchShape, TInv, Next
    PROVE  /\ \A r : /\ ieu.at = "loop" => Landed(ieu, r) = r
                     /\ ieu'.at = "loop" => Landed(ieu', r) = r
                     /\ ieu.at # "lower" /\ ~Goes("exec") => Landed(ieu', r) = Landed(ieu, r)
                     /\ ieu.at = "loop" /\ ieu.n = 0 /\ Goes("exec") =>
                           Landed(ieu', r) =
                              [r EXCEPT ![idu.out.dest] =
                                  ExecResult(idu.out.op, idu.out.a, idu.out.b, ieu.result)]
           /\ \A r : /\ fpu.at = "loop" => Landed(fpu, r) = r
                     /\ fpu'.at = "loop" => Landed(fpu', r) = r
                     /\ fpu.at # "lower" /\ ~Goes("float") => Landed(fpu', r) = Landed(fpu, r)
                     /\ fpu.at = "loop" /\ fpu.n = 0 /\ Goes("float") =>
                           Landed(fpu', r) =
                              [r EXCEPT ![idu.out.dest] =
                                  FloatResult(idu.out.op, idu.out.a, idu.out.b)]
           /\ \A r : /\ mmu.at = "loop" => Landed(mmu, r) = r
                     /\ mmu'.at = "loop" => Landed(mmu', r) = r
                     /\ mmu.at # "lower" /\ ~Goes("mmx") => Landed(mmu', r) = Landed(mmu, r)
                     /\ mmu.at = "loop" /\ mmu.n = 0 /\ Goes("mmx") =>
                           Landed(mmu', r) =
                              [r EXCEPT ![idu.out.dest] =
                                  MmxResult(idu.out.op, idu.out.a, idu.out.b)]
           /\ ~Goes("exec") => ieu'.result = ieu.result
           /\ ieu.at = "loop" /\ ieu.n = 0 /\ Goes("exec") =>
                 ieu'.result = ExecResult(idu.out.op, idu.out.a, idu.out.b, ieu.result)
<1>1. /\ Exec /\ Floating /\ Mmxu /\ PipeShape /\ Waiting /\ Lines
  BY DEF Next, TInv
<1>. DEFINE xe == ExecResult(idu.out.op, idu.out.a, idu.out.b, ieu.result)
            xf == FloatResult(idu.out.op, idu.out.a, idu.out.b)
            xm == MmxResult(idu.out.op, idu.out.a, idu.out.b)
            d == idu.out.dest
<1>2. /\ UnitStep(ieu, ieu', 1, Goes("exec"), xe, d)
      /\ UnitStep(fpu, fpu', 2, Goes("float"), xf, d)
      /\ UnitStep(mmu, mmu', 1, Goes("mmx"), xm, d)
  BY <1>1, ExecDoes, FloatingDoes, MmxuDoes
<1>3. /\ ieu.at \in {"loop", "write", "lower"}
      /\ fpu.at \in {"loop", "write", "lower"}
      /\ mmu.at \in {"loop", "write", "lower"}
  BY <1>1 DEF Waiting
<1>5. ieu.at = "loop" /\ ieu.n = 0 /\ Goes("exec") => ieu'.result = xe
  BY <1>2 DEF UnitStep
<1>. HIDE DEF xe, xf, xm, d
<1>6. ~Goes("exec") => ieu'.result = ieu.result
  BY <1>2, <1>3 DEF UnitStep
<1>7. \A r : /\ ieu.at = "loop" => Landed(ieu, r) = r
             /\ ieu'.at = "loop" => Landed(ieu', r) = r
             /\ ieu.at # "lower" /\ ~Goes("exec") => Landed(ieu', r) = Landed(ieu, r)
             /\ ieu.at = "loop" /\ ieu.n = 0 /\ Goes("exec") 
                   => Landed(ieu', r) = [r EXCEPT ![d] = xe]
  <2>. TAKE r
  <2>1. UnitStep(ieu, ieu', 1, Goes("exec"), xe, d)
    BY <1>2
  <2>2. CASE ieu.at = "loop" /\ ieu.n = 0 /\ Goes("exec")
    <3>1. ieu'.at = "write" /\ ieu'.result = xe /\ ieu'.dest = d
      BY <2>1, <2>2 DEF UnitStep
    <3>. QED  BY <2>2, <3>1 DEF Landed
  <2>3. CASE ~(ieu.at = "loop" /\ ieu.n = 0 /\ Goes("exec"))
    <3>1. ieu'.result = ieu.result /\ ieu'.dest = ieu.dest
      BY <2>1, <2>3 DEF UnitStep
    <3>2. ieu.at # "lower" => (ieu'.at = "loop" <=> ieu.at = "loop")
      BY <2>1, <2>3 DEF UnitStep
    <3>. QED  BY <2>3, <3>1, <3>2 DEF Landed
  <2>. QED  BY <2>2, <2>3
<1>8. \A r : /\ fpu.at = "loop" => Landed(fpu, r) = r
             /\ fpu'.at = "loop" => Landed(fpu', r) = r
             /\ fpu.at # "lower" /\ ~Goes("float") => Landed(fpu', r) = Landed(fpu, r)
             /\ fpu.at = "loop" /\ fpu.n = 0 /\ Goes("float") 
                   => Landed(fpu', r) = [r EXCEPT ![d] = xf]
  <2>. TAKE r
  <2>1. UnitStep(fpu, fpu', 2, Goes("float"), xf, d)
    BY <1>2
  <2>2. CASE fpu.at = "loop" /\ fpu.n = 0 /\ Goes("float")
    <3>1. fpu'.at = "write" /\ fpu'.result = xf /\ fpu'.dest = d
      BY <2>1, <2>2 DEF UnitStep
    <3>. QED  BY <2>2, <3>1 DEF Landed
  <2>3. CASE ~(fpu.at = "loop" /\ fpu.n = 0 /\ Goes("float"))
    <3>1. fpu'.result = fpu.result /\ fpu'.dest = fpu.dest
      BY <2>1, <2>3 DEF UnitStep
    <3>2. fpu.at # "lower" => (fpu'.at = "loop" <=> fpu.at = "loop")
      BY <2>1, <2>3 DEF UnitStep
    <3>. QED  BY <2>3, <3>1, <3>2 DEF Landed
  <2>. QED  BY <2>2, <2>3
<1>9. \A r : /\ mmu.at = "loop" => Landed(mmu, r) = r
             /\ mmu'.at = "loop" => Landed(mmu', r) = r
             /\ mmu.at # "lower" /\ ~Goes("mmx") => Landed(mmu', r) = Landed(mmu, r)
             /\ mmu.at = "loop" /\ mmu.n = 0 /\ Goes("mmx") 
                   => Landed(mmu', r) = [r EXCEPT ![d] = xm]
  <2>. TAKE r
  <2>1. UnitStep(mmu, mmu', 1, Goes("mmx"), xm, d)
    BY <1>2
  <2>2. CASE mmu.at = "loop" /\ mmu.n = 0 /\ Goes("mmx")
    <3>1. mmu'.at = "write" /\ mmu'.result = xm /\ mmu'.dest = d
      BY <2>1, <2>2 DEF UnitStep
    <3>. QED  BY <2>2, <3>1 DEF Landed
  <2>3. CASE ~(mmu.at = "loop" /\ mmu.n = 0 /\ Goes("mmx"))
    <3>1. mmu'.result = mmu.result /\ mmu'.dest = mmu.dest
      BY <2>1, <2>3 DEF UnitStep
    <3>2. mmu.at # "lower" => (mmu'.at = "loop" <=> mmu.at = "loop")
      BY <2>1, <2>3 DEF UnitStep
    <3>. QED  BY <2>3, <3>1, <3>2 DEF Landed
  <2>. QED  BY <2>2, <2>3
<1>. QED  BY <1>5, <1>6, <1>7, <1>8, <1>9 DEF xe, xf, xm, d

\* A result goes to the registers in the edge its line is up, and until then it
\* is on its way.
LEMMA ResultsLand ==
    ASSUME FetchShape, TInv, Next, idu.at # "lower",
           \/ regs' = WriteBack
           \/ regs' = regs /\ ieu.at # "lower" /\ fpu.at # "lower" /\ mmu.at # "lower"
    PROVE  LandedRegs' = LandedRegs /\ ieu'.result = ieu.result
<1>1. /\ Lines /\ OneAtATime /\ Waiting /\ PipeShape /\ Exec /\ Floating /\ Mmxu
  BY DEF TInv, Next
<1>2. ~Goes("exec") /\ ~Goes("float") /\ ~Goes("mmx")
  BY <1>1, GoesAtLower
<1>3. /\ ieu.at \in {"loop", "write", "lower"}
      /\ fpu.at \in {"loop", "write", "lower"}
      /\ mmu.at \in {"loop", "write", "lower"}
  BY <1>1 DEF Waiting
<1>4. /\ ieu.at \in {"loop", "lower"} => ieu'.at = "loop"
      /\ fpu.at \in {"loop", "lower"} => fpu'.at = "loop"
      /\ mmu.at \in {"loop", "lower"} => mmu'.at = "loop"
  BY <1>1, <1>2, ExecDoes, FloatingDoes, MmxuDoes DEF UnitStep, Waiting
<1>5. regs' = IF ieu.at = "lower" THEN [regs EXCEPT ![ieu.dest] = ieu.result]
              ELSE IF fpu.at = "lower" THEN [regs EXCEPT ![fpu.dest] = fpu.result]
              ELSE IF mmu.at = "lower" THEN [regs EXCEPT ![mmu.dest] = mmu.result]
              ELSE regs
  BY <1>1, <1>3 DEF WriteBack, Lines, OneAtATime
<1>6. /\ \A r : /\ ieu.at = "loop" => Landed(ieu, r) = r
                /\ ieu'.at = "loop" => Landed(ieu', r) = r
                /\ ieu.at # "lower" => Landed(ieu', r) = Landed(ieu, r)
      /\ \A r : /\ fpu.at = "loop" => Landed(fpu, r) = r
                /\ fpu'.at = "loop" => Landed(fpu', r) = r
                /\ fpu.at # "lower" => Landed(fpu', r) = Landed(fpu, r)
      /\ \A r : /\ mmu.at = "loop" => Landed(mmu, r) = r
                /\ mmu'.at = "loop" => Landed(mmu', r) = r
                /\ mmu.at # "lower" => Landed(mmu', r) = Landed(mmu, r)
      /\ ieu'.result = ieu.result
  BY <1>2, UnitsLand
<1>7. /\ LandedRegs = Landed(mmu, Landed(fpu, Landed(ieu, regs)))
      /\ LandedRegs' = Landed(mmu', Landed(fpu', Landed(ieu', regs')))
  BY DEF LandedRegs, Landed
<1>8. CASE ieu.at = "lower"
  <2>1. Landed(ieu, regs) = regs'
    BY <1>5, <1>8 DEF Landed
  <2>. QED  BY <1>1, <1>4, <1>6, <1>7, <1>8, <2>1 DEF OneAtATime
<1>9. CASE fpu.at = "lower"
  <2>1. Landed(fpu, regs) = regs'
    BY <1>1, <1>5, <1>9 DEF Landed, OneAtATime
  <2>. QED  BY <1>1, <1>4, <1>6, <1>7, <1>9, <2>1 DEF OneAtATime
<1>10. CASE mmu.at = "lower"
  <2>1. Landed(mmu, regs) = regs'
    BY <1>1, <1>5, <1>10 DEF Landed, OneAtATime
  <2>. QED  BY <1>1, <1>4, <1>6, <1>7, <1>10, <2>1 DEF OneAtATime
<1>11. CASE ieu.at # "lower" /\ fpu.at # "lower" /\ mmu.at # "lower"
  BY <1>5, <1>6, <1>7, <1>11
<1>. QED  BY <1>8, <1>9, <1>10, <1>11

\* Where a result can be on its way, and where it can land.
LEMMA ResultsInLoop ==
    ASSUME FetchShape, TInv
    PROVE  /\ idu.at \in {"decode", "lower", "stop"} =>
                 ieu.at = "loop" /\ fpu.at = "loop" /\ mmu.at = "loop"
           /\ idu.at # "loop" \/ idu.n > 0 =>
                 ieu.at # "lower" /\ fpu.at # "lower" /\ mmu.at # "lower"
           /\ idu.at = "lower" => ieu.n = 0 /\ fpu.n = 0 /\ mmu.n = 0
<1>1. /\ Waiting /\ InTime /\ Awaited(ieu) /\ Awaited(fpu) /\ Awaited(mmu)
  BY DEF TInv
<1>2. idu.at \in {"decode", "lower", "stop"} =>
         ieu.at = "loop" /\ fpu.at = "loop" /\ mmu.at = "loop"
  BY <1>1 DEF Awaited
<1>3. idu.at # "loop" \/ idu.n > 0 =>
         ieu.at # "lower" /\ fpu.at # "lower" /\ mmu.at # "lower"
  BY <1>1 DEF Awaited, ResultDue, LoopDue, LoopFrom, Waiting
<1>4. idu.at = "lower" => ieu.n = 0 /\ fpu.n = 0 /\ mmu.n = 0
  <2>1. ASSUME idu.at = "lower" PROVE ieu.n <= 0 /\ fpu.n <= 0 /\ mmu.n <= 0
    BY <1>1, <1>2, <2>1 DEF InTime, FreeDue, OperandsDue, OperandsFrom
  <2>. QED  BY <1>1, <2>1 DEF Waiting
<1>. QED  BY <1>2, <1>3, <1>4

\* What a unit computes, one at a time.
LEMMA Computed ==
    ASSUME NEW u, NEW r, NEW l
    PROVE  /\ u.unit = "none" \/ Traps(u) => ComputedBy(u, r, l) = [r |-> r, last |-> l]
           /\ u.unit = "exec" /\ ~Traps(u) =>
                 ComputedBy(u, r, l) = [r |-> [r EXCEPT ![u.dest] = ExecResult(u.op, u.a, u.b, l)],
                                        last |-> ExecResult(u.op, u.a, u.b, l)]
           /\ u.unit = "float" /\ ~Traps(u) =>
                 ComputedBy(u, r, l) = [r |-> [r EXCEPT ![u.dest] = FloatResult(u.op, u.a, u.b)],
                                        last |-> l]
           /\ u.unit = "mmx" /\ ~Traps(u) =>
                 ComputedBy(u, r, l) = [r |-> [r EXCEPT ![u.dest] = MmxResult(u.op, u.a, u.b)],
                                        last |-> l]
BY DEF ComputedBy

LEMMA AfterFlush ==
    ASSUME NEW i, i.op = "flush", NEW m
    PROVE  After(m, i) = [m EXCEPT !.r = [k \in Regs |-> 0]]
BY DEF After

\* The reference machine does at once what the unit that is started will do.
LEMMA AfterIssue ==
    ASSUME NEW i, i.op # "flush", NEW r, NEW l
    PROVE  After([r |-> r, last |-> l], i) = ComputedBy(Issue(i, r), r, l)
<1>. DEFINE m == [r |-> r, last |-> l]
            u == Issue(i, r)
<1>1. m.r = r /\ m.last = l
  OBVIOUS
<1>2. PICK v : v = u /\ v = Issue(i, m.r) /\ v.unit \in {"none", "exec", "float", "mmx"}
  BY <1>1, IssueShape
<1>3. CASE v.unit = "none" \/ Traps(v)
  <2>1. After(m, i) = m
    <3>. HIDE DEF m
    <3>. QED  BY <1>2, <1>3 DEF After
  <2>. QED  BY <1>2, <1>3, <2>1, Computed
<1>4. CASE v.unit = "exec" /\ ~Traps(v)
  <2>1. After(m, i) = [r |-> [r EXCEPT ![v.dest] = ExecResult(v.op, v.a, v.b, l)],
                       last |-> ExecResult(v.op, v.a, v.b, l)]
    BY <1>1, <1>2, <1>4 DEF After
  <2>. QED  BY <1>2, <1>4, <2>1, Computed
<1>5. CASE v.unit = "float" /\ ~Traps(v)
  <2>1. After(m, i) = [m EXCEPT !.r[v.dest] = FloatResult(v.op, v.a, v.b)]
    BY <1>2, <1>5 DEF After
  <2>2. @ = [r |-> [r EXCEPT ![v.dest] = FloatResult(v.op, v.a, v.b)], last |-> l]
    OBVIOUS
  <2>. QED  BY <1>2, <1>5, <2>1, <2>2, Computed
<1>6. CASE v.unit = "mmx" /\ ~Traps(v)
  <2>1. After(m, i) = [m EXCEPT !.r[v.dest] = MmxResult(v.op, v.a, v.b)]
    BY <1>2, <1>6 DEF After
  <2>2. @ = [r |-> [r EXCEPT ![v.dest] = MmxResult(v.op, v.a, v.b)], last |-> l]
    OBVIOUS
  <2>. QED  BY <1>2, <1>6, <2>1, <2>2, Computed
<1>. QED  BY <1>2, <1>3, <1>4, <1>5, <1>6

LEMMA ReferenceStep ==
    ASSUME FetchShape, TInv, Next
    PROVE  Reference'
<1>1. /\ Decode /\ PipeShape /\ Waiting /\ Lines /\ Reference
  BY DEF Next, TInv
<1>2. CASE idu.at = "decode" /\ idu.n = 0
  <2>. DEFINE i == idu.instr
  <2>1. /\ ieu.at = "loop" /\ fpu.at = "loop" /\ mmu.at = "loop"
        /\ ~Goes("exec") /\ ~Goes("float") /\ ~Goes("mmx")
    BY <1>1, <1>2, ResultsInLoop, GoesAtLower
  <2>2. ieu'.at = "loop" /\ fpu'.at = "loop" /\ mmu'.at = "loop" /\ ieu'.result = ieu.result
    BY <1>1, <2>1, ExecDoes, FloatingDoes, MmxuDoes DEF UnitStep, Next
  <2>3. /\ idu'.out = Issue(i, regs)
        /\ \/ idu'.at = "lower"
           \/ idu'.at \in {"end", "stop"} /\ i.op \in {"quit", "invalid"}
        /\ Flush /\ arch' = After(arch, i)
    BY <1>1, <1>2, DecodeDoes DEF Reference
  <2>4. LandedRegs = regs /\ LandedRegs' = regs'
    BY <2>1, <2>2 DEF LandedRegs, Landed
  <2>5. arch = [r |-> regs, last |-> ieu.result]
    BY <1>1, <1>2, <2>4 DEF Reference
  <2>6. arch.r = regs /\ arch.last = ieu.result
    BY <2>5
  <2>7. PICK u : /\ u = Issue(i, regs) /\ idu'.out = u
                 /\ u.unit \in {"none", "exec", "float", "mmx"}
                 /\ i.op \in {"quit", "invalid", "flush"} => u.unit = "none"
    BY <2>3, IssueShape
  <2>8. idu'.at = "lower" => arch' = Computes'
    <3>1. Computes' = ComputedBy(u, regs', ieu.result)
      BY <2>2, <2>7 DEF Computes
    <3>2. CASE i.op = "flush"
      <4>1. arch' = [arch EXCEPT !.r = [k \in Regs |-> 0]]
        BY <2>3, <3>2, AfterFlush
      <4>2. regs' = [k \in Regs |-> 0]
        BY <2>3, <3>2 DEF Flush
      <4>3. ComputedBy(u, regs', ieu.result) = [r |-> regs', last |-> ieu.result]
        BY <2>7, <3>2, Computed
      <4>. QED  BY <2>5, <3>1, <4>1, <4>2, <4>3
    <3>3. CASE i.op # "flush"
      <4>1. regs' = regs
        BY <2>3, <3>3 DEF Flush
      <4>2. arch' = ComputedBy(u, regs, ieu.result)
        BY <2>3, <2>5, <2>7, <3>3, AfterIssue
      <4>. QED  BY <3>1, <4>1, <4>2
    <3>. QED  BY <3>2, <3>3
  <2>9. idu'.at # "lower" => arch' = [r |-> LandedRegs', last |-> ieu'.result]
    <3>1. ASSUME i.op \in {"quit", "invalid"} PROVE arch' = arch /\ regs' = regs
      BY <2>3, <2>6, <2>7, <3>1 DEF After, Flush
    <3>. QED  BY <2>2, <2>3, <2>4, <2>5, <3>1
  <2>10. idu'.at # "decode"
    BY <2>3
  <2>. QED  BY <2>8, <2>9, <2>10 DEF Reference
<1>3. CASE idu.at = "lower" /\ idu.n = 0
  <2>1. /\ ieu.at = "loop" /\ fpu.at = "loop" /\ mmu.at = "loop"
        /\ ieu.n = 0 /\ fpu.n = 0 /\ mmu.n = 0
    BY <1>3, ResultsInLoop
  <2>2. idu'.at = "end" /\ regs' = regs /\ arch' = arch
    BY <1>1, <1>3, DecodeDoes
  <2>3. arch = Computes /\ idu.out.unit \in {"none", "exec", "float", "mmx"}
    BY <1>1, <1>3 DEF Reference, Lines
  <2>4. LandedRegs' = Landed(mmu', Landed(fpu', Landed(ieu', regs)))
    BY <2>2 DEF LandedRegs, Landed
  <2>. DEFINE u == idu.out
              x == ExecResult(u.op, u.a, u.b, ieu.result)
  <2>5. \A r : /\ Landed(ieu', r) = IF Goes("exec") THEN [r EXCEPT ![u.dest] = x] ELSE r
               /\ Landed(fpu', r) = IF Goes("float")
                                    THEN [r EXCEPT ![u.dest] = FloatResult(u.op, u.a, u.b)] ELSE r
               /\ Landed(mmu', r) = IF Goes("mmx")
                                    THEN [r EXCEPT ![u.dest] = MmxResult(u.op, u.a, u.b)] ELSE r
    BY <2>1, UnitsLand
  <2>6. ieu'.result = IF Goes("exec") THEN x ELSE ieu.result
    BY <2>1, UnitsLand
  <2>7. /\ Goes("exec") <=> u.unit = "exec" /\ ~Traps(u)
        /\ Goes("float") <=> u.unit = "float" /\ ~Traps(u)
        /\ Goes("mmx") <=> u.unit = "mmx" /\ ~Traps(u)
    BY DEF Goes, For
  <2>8. Computes = [r |-> LandedRegs', last |-> ieu'.result]
    <3>1. Computes = ComputedBy(u, regs, ieu.result)
      BY DEF Computes
    <3>2. CASE u.unit = "none" \/ Traps(u)
      <4>1. LandedRegs' = regs /\ ieu'.result = ieu.result
        BY <2>4, <2>5, <2>6, <2>7, <3>2
      <4>. QED  BY <3>1, <3>2, <4>1, Computed
    <3>3. CASE u.unit = "exec" /\ ~Traps(u)
      <4>1. LandedRegs' = [regs EXCEPT ![u.dest] = x] /\ ieu'.result = x
        BY <2>4, <2>5, <2>6, <2>7, <3>3
      <4>. QED  BY <3>1, <3>3, <4>1, Computed
    <3>4. CASE u.unit = "float" /\ ~Traps(u)
      <4>1. /\ LandedRegs' = [regs EXCEPT ![u.dest] = FloatResult(u.op, u.a, u.b)]
            /\ ieu'.result = ieu.result
        BY <2>4, <2>5, <2>6, <2>7, <3>4
      <4>. QED  BY <3>1, <3>4, <4>1, Computed
    <3>5. CASE u.unit = "mmx" /\ ~Traps(u)
      <4>1. /\ LandedRegs' = [regs EXCEPT ![u.dest] = MmxResult(u.op, u.a, u.b)]
            /\ ieu'.result = ieu.result
        BY <2>4, <2>5, <2>6, <2>7, <3>5
      <4>. QED  BY <3>1, <3>5, <4>1, Computed
    <3>. QED  BY <2>3, <3>2, <3>3, <3>4, <3>5
  <2>. QED  BY <2>2, <2>3, <2>8 DEF Reference
<1>4. CASE idu.at = "loop" /\ idu.n = 0
  <2>1. regs' = WriteBack /\ arch' = arch /\ idu'.at # "lower"
    BY <1>1, <1>4, DecodeDoes
  <2>2. idu'.at = "decode" => idu'.todo = Issue(idu'.instr, regs')
    BY <1>1, <1>4, DecodeDoes
  <2>3. LandedRegs' = LandedRegs /\ ieu'.result = ieu.result
    BY <1>4, <2>1, ResultsLand
  <2>. QED  BY <1>1, <1>4, <2>1, <2>2, <2>3 DEF Reference
<1>5. CASE idu.at \in {"loop", "end", "stop"} /\ (idu.at = "loop" => idu.n > 0)
  <2>1. /\ regs' = regs /\ arch' = arch /\ idu'.at # "lower" /\ idu'.at # "decode"
    BY <1>1, <1>5, DecodeDoes
  <2>2. ieu.at # "lower" /\ fpu.at # "lower" /\ mmu.at # "lower"
    BY <1>5, ResultsInLoop
  <2>3. LandedRegs' = LandedRegs /\ ieu'.result = ieu.result
    BY <1>5, <2>1, <2>2, ResultsLand
  <2>. QED  BY <1>1, <1>5, <2>1, <2>3 DEF Reference
<1>. QED  BY <1>1, <1>2, <1>3, <1>4, <1>5 DEF Waiting

LEMMA TInit == Init => TInv
<1>. SUFFICES ASSUME Init PROVE TInv
  OBVIOUS
<1>1. /\ latency \in Nat /\ latency >= 2
      /\ ifu.at = "start" /\ ifu.n = 0
      /\ idu.at = "loop" /\ idu.n = 2 /\ idu.out.unit = "none"
      /\ ieu.at = "loop" /\ ieu.n = 3 /\ ieu.result = 0
      /\ fpu.at = "loop" /\ fpu.n = 4
      /\ mmu.at = "loop" /\ mmu.n = 3
      /\ arch = [r |-> regs, last |-> 0]
  BY LatencyAssumption DEF Init, NoIssue
<1>2. PipeShape
  BY DEF Init, NoIssue, PipeShape
<1>3. Waiting
  BY <1>1 DEF Waiting
<1>4. InTime
  BY <1>1 DEF InTime, LoopDue, LoopFrom, InstrDue, OperandsDue, OperandsFrom, FreeDue
<1>5. Awaited(ieu) /\ Awaited(fpu) /\ Awaited(mmu) /\ OneAtATime
  BY <1>1 DEF Awaited, OneAtATime
<1>6. Lines
  <2>1. ~ieu.valid /\ ~fout.valid
    BY DEF Init
  <2>. QED  BY <1>1, <2>1 DEF Lines
<1>7. Reference
  BY <1>1 DEF Reference, LandedRegs, Landed
<1>. QED  BY <1>2, <1>3, <1>4, <1>5, <1>6, <1>7 DEF TInv

LEMMA TStep == MInv /\ TInv /\ [Next]_vars => TInv'
<1>. SUFFICES ASSUME MInv, TInv, [Next]_vars PROVE TInv'
  OBVIOUS
<1>1. CASE Next
  BY <1>1, PipelineStep, ReferenceStep DEF MInv, TInv
<1>2. CASE UNCHANGED vars
  BY <1>2 DEF vars, TInv, PipeShape, Waiting, InTime, Awaited, OneAtATime, Lines, Reference,
              InstrDue, LoopDue, LoopFrom, OperandsDue, OperandsFrom, FreeDue, ResultDue,
              Landed, LandedRegs, Computes, ComputedBy
<1>. QED  BY <1>1, <1>2

LEMMA InvAlways == Spec => [](MInv /\ TInv)
<1>1. Init => MInv /\ TInv
  BY MInit, TInit
<1>2. MInv /\ TInv /\ [Next]_vars => (MInv /\ TInv)'
  BY MStep, TStep
<1>. QED  BY <1>1, <1>2, PTL DEF Spec

-----------------------------------------------------------------------------
\* Nobody waits for an acknowledgement in this pipeline, and yet no valid line
\* is up in a cycle in which the unit it is for looks elsewhere, for any latency
\* of the memories from two cycles on.
THEOREM AlwaysStrobesSeen == Spec => []StrobesSeen
<1>1. MInv /\ TInv => StrobesSeen
  <2>. SUFFICES ASSUME MInv, TInv PROVE StrobesSeen
    OBVIOUS
  <2>1. /\ FetchShape /\ Waiting /\ InTime /\ Awaited(ieu) /\ Awaited(fpu) /\ Awaited(mmu)
        /\ Lines
    BY DEF MInv, TInv
  <2>2. ifu.ivalid => Ready(idu, "loop")
    <3>1. ASSUME ifu.ivalid PROVE LoopDue <= 0
      BY <2>1, <3>1 DEF FetchShape, InTime, InstrDue
    <3>. QED  BY <2>1, <3>1 DEF LoopDue, LoopFrom, Waiting, Ready
  <2>3. /\ For("exec") => Ready(ieu, "loop")
        /\ For("float") => Ready(fpu, "loop")
        /\ For("mmx") => Ready(mmu, "loop")
    <3>1. For("exec") \/ For("float") \/ For("mmx") => idu.at = "lower"
      BY <2>1 DEF For, Lines
    <3>. QED  BY <2>1, <3>1, ResultsInLoop DEF Ready
  <2>4. ieu.valid \/ fout.valid => Ready(idu, "loop")
    <3>1. ieu.valid \/ fout.valid => ieu.at = "lower" \/ fpu.at = "lower" \/ mmu.at = "lower"
      BY <2>1 DEF Lines
    <3>. QED  BY <2>1, <3>1, ResultsInLoop DEF Ready, Waiting
  <2>. QED  BY <2>2, <2>3, <2>4 DEF StrobesSeen
<1>. QED  BY <1>1, InvAlways, PTL

\* There is neither forwarding nor an interlock, and yet every instruction is
\* issued with the registers of a machine that ends each instruction before it
\* reads the next, whatever the program, the units' results and the latency.
THEOREM AlwaysOperandsCurrent == Spec => []OperandsCurrent
<1>1. MInv /\ TInv => OperandsCurrent
  <2>. SUFFICES ASSUME MInv, TInv, idu.at = "decode"
                PROVE  regs = arch.r /\ idu.todo = Issue(idu.instr, arch.r)
    BY DEF OperandsCurrent, Ready
  <2>1. Reference /\ FetchShape
    BY DEF MInv, TInv
  <2>2. LandedRegs = regs
    BY <2>1, ResultsInLoop DEF LandedRegs, Landed
  <2>3. arch = [r |-> regs, last |-> ieu.result] /\ idu.todo = Issue(idu.instr, regs)
    BY <2>1, <2>2 DEF Reference
  <2>. QED  BY <2>3
<1>. QED  BY <1>1, InvAlways, PTL
-----------------------------------------------------------------------------
(***************************************************************************)
(* The count of the addresses.                                             *)
(***************************************************************************)

\* As long as no branch was taken, fetch's address is one ahead of the program
\* counter.  Decode's next_pc is up before the first instruction comes.
Counting ==
    /\ ifu.mode \in {"boot", "next", "branch"}
    /\ idu.bvalid \/ ifu.mode = "branch" => target.taken
    /\ ~target.taken => ifu.lock = 0 /\ ifu.addr = ifu.pc + 1
    /\ ~idu.nextPc => /\ ifu.mode = "boot" /\ ifu.at \in {"start", "poll"}
                      /\ idu.at = "loop" /\ idu.n < InstrDue

\* What decode does to the lines fetch counts by.
LEMMA DecodeTells ==
    ASSUME PipeShape, Waiting, Decode
    PROVE  /\ target.taken => target'.taken
           /\ idu'.bvalid => idu.bvalid \/ target'.taken
           /\ idu.nextPc => idu'.nextPc
           /\ idu.at = "loop" => \/ idu.n > 0 /\ idu'.at = "loop" /\ idu'.n = idu.n - 1
                                 \/ idu.n = 0 /\ (ifu.ivalid \/ idu'.nextPc)
<1>1. CASE idu.n > 0 /\ idu' = Tick(idu) /\ UNCHANGED <<regs, arch, target>>
  BY <1>1 DEF PipeShape, Tick
<1>2. CASE DecodeLoop
  <2>1. idu.at = "loop" /\ idu.n = 0 /\ target' = target
    BY <1>2 DEF DecodeLoop, Ready
  <2>2. CASE ~ifu.ivalid
    <3>1. idu' = [idu EXCEPT !.nextPc = TRUE]
      BY <1>2, <2>2 DEF DecodeLoop
    <3>. QED  BY <2>1, <3>1 DEF PipeShape
  <2>3. CASE ifu.ivalid
    <3>. DEFINE i == ifu.instr
                jump == /\ i.op \in Branches
                        /\ Taken(i.op, Signed(regs'[i.c]), Signed(regs'[i.a]))
                bvalid == idu.bvalid /\ ~ifu.bclear
    <3>1. idu' = At([idu EXCEPT !.pc = ifu.pc, !.instr = i, !.todo = Issue(i, regs'),
                                !.jump = jump, !.bvalid = bvalid], "decode", 1)
      BY <1>2, <2>3 DEF DecodeLoop
    <3>2. bvalid => idu.bvalid
      OBVIOUS
    <3>. HIDE DEF jump, bvalid
    <3>3. idu'.nextPc = idu.nextPc /\ idu'.bvalid = bvalid
      BY <3>1 DEF PipeShape, At
    <3>. QED  BY <2>1, <2>3, <3>2, <3>3
  <2>. QED  BY <2>2, <2>3
<1>3. CASE DecodeSwitch
  <2>. DEFINE i == idu.instr
              goal == IF i.op = "j" THEN i.imm ELSE idu.pc + i.imm
              next == CASE i.op = "invalid" -> "end" [] i.op = "quit" -> "stop"
                        [] OTHER -> "lower"
              pidValid == LoadPid
              bvalid == idu.bvalid \/ idu.jump
              btarget == IF idu.jump THEN goal ELSE idu.btarget
  <2>1. /\ idu.at = "decode"
        /\ idu' = At([idu EXCEPT !.out = idu.todo, !.pidValid = pidValid, !.bvalid = bvalid,
                                 !.btarget = btarget], next, 1)
        /\ target' = IF idu.jump THEN [taken |-> TRUE, to |-> goal] ELSE target
    BY <1>3 DEF DecodeSwitch, Ready
  <2>2. bvalid => idu.bvalid \/ idu.jump
    OBVIOUS
  <2>. HIDE DEF goal, next, pidValid, bvalid, btarget
  <2>3. idu'.nextPc = idu.nextPc /\ idu'.bvalid = bvalid
    BY <2>1 DEF PipeShape, At
  <2>. QED  BY <2>1, <2>2, <2>3
<1>4. CASE DecodeLower
  <2>. DEFINE btarget == IF idu.instr.op \in Branches THEN idu.pc + 1 ELSE idu.btarget
  <2>1. /\ idu.at = "lower" /\ target' = target
        /\ idu' = At([idu EXCEPT !.out.unit = "none", !.pidValid = FALSE, !.btarget = btarget],
                     "end", 1)
    BY <1>4 DEF DecodeLower, Ready
  <2>. HIDE DEF btarget
  <2>2. idu'.nextPc = idu.nextPc /\ idu'.bvalid = idu.bvalid
    BY <2>1 DEF PipeShape, At
  <2>. QED  BY <2>1, <2>2
<1>5. CASE DecodeEnd
  BY <1>5 DEF PipeShape, DecodeEnd, Ready, At
<1>6. CASE DecodeStop
  BY <1>6 DEF PipeShape, DecodeStop, Ready, At
<1>. QED  BY <1>1, <1>2, <1>3, <1>4, <1>5, <1>6 DEF Decode

\* What fetch does to the addresses it counts, and about a branch.
LEMMA FetchCounts ==
    ASSUME FetchShape, Fetch
    PROVE  \/ /\ UNCHANGED <<ifu.at, ifu.lock, ifu.mode, ifu.addr, ifu.bclear, ifu.pc>>
              /\ ifu.n > 0 \/ ifu.at = "poll"
           \/ /\ ifu.at = "start" /\ ifu'.at = "poll"
              /\ UNCHANGED <<ifu.lock, ifu.mode, ifu.addr, ifu.bclear, ifu.pc>>
           \/ /\ ifu.at = "poll" /\ ifu.n = 0 /\ ifu'.at = "strobe"
              /\ UNCHANGED <<ifu.lock, ifu.mode>>
              /\ ifu'.pc = IF ifu.mode = "branch" THEN ifu.pc ELSE ifu.addr
              /\ ifu'.addr = IF ifu.mode = "boot" \/ idu.nextPc THEN ifu.addr + 1 ELSE ifu.addr
              /\ ifu'.bclear = IF ifu.mode = "next" THEN FALSE ELSE ifu.bclear
           \/ /\ ifu.at = "strobe" /\ ifu'.at = "gap"
              /\ UNCHANGED <<ifu.lock, ifu.mode, ifu.addr, ifu.bclear, ifu.pc>>
           \/ /\ ifu.at = "gap" /\ ifu'.at = "head" /\ ifu.lock = 1 /\ ifu'.bclear
              /\ UNCHANGED <<ifu.lock, ifu.mode, ifu.addr, ifu.pc>>
           \/ /\ ifu.at = "head" \/ (ifu.at = "gap" /\ ifu.lock # 1)
              /\ ifu'.at = "poll" /\ UNCHANGED <<ifu.bclear, ifu.pc>>
              /\ ifu'.lock = IF idu.bvalid THEN ifu.lock + 1 ELSE 0
              /\ ifu'.mode = IF idu.bvalid THEN "branch" ELSE "next"
              /\ ifu'.addr = IF idu.bvalid THEN idu.btarget ELSE ifu.addr
<1>1. CASE ifu.n > 0 /\ ifu' = Tick(ifu)
  BY <1>1 DEF FetchShape, Tick
<1>2. CASE FetchStart
  BY <1>2 DEF FetchShape, FetchStart, Ready, At
<1>3. CASE FetchPoll
  BY <1>3 DEF FetchShape, FetchPoll, Ready, At
<1>4. CASE FetchLower
  BY <1>4 DEF FetchShape, FetchLower, Ready, At
<1>5. CASE Ready(ifu, "gap") /\ ifu.lock = 1 /\ ifu' = At([ifu EXCEPT !.bclear = TRUE], "head", 1)
  BY <1>5 DEF FetchShape, Ready, At
<1>6. CASE \/ Ready(ifu, "gap") /\ ifu.lock # 1 /\ FetchHead
           \/ Ready(ifu, "head") /\ FetchHead
  <2>1. ifu.at = "head" \/ (ifu.at = "gap" /\ ifu.lock # 1)
    BY <1>6 DEF Ready
  <2>2. CASE idu.bvalid
    <3>. DEFINE t == At([ifu EXCEPT !.cs = TRUE], "poll", latency + 1)
                lock == t.lock + 1
                addr == idu.btarget
    <3>1. ifu' = [t EXCEPT !.lock = lock, !.addr = addr, !.mode = "branch"]
      BY <1>6, <2>2 DEF FetchHead
    <3>2. /\ DOMAIN t = DOMAIN ifu /\ t.at = "poll"
          /\ t.lock = ifu.lock /\ t.bclear = ifu.bclear /\ t.pc = ifu.pc
      BY DEF FetchShape, At
    <3>3. lock = ifu.lock + 1
      BY <3>2
    <3>. HIDE DEF t, lock, addr
    <3>4. /\ ifu'.at = "poll" /\ UNCHANGED <<ifu.bclear, ifu.pc>>
          /\ ifu'.lock = lock /\ ifu'.mode = "branch" /\ ifu'.addr = addr
      BY <3>1, <3>2 DEF FetchShape
    <3>. QED  BY <2>1, <2>2, <3>3, <3>4 DEF addr
  <2>3. CASE ~idu.bvalid
    BY <1>6, <2>1, <2>3 DEF FetchShape, FetchHead, At
  <2>. QED  BY <2>2, <2>3
<1>. QED  BY <1>1, <1>2, <1>3, <1>4, <1>5, <1>6 DEF Fetch, FetchGap

LEMMA CountingInit == Init => Counting
BY LatencyAssumption DEF Init, Counting, InstrDue

LEMMA CountingStep == MInv /\ TInv /\ Counting /\ [Next]_vars => Counting'
<1>. SUFFICES ASSUME MInv, TInv, Counting, Next PROVE Counting'
  BY DEF vars, Counting, InstrDue
<1>1. /\ FetchShape /\ PipeShape /\ Waiting /\ Fetch /\ Decode /\ latency' = latency
  BY DEF MInv, TInv, Next
<1>2. /\ target.taken => target'.taken
      /\ idu'.bvalid => idu.bvalid \/ target'.taken
      /\ idu.nextPc => idu'.nextPc
      /\ idu.at = "loop" => \/ idu.n > 0 /\ idu'.at = "loop" /\ idu'.n = idu.n - 1
                            \/ idu.n = 0 /\ (ifu.ivalid \/ idu'.nextPc)
  BY <1>1, DecodeTells
<1>3. InstrDue \in Nat /\ InstrDue' \in Nat /\ InstrDue' >= InstrDue - 1 /\ idu.n \in Nat
  BY <1>1, InstrNearer DEF Waiting
<1>4. ifu.mode = "next" => idu.nextPc
  BY DEF Counting
<1>5. ifu'.mode \in {"boot", "next", "branch"}
  BY <1>1, FetchCounts DEF Counting
<1>6. idu'.bvalid \/ ifu'.mode = "branch" => target'.taken
  BY <1>1, <1>2, FetchCounts DEF Counting
<1>7. ~target'.taken => ifu'.lock = 0 /\ ifu'.addr = ifu'.pc + 1
  <2>. SUFFICES ASSUME ~target'.taken PROVE ifu'.lock = 0 /\ ifu'.addr = ifu'.pc + 1
    OBVIOUS
  <2>1. ifu.lock = 0 /\ ~idu.bvalid /\ ifu.mode \in {"boot", "next"} /\ ifu.addr = ifu.pc + 1
    BY <1>2 DEF Counting
  <2>. QED  BY <1>1, <1>4, <2>1, FetchCounts
<1>8. ~idu'.nextPc => /\ ifu'.mode = "boot" /\ ifu'.at \in {"start", "poll"}
                      /\ idu'.at = "loop" /\ idu'.n < InstrDue'
  <2>. SUFFICES ASSUME ~idu'.nextPc
                PROVE  /\ ifu'.mode = "boot" /\ ifu'.at \in {"start", "poll"}
                       /\ idu'.at = "loop" /\ idu'.n < InstrDue'
    OBVIOUS
  <2>1. /\ ifu.mode = "boot" /\ ifu.at \in {"start", "poll"} /\ ~ifu.ivalid
        /\ idu.at = "loop" /\ idu.n < InstrDue
    BY <1>1, <1>2 DEF Counting, FetchShape
  <2>2. idu.n > 0 /\ idu'.at = "loop" /\ idu'.n = idu.n - 1
    BY <1>2, <2>1
  \* Decode is still waiting, so the instruction cannot be there.
  <2>3. ~(ifu.at = "poll" /\ ifu.n = 0)
    BY <1>3, <2>1, <2>2 DEF InstrDue
  <2>4. ifu'.mode = "boot" /\ ifu'.at \in {"start", "poll"}
    BY <1>1, <2>1, <2>3, FetchCounts
  <2>. QED  BY <1>3, <2>1, <2>2, <2>4
<1>. QED  BY <1>5, <1>6, <1>7, <1>8 DEF Counting

-----------------------------------------------------------------------------
(***************************************************************************)
(* Branches.                                                               *)
(***************************************************************************)

IsBranch(a) == a > 0 /\ Image(a).op \in Branches

\* What decode works at is what fetch handed over last.
InStep ==
    /\ ifu.at = "gap" <=> idu.at = "decode"
    /\ ifu.at \in {"gap", "head"} \/ (ifu.at = "poll" /\ ifu.mode # "boot") =>
          idu.pc = ifu.pc /\ idu.instr = Image(ifu.pc)
    /\ ifu.mode = "boot" /\ ifu.at \in {"start", "poll"} =>
          ifu.pc = 0 /\ idu.at = "loop" /\ ~idu.bvalid
    /\ ~(ifu.mode = "boot" /\ ifu.at \in {"start", "poll"}) => ifu.pc > 0
    /\ idu.at = "decode" /\ idu.jump => idu.instr.op \in Branches

\* Where fetch is: it counts in lock how often it took the branch over.
Fetching ==
    /\ ifu.pc \in Nat
    /\ ifu.lock \in 0 .. 2 /\ ifu.mode \in {"boot", "next", "branch"}
    /\ ifu.mode = "branch" <=> ifu.lock > 0
    /\ ifu.addr = IF ifu.lock > 0 /\ ifu.at = "poll" THEN ifu.pc ELSE ifu.pc + 1
    /\ ifu.at = "head" => ifu.lock = 1 /\ ifu.bclear
    /\ ifu.mode = "boot" => ~ifu.bclear
    /\ ifu.at \in {"strobe", "gap"} \/ (ifu.at = "poll" /\ ifu.lock > 0) =>
          (ifu.bclear <=> ifu.lock = 2)

\* A branch that decode has taken is up: at first while fetch waits for the
\* instruction behind it, in the order of the addresses, then while fetch hands that
\* over, and hands it over again, until its branch_clear was seen. The line holds
\* the address of that instruction by the time fetch looks at it.
Pending ==
    /\ ifu.lock = 0 /\ ifu.at \in {"start", "poll"} /\ idu.bvalid =>
          IsBranch(ifu.pc) /\ (idu.at # "lower" => idu.btarget = ifu.pc + 1)
    /\ ifu.lock = 0 /\ ifu.at \in {"strobe", "gap"} /\ idu.bvalid =>
          ~IsBranch(ifu.pc) /\ idu.btarget = ifu.pc
    /\ ifu.lock > 0 => /\ ~IsBranch(ifu.pc)
                       /\ idu.bvalid <=> ~(ifu.lock = 2 /\ ifu.at = "gap")
                       /\ idu.bvalid => idu.btarget = ifu.pc

Branching == InStep /\ Fetching /\ Pending

\* What decode does to the lines of a branch.
LEMMA DecodeBranches ==
    ASSUME PipeShape, Waiting, Decode
    PROVE  \/ /\ idu.at = "loop" /\ idu.n = 0 /\ ifu.ivalid /\ idu'.at = "decode"
              /\ idu'.pc = ifu.pc /\ idu'.instr = ifu.instr /\ idu'.btarget = idu.btarget
              /\ idu'.bvalid <=> idu.bvalid /\ ~ifu.bclear
              /\ idu'.jump => ifu.instr.op \in Branches
           \/ /\ idu.at = "decode" /\ idu'.at \in {"lower", "end", "stop"}
              /\ UNCHANGED <<idu.pc, idu.instr>>
              /\ idu'.bvalid <=> idu.bvalid \/ idu.jump
              /\ ~idu.jump => idu'.btarget = idu.btarget
              /\ idu.instr.op = "quit" => idu'.at = "stop"
              /\ idu.instr.op \in Branches => idu'.at = "lower"
           \/ /\ idu.at = "lower" /\ idu'.at = "end"
              /\ UNCHANGED <<idu.pc, idu.instr, idu.bvalid>>
              /\ idu'.btarget = IF idu.instr.op \in Branches THEN idu.pc + 1 ELSE idu.btarget
           \/ /\ \/ idu.at \in {"loop", "end"} /\ idu'.at \in {"loop", idu.at}
                    /\ ~(idu.at = "loop" /\ idu.n = 0 /\ ifu.ivalid)
                 \/ idu.at = "stop" /\ idu'.at = "end"
              /\ UNCHANGED <<idu.pc, idu.instr, idu.bvalid, idu.btarget>>
<1>1. CASE idu.n > 0 /\ idu' = Tick(idu) /\ UNCHANGED <<regs, arch, target>>
  <2>1. idu.at \in {"loop", "end"}
    BY <1>1 DEF Waiting
  <2>. QED  BY <1>1, <2>1 DEF PipeShape, Tick
<1>2. CASE DecodeLoop
  <2>1. idu.at = "loop" /\ idu.n = 0
    BY <1>2 DEF DecodeLoop, Ready
  <2>2. CASE ~ifu.ivalid
    <3>1. idu' = [idu EXCEPT !.nextPc = TRUE]
      BY <1>2, <2>2 DEF DecodeLoop
    <3>. QED  BY <2>1, <2>2, <3>1 DEF PipeShape
  <2>3. CASE ifu.ivalid
    <3>. DEFINE i == ifu.instr
                jump == /\ i.op \in Branches
                        /\ Taken(i.op, Signed(regs'[i.c]), Signed(regs'[i.a]))
                bvalid == idu.bvalid /\ ~ifu.bclear
    <3>1. idu' = At([idu EXCEPT !.pc = ifu.pc, !.instr = i, !.todo = Issue(i, regs'),
                                !.jump = jump, !.bvalid = bvalid], "decode", 1)
      BY <1>2, <2>3 DEF DecodeLoop
    <3>2. (bvalid <=> idu.bvalid /\ ~ifu.bclear) /\ (jump => ifu.instr.op \in Branches)
      OBVIOUS
    <3>. HIDE DEF jump, bvalid
    <3>3. /\ idu'.at = "decode" /\ idu'.pc = ifu.pc /\ idu'.instr = ifu.instr
          /\ idu'.btarget = idu.btarget /\ idu'.bvalid = bvalid /\ idu'.jump = jump
      BY <3>1 DEF PipeShape, At
    <3>. QED  BY <2>1, <2>3, <3>2, <3>3
  <2>. QED  BY <2>2, <2>3
<1>3. CASE DecodeSwitch
  <2>. DEFINE i == idu.instr
              goal == IF i.op = "j" THEN i.imm ELSE idu.pc + i.imm
              next == CASE i.op = "invalid" -> "end" [] i.op = "quit" -> "stop"
                        [] OTHER -> "lower"
              pidValid == LoadPid
              bvalid == idu.bvalid \/ idu.jump
              btarget == IF idu.jump THEN goal ELSE idu.btarget
  <2>1. /\ idu.at = "decode"
        /\ idu' = At([idu EXCEPT !.out = idu.todo, !.pidValid = pidValid, !.bvalid = bvalid,
                                 !.btarget = btarget], next, 1)
    BY <1>3 DEF DecodeSwitch, Ready
  <2>2. /\ bvalid <=> idu.bvalid \/ idu.jump
        /\ ~idu.jump => btarget = idu.btarget
        /\ next \in {"lower", "end", "stop"}
        /\ i.op = "quit" => next = "stop"
        /\ i.op \in Branches => next = "lower"
    BY DEF Branches
  <2>. HIDE DEF goal, next, pidValid, bvalid, btarget
  <2>3. /\ idu'.at = next /\ UNCHANGED <<idu.pc, idu.instr>>
        /\ idu'.bvalid = bvalid /\ idu'.btarget = btarget
    BY <2>1 DEF PipeShape, At
  <2>. QED  BY <2>1, <2>2, <2>3
<1>4. CASE DecodeLower
  <2>. DEFINE btarget == IF idu.instr.op \in Branches THEN idu.pc + 1 ELSE idu.btarget
  <2>1. /\ idu.at = "lower"
        /\ idu' = At([idu EXCEPT !.out.unit = "none", !.pidValid = FALSE, !.btarget = btarget],
                     "end", 1)
    BY <1>4 DEF DecodeLower, Ready
  <2>. HIDE DEF btarget
  <2>2. /\ idu'.at = "end" /\ UNCHANGED <<idu.pc, idu.instr, idu.bvalid>>
        /\ idu'.btarget = btarget
    BY <2>1 DEF PipeShape, At
  <2>. QED  BY <2>1, <2>2 DEF btarget
<1>5. CASE DecodeEnd
  BY <1>5 DEF PipeShape, DecodeEnd, Ready, At
<1>6. CASE DecodeStop
  BY <1>6 DEF PipeShape, DecodeStop, Ready, At
<1>. QED  BY <1>1, <1>2, <1>3, <1>4, <1>5, <1>6 DEF Decode

\* Behind the end of the image stands no branch, so that the addresses Sparse
\* looks at are enough.
LEMMA NoTwoBranches ==
    ASSUME Sparse, NEW a \in Nat, IsBranch(a)
    PROVE  ~IsBranch(a + 1)
<1>1. CASE a <= CodeLength
  BY <1>1, SizesAssumption DEF Sparse, IsBranch
<1>2. CASE a > CodeLength
  BY <1>2, SizesAssumption DEF IsBranch, Image, InBios, Quit, Instr, Branches
<1>. QED  BY <1>1, <1>2, SizesAssumption

LEMMA BranchingInit == Init => Branching
<1>. SUFFICES ASSUME Init PROVE Branching
  OBVIOUS
<1>1. /\ ifu.at = "start" /\ ifu.lock = 0 /\ ifu.mode = "boot" /\ ifu.addr = 1 /\ ifu.pc = 0
      /\ ~ifu.bclear /\ idu.at = "loop" /\ ~idu.bvalid
  BY DEF Init
<1>. QED  BY <1>1 DEF Branching, InStep, Fetching, Pending

LEMMA BranchingStep ==
    MInv /\ TInv /\ Counting /\ Sparse /\ Branching /\ [Next]_vars => Branching'
<1>. SUFFICES ASSUME MInv, TInv, Counting, Sparse, Branching, Next PROVE Branching'
  BY DEF vars, Branching, InStep, Fetching, Pending, IsBranch, Image
<1>1. /\ FetchShape /\ Named /\ PipeShape /\ Waiting /\ InTime /\ Fetch /\ Decode
      /\ InStep /\ Fetching /\ Pending
  BY DEF MInv, TInv, Next, Branching
<1>2. \A a : Image(a)' = Image(a) /\ (IsBranch(a)' <=> IsBranch(a))
  BY DEF Next, Image, IsBranch
\* Fetch and decode meet where one hands over and the other is at its loop, and
\* again one edge later.
<1>3. /\ ifu.at = "strobe" => idu.at = "loop" /\ idu.n = 0 /\ ifu.ivalid /\ ifu.instr = Image(ifu.pc)
      /\ ifu.at # "strobe" => ~ifu.ivalid
      /\ idu.at \in {"lower", "stop"} => ifu.at \in {"poll", "head"}
      /\ ifu.at = "poll" /\ ifu.n = 0 => idu.at \in {"loop", "end"}
  BY <1>1 DEF FetchShape, Named, Waiting, InTime, LoopDue, LoopFrom, InstrDue, InStep, Fetching
<1>4. ifu.mode # "boot" => idu.nextPc
  BY DEF Counting
<1>5. CASE ifu.at = "strobe"
  <2>1. ifu'.at = "gap" /\ UNCHANGED <<ifu.lock, ifu.mode, ifu.addr, ifu.bclear, ifu.pc>>
    BY <1>1, <1>5, FetchCounts DEF Waiting
  <2>2. /\ idu'.at = "decode" /\ idu'.pc = ifu.pc /\ idu'.instr = Image(ifu.pc)
        /\ idu'.btarget = idu.btarget
        /\ idu'.bvalid <=> idu.bvalid /\ ~ifu.bclear
        /\ idu'.jump => idu'.instr.op \in Branches
    BY <1>1, <1>3, <1>5, DecodeBranches
  <2>3. InStep'
    BY <1>1, <1>2, <1>5, <2>1, <2>2 DEF InStep
  <2>4. Fetching'
    BY <1>1, <1>5, <2>1 DEF Fetching
  <2>5. Pending'
    BY <1>1, <1>2, <1>5, <2>1, <2>2 DEF Fetching, Pending
  <2>. QED  BY <2>3, <2>4, <2>5 DEF Branching
<1>6. CASE ifu.at = "gap"
  <2>1. idu.at = "decode" /\ idu.pc = ifu.pc /\ idu.instr = Image(ifu.pc) /\ ifu.pc \in Nat /\ ifu.pc > 0
    BY <1>1, <1>6 DEF InStep, Fetching
  <2>2. /\ idu'.at \in {"lower", "end", "stop"} /\ UNCHANGED <<idu.pc, idu.instr>>
        /\ idu'.bvalid <=> idu.bvalid \/ idu.jump
        /\ ~idu.jump => idu'.btarget = idu.btarget
        /\ idu.jump => idu'.at = "lower"
    BY <1>1, <2>1, DecodeBranches DEF InStep
  <2>3. idu.jump => IsBranch(ifu.pc)
    BY <1>1, <2>1 DEF InStep, IsBranch
  <2>4. \/ /\ ifu'.at = "head" /\ ifu.lock = 1 /\ ifu'.bclear
           /\ UNCHANGED <<ifu.lock, ifu.mode, ifu.addr, ifu.pc>>
        \/ /\ ifu'.at = "poll" /\ UNCHANGED <<ifu.bclear, ifu.pc>>
           /\ ifu.lock = 0 /\ idu.bvalid /\ ifu'.lock = 1 /\ ifu'.mode = "branch"
           /\ ifu'.addr = idu.btarget
        \/ /\ ifu'.at = "poll" /\ UNCHANGED <<ifu.bclear, ifu.pc>>
           /\ ~idu.bvalid /\ ifu'.lock = 0 /\ ifu'.mode = "next" /\ ifu'.addr = ifu.addr
    BY <1>1, <1>6, FetchCounts DEF Waiting, Fetching, Pending
  <2>5. InStep'
    BY <1>1, <1>2, <1>6, <2>1, <2>2, <2>4 DEF InStep, Fetching
  <2>6. Fetching'
    BY <1>1, <1>6, <2>4 DEF Fetching, Pending
  <2>7. Pending'
    BY <1>1, <1>2, <1>6, <2>2, <2>3, <2>4 DEF Fetching, Pending
  <2>. QED  BY <2>5, <2>6, <2>7 DEF Branching
<1>7. CASE ifu.at = "head"
  <2>1. /\ ifu.lock = 1 /\ ifu.mode = "branch" /\ ~IsBranch(ifu.pc) /\ idu.bvalid
        /\ idu.btarget = ifu.pc /\ idu.at # "decode" /\ ~ifu.ivalid
        /\ idu.pc = ifu.pc /\ idu.instr = Image(ifu.pc) /\ ifu.pc \in Nat /\ ifu.pc > 0
    BY <1>1, <1>3, <1>7 DEF InStep, Fetching, Pending
  <2>2. /\ ifu'.at = "poll" /\ UNCHANGED <<ifu.bclear, ifu.pc>>
        /\ ifu'.lock = 2 /\ ifu'.mode = "branch" /\ ifu'.addr = ifu.pc
    BY <1>1, <1>7, <2>1, FetchCounts DEF Waiting
  <2>3. idu.instr.op \notin Branches
    BY <2>1 DEF IsBranch
  <2>4. idu'.at # "decode" /\ UNCHANGED <<idu.pc, idu.instr, idu.bvalid, idu.btarget>>
    BY <1>1, <2>1, <2>3, DecodeBranches
  <2>5. InStep'
    BY <1>2, <2>1, <2>2, <2>4 DEF InStep
  <2>6. Fetching'
    BY <1>1, <1>7, <2>1, <2>2 DEF Fetching
  <2>7. Pending'
    <3>1. ~IsBranch(ifu.pc)'
      BY <1>2, <2>1, <2>2
    <3>2. idu'.bvalid /\ idu'.btarget = ifu'.pc
      BY <2>1, <2>2, <2>4
    <3>. QED  BY <2>2, <3>1, <3>2 DEF Pending
  <2>. QED  BY <2>5, <2>6, <2>7 DEF Branching
<1>8. CASE ifu.at \in {"start", "poll"} /\ ifu'.at \in {"start", "poll"}
  <2>1. /\ UNCHANGED <<ifu.lock, ifu.mode, ifu.addr, ifu.bclear, ifu.pc>>
        /\ ifu'.at = "start" => ifu.at = "start"
        /\ ifu.at = "start" => ifu.mode = "boot" /\ ifu.lock = 0
    <3>1. /\ UNCHANGED <<ifu.lock, ifu.mode, ifu.addr, ifu.bclear, ifu.pc>>
          /\ ifu'.at = "start" => ifu.at = "start"
      BY <1>1, <1>8, FetchCounts
    <3>2. ifu.at = "start" => ifu.mode = "boot" /\ ifu.lock = 0
      BY <1>1 DEF Named, Fetching
    <3>. QED  BY <3>1, <3>2
  <2>2. idu.at # "decode" /\ ~ifu.ivalid
    BY <1>1, <1>3, <1>8 DEF InStep
  <2>3. /\ UNCHANGED <<idu.pc, idu.instr, idu.bvalid>>
        /\ \/ /\ idu.at = "lower" /\ idu'.at = "end"
              /\ idu'.btarget = IF idu.instr.op \in Branches THEN idu.pc + 1 ELSE idu.btarget
           \/ /\ idu.at # "lower" /\ idu'.at \notin {"lower", "decode"}
              /\ (idu.at = "loop" => idu'.at = "loop") /\ idu'.btarget = idu.btarget
    BY <1>1, <2>2, DecodeBranches
  <2>4. InStep'
    BY <1>1, <1>2, <1>8, <2>1, <2>3 DEF InStep
  <2>5. Fetching'
    BY <1>1, <1>8, <2>1 DEF Fetching
  <2>6. Pending'
    <3>1. CASE ifu.mode = "boot"
      BY <1>1, <1>2, <1>8, <2>1, <2>3, <3>1 DEF InStep, Fetching, Pending
    <3>2. CASE ifu.mode # "boot"
      <4>1. idu.pc = ifu.pc /\ idu.instr = Image(ifu.pc) /\ ifu.pc > 0
        BY <1>1, <1>8, <2>1, <3>2 DEF InStep
      <4>2. IsBranch(ifu.pc) <=> idu.instr.op \in Branches
        BY <4>1 DEF IsBranch
      <4>. QED  BY <1>1, <1>2, <1>8, <2>1, <2>3, <3>2, <4>1, <4>2 DEF Fetching, Pending
    <3>. QED  BY <3>1, <3>2
  <2>. QED  BY <2>4, <2>5, <2>6 DEF Branching
<1>9. CASE ifu.at = "poll" /\ ifu'.at = "strobe"
  <2>1. /\ ifu.n = 0 /\ UNCHANGED <<ifu.lock, ifu.mode>> /\ ifu.pc \in Nat
        /\ ifu'.pc = IF ifu.mode = "branch" THEN ifu.pc ELSE ifu.addr
        /\ ifu'.addr = ifu.addr + 1
        /\ ifu'.bclear = IF ifu.mode = "next" THEN FALSE ELSE ifu.bclear
    BY <1>1, <1>4, <1>9, FetchCounts DEF Fetching
  <2>2. ifu'.pc = IF ifu.lock = 0 THEN ifu.pc + 1 ELSE ifu.pc
    BY <1>1, <1>9, <2>1 DEF Fetching
  <2>3. idu.at \in {"loop", "end"} /\ ~ifu.ivalid
    BY <1>3, <1>9, <2>1
  <2>4. idu'.at # "decode" /\ UNCHANGED <<idu.pc, idu.instr, idu.bvalid, idu.btarget>>
    BY <1>1, <2>3, DecodeBranches
  <2>5. InStep'
    BY <1>1, <1>9, <2>1, <2>2, <2>4 DEF InStep, Fetching
  <2>6. Fetching'
    BY <1>1, <1>9, <2>1, <2>2 DEF Fetching
  <2>7. Pending'
    <3>1. CASE ifu.lock = 0
      <4>1. idu.bvalid => ~IsBranch(ifu.pc + 1)
        BY <1>1, <1>9, <2>1, <3>1, NoTwoBranches DEF Pending
      <4>. QED  BY <1>1, <1>2, <1>9, <2>1, <2>2, <2>3, <2>4, <3>1, <4>1 DEF Pending
    <3>2. CASE ifu.lock # 0
      BY <1>1, <1>2, <1>9, <2>1, <2>2, <2>4, <3>2 DEF Fetching, Pending
    <3>. QED  BY <3>1, <3>2
  <2>. QED  BY <2>5, <2>6, <2>7 DEF Branching
<1>10. ifu.at \in {"start", "poll"} => ifu'.at \in {"start", "poll"} \/ (ifu.at = "poll" /\ ifu'.at = "strobe")
  BY <1>1, FetchCounts
<1>. QED  BY <1>1, <1>5, <1>6, <1>7, <1>8, <1>9, <1>10 DEF FetchShape

LEMMA BranchingAlways == Spec => [](MInv /\ TInv /\ Counting /\ (Sparse => Branching))
<1>1. Init => Counting /\ (Sparse => Branching)
  BY CountingInit, BranchingInit
<1>2. MInv /\ TInv /\ Counting /\ (Sparse => Branching) /\ [Next]_vars
        => Counting' /\ (Sparse => Branching)'
  <2>1. [Next]_vars => (Sparse' => Sparse)
    BY DEF Next, vars, Sparse, Image
  <2>. QED  BY <2>1, CountingStep, BranchingStep
<1>. QED  BY <1>1, <1>2, InvAlways, PTL DEF Spec

\* Whichever memory answers and however late, the instruction that fetch hands
\* over is the one the memory holds at the program counter that goes with it. On a
\* branch fetch never puts the address it takes over on the bus, but in a program
\* without two branches side by side that address is there already.
THEOREM AlwaysRightInstruction == Spec => []RightInstruction
<1>1. MInv => (ifu.ivalid => ifu.instr = Image(ifu.pc))
  BY DEF MInv, FetchShape, Named
<1>2. MInv /\ Branching => (ifu.mode = "branch" /\ ifu.cs => ifu.addr = ifu.bus)
  <2>. SUFFICES ASSUME MInv, Branching, ifu.mode = "branch", ifu.cs PROVE ifu.addr = ifu.bus
    OBVIOUS
  <2>1. ifu.at = "poll" /\ ifu.lock > 0
    BY DEF MInv, FetchShape, Branching, Fetching
  <2>. QED  BY <2>1 DEF MInv, Named, Branching, Fetching
<1>. QED  BY <1>1, <1>2, BranchingAlways, PTL DEF RightInstruction

\* In a program without two branches side by side fetch goes through the addresses
\* one by one, whatever branches are taken: a taken branch has the instruction
\* behind it handed over three times, and goes nowhere.  In any program it is so
\* until the first branch is taken, for which, with AlwaysRightInstruction and
\* AlwaysOperandsCurrent, the processor runs the memory image from address 1 on as
\* a sequential machine does.
THEOREM AlwaysInSequence == Spec => InSequence
<1>. DEFINE Handed == (Sparse \/ ~target.taken) /\ ifu'.ivalid /\ ~ifu.ivalid =>
                         ifu'.pc = IF ifu.lock = 0 THEN ifu.pc + 1 ELSE ifu.pc
            Locked == Sparse => ifu'.lock \in {ifu.lock, (ifu.lock + 1) % 3}
<1>1. MInv /\ TInv /\ Counting /\ (Sparse => Branching) /\ [Next]_vars => [Handed /\ Locked]_vars
  <2>. SUFFICES ASSUME MInv, TInv, Counting, Sparse => Branching, Next PROVE Handed /\ Locked
    OBVIOUS
  <2>1. FetchShape /\ FetchShape' /\ Waiting /\ Fetch
    BY FetchDoes DEF MInv, TInv, Next
  <2>2. Handed
    <3>. SUFFICES ASSUME Sparse \/ ~target.taken, ifu'.ivalid, ~ifu.ivalid
                  PROVE  ifu'.pc = IF ifu.lock = 0 THEN ifu.pc + 1 ELSE ifu.pc
      OBVIOUS
    <3>1. ifu.at # "strobe" /\ ifu'.at = "strobe"
      BY <2>1 DEF FetchShape
    <3>2. ifu.at = "poll" /\ ifu'.pc = IF ifu.mode = "branch" THEN ifu.pc ELSE ifu.addr
      BY <2>1, <3>1, FetchCounts
    <3>3. CASE Sparse
      BY <3>2, <3>3 DEF Branching, Fetching
    <3>4. CASE ~target.taken
      BY <3>2, <3>4 DEF Counting
    <3>. QED  BY <3>3, <3>4
  <2>3. ASSUME Sparse PROVE ifu'.lock \in {ifu.lock, (ifu.lock + 1) % 3}
    <3>1. /\ ifu.lock \in 0 .. 2 /\ InStep /\ Fetching /\ Pending
          /\ (0 + 1) % 3 = 1 /\ (1 + 1) % 3 = 2 /\ (2 + 1) % 3 = 0
      BY <2>3 DEF Branching, Fetching
    <3>2. \/ ifu'.lock = ifu.lock
          \/ /\ ifu.at \in {"gap", "head"}
             /\ ifu'.lock = IF idu.bvalid THEN ifu.lock + 1 ELSE 0
      BY <2>1, FetchCounts
    <3>3. ASSUME ifu.at \in {"gap", "head"}, ifu.lock = 1 PROVE idu.bvalid
      BY <3>1, <3>3 DEF Pending
    <3>4. ASSUME ifu.at \in {"gap", "head"}, ifu.lock = 2 PROVE ~idu.bvalid
      BY <3>1, <3>4 DEF Fetching, Pending
    <3>. QED  BY <3>1, <3>2, <3>3, <3>4
  <2>. QED  BY <2>2, <2>3
<1>. QED  BY <1>1, BranchingAlways, PTL DEF Spec, InSequence
-----------------------------------------------------------------------------
(***************************************************************************)
(* The end of the image.                                                   *)
(***************************************************************************)

\* The program counter never passes the QUIT behind the image, and once that is decoded
\* the simulation stops.
Ending ==
    /\ ifu.at = "start" => ifu.bus = 0
    /\ ifu.pc <= CodeLength
    /\ ifu.pc = CodeLength /\ ifu.at \notin {"strobe", "gap"} /\ status = "running" =>
          idu.at = "stop"

LEMMA EndingInit == Init => Ending
BY SizesAssumption DEF Init, Ending

LEMMA StopStops ==
    ASSUME Waiting, Status, idu.at = "stop"
    PROVE  status' # "running"
BY DEF Waiting, Status, Ready

LEMMA EndingStep == MInv /\ TInv /\ Counting /\ Branching /\ Ending /\ [Next]_vars => Ending'
<1>. SUFFICES ASSUME MInv, TInv, Counting, Branching, Ending, Next PROVE Ending'
  BY DEF vars, Ending
<1>1. /\ FetchShape /\ PipeShape /\ Waiting /\ InTime /\ Fetch /\ Decode /\ Status
      /\ InStep /\ Fetching /\ latency' = latency /\ status = "running"
      /\ ifu.at # "poll" => ifu.n = 0
      /\ CodeLength \in Nat /\ CodeLength > 0 /\ ifu.pc \in Nat
  BY SizesAssumption DEF MInv, TInv, Next, Branching, Fetching, Waiting
<1>2. ifu'.at = "start" => ifu'.bus = 0
  BY <1>1, FetchDoes DEF Ending
<1>3. CASE ifu.at = "strobe"
  BY <1>1, <1>2, <1>3, FetchCounts DEF Ending
<1>4. CASE ifu.at = "gap"
  <2>1. ifu'.pc = ifu.pc
    BY <1>1, <1>4, FetchCounts
  <2>2. ifu.pc = CodeLength => idu'.at = "stop"
    <3>1. idu.at = "decode" /\ idu.instr = Image(ifu.pc)
      BY <1>1, <1>4 DEF InStep
    <3>2. ifu.pc = CodeLength => Image(ifu.pc).op = "quit"
      BY SizesAssumption DEF Image, InBios, Quit, Instr
    <3>. QED  BY <1>1, <3>1, <3>2, DecodeBranches
  <2>. QED  BY <1>1, <1>2, <2>1, <2>2 DEF Ending
<1>5. CASE ifu.at \notin {"strobe", "gap"} /\ ifu.pc = CodeLength
  <2>1. idu.at = "stop"
    BY <1>1, <1>5 DEF Ending
  <2>2. status' # "running"
    BY <1>1, <2>1, StopStops
  <2>3. ifu'.pc = ifu.pc
    <3>1. ~(ifu.at = "poll" /\ ifu.n = 0)
      BY <1>1, <2>1 DEF InTime, InstrDue, FetchShape
    <3>. QED  BY <1>1, <1>5, <3>1, FetchCounts
  <2>. QED  BY <1>1, <1>2, <1>5, <2>2, <2>3 DEF Ending
<1>6. CASE ifu.at \notin {"strobe", "gap"} /\ ifu.pc # CodeLength
  <2>1. ifu.pc + 1 <= CodeLength
    BY <1>1, <1>6 DEF Ending
  <2>2. \/ ifu'.pc = ifu.pc
        \/ ifu'.at = "strobe" /\ ifu'.pc \in {ifu.pc, ifu.pc + 1}
    <3>1. ifu.at = "poll" => ifu.mode = "branch" \/ ifu.addr = ifu.pc + 1
      BY <1>1 DEF Fetching
    <3>. QED  BY <1>1, <1>6, <3>1, FetchCounts
  <2>. QED  BY <1>1, <1>2, <1>6, <2>1, <2>2 DEF Ending
<1>. QED  BY <1>3, <1>4, <1>5, <1>6

LEMMA EndingAlways == Spec => [](MInv /\ TInv /\ (Sparse => Branching /\ Ending))
<1>1. Init => (Sparse => Ending)
  BY EndingInit
<1>2. MInv /\ TInv /\ Counting /\ (Sparse => Branching) /\ (Sparse => Ending) /\ [Next]_vars
        => (Sparse => Ending)'
  <2>1. [Next]_vars => (Sparse' => Sparse)
    BY DEF Next, vars, Sparse, Image
  <2>. QED  BY <2>1, EndingStep
<1>. QED  BY <1>1, <1>2, BranchingAlways, PTL DEF Spec

\* The addresses of the image, and of the QUIT behind it.
InImage == /\ ifu.pc \in 0 .. CodeLength
           /\ ifu.ivalid => ifu.pc \in 1 .. CodeLength
           /\ ifu.bus \in 0 .. CodeLength + 1

LEMMA EndsInImage == MInv /\ Branching /\ Ending => InImage
<1>. SUFFICES ASSUME MInv, Branching, Ending PROVE InImage
  OBVIOUS
<1>1. /\ FetchShape /\ Named /\ InStep /\ Fetching /\ CodeLength \in Nat /\ CodeLength > 0
  BY SizesAssumption DEF MInv, Branching
<1>2. ifu.pc \in 0 .. CodeLength /\ (ifu.ivalid => ifu.pc # 0)
  BY <1>1 DEF Ending, Fetching, InStep, FetchShape
<1>3. ifu.addr \in 0 .. CodeLength + 1
  BY <1>1, <1>2 DEF Fetching
<1>4. ifu.bus \in 0 .. CodeLength + 1
  BY <1>1, <1>2, <1>3 DEF Named, Ending, FetchShape
<1>. QED  BY <1>1, <1>2, <1>4 DEF InImage

\* In a program without two branches side by side fetch stays in the image: every
\* instruction it hands over is from there or the QUIT that stands behind it, and
\* it asks for one address more at most before the simulation is stopped (icache.cc
\* would answer any address behind the image with QUIT).
THEOREM StaysInImage == Spec => [](Sparse => InImage)
BY EndsInImage, EndingAlways, PTL

-----------------------------------------------------------------------------
(***************************************************************************)
(* Types.                                                                  *)
(***************************************************************************)

\* Operands that the unit they are for can make a word of.
Operable(u) ==
    /\ u.a \in Word /\ u.b \in Word /\ u.dest \in Regs
    /\ u.unit \in {"none", "exec", "float", "mmx"}
    /\ u.unit = "exec" => u.op \in (1 .. 11) \cup {14}
    /\ u.unit = "float" => u.op \in 3 .. 6
    /\ u.unit = "mmx" => u.op \in 3 .. 9

\* What decode cuts up is an instruction, what it hands over can be computed, and
\* what the units compute and the lines carry back is a word for a register.
Words ==
    /\ program \in Programs
    /\ idu.at = "decode" => idu.instr \in Instruction
    /\ idu.at = "lower" => Operable(idu.out)
    /\ regs \in [Regs -> Word]
    /\ ieu.result \in Word /\ ieu.dest \in Regs
    /\ fpu.result \in Word /\ fpu.dest \in Regs
    /\ mmu.result \in Word /\ mmu.dest \in Regs
    /\ ieu.data \in Word /\ ieu.destout \in Regs
    /\ fout.data \in Word /\ fout.dest \in Regs
    /\ status \in {"running", "stopped", "trapped"}

LEMMA WrapsToWord ==
    ASSUME UnitsComputeWords
    PROVE  0 \in Word /\ \A x \in Int : Wrap(x) \in Word
<1>1. 2^WordBits \in Nat \ {0}
  BY DEF UnitsComputeWords
<1>2. \A m \in Nat \ {0} : 0 \in 0 .. m - 1 /\ \A x \in Int : x % m \in 0 .. m - 1
  OBVIOUS
<1>. QED  BY <1>1, <1>2 DEF Word, Wrap

LEMMA Codes ==
    /\ \A k \in DOMAIN AluCode : AluCode[k] \in (1 .. 11) \cup {14}
    /\ \A k \in DOMAIN MoveCode : MoveCode[k] \in (1 .. 11) \cup {14}
    /\ \A k \in DOMAIN FloatCode : FloatCode[k] \in 3 .. 6
    /\ \A k \in DOMAIN MmxCode : MmxCode[k] \in 3 .. 9
<1>1. \A k \in DOMAIN AluCode : AluCode[k] \in (1 .. 11) \cup {14}
  BY DEF AluCode
<1>2. \A k \in DOMAIN MoveCode : MoveCode[k] \in (1 .. 11) \cup {14}
  BY DEF MoveCode
<1>3. \A k \in DOMAIN FloatCode : FloatCode[k] \in 3 .. 6
  BY DEF FloatCode
<1>4. \A k \in DOMAIN MmxCode : MmxCode[k] \in 3 .. 9
  BY DEF MmxCode
<1>. QED  BY <1>1, <1>2, <1>3, <1>4

LEMMA IssuesOperable ==
    ASSUME UnitsComputeWords, NEW i \in Instruction, NEW r \in [Regs -> Word]
    PROVE  Operable(Issue(i, r))
<1>1. /\ 0 \in Word /\ 0 \in Regs /\ Wrap(i.imm) \in Word
      /\ r[i.a] \in Word /\ r[i.b] \in Word /\ i.c \in Regs
      /\ "mov" \in DOMAIN MoveCode /\ "movi" \in DOMAIN MoveCode
      /\ {"addi", "subi", "not"} \subseteq DOMAIN AluCode
  BY WrapsToWord, SizesAssumption DEF Instruction, MoveCode, AluCode
<1>. DEFINE To(unit, op, a, b, dest) ==
              [unit |-> unit, op |-> op, a |-> a, b |-> b, dest |-> dest]
<1>2. \/ Issue(i, r) = To("exec", AluCode[i.op], r[i.a], Wrap(i.imm), i.c)
           /\ i.op \in {"addi", "subi"}
      \/ Issue(i, r) = To("exec", AluCode[i.op], r[i.a], 0, i.c) /\ i.op = "not"
      \/ Issue(i, r) = To("exec", AluCode[i.op], r[i.a], r[i.b], i.c)
           /\ i.op \in DOMAIN AluCode
      \/ Issue(i, r) = To("exec", MoveCode[i.op], r[i.a], 0, i.c) /\ i.op = "mov"
      \/ Issue(i, r) = To("exec", MoveCode[i.op], Wrap(i.imm), 0, i.c) /\ i.op = "movi"
      \/ Issue(i, r) = To("exec", 3, 0, 0, 0)
      \/ Issue(i, r) = To("float", FloatCode[i.op], r[i.a], r[i.b], i.c)
           /\ i.op \in DOMAIN FloatCode
      \/ Issue(i, r) = To("mmx", MmxCode[i.op], r[i.a], r[i.b], i.c)
           /\ i.op \in DOMAIN MmxCode
      \/ Issue(i, r) = To("none", 0, 0, 0, 0)
  BY DEF Issue
<1>3. ASSUME NEW unit, NEW op, NEW a \in Word, NEW b \in Word, NEW d \in Regs,
             \/ unit = "exec" /\ op \in (1 .. 11) \cup {14}
             \/ unit = "float" /\ op \in 3 .. 6
             \/ unit = "mmx" /\ op \in 3 .. 9
             \/ unit = "none",
             Issue(i, r) = To(unit, op, a, b, d)
      PROVE  Operable(Issue(i, r))
  BY <1>3 DEF Operable
<1>. HIDE DEF To
<1>4. 3 \in (1 .. 11) \cup {14}
  OBVIOUS
<1>. QED  BY <1>1, <1>2, <1>3, <1>4, Codes

\* A division by zero leaves what was there; all else does not depend on it.
LEMMA ExecLast ==
    ASSUME NEW op \in (1 .. 11) \cup {14}, NEW a, NEW b, NEW l
    PROVE  ExecResult(op, a, b, l) \in {l, ExecResult(op, a, b, 0)}
BY DEF ExecResult

LEMMA UnitsMakeWords ==
    ASSUME UnitsComputeWords, NEW u, Operable(u), ~Traps(u), NEW l \in Word
    PROVE  /\ u.unit = "exec" => ExecResult(u.op, u.a, u.b, l) \in Word
           /\ u.unit = "float" => FloatResult(u.op, u.a, u.b) \in Word
           /\ u.unit = "mmx" => MmxResult(u.op, u.a, u.b) \in Word
<1>1. ASSUME u.unit = "exec" PROVE ExecResult(u.op, u.a, u.b, l) \in Word
  <2>1. ~ExecTraps(u.op, u.a, u.b) /\ u.op \in (1 .. 11) \cup {14} /\ u.a \in Word /\ u.b \in Word
    BY <1>1 DEF Operable, Traps
  <2>2. ExecResult(u.op, u.a, u.b, 0) \in Word
    BY <2>1 DEF UnitsComputeWords
  <2>. QED  BY <2>1, <2>2, ExecLast
<1>2. ASSUME u.unit = "float" PROVE FloatResult(u.op, u.a, u.b) \in Word
  BY <1>2 DEF Operable, Traps, UnitsComputeWords
<1>3. ASSUME u.unit = "mmx" PROVE MmxResult(u.op, u.a, u.b) \in Word
  BY <1>3 DEF Operable, UnitsComputeWords
<1>. QED  BY <1>1, <1>2, <1>3

LEMMA ImageInstruction ==
    ASSUME program \in Programs, NEW a \in 1 .. CodeLength
    PROVE  Image(a) \in Instruction
<1>1. /\ program \in [1 .. CodeLength - 1 -> Instruction] /\ 0 \in Regs
      /\ CodeLength \in Nat /\ BootLength \in Nat /\ CodeLength > BootLength
  BY ContentsAssumption, SizesAssumption
<1>2. CASE a <= CodeLength - 1
  BY <1>1, <1>2 DEF Image, InBios
<1>3. CASE a = CodeLength
  <2>1. Image(a) = Quit
    BY <1>1, <1>3 DEF Image, InBios
  <2>2. Quit \in Instruction
    <3>1. "quit" \in Opcodes
      BY DEF Opcodes
    <3>. QED  BY <1>1, <3>1 DEF Quit, Instr, Instruction
  <2>. QED  BY <2>1, <2>2
<1>. QED  BY <1>1, <1>2, <1>3

LEMMA WordsInit == UnitsComputeWords /\ Init => Words
<1>. SUFFICES ASSUME UnitsComputeWords, Init PROVE Words
  OBVIOUS
<1>1. 0 \in Word /\ 0 \in Regs /\ Operands \subseteq Word
  BY WrapsToWord, SizesAssumption, ContentsAssumption
<1>2. regs \in [Regs -> Word]
  <2>1. regs \in [Regs -> Operands]
    BY DEF Init
  <2>. QED  BY <1>1, <2>1
<1>3. /\ program \in Programs /\ idu.at = "loop"
      /\ ieu.result = 0 /\ ieu.dest = 0 /\ ieu.data = 0 /\ ieu.destout = 0
      /\ fpu.result = 0 /\ fpu.dest = 0 /\ mmu.result = 0 /\ mmu.dest = 0
      /\ fout.data = 0 /\ fout.dest = 0 /\ status = "running"
  BY DEF Init
<1>. QED  BY <1>1, <1>2, <1>3 DEF Words

LEMMA WordsStep ==
    UnitsComputeWords /\ MInv /\ TInv /\ InImage /\ Words /\ [Next]_vars => Words'
<1>. SUFFICES ASSUME UnitsComputeWords, MInv, TInv, InImage, Words, Next PROVE Words'
  BY DEF vars, Words
<1>1. /\ FetchShape /\ Named /\ PipeShape /\ Waiting /\ Lines /\ Reference
      /\ Decode /\ Exec /\ Floating /\ Mmxu /\ FOut /\ Status
      /\ program' = program /\ 0 \in Word
  BY WrapsToWord DEF MInv, TInv, Next
<1>2. program' \in Programs
  BY <1>1 DEF Words
<1>3. regs' \in [Regs -> Word]
  <2>1. regs' \in {regs, WriteBack} \/ Flush
    BY <1>1, DecodeDoes
  <2>2. regs \in [Regs -> Word] /\ WriteBack \in [Regs -> Word]
    BY DEF Words, WriteBack
  <2>3. Flush => regs' \in [Regs -> Word]
    BY <1>1, <2>2 DEF Flush
  <2>. QED  BY <2>1, <2>2, <2>3
<1>4. idu'.at = "decode" => idu'.instr \in Instruction
  <2>. SUFFICES ASSUME idu'.at = "decode" PROVE idu'.instr \in Instruction
    OBVIOUS
  <2>1. idu.at = "loop" /\ ifu.ivalid /\ idu'.instr = ifu.instr
    BY <1>1, DecodeBranches
  <2>2. ifu.instr = Image(ifu.pc) /\ ifu.pc \in 1 .. CodeLength
    BY <1>1, <2>1 DEF FetchShape, Named, InImage
  <2>. QED  BY <2>1, <2>2, ImageInstruction DEF Words
<1>5. (idu.at = "lower" => Operable(idu.out))'
  <2>. SUFFICES ASSUME idu'.at = "lower" PROVE Operable(idu'.out)
    BY DEF Operable
  <2>1. idu.at = "decode" /\ idu'.out = idu.todo
    BY <1>1, DecodeDoes DEF Waiting
  <2>2. idu.todo = Issue(idu.instr, regs) /\ idu.instr \in Instruction /\ regs \in [Regs -> Word]
    BY <1>1, <2>1 DEF Reference, Words
  <2>. QED  BY <2>1, <2>2, IssuesOperable
<1>6. ASSUME NEW unit \in {"exec", "float", "mmx"}, Goes(unit)
      PROVE  /\ idu.out.unit = unit /\ Operable(idu.out) /\ ~Traps(idu.out)
             /\ idu.out.dest \in Regs
  <2>1. idu.at = "lower" /\ idu.out.unit = unit
    BY <1>1, <1>6, GoesAtLower
  <2>. QED  BY <1>6, <2>1 DEF Goes, Words, Operable
<1>7. ieu'.result \in Word /\ ieu'.dest \in Regs
  <2>1. \/ ieu'.result = ieu.result /\ ieu'.dest = ieu.dest
        \/ /\ Goes("exec") /\ ieu'.dest = idu.out.dest
           /\ ieu'.result = ExecResult(idu.out.op, idu.out.a, idu.out.b, ieu.result)
    BY <1>1, ExecDoes DEF UnitStep
  <2>2. ieu.result \in Word /\ ieu.dest \in Regs
    BY DEF Words
  <2>. QED  BY <1>6, <2>1, <2>2, UnitsMakeWords
<1>8. fpu'.result \in Word /\ fpu'.dest \in Regs
  <2>1. \/ fpu'.result = fpu.result /\ fpu'.dest = fpu.dest
        \/ /\ Goes("float") /\ fpu'.dest = idu.out.dest
           /\ fpu'.result = FloatResult(idu.out.op, idu.out.a, idu.out.b)
    BY <1>1, FloatingDoes DEF UnitStep
  <2>2. fpu.result \in Word /\ fpu.dest \in Regs
    BY DEF Words
  <2>. QED  BY <1>1, <1>6, <2>1, <2>2, UnitsMakeWords
<1>9. mmu'.result \in Word /\ mmu'.dest \in Regs
  <2>1. \/ mmu'.result = mmu.result /\ mmu'.dest = mmu.dest
        \/ /\ Goes("mmx") /\ mmu'.dest = idu.out.dest
           /\ mmu'.result = MmxResult(idu.out.op, idu.out.a, idu.out.b)
    BY <1>1, MmxuDoes DEF UnitStep
  <2>2. mmu.result \in Word /\ mmu.dest \in Regs
    BY DEF Words
  <2>. QED  BY <1>1, <1>6, <2>1, <2>2, UnitsMakeWords
<1>10. ieu'.data \in Word /\ ieu'.destout \in Regs
  <2>1. /\ ieu'.data \in {ieu.data, ieu.result}
        /\ ieu'.destout \in {ieu.destout, ieu.dest}
    BY <1>1 DEF Exec, PipeShape, Ready, Start, At, Tick
  <2>. QED  BY <2>1 DEF Words
<1>11. fout'.data \in Word /\ fout'.dest \in Regs
  <2>1. /\ fout'.data \in {fout.data, fpu.result, mmu.result}
        /\ fout'.dest \in {fout.dest, fpu.dest, mmu.dest}
    BY <1>1 DEF FOut, PipeShape
  <2>. QED  BY <2>1 DEF Words
<1>12. status' \in {"running", "stopped", "trapped"}
  BY <1>1 DEF Status, Words
<1>. QED  BY <1>2, <1>3, <1>4, <1>5, <1>7, <1>8, <1>9, <1>10, <1>11, <1>12 DEF Words

\* The registers of the reference machine are words, for they are those of the
\* processor once what is on its way has landed.
LEMMA ReferenceWords ==
    ASSUME UnitsComputeWords, TInv, Words
    PROVE  arch.r \in [Regs -> Word]
<1>1. /\ Reference /\ regs \in [Regs -> Word] /\ ieu.result \in Word
      /\ idu.at = "lower" => Operable(idu.out)
  BY DEF TInv, Words
<1>2. CASE idu.at # "lower"
  <2>1. Landed(ieu, regs) \in [Regs -> Word]
    BY DEF Words, Landed
  <2>2. Landed(fpu, Landed(ieu, regs)) \in [Regs -> Word]
    BY <2>1 DEF Words, Landed
  <2>3. LandedRegs \in [Regs -> Word]
    BY <2>2 DEF Words, Landed, LandedRegs
  <2>. QED  BY <1>1, <1>2, <2>3 DEF Reference
<1>3. CASE idu.at = "lower"
  <2>1. arch.r = Computes.r /\ Operable(idu.out)
    BY <1>1, <1>3 DEF Reference
  <2>2. CASE idu.out.unit = "none" \/ Traps(idu.out)
    BY <1>1, <2>1, <2>2 DEF Computes, ComputedBy
  <2>3. CASE idu.out.unit = "exec" /\ ~Traps(idu.out)
    <3>. DEFINE x == ExecResult(idu.out.op, idu.out.a, idu.out.b, ieu.result)
    <3>1. x \in Word
      BY <1>1, <2>1, <2>3, UnitsMakeWords
    <3>2. arch.r = [regs EXCEPT ![idu.out.dest] = x]
      BY <2>1, <2>3 DEF Computes, ComputedBy
    <3>. HIDE DEF x
    <3>. QED  BY <1>1, <3>1, <3>2
  <2>4. CASE idu.out.unit = "float" /\ ~Traps(idu.out)
    <3>. DEFINE x == FloatResult(idu.out.op, idu.out.a, idu.out.b)
    <3>1. x \in Word
      BY <1>1, <2>1, <2>4, UnitsMakeWords
    <3>2. arch.r = [regs EXCEPT ![idu.out.dest] = x]
      BY <2>1, <2>4 DEF Computes, ComputedBy
    <3>. HIDE DEF x
    <3>. QED  BY <1>1, <3>1, <3>2
  <2>5. CASE idu.out.unit = "mmx" /\ ~Traps(idu.out)
    <3>. DEFINE x == MmxResult(idu.out.op, idu.out.a, idu.out.b)
    <3>1. x \in Word
      BY <1>1, <2>1, <2>5, UnitsMakeWords
    <3>2. arch.r = [regs EXCEPT ![idu.out.dest] = x]
      BY <2>1, <2>5 DEF Computes, ComputedBy
    <3>. HIDE DEF x
    <3>. QED  BY <1>1, <3>1, <3>2
  <2>. QED  BY <2>1, <2>2, <2>3, <2>4, <2>5 DEF Operable
<1>. QED  BY <1>2, <1>3

LEMMA WordsTyped ==
    ASSUME UnitsComputeWords, MInv, TInv, Branching, Ending, Words
    PROVE  TypeOK
<1>1. /\ InImage /\ Fetching /\ Lines /\ CodeLength \in Nat
  BY EndsInImage, SizesAssumption DEF TInv, Branching
<1>2. regs \in [Regs -> Word] /\ arch.r \in [Regs -> Word]
  BY ReferenceWords DEF Words
<1>3. ifu.bus \in Address /\ ifu.pc \in Address
  BY <1>1 DEF InImage, Address
<1>4. ifu.addr \in Nat /\ ifu.lock \in Nat /\ ifu.mode \in {"boot", "next", "branch"}
  BY <1>1 DEF Fetching
<1>5. /\ ieu.data \in Word /\ ieu.destout \in Regs /\ fout.data \in Word /\ fout.dest \in Regs
      /\ idu.out.unit \in {"none", "exec", "float", "mmx"}
      /\ status \in {"running", "stopped", "trapped"}
  BY <1>1 DEF Words, Lines
<1>. QED  BY <1>2, <1>3, <1>4, <1>5 DEF TypeOK

\* In a program without two branches side by side every line and every register
\* carries a value of its type, and fetch asks for no address further behind the
\* image than the one after its QUIT, if only the units make words of words
\* (exec.cc, mmxu.cc and floating.cc keep their results in an int): decode hands
\* them no operation and no operand they would not, for what it hands them is cut
\* from an instruction of the image and from registers that hold words.
THEOREM TypeCorrect ==
    ASSUME UnitsComputeWords
    PROVE  Spec => [](Sparse => TypeOK)
<1>1. Init => (Sparse => Words)
  BY WordsInit
<1>2. MInv /\ TInv /\ (Sparse => Branching /\ Ending) /\ (Sparse => Words) /\ [Next]_vars
        => (Sparse => Words)'
  <2>1. [Next]_vars => (Sparse' => Sparse)
    BY DEF Next, vars, Sparse, Image
  <2>. QED  BY <2>1, EndsInImage, WordsStep
<1>3. MInv /\ TInv /\ (Sparse => Branching /\ Ending) /\ (Sparse => Words) => (Sparse => TypeOK)
  BY WordsTyped
<1>. QED  BY <1>1, <1>2, <1>3, EndingAlways, PTL DEF Spec

=============================================================================

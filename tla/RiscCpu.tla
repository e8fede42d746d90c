------------------------------- MODULE RiscCpu -------------------------------
(* The RISC processor of risc_cpu: fetch, bios, paging and icache bring the *)
(* instructions, decode issues them, exec, floating and mmxu compute, and   *)
(* main.cc wires the ports together.                                        *)
(*                                                                          *)
(* Every unit is a clocked thread. A step of the specification is one edge  *)
(* of the clock: each unit runs from the wait() it is suspended at to its   *)
(* next one, reading the signals as the previous edge left them (unprimed)  *)
(* and writing the values the next edge will see (primed). The record of a  *)
(* unit holds where it waits ("at"), how many edges more ("n"), its locals  *)
(* and the signals it drives.                                               *)
(*                                                                          *)
(* Left out, because main.cc drives none of their inputs: the data cache,   *)
(* the interrupt controller and the interrupt path of fetch, and what       *)
(* decode would write back from the data cache.                             *)
EXTENDS RiscAlu, FiniteSets

CONSTANTS BootLength,  \* first address that is not in the bios (5 in the code)
          CodeLength,  \* MAX_CODE_LENGTH of the instruction cache
          Latencies,   \* values for delay_cycles of main.cc
          Regs,        \* register numbers; 0 is one of them
          Operands,    \* what the registers may hold at first
          Programs     \* memory images: functions from 1 .. CodeLength-1 to instructions

ASSUME SizesAssumption == /\ BootLength \in Nat \ {0, 1}
                          /\ CodeLength \in Nat /\ CodeLength > BootLength
                          /\ 0 \in Regs

\* At a latency of one the decoder would be busy with the next instruction of
\* the bios when a product or a quotient comes out (main.cc has two cycles).
ASSUME LatencyAssumption == Latencies \subseteq Nat \ {0, 1}

VARIABLES
  program,  \* bios.img and icache.img
  latency,  \* delay_cycles
  ifu, bios, paging, icache, idu, ieu, fpu, mmu, \* the units
  ramdata,  \* ram_dataout, written by the bios and by paging
  fout,     \* fdout, fout_valid, fdestout, written by floating and by mmxu
  regs,     \* cpu_reg
  status,   \* "running", "stopped" by sc_stop, "trapped" in an illegal division
  arch,     \* history: the registers of a machine that ends one instruction
            \* before it reads the next
  target    \* history: whether a branch was taken, and where the last was to go

vars == <<program, latency, ifu, bios, paging, icache, idu, ieu, fpu, mmu,
          ramdata, fout, regs, status, arch, target>>

\* A thread that calls wait(k) to go on at l. Running(t) skips the edges left.
At(t, l, k) == [t EXCEPT !.at = l, !.n = k - 1]
Ready(t, l) == t.at = l /\ t.n = 0
Tick(t) == [t EXCEPT !.n = @ - 1]

-----------------------------------------------------------------------------
\* Instructions

\* The fields decode cuts an instruction into. imm stands for the immediate
\* value, the label with its sign and the long label.
Instr(op, c, a, b, imm) == [op |-> op, c |-> c, a |-> a, b |-> b, imm |-> imm]
Halt == Instr("halt", 0, 0, 0, 0)
Quit == Instr("quit", 0, 0, 0, 0)

\* alu_op of the instructions that decode hands to each unit.
AluCode == [add |-> 3, addi |-> 3, addc |-> 1, sub |-> 4, subi |-> 4, subc |-> 2,
            mul |-> 5, div |-> 6, nand |-> 7, and |-> 8, or |-> 9, xor |-> 10,
            not |-> 11, mod |-> 14]
MoveCode == [mov |-> 3, movi |-> 3]
FloatCode == [fadd |-> 3, fsub |-> 4, fmul |-> 5, fdiv |-> 6]
MmxCode == [mmxadd |-> 3, mmxadds |-> 4, mmxsub |-> 5, mmxsubs |-> 6,
            pmadd |-> 7, pack |-> 8, mmxck |-> 9]

\* Whether a branch is taken, from the registers its fields c and a name.
Taken(op, x, y) == CASE op = "beq" -> x = y
                     [] op = "bne" -> x # y
                     [] op = "bgt" -> x > y
                     [] op = "bge" -> x >= y
                     [] op = "blt" -> x < y
                     [] op = "ble" -> x <= y
                     [] op = "j" -> TRUE
Branches == {"beq", "bne", "bgt", "bge", "blt", "ble", "j"}

\* Whatever bits a word of an image has, decode takes it for one of its cases, and
\* the fields name registers there are.
Opcodes == DOMAIN AluCode \cup DOMAIN MoveCode \cup DOMAIN FloatCode \cup DOMAIN MmxCode
             \cup Branches \cup {"halt", "jal", "jr", "lw", "sw", "ldpid", "flush",
                                 "quit", "invalid"}
Instruction == [op : Opcodes, c : Regs, a : Regs, b : Regs, imm : Int]

ASSUME ContentsAssumption == /\ Programs \subseteq [1 .. CodeLength - 1 -> Instruction]
                             /\ Operands \subseteq Word

\* What an instruction hands to a unit: operation, operands, destination. A
\* branch adds 0 and 0 into register 0.
Issue(i, r) ==
  LET To(unit, op, a, b, dest) ==
        [unit |-> unit, op |-> op, a |-> a, b |-> b, dest |-> dest]
  IN  CASE i.op \in {"addi", "subi"} -> To("exec", AluCode[i.op], r[i.a], Wrap(i.imm), i.c)
        [] i.op = "not" -> To("exec", AluCode[i.op], r[i.a], 0, i.c)
        [] i.op \in DOMAIN AluCode \ {"addi", "subi", "not"} ->
             To("exec", AluCode[i.op], r[i.a], r[i.b], i.c)
        [] i.op = "mov" -> To("exec", MoveCode[i.op], r[i.a], 0, i.c)
        [] i.op = "movi" -> To("exec", MoveCode[i.op], Wrap(i.imm), 0, i.c)
        [] i.op \in Branches -> To("exec", 3, 0, 0, 0)
        [] i.op \in DOMAIN FloatCode -> To("float", FloatCode[i.op], r[i.a], r[i.b], i.c)
        [] i.op \in DOMAIN MmxCode -> To("mmx", MmxCode[i.op], r[i.a], r[i.b], i.c)
        [] OTHER -> To("none", 0, 0, 0, 0)

\* halt, jal, jr, lw, sw and ldpid hand nothing to a unit. lw and sw drive
\* mem_access, mem_write and mem_address, which no port in main.cc reads.
NoIssue == [unit |-> "none", op |-> 0, a |-> 0, b |-> 0, dest |-> 0]

Traps(u) == \/ u.unit = "exec" /\ ExecTraps(u.op, u.a, u.b)
            \/ u.unit = "float" /\ FloatTraps(u.op, u.a, u.b)

\* The reference machine after instruction i: m.r are its registers, m.last
\* what its integer unit computed last.
After(m, i) ==
  LET u == Issue(i, m.r)
      x == ExecResult(u.op, u.a, u.b, m.last)
  IN  IF i.op = "flush" THEN [m EXCEPT !.r = [k \in Regs |-> 0]]
      ELSE IF u.unit = "none" \/ Traps(u) THEN m
      ELSE CASE u.unit = "exec" -> [r |-> [m.r EXCEPT ![u.dest] = x], last |-> x]
             [] u.unit = "float" -> [m EXCEPT !.r[u.dest] = FloatResult(u.op, u.a, u.b)]
             [] u.unit = "mmx" -> [m EXCEPT !.r[u.dest] = MmxResult(u.op, u.a, u.b)]
-----------------------------------------------------------------------------
\* Memory and fetch

Init ==
  /\ program \in Programs
  /\ latency \in Latencies
  /\ ifu = [at |-> "start", n |-> 0, addr |-> 1, lock |-> 0, mode |-> "boot",
            cs |-> FALSE, bus |-> 0, ivalid |-> FALSE, instr |-> Halt, pc |-> 0,
            bclear |-> FALSE]
  /\ bios = [at |-> "idle", n |-> 1, addr |-> 0, valid |-> FALSE]
  /\ paging = [at |-> "idle", n |-> 1, cs |-> FALSE, phys |-> 0, valid |-> FALSE]
  /\ icache = [at |-> "idle", n |-> 1, addr |-> 0, data |-> Halt, valid |-> FALSE, pid |-> 0]
  /\ idu = [at |-> "loop", n |-> 2, instr |-> Halt, todo |-> NoIssue, jump |-> FALSE,
            pc |-> 0, out |-> NoIssue, nextPc |-> FALSE, bvalid |-> FALSE,
            btarget |-> 0, pidValid |-> FALSE]
  /\ ieu = [at |-> "loop", n |-> 3, result |-> 0, dest |-> 0,
            valid |-> FALSE, data |-> 0, destout |-> 0]
  /\ fpu = [at |-> "loop", n |-> 4, result |-> 0, dest |-> 0]
  /\ mmu = [at |-> "loop", n |-> 3, result |-> 0, dest |-> 0]
  /\ ramdata = Halt
  /\ fout = [valid |-> FALSE, data |-> 0, dest |-> 0]
  /\ regs \in [Regs -> Operands]
  /\ status = "running"
  /\ arch = [r |-> regs, last |-> 0]
  /\ target = [taken |-> FALSE, to |-> 0]

\* The bios answers the addresses below BootLength, the cache, through paging,
\* all others; past its end that gives 0xffffffff, which is the instruction
\* QUIT. No program has an address below 1.
InBios(a) == a < BootLength
Image(a) == IF InBios(a) \/ a < CodeLength THEN program[a] ELSE Quit

\* The head of fetch's loop. On a branch the address is taken over, but not
\* written to the bus, nor to program_counter when the instruction is there.
FetchHead ==
  LET t == At([ifu EXCEPT !.cs = TRUE], "poll", latency + 1)
  IN  ifu' = IF idu.bvalid
             THEN [t EXCEPT !.lock = @ + 1, !.addr = idu.btarget, !.mode = "branch"]
             ELSE [t EXCEPT !.lock = 0, !.bus = ifu.addr, !.mode = "next"]

FetchStart ==
  /\ Ready(ifu, "start")
  /\ ifu' = At([ifu EXCEPT !.cs = TRUE, !.bus = ifu.addr], "poll", latency + 1)

FetchPollBlind ==
  /\ Ready(ifu, "poll")
  /\ ifu' = At([ifu EXCEPT !.ivalid = TRUE, !.instr = ramdata, !.cs = FALSE,
                  !.pc = IF ifu.mode = "branch" THEN @ ELSE ifu.addr,
                  !.bclear = IF ifu.mode = "next" THEN FALSE ELSE @,
                  !.addr = IF ifu.mode = "boot" \/ idu.nextPc THEN @ + 1 ELSE @],
               "strobe", 1)

FetchPoll ==
  /\ Ready(ifu, "poll")
  /\ IF bios.valid \/ paging.valid
     THEN ifu' = At([ifu EXCEPT !.ivalid = TRUE, !.instr = ramdata, !.cs = FALSE,
                       !.pc = IF ifu.mode = "branch" THEN @ ELSE ifu.addr,
                       !.bclear = IF ifu.mode = "next" THEN FALSE ELSE @,
                       !.addr = IF ifu.mode = "boot" \/ idu.nextPc THEN @ + 1 ELSE @],
                    "strobe", 1)
     ELSE ifu' = ifu

FetchLowerCounts ==
  /\ Ready(ifu, "strobe")
  /\ ifu' = At([ifu EXCEPT !.ivalid = FALSE, !.addr = @ + 1], "gap", 1)

FetchLower ==
  /\ Ready(ifu, "strobe")
  /\ ifu' = At([ifu EXCEPT !.ivalid = FALSE], "gap", 1)

FetchGap ==
  \/ /\ Ready(ifu, "gap") /\ ifu.lock = 1
     /\ ifu' = At([ifu EXCEPT !.bclear = TRUE], "head", 1)
  \/ /\ Ready(ifu, "gap") /\ ifu.lock # 1
     /\ FetchHead
  \/ /\ Ready(ifu, "head")
     /\ FetchHead

Fetch ==
  \/ ifu.n > 0 /\ ifu' = Tick(ifu)
  \/ FetchStart \/ FetchPoll \/ FetchLower \/ FetchGap

\* The bios answers with "delay_cycles - 2" edges of delay if there are so many.
BiosSelected == Ready(bios, "idle") /\ ifu.cs /\ InBios(ifu.bus)
BiosAnswers == \/ BiosSelected /\ latency <= 2
               \/ Ready(bios, "delay")
BiosAddress == IF bios.at = "delay" THEN bios.addr ELSE ifu.bus
Bios ==
  \/ bios.n > 0 /\ bios' = Tick(bios)
  \/ Ready(bios, "idle") /\ ~ifu.cs /\ bios' = bios
  \/ Ready(bios, "idle") /\ ifu.cs /\ ~BiosSelected
     /\ bios' = At([bios EXCEPT !.valid = FALSE], "idle", 2)
  \/ BiosSelected /\ ~BiosAnswers
     /\ bios' = At([bios EXCEPT !.addr = ifu.bus], "delay", latency - 2)
  \/ BiosAnswers
     /\ bios' = At([bios EXCEPT !.addr = BiosAddress, !.valid = TRUE], "valid", 1)
  \/ Ready(bios, "valid") /\ bios' = At([bios EXCEPT !.valid = FALSE], "idle", 2)

\* Paging hands every other address to the cache and its answer back.
PagingAnswers == Ready(paging, "await") /\ icache.valid
Paging ==
  \/ paging.n > 0 /\ paging' = Tick(paging)
  \/ /\ Ready(paging, "idle")
     /\ paging' = IF ifu.cs /\ ~InBios(ifu.bus)
                  THEN At([paging EXCEPT !.cs = TRUE, !.phys = ifu.bus], "await", 2)
                  ELSE paging
  \/ Ready(paging, "await") /\ ~icache.valid /\ paging' = paging
  \/ PagingAnswers
     /\ paging' = At([paging EXCEPT !.valid = TRUE, !.cs = FALSE], "valid", 1)
  \/ Ready(paging, "valid") /\ paging' = At([paging EXCEPT !.valid = FALSE], "idle", 2)

\* The cache; a process ID strobed in the cycle it is selected is loaded first.
ICache ==
  \/ icache.n > 0 /\ icache' = Tick(icache)
  \/ /\ Ready(icache, "idle")
     /\ icache' = IF ~paging.cs \/ InBios(paging.phys) THEN icache
                  ELSE IF idu.pidValid
                  THEN At([icache EXCEPT !.addr = paging.phys, !.pid = idu.instr.imm], "read", 3)
                  ELSE At([icache EXCEPT !.addr = paging.phys], "read", 1)
  \/ Ready(icache, "read")
     /\ icache' = At([icache EXCEPT !.data = Image(icache.addr), !.valid = TRUE], "valid", 1)
  \/ Ready(icache, "valid") /\ icache' = At([icache EXCEPT !.valid = FALSE], "idle", 2)

\* Both drive ram_dataout; should they at the same edge, either may be last.
RamData ==
  LET written == (IF BiosAnswers THEN {program[BiosAddress]} ELSE {})
                   \cup (IF PagingAnswers THEN {icache.data} ELSE {})
  IN  ramdata' \in IF written = {} THEN {ramdata} ELSE written
-----------------------------------------------------------------------------
\* Decode

\* The head of the loop: the results that are on the lines go to the
\* registers, then an instruction that is there is cut up and its operands read.
WriteBackExecOnly == IF ieu.valid THEN [regs EXCEPT ![ieu.destout] = ieu.data] ELSE regs

WriteBack ==
  LET r == IF ieu.valid THEN [regs EXCEPT ![ieu.destout] = ieu.data] ELSE regs
  IN  IF fout.valid THEN [r EXCEPT ![fout.dest] = fout.data] ELSE r

DecodeLoop ==
  /\ Ready(idu, "loop")
  /\ regs' = WriteBack
  /\ idu' = IF ~ifu.ivalid
            THEN [idu EXCEPT !.nextPc = TRUE]
            ELSE LET i == ifu.instr
                 IN  At([idu EXCEPT
                          !.pc = ifu.pc, !.instr = i,
                          !.todo = Issue(i, regs'),
                          !.jump = /\ i.op \in Branches
                                   /\ Taken(i.op, Signed(regs'[i.c]), Signed(regs'[i.a])),
                          !.bvalid = @ /\ ~ifu.bclear],
                        "decode", 1)
  /\ UNCHANGED <<arch, target>>

Flush == regs' = IF idu.instr.op = "flush" THEN [k \in Regs |-> 0] ELSE regs
LoadPid == idu.instr.op = "ldpid"

\* The switch: an instruction for a unit puts its operands on the lines and
\* raises the unit's valid line (out.unit names it); a branch that is taken
\* raises branch_valid. What is left is the next edge's, where there is one.
DecodeSwitch ==
  /\ Ready(idu, "decode")
  /\ LET i == idu.instr
         goal == IF i.op = "j" THEN i.imm ELSE idu.pc + i.imm
         next == CASE i.op = "invalid" -> "end" [] i.op = "quit" -> "stop" [] OTHER -> "lower"
     IN  /\ idu' = At([idu EXCEPT !.out = idu.todo,
                         !.pidValid = LoadPid,
                         !.bvalid = @ \/ idu.jump,
                         !.btarget = IF idu.jump THEN goal ELSE @], next, 1)
         /\ target' = IF idu.jump THEN [taken |-> TRUE, to |-> goal] ELSE target
         /\ Flush
         /\ arch' = After(arch, i)

\* The valid line is lowered again; a branch, taken or not, now names the
\* address that follows it.
DecodeLower ==
  /\ Ready(idu, "lower")
  /\ idu' = At([idu EXCEPT !.out.unit = "none", !.pidValid = FALSE,
                  !.btarget = IF idu.instr.op \in Branches THEN idu.pc + 1 ELSE @], "end", 1)
  /\ UNCHANGED <<regs, arch, target>>

DecodeEndTwice ==
  /\ Ready(idu, "end")
  /\ idu' = At([idu EXCEPT !.nextPc = TRUE], "loop", 2)
  /\ UNCHANGED <<regs, arch, target>>

DecodeEnd ==
  /\ Ready(idu, "end")
  /\ idu' = At([idu EXCEPT !.nextPc = TRUE], "loop", 1)
  /\ UNCHANGED <<regs, arch, target>>

DecodeStop ==
  /\ Ready(idu, "stop")
  /\ idu' = At(idu, "end", 2)
  /\ UNCHANGED <<regs, arch, target>>

Decode ==
  \/ idu.n > 0 /\ idu' = Tick(idu) /\ UNCHANGED <<regs, arch, target>>
  \/ DecodeLoop \/ DecodeSwitch \/ DecodeLower \/ DecodeEnd \/ DecodeStop
-----------------------------------------------------------------------------
\* Execution units

For(unit) == idu.out.unit = unit

\* A unit takes the operands in the cycle its valid line is up, and puts the
\* result on its output lines, for one cycle, some edges later.
Start(t, result, edges) ==
  At([t EXCEPT !.result = result, !.dest = idu.out.dest], "write", edges)

Exec ==
  \/ ieu.n > 0 /\ ieu' = Tick(ieu)
  \/ /\ Ready(ieu, "loop")
     /\ ieu' = IF For("exec") /\ ~Traps(idu.out)
               THEN Start(ieu, ExecResult(idu.out.op, idu.out.a, idu.out.b, ieu.result),
                          IF idu.out.op \in {5, 6} THEN 2 ELSE 1)
               ELSE ieu
  \/ /\ Ready(ieu, "write")
     /\ ieu' = At([ieu EXCEPT !.valid = TRUE, !.data = ieu.result, !.destout = ieu.dest],
                  "lower", 1)
  \/ Ready(ieu, "lower") /\ ieu' = At([ieu EXCEPT !.valid = FALSE], "loop", 1)

Floating ==
  \/ fpu.n > 0 /\ fpu' = Tick(fpu)
  \/ /\ Ready(fpu, "loop")
     /\ fpu' = IF For("float") /\ ~Traps(idu.out)
               THEN Start(fpu, FloatResult(idu.out.op, idu.out.a, idu.out.b), 2)
               ELSE fpu
  \/ Ready(fpu, "write") /\ fpu' = At(fpu, "lower", 1)
  \/ Ready(fpu, "lower") /\ fpu' = At(fpu, "loop", 2)

Mmxu ==
  \/ mmu.n > 0 /\ mmu' = Tick(mmu)
  \/ /\ Ready(mmu, "loop")
     /\ mmu' = IF For("mmx")
               THEN Start(mmu, MmxResult(idu.out.op, idu.out.a, idu.out.b), 1)
               ELSE mmu
  \/ Ready(mmu, "write") /\ mmu' = At(mmu, "lower", 1)
  \/ Ready(mmu, "lower") /\ mmu' = At(mmu, "loop", 1)

\* floating and mmxu drive the same lines; either may be the last to write.
FOut ==
  LET Written(t) == CASE Ready(t, "write") -> {[valid |-> TRUE, data |-> t.result, dest |-> t.dest]}
                      [] Ready(t, "lower") -> {[fout EXCEPT !.valid = FALSE]}
                      [] OTHER -> {}
      all == Written(fpu) \cup Written(mmu)
  IN  fout' \in IF all = {} THEN {fout} ELSE all

StatusDeaf == status' = CASE \/ Ready(ieu, "loop") /\ For("exec") /\ Traps(idu.out)
                             \/ Ready(fpu, "loop") /\ For("float") /\ Traps(idu.out) -> "trapped"
                          [] OTHER -> status

\* An illegal division ends the program (floating divides an edge after it has
\* read its operands, which nothing can stop any more).
Status == status' = CASE \/ Ready(ieu, "loop") /\ For("exec") /\ Traps(idu.out)
                         \/ Ready(fpu, "loop") /\ For("float") /\ Traps(idu.out) -> "trapped"
                      [] Ready(idu, "stop") -> "stopped"
                      [] OTHER -> status
-----------------------------------------------------------------------------
\* One edge of the clock.
Next == /\ status = "running"
        /\ Fetch /\ Bios /\ Paging /\ ICache /\ RamData
        /\ Decode /\ Exec /\ Floating /\ Mmxu /\ FOut
        /\ Status
        /\ UNCHANGED <<program, latency>>

\* sc_start keeps the clock going until sc_stop.
Spec == Init /\ [][Next]_vars /\ WF_vars(Next)
-----------------------------------------------------------------------------
Address == 0 .. CodeLength + 1

\* Every line and every register carries a value of its type, and fetch asks for no
\* address further behind the image than the one after its QUIT.
TypeOK ==
  /\ regs \in [Regs -> Word] /\ arch.r \in [Regs -> Word]
  /\ ifu.addr \in Nat /\ ifu.bus \in Address /\ ifu.pc \in Address
  /\ ifu.lock \in Nat /\ ifu.mode \in {"boot", "next", "branch"}
  /\ ieu.data \in Word /\ ieu.destout \in Regs
  /\ fout.data \in Word /\ fout.dest \in Regs
  /\ idu.out.unit \in {"none", "exec", "float", "mmx"}
  /\ status \in {"running", "stopped", "trapped"}

\* A valid line is up for one cycle, and whoever is to see it looks in that
\* cycle: no instruction passes a busy decoder (decode.cc:93), no operands a
\* busy unit, no result a decoder that is waiting elsewhere (decode.cc:68-90).
StrobesSeen ==
  /\ ifu.ivalid => Ready(idu, "loop")
  /\ For("exec") => Ready(ieu, "loop")
  /\ For("float") => Ready(fpu, "loop")
  /\ For("mmx") => Ready(mmu, "loop")
  /\ ieu.valid \/ fout.valid => Ready(idu, "loop")

\* There is no forwarding and no interlock, and yet the registers an
\* instruction is issued with are those of a machine that ends every
\* instruction before it reads the next one.
OperandsCurrent == Ready(idu, "decode") => regs = arch.r /\ idu.todo = Issue(idu.instr, arch.r)

\* No branch stands beside another.
Sparse ==
  \A a \in 1 .. CodeLength : ~(Image(a).op \in Branches /\ Image(a + 1).op \in Branches)

\* The instruction fetch hands over is the one the memory holds at the program
\* counter it hands over with it, whichever memory answered and however late.
\* On a branch fetch reads without having put the address it took over on the bus
\* (fetch.cc:117-122), and reports what it reads as the word at that address
\* (fetch.cc:127): with no two branches side by side it is, for what it took over
\* is decode's pc_reg + 1, written over the target (decode.cc:408), and that
\* address is still on the bus. A target that was kept would not be read.
RightInstruction ==
  /\ ifu.ivalid => ifu.instr = Image(ifu.pc)
  /\ Sparse /\ ifu.mode = "branch" /\ ifu.cs => ifu.addr = ifu.bus

\* Fetch goes through the addresses one by one, whatever branches are taken: it
\* counts its address up in the cycle it hands an instruction over (fetch.cc:135,
\* 161), if decode's next_pc, raised at some time before, says so. What stands
\* behind a taken branch it hands over three times, the last two counted by
\* lock_tmp (fetch.cc:116, 140), until its branch_clear has reached decode. It may be
\* otherwise only once a branch was taken where two stand side by side.
InSequence ==
  [][/\ (Sparse \/ ~target.taken) /\ ifu'.ivalid /\ ~ifu.ivalid =>
           ifu'.pc = IF ifu.lock = 0 THEN ifu.pc + 1 ELSE ifu.pc
     /\ Sparse => ifu'.lock \in {ifu.lock, (ifu.lock + 1) % 3}]_vars

\* Fetch, paging and the memories never wait for each other for ever, and no
\* unit keeps a result back: every program without a backward branch comes to
\* its QUIT (decode.cc:757), but for the two divisions that do not look at
\* their divisor, the modulo of exec.cc:131 and the one of floating.cc, and for
\* the quotient that is not an int. The division of exec.cc:94 looks for zero,
\* and goes on.
ProgramEnds ==
  <>(\/ status = "stopped"
     \/ status = "trapped" /\ \/ idu.instr.op \in {"mod", "fdiv"}
                              \/ idu.instr.op = "div" /\ Overflows(idu.todo.a, idu.todo.b))

\* A branch that is taken goes on at its target (decode.cc:389 "beq R1, R2,
\* label", decode.h "branch target address"): the address fetch takes over is
\* the one decode computed.
BranchReachesTarget == ifu.mode = "branch" /\ Ready(ifu, "strobe") => ifu.addr - 1 = target.to
=============================================================================

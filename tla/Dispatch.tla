------------------------------ MODULE Dispatch ------------------------------
(* The router between one initiator and several memories, with direct       *)
(* memory access: simple_dispatching_tlm2/Initiator.cc, Router.h, Memory.cc *)
(* (simple_transaction_dmi_tlm2 is the same with one memory and no router). *)
(*                                                                          *)
(* Times are in units of 5 ns. Addresses count words, of which the program  *)
(* uses each fourth byte address. Threads due at the same time run in any   *)
(* order. Data is left out: what matters is which word an access is at.     *)
EXTENDS Integers, FiniteSetsExt

CONSTANTS
  Targets,    \* N_TARGETS of the router; all constants are positive numbers
  Words,      \* words of the address that the router hands to a memory
  MemSize,    \* MEM_SIZE: words in a memory
  First, Last,\* the addresses of the initiator's loop, the last one excluded
  Latency,    \* of a b_transport
  DmiLatency, \* of a direct access
  Waits,      \* waits of a memory's thread, of one unit each
  Every       \* it invalidates after the first wait and each Every-th from there

VARIABLES
  now,   \* sc_time_stamp
  init,  \* the initiator: loop index, where it waits and until when
  dmi,   \* dmiData and isDmiValid
  waits, \* waits each memory's thread has behind it
  access \* history: the last access, its address and the memory and word it touched

vars == <<now, init, dmi, waits, access>>
Memories == 0 .. Targets - 1
Commands == {"read", "write"}
-----------------------------------------------------------------------------
\* Router: which memory an address goes to, which word of it, and back.
Route(a) == (a \div Words) % Targets
Masked(a) == a % Words
Compose(m, w) == m * Words + (w % Words)

Init == /\ now = 0
        /\ init = [at |-> "loop", i |-> First, wake |-> 0]
        /\ dmi = [valid |-> FALSE, mem |-> 0, start |-> 0, end |-> 0]
        /\ waits = [m \in Memories |-> 0]
        /\ access = [cmd |-> "read", addr |-> 0, mem |-> 0, word |-> 0]

Due(l) == init.at = l /\ init.wake = now

\* A read or a write through a pointer that is valid, whatever the address.
DirectAccess ==
  /\ Due("loop") /\ init.i < Last /\ dmi.valid
  /\ \E cmd \in Commands :
       access' = [cmd |-> cmd, addr |-> init.i, mem |-> dmi.mem, word |-> init.i - dmi.start]
  /\ init' = [init EXCEPT !.i = @ + 1, !.wake = now + DmiLatency]
  /\ UNCHANGED <<now, dmi, waits>>

\* A read or a write through the router: the memory does it and waits.
Transport ==
  /\ Due("loop") /\ init.i < Last /\ ~dmi.valid
  /\ \E cmd \in Commands :
       access' = [cmd |-> cmd, addr |-> init.i, mem |-> Route(init.i), word |-> Masked(init.i)]
  /\ init' = [init EXCEPT !.at = "transport", !.wake = now + Latency]
  /\ UNCHANGED <<now, dmi, waits>>

\* b_transport returns, and the pointer is asked for. The memory's
\* get_direct_mem_ptr ends without a return: isDmiValid becomes either value.
TransportReturns ==
  LET m == Route(init.i)
  IN  /\ Due("transport")
      /\ \E granted \in BOOLEAN :
           dmi' = [valid |-> granted, mem |-> m,
                   start |-> Compose(m, 0), end |-> Compose(m, MemSize - 1)]
      /\ init' = [init EXCEPT !.at = "loop", !.i = @ + 1]
      /\ UNCHANGED <<now, waits, access>>

Ends == /\ Due("loop") /\ init.i >= Last
        /\ init' = [init EXCEPT !.at = "ended"]
        /\ UNCHANGED <<now, dmi, waits, access>>

\* A memory's thread after a wait; the router passes the invalidation on.
MemoryProcess(m) ==
  /\ waits[m] < Waits /\ waits[m] + 1 = now
  /\ waits' = [waits EXCEPT ![m] = @ + 1]
  /\ dmi' = IF waits[m] % Every = 0 THEN [dmi EXCEPT !.valid = FALSE] ELSE dmi
  /\ UNCHANGED <<now, init, access>>

\* Time goes to the next event when nothing is due.
Events == (IF init.at = "ended" THEN {} ELSE {init.wake})
            \cup { waits[m] + 1 : m \in { n \in Memories : waits[n] < Waits } }
Advance == /\ Events # {} /\ now \notin Events
           /\ now' = Min(Events)
           /\ UNCHANGED <<init, dmi, waits, access>>

Next == \/ DirectAccess \/ Transport \/ TransportReturns \/ Ends
        \/ \E m \in Memories : MemoryProcess(m)
        \/ Advance

Spec == Init /\ [][Next]_vars
-----------------------------------------------------------------------------
\* Every access of the initiator, direct or not, is at the word of the memory
\* that the router sends its address to (Router.h decode_address): as the
\* diagram of Main.cc has it, the router is between the initiator and its four
\* memories.
AccessRouted == access.mem = Route(access.addr) /\ access.word = Masked(access.addr)
=============================================================================

------------------------------ MODULE FreePool ------------------------------
(***************************************************************************)
(* What the memory manager of the TLM-2.0 examples promises to its callers *)
(* (MM.h, tlm_mm_interface): a transaction object is either in use or in   *)
(* the pool, allocate() never hands out an object that is in use, the      *)
(* object freed last is handed out first, and a new object is created only *)
(* when the pool is empty.                                                 *)
(***************************************************************************)
EXTENDS Sequences

CONSTANT Trans      \* the transaction objects the heap can hold

VARIABLES pool,     \* the free objects, the one handed out next first
          live      \* the objects in use

Init == /\ pool = << >>
        /\ live = {}

\* t is handed out: the head of the pool, or a new object when the pool is empty.
Allocate(t) == /\ IF pool # << >> THEN t = Head(pool) ELSE t \notin live
               /\ pool' = IF pool # << >> THEN Tail(pool) ELSE << >>
               /\ live' = live \cup {t}

\* The caller gives back t.
Free(t) == /\ t \in live
           /\ pool' = <<t>> \o pool
           /\ live' = live \ {t}

Next == \E t \in Trans : Allocate(t) \/ Free(t)

Spec == Init /\ [][Next]_<<pool, live>>
=============================================================================

--------------------------------- MODULE MM ---------------------------------
(***************************************************************************)
(* The memory manager of the TLM-2.0 examples                              *)
(* (payload_event_queue_tlm2/MM.h; multi_passthrough_socket_tlm2/MM.h and  *)
(* temporal_decoupling/MM.h hold the same class).                          *)
(*                                                                         *)
(* The pool is one doubly linked list of `access' nodes with a cursor in   *)
(* it: free_list points to the first node that holds a free transaction,   *)
(* empties to the node before it, kept to be filled by the next free().    *)
(* A node is named by its position in the order of creation, 0 is the null *)
(* pointer, and node[n] is the record the pointer n refers to.             *)
(***************************************************************************)
EXTENDS Integers, Sequences, FiniteSets

CONSTANTS Trans,    \* the transaction objects the heap can hold
          NULL      \* the null transaction pointer

ASSUME NullAssumption == NULL \notin Trans

VARIABLES node,       \* the access nodes created so far: trans, next, prev
          free_list,  \* MM::free_list
          empties,    \* MM::empties
          live        \* the objects in the callers' hands

vars == <<node, free_list, empties, live>>

Access == [trans : Trans \cup {NULL}, next : Nat, prev : Nat]

TypeOK == /\ node \in Seq(Access)
          /\ free_list \in 0 .. Len(node)
          /\ empties \in 0 .. Len(node)
          /\ live \subseteq Trans

InitUninitialised ==
    /\ node = << >>
    /\ free_list \in 0 .. 1
    /\ empties = 0
    /\ live = {}

Init == /\ node = << >>
        /\ free_list = 0
        /\ empties = 0
        /\ live = {}

-----------------------------------------------------------------------------
\* The objects that new has created: those in use and those a node holds.
Created == live \cup {node[n].trans : n \in 1 .. free_list}

AllocateKeepsEmpties(t) ==
    /\ live' = live \cup {t}
    /\ IF free_list # 0
         THEN /\ t = node[free_list].trans
              /\ free_list' = node[free_list].next
         ELSE /\ t \notin Created
              /\ UNCHANGED free_list
    /\ UNCHANGED <<node, empties>>

\* allocate() returns t.
Allocate(t) ==
    /\ live' = live \cup {t}
    /\ IF free_list # 0
         THEN /\ t = node[free_list].trans
              /\ empties' = free_list
              /\ free_list' = node[free_list].next
         ELSE /\ t \notin Created
              /\ UNCHANGED <<free_list, empties>>
    /\ UNCHANGED node

\* new access(), put in front of the list.
NewAccess ==
    Append([n \in DOMAIN node |->
               IF n = free_list THEN [node[n] EXCEPT !.prev = Len(node) + 1]
                                ELSE node[n]],
           [trans |-> NULL, next |-> free_list, prev |-> 0])

FreeForgetsPrev(t) ==
    /\ t \in live
    /\ live' = live \ {t}
    /\ LET fresh == empties = 0
           n == IF fresh THEN Len(node) + 1 ELSE empties
           heap == IF fresh THEN NewAccess ELSE node
       IN  /\ free_list' = n
           /\ node' = [heap EXCEPT ![n].trans = t]
           /\ empties' = 0

\* free(t), called by release() when the reference count of t drops to zero.
Free(t) ==
    /\ t \in live
    /\ live' = live \ {t}
    /\ LET fresh == empties = 0
           n == IF fresh THEN Len(node) + 1 ELSE empties
           heap == IF fresh THEN NewAccess ELSE node
       IN  /\ free_list' = n
           /\ node' = [heap EXCEPT ![n].trans = t]
           /\ empties' = heap[n].prev

Next == \E t \in Trans : Allocate(t) \/ Free(t)

Spec == Init /\ [][Next]_vars

-----------------------------------------------------------------------------
(***************************************************************************)
(* Properties.                                                             *)
(***************************************************************************)

\* The pool as its callers see it: the transactions of the nodes from free_list on.
\* Following next from node k leads to node k - 1 (Linked), down to the null pointer.
pool == [i \in 1 .. free_list |-> node[free_list + 1 - i].trans]

\* The nodes form one doubly linked list, newest first, and the cursor splits
\* it with no gap: the node before free_list is empties, also when free_list
\* has run off the end of the list or no empty node is left (MM.h:47-51, 62-72).
Linked ==
    /\ \A n \in 1 .. Len(node) :
          /\ node[n].next = n - 1
          /\ node[n].prev = IF n < Len(node) THEN n + 1 ELSE 0
    /\ empties = IF free_list < Len(node) THEN free_list + 1 ELSE 0

\* No object is both in use and in the pool, and none is in the pool twice: a
\* second owner would overwrite the attributes of a transaction in flight.
NeverSharedOrLost ==
    /\ \A n \in 1 .. free_list : node[n].trans \in Trans \ live
    /\ \A m, n \in 1 .. free_list : node[m].trans = node[n].trans => m = n

\* Nodes are recycled as well as transactions: there are never more access nodes
\* than transaction objects have been created (the point of the empties cursor).
NodesRecycled == Len(node) <= Cardinality(Created)

\* Allocate and free over the linked list behave as a last-in first-out pool.
FP == INSTANCE FreePool
ImplementsPool == FP!Spec
=============================================================================

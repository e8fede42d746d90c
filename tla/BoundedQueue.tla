---------------------------- MODULE BoundedQueue ----------------------------
(***************************************************************************)
(* What a fifo channel promises to its writer and its reader: characters   *)
(* come out in the order they went in, none is lost or invented, and no    *)
(* more than Size are held.                                                *)
(***************************************************************************)
EXTENDS Naturals, Sequences

CONSTANTS Char,     \* what is sent
          Size      \* how many the channel holds

VARIABLE queue      \* the characters written and not yet read, the oldest first

Init == queue = << >>

Write(c) == Len(queue) < Size /\ queue' = Append(queue, c)

Read == queue # << >> /\ queue' = Tail(queue)

Next == Read \/ \E c \in Char : Write(c)

Spec == Init /\ [][Next]_queue
=============================================================================

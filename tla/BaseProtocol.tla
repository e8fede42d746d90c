---------------------------- MODULE BaseProtocol ----------------------------
(***************************************************************************)
(* The TLM-2.0 base protocol as one socket of the examples should show it: *)
(* every transaction goes through its phases in order, one request and one *)
(* response are open at a time (the BEGIN_REQ and BEGIN_RESP exclusion     *)
(* rules), and at most Depth transactions are between their END_REQ and    *)
(* their end.                                                              *)
(***************************************************************************)
EXTENDS Naturals, FiniteSets

CONSTANTS Trans,    \* the transaction objects
          Depth     \* how many accepted transactions the target pipelines

VARIABLE phase      \* the last phase sent for each transaction

Phase == {"IDLE", "BEGIN_REQ", "END_REQ", "BEGIN_RESP", "END_RESP"}

\* The phases that may follow: END_REQ is followed by IDLE when the initiator
\* ends the transaction by the return value TLM_COMPLETED.
Succ == [IDLE |-> {"BEGIN_REQ"}, BEGIN_REQ |-> {"END_REQ"},
         END_REQ |-> {"BEGIN_RESP", "IDLE"}, BEGIN_RESP |-> {"END_RESP"},
         END_RESP |-> {"IDLE"}]

In(phases) == {t \in Trans : phase[t] \in phases}

Exclusion ==
    /\ \A t, u \in In({"BEGIN_REQ"}) : t = u
    /\ \A t, u \in In({"BEGIN_RESP", "END_RESP"}) : t = u
    /\ \A S \in SUBSET In({"END_REQ", "BEGIN_RESP", "END_RESP"}) :
          IsFiniteSet(S) => Cardinality(S) <= Depth

Init == phase = [t \in Trans |-> "IDLE"]

\* One call may carry several transactions on: the END_RESP of one lets the
\* target respond to a second and accept a third.
Next == /\ phase' \in [Trans -> Phase]
        /\ \A t \in Trans : phase'[t] \in {phase[t]} \cup Succ[phase[t]]
        /\ Exclusion'

Spec == Init /\ [][Next]_phase
=============================================================================

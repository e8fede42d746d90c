----------------------------- MODULE AtPipeline -----------------------------
(***************************************************************************)
(* payload_event_queue_tlm2: one initiator and one target that talk by the *)
(* non-blocking transport calls of TLM-2.0 in the approximately timed      *)
(* style.  Each side queues what it receives in a payload event queue      *)
(* (m_peq) until the annotated delay has elapsed; the initiator's thread   *)
(* waits on end_request_event; the transactions are reference counted and  *)
(* recycled by the memory manager.                                         *)
(*                                                                         *)
(* Delays are random in the code, so any pending notification may be the   *)
(* next one delivered.  One order is certain: END_REQ and the internal     *)
(* event of a transaction are queued by the same send_end_req, the         *)
(* internal one no earlier (Target.h:171-182), and BEGIN_RESP follows the  *)
(* internal event, so BEGIN_RESP never overtakes END_REQ.                  *)
(*                                                                         *)
(* The memory manager is used through what FreePool promises (MM           *)
(* implements it): pool is its list of free transactions.                  *)
(***************************************************************************)
EXTENDS Integers, Sequences, FiniteSets

CONSTANTS Trans,        \* the transaction objects the heap can hold
          NULL,         \* the null transaction pointer
          NbTransactions \* the iterations of the initiator's loop (1000 in the code)

ASSUME NullAssumption == NULL \notin Trans
ASSUME CountAssumption == NbTransactions \in Nat

VARIABLES
    \* the initiator
    pc,                   \* where thread_process is
    i,                    \* transactions generated so far
    trans,                \* the transaction thread_process holds across a wait
    request_in_progress,
    initiator_peq,        \* Initiator::m_peq, the pending <<transaction, phase>> pairs
    \* the target
    n_trans,
    response_in_progress,
    next_response_pending,
    end_req_pending,
    target_peq,           \* Target::m_peq
    adapter,              \* the transaction the b/nb adapter of the socket waits for
    \* the transactions
    ref,                  \* reference counts
    ok,                   \* the transactions whose response status is TLM_OK_RESPONSE
    pool,                 \* the memory manager's free transactions
    report                \* the report that stopped the simulation, if any

initiatorVars == <<pc, i, trans, request_in_progress>>
targetVars == <<n_trans, response_in_progress, next_response_pending, end_req_pending>>
vars == <<initiatorVars, initiator_peq, targetVars, target_peq, adapter, ref, ok, pool, report>>

Pointer == Trans \cup {NULL}

TypeOK ==
    /\ pc \in {"gap", "wait_end_request", "notified", "b_transport", "returned", "done"}
    /\ i \in 0 .. NbTransactions
    /\ trans \in Pointer
    /\ request_in_progress \in Pointer
    /\ initiator_peq \subseteq Trans \X {"END_REQ", "BEGIN_RESP"}
    /\ n_trans \in Nat
    /\ response_in_progress \in BOOLEAN
    /\ next_response_pending \in Pointer
    /\ end_req_pending \in Pointer
    /\ target_peq \subseteq Trans \X {"BEGIN_REQ", "internal_ph", "END_RESP"}
    /\ adapter \in Pointer
    /\ ref \in [Trans -> 0 .. 2]
    /\ ok \subseteq Trans
    /\ pool \in Seq(Trans)
    /\ report \in {"none", "ERROR", "FATAL"}

Init ==
    /\ pc = "gap" /\ i = 0 /\ trans = NULL /\ request_in_progress = NULL
    /\ n_trans = 0 /\ response_in_progress = FALSE
    /\ next_response_pending = NULL /\ end_req_pending = NULL
    /\ initiator_peq = {} /\ target_peq = {} /\ adapter = NULL
    /\ ref = [t \in Trans |-> 0] /\ ok = {} /\ pool = << >>
    /\ report = "none"

-----------------------------------------------------------------------------
\* SC_REPORT_ERROR and SC_REPORT_FATAL end the simulation: nothing runs after a
\* report, and what the reporting step would still have done does not matter.
Running == report = "none"

-----------------------------------------------------------------------------
(***************************************************************************)
(* The transactions.                                                       *)
(***************************************************************************)

\* t = m_mm.allocate(); t->acquire(); set_response_status(TLM_INCOMPLETE_RESPONSE).
Allocate(t) ==
    /\ IF pool # << >> THEN t = Head(pool) ELSE ref[t] = 0
    /\ pool' = IF pool # << >> THEN Tail(pool) ELSE << >>
    /\ ref' = [ref EXCEPT ![t] = 1]
    /\ ok' = ok \ {t}

AcquireNothing(t) == UNCHANGED ref

Acquire(t) == ref' = [ref EXCEPT ![t] = @ + 1]

ReleaseAlwaysPools(t) ==
    /\ ref' = [ref EXCEPT ![t] = @ - 1]
    /\ pool' = <<t>> \o pool

\* t.release(): the last reference gives t back to the memory manager.
Release(t) ==
    /\ ref' = [ref EXCEPT ![t] = @ - 1]
    /\ pool' = IF ref[t] = 1 THEN <<t>> \o pool ELSE pool

CheckTransactionLeaks(t) ==
    /\ report' = IF t \in ok THEN report ELSE "ERROR"
    /\ UNCHANGED <<ref, pool>>

\* check_transaction(t): an error response stops the simulation.
CheckTransaction(t) ==
    /\ report' = IF t \in ok THEN report ELSE "ERROR"
    /\ Release(t)

-----------------------------------------------------------------------------
(***************************************************************************)
(* The initiator.                                                          *)
(***************************************************************************)

\* nb_transport_fw(t, BEGIN_REQ): the target queues it and returns TLM_ACCEPTED,
\* the attributes the initiator sets being all supported.
SendBeginReq(t) ==
    /\ request_in_progress' = t
    /\ target_peq' = target_peq \cup {<<t, "BEGIN_REQ">>}

RequestNeverOpen == FALSE

\* A request waits for its END_REQ: the exclusion rule holds the next one back.
RequestOpen == request_in_progress # NULL

\* One iteration of thread_process, up to its next wait.
Generate(t) ==
    /\ Running
    /\ pc = "gap" /\ i < NbTransactions
    /\ i' = i + 1
    /\ Allocate(t)
    /\ IF RequestOpen
         THEN /\ pc' = "wait_end_request" /\ trans' = t
              /\ UNCHANGED <<request_in_progress, target_peq>>
         ELSE /\ SendBeginReq(t)
              /\ UNCHANGED <<pc, trans>>
    /\ UNCHANGED <<initiator_peq, targetVars, adapter, report>>

\* thread_process runs again after end_request_event.
Resume ==
    /\ Running
    /\ pc = "notified"
    /\ SendBeginReq(trans)
    /\ pc' = "gap" /\ trans' = NULL
    /\ UNCHANGED <<i, initiator_peq, targetVars, adapter, ref, ok, pool, report>>

\* All events queued so far have run: the 100 ns before the final b_transport are
\* longer than what any transaction of the pipeline still needs.
Drained == initiator_peq = {} /\ target_peq = {}

\* The final b_transport: the adapter of simple_target_socket turns it into
\* nb_transport_fw(t, BEGIN_REQ) and waits for the transaction to complete.
CallBTransport(t) ==
    /\ Running
    /\ pc = "gap" /\ i = NbTransactions /\ Drained
    /\ Allocate(t)
    /\ pc' = "b_transport" /\ trans' = t /\ adapter' = t
    /\ target_peq' = {<<t, "BEGIN_REQ">>}
    /\ UNCHANGED <<i, request_in_progress, initiator_peq, targetVars, report>>

\* b_transport returns.
BTransportReturns ==
    /\ Running
    /\ pc = "returned"
    /\ CheckTransaction(trans)
    /\ pc' = "done" /\ trans' = NULL
    /\ UNCHANGED <<i, request_in_progress, initiator_peq, targetVars, target_peq,
                   adapter, ok>>

EndRequestWithoutNotify ==
    /\ request_in_progress' = NULL
    /\ UNCHANGED pc

\* request_in_progress = 0 and end_request_event.notify(), which only a thread that
\* is already waiting sees.
EndRequest ==
    /\ request_in_progress' = NULL
    /\ pc' = IF pc = "wait_end_request" THEN "notified" ELSE pc

EndReqAnyTime(t) == TRUE

\* BEGIN_RESP comes after END_REQ even at the same time: the internal event it
\* follows is queued no earlier ("delay + ...").
EndReqFirst(t) == <<t, "END_REQ">> \notin initiator_peq

\* Initiator::peq_cb, phase END_REQ.
InitiatorEndReq(t) ==
    /\ Running
    /\ <<t, "END_REQ">> \in initiator_peq
    /\ initiator_peq' = initiator_peq \ {<<t, "END_REQ">>}
    /\ EndRequest
    /\ UNCHANGED <<i, trans, targetVars, target_peq, adapter, ref, ok, pool, report>>

\* Initiator::peq_cb, phase BEGIN_RESP: the response of the request in progress
\* ends that request as well; END_RESP goes to the target.
InitiatorBeginResp(t) ==
    /\ Running
    /\ <<t, "BEGIN_RESP">> \in initiator_peq
    /\ EndReqFirst(t)
    /\ initiator_peq' = initiator_peq \ {<<t, "BEGIN_RESP">>}
    /\ IF t = request_in_progress THEN EndRequest
                                  ELSE UNCHANGED <<request_in_progress, pc>>
    /\ CheckTransaction(t)
    /\ target_peq' = target_peq \cup {<<t, "END_RESP">>}
    /\ UNCHANGED <<i, trans, targetVars, adapter, ok>>

-----------------------------------------------------------------------------
(***************************************************************************)
(* The target.                                                             *)
(***************************************************************************)

\* What nb_transport_bw(t, phase) queues at the initiator for each t of the set T:
\* the calls for the adapter's own transaction stay in the adapter.
Backward(T, phase) == {<<t, phase>> : t \in (T \ {NULL}) \ {adapter}}

\* The pointer p as a set, empty when it is null.
Deref(p) == {p} \ {NULL}

PipelineFullLate == n_trans = 3

\* Two transactions are between their END_REQ and their end.
PipelineFull == n_trans = 2

\* Target::peq_cb, phase BEGIN_REQ: accepted at once (send_end_req), or put off
\* while two transactions are in the pipeline.
TargetBeginReq(t) ==
    /\ Running
    /\ <<t, "BEGIN_REQ">> \in target_peq
    /\ Acquire(t)
    /\ IF PipelineFull
         THEN /\ end_req_pending' = t
              /\ target_peq' = target_peq \ {<<t, "BEGIN_REQ">>}
              /\ UNCHANGED <<n_trans, initiator_peq>>
         ELSE /\ initiator_peq' = initiator_peq \cup Backward({t}, "END_REQ")
              /\ target_peq' = (target_peq \ {<<t, "BEGIN_REQ">>}) \cup {<<t, "internal_ph">>}
              /\ n_trans' = n_trans + 1
              /\ UNCHANGED end_req_pending
    /\ UNCHANGED <<initiatorVars, response_in_progress, next_response_pending, adapter,
                   ok, pool, report>>

\* send_response(t) to the adapter: it returns TLM_COMPLETED and wakes b_transport.
Complete(t) ==
    /\ Release(t)
    /\ n_trans' = n_trans - 1
    /\ response_in_progress' = FALSE
    /\ adapter' = NULL
    /\ pc' = "returned"
    /\ UNCHANGED <<initiator_peq, next_response_pending>>

SendResponseUnmarked(t) ==
    /\ initiator_peq' = initiator_peq \cup Backward({t}, "BEGIN_RESP")
    /\ UNCHANGED <<response_in_progress, n_trans, next_response_pending, adapter, ref,
                   pool, pc>>

\* send_response(t) to the initiator, which queues it and returns TLM_ACCEPTED.
SendResponse(t) ==
    /\ response_in_progress' = TRUE
    /\ initiator_peq' = initiator_peq \cup Backward({t}, "BEGIN_RESP")
    /\ UNCHANGED <<n_trans, next_response_pending, adapter, ref, pool, pc>>

DeferResponseNot(t) == SendResponse(t)

\* The response of t waits for the END_RESP of the one in progress.
DeferResponse(t) ==
    /\ next_response_pending' = t
    /\ UNCHANGED <<response_in_progress, initiator_peq, n_trans, adapter, ref, pool, pc>>

\* Target::peq_cb, phase internal_ph: the command is executed and answered.
TargetExecute(t) ==
    /\ Running
    /\ <<t, "internal_ph">> \in target_peq
    /\ target_peq' = target_peq \ {<<t, "internal_ph">>}
    /\ ok' = ok \cup {t}
    /\ report' = IF response_in_progress /\ next_response_pending # NULL
                   THEN "FATAL" ELSE report
    /\ IF response_in_progress THEN DeferResponse(t)
       ELSE IF t = adapter THEN Complete(t) ELSE SendResponse(t)
    /\ UNCHANGED <<i, trans, request_in_progress, end_req_pending>>

\* Target::peq_cb, phase END_RESP: t is released, the response put off is sent,
\* and the request put off is accepted.
TargetEndResp(t) ==
    /\ Running
    /\ <<t, "END_RESP">> \in target_peq
    /\ report' = IF response_in_progress THEN report ELSE "FATAL"
    /\ Release(t)
    /\ response_in_progress' = (next_response_pending # NULL)
    /\ next_response_pending' = NULL
    /\ end_req_pending' = NULL
    /\ n_trans' = n_trans - 1 + Cardinality(Deref(end_req_pending))
    /\ initiator_peq' = initiator_peq
                          \cup Backward(Deref(next_response_pending), "BEGIN_RESP")
                          \cup Backward(Deref(end_req_pending), "END_REQ")
    /\ target_peq' = (target_peq \ {<<t, "END_RESP">>})
                          \cup Deref(end_req_pending) \X {"internal_ph"}
    /\ UNCHANGED <<initiatorVars, adapter, ok>>

-----------------------------------------------------------------------------
\* sc_start returns: no process and no event is left.
Finished == pc = "done" /\ Drained /\ UNCHANGED vars

Next ==
    \/ \E t \in Trans :
          \/ Generate(t) \/ CallBTransport(t)
          \/ InitiatorEndReq(t) \/ InitiatorBeginResp(t)
          \/ TargetBeginReq(t) \/ TargetExecute(t) \/ TargetEndResp(t)
    \/ Resume
    \/ BTransportReturns
    \/ Finished

\* The kernel runs every process that is ready and, time advancing without end,
\* delivers every queued notification.
Fairness ==
    /\ WF_vars(\E t \in Trans : Generate(t) \/ CallBTransport(t))
    /\ WF_vars(Resume)
    /\ WF_vars(BTransportReturns)
    /\ \A t \in Trans : /\ WF_vars(InitiatorEndReq(t))
                        /\ WF_vars(InitiatorBeginResp(t))
                        /\ WF_vars(TargetBeginReq(t))
                        /\ WF_vars(TargetExecute(t))
                        /\ WF_vars(TargetEndResp(t))

Spec == Init /\ [][Next]_vars

FairSpec == Spec /\ Fairness

-----------------------------------------------------------------------------
(***************************************************************************)
(* Properties.                                                             *)
(***************************************************************************)

\* The simulation never stops on a report: no phase reaches a side that cannot
\* take it, no third response is put off while two are outstanding
\* (Target.h:149-152), and no transaction is checked before it was executed.
NoReport == report = "none"

\* What target n_trans counts: the transactions accepted and not yet ended.
InPipeline == {t \in Trans : \/ <<t, "internal_ph">> \in target_peq
                             \/ t = next_response_pending
                             \/ <<t, "BEGIN_RESP">> \in initiator_peq
                             \/ <<t, "END_RESP">> \in target_peq}

\* n_trans is exact and never above two, which the test n_trans == 2 relies on
\* (Target.h:81): one count too many or too few and a request is accepted into a
\* full pipeline or put off in front of an empty one, for ever.  It is only put
\* off while the END_RESP that will release it is still to come (Target.h:114-118).
PipelineCount == /\ n_trans = Cardinality(InPipeline) /\ n_trans <= 2
                 /\ end_req_pending # NULL => n_trans = 2

\* The BEGIN_REQ rule (Main.cc:10): request_in_progress is the one transaction
\* whose request the initiator has not seen accepted, wherever it is.
RequestExclusion ==
    \A t \in Trans :
       (\/ <<t, "BEGIN_REQ">> \in target_peq
        \/ t = end_req_pending
        \/ <<t, "END_REQ">> \in initiator_peq) /\ t # adapter
       => t = request_in_progress

\* Reference counting: whoever can still reach a transaction, an event queue, a
\* pending pointer or the thread, finds it live, so it is never recycled early.
NoDanglingReference ==
    \A t \in Trans :
       (\/ \E ph \in {"END_REQ", "BEGIN_RESP"} : <<t, ph>> \in initiator_peq
        \/ \E ph \in {"BEGIN_REQ", "internal_ph", "END_RESP"} : <<t, ph>> \in target_peq
        \/ t \in {trans, request_in_progress, next_response_pending, end_req_pending, adapter})
       => ref[t] > 0

Live == {t \in Trans : ref[t] > 0}

\* Back-pressure bounds the memory: two transactions in the pipeline, one request
\* in progress and one that the thread holds while it waits.
AtMostFourLive == Cardinality(Live) <= 4

\* No wake-up and no deferred acceptance is lost: the program comes to its end,
\* every transaction answered and given back.
EverythingCompletes == <>(pc = "done" /\ Drained /\ Live = {})

\* The calls on the socket follow the base protocol with a two-deep pipeline.
phase == [t \in Trans |->
             IF <<t, "BEGIN_REQ">> \in target_peq \/ t = end_req_pending THEN "BEGIN_REQ"
             ELSE IF <<t, "internal_ph">> \in target_peq \/ t = next_response_pending
                  THEN "END_REQ"
             ELSE IF <<t, "BEGIN_RESP">> \in initiator_peq THEN "BEGIN_RESP"
             ELSE IF <<t, "END_RESP">> \in target_peq THEN "END_RESP" ELSE "IDLE"]
BP == INSTANCE BaseProtocol WITH Depth <- 2
FollowsProtocol == BP!Spec

\* The two sides use the memory manager as its contract asks: they free only what
\* is in use, and what they get is theirs alone.
FP == INSTANCE FreePool WITH live <- Live
UsesPoolCorrectly == FP!Spec
=============================================================================

-------------------------------- MODULE AtBus --------------------------------
(***************************************************************************)
(* multi_passthrough_socket_tlm2: several initiators and several targets,  *)
(* the ones of AtPipeline, behind a bus.  The bus routes a forward call by *)
(* the address of the transaction and a backward call by mMap, where it    *)
(* noted which initiator the transaction came from.                        *)
(*                                                                         *)
(* As in AtPipeline any pending notification may be the next one           *)
(* delivered, but BEGIN_RESP never overtakes END_REQ.  Each initiator has  *)
(* its own memory manager: the transaction <<x, k>> is the k-th object of  *)
(* the one of initiator x, and which free object is handed out is left     *)
(* open.  There is no b_transport here.                                    *)
(***************************************************************************)
EXTENDS Integers, FiniteSets

CONSTANTS Initiator,      \* the initiators (4 in the code)
          Target,         \* the targets (4 in the code)
          Slot,           \* the transaction objects each memory manager can create
          NULL,           \* the null pointer
          NbTransactions  \* the iterations of each initiator's loop (1000 in the code)

Trans == Initiator \X Slot

ASSUME NullAssumption == NULL \notin Trans \cup Initiator \cup Target
ASSUME CountAssumption == NbTransactions \in Nat

VARIABLES
    \* each initiator
    pc, i, trans, request_in_progress,
    initiator_peq,
    \* the bus
    mMap,                 \* Bus::mMap, NULL where there is no entry
    \* each target
    n_trans, response_in_progress, next_response_pending, end_req_pending,
    target_peq,
    \* each transaction
    dest,                 \* the target its address selects, NULL before the first use
    ref, ok,
    report

initiatorVars == <<pc, i, trans, request_in_progress>>
targetVars == <<n_trans, response_in_progress, next_response_pending, end_req_pending>>
vars == <<initiatorVars, initiator_peq, mMap, targetVars, target_peq, dest, ref, ok, report>>

Pointer == Trans \cup {NULL}

TypeOK ==
    /\ pc \in [Initiator -> {"gap", "wait_end_request", "notified"}]
    /\ i \in [Initiator -> 0 .. NbTransactions]
    /\ trans \in [Initiator -> Pointer]
    /\ request_in_progress \in [Initiator -> Pointer]
    /\ initiator_peq \in [Initiator -> SUBSET (Trans \X {"END_REQ", "BEGIN_RESP"})]
    /\ mMap \in [Trans -> Initiator \cup {NULL}]
    /\ n_trans \in [Target -> Nat]
    /\ response_in_progress \in [Target -> BOOLEAN]
    /\ next_response_pending \in [Target -> Pointer]
    /\ end_req_pending \in [Target -> Pointer]
    /\ target_peq \in [Target -> SUBSET (Trans \X {"BEGIN_REQ", "internal_ph", "END_RESP"})]
    /\ dest \in [Trans -> Target \cup {NULL}]
    /\ ref \in [Trans -> 0 .. 2]
    /\ ok \subseteq Trans
    /\ report \in {"none", "ERROR", "FATAL"}

Init ==
    /\ pc = [x \in Initiator |-> "gap"]
    /\ i = [x \in Initiator |-> 0]
    /\ trans = [x \in Initiator |-> NULL]
    /\ request_in_progress = [x \in Initiator |-> NULL]
    /\ initiator_peq = [x \in Initiator |-> {}]
    /\ mMap = [t \in Trans |-> NULL]
    /\ n_trans = [y \in Target |-> 0]
    /\ response_in_progress = [y \in Target |-> FALSE]
    /\ next_response_pending = [y \in Target |-> NULL]
    /\ end_req_pending = [y \in Target |-> NULL]
    /\ target_peq = [y \in Target |-> {}]
    /\ dest = [t \in Trans |-> NULL]
    /\ ref = [t \in Trans |-> 0]
    /\ ok = {}
    /\ report = "none"

Running == report = "none"

-----------------------------------------------------------------------------
(***************************************************************************)
(* The bus.                                                                *)
(***************************************************************************)

\* Bus::nb_transport_fw from initiator x.  The two low bits of the address always
\* name one of the targets, so the branch for a target out of range is not taken.
Forward(x, t, phase) ==
    /\ mMap' = [mMap EXCEPT ![t] = x]
    /\ target_peq' = [target_peq EXCEPT ![dest'[t]] = @ \cup {<<t, phase>>}]

\* The socket Bus::nb_transport_bw takes back to the initiator.
Home(t) == mMap[t]

Queued(peq, t, phase) == [peq EXCEPT ![Home(t)] = @ \cup {<<t, phase>>}]

-----------------------------------------------------------------------------
(***************************************************************************)
(* Initiator x.                                                            *)
(***************************************************************************)

AcquireNothing(t) == UNCHANGED ref

Acquire(t) == ref' = [ref EXCEPT ![t] = @ + 1]

Release(t) == ref' = [ref EXCEPT ![t] = @ - 1]

SendBeginReq(x, t) ==
    /\ request_in_progress' = [request_in_progress EXCEPT ![x] = t]
    /\ Forward(x, t, "BEGIN_REQ")

RequestNeverOpen(x) == FALSE

RequestOpen(x) == request_in_progress[x] # NULL

\* One iteration of thread_process, for a random address, up to its next wait.
Generate(x, t) ==
    /\ Running
    /\ pc[x] = "gap" /\ i[x] < NbTransactions
    /\ t[1] = x /\ ref[t] = 0
    /\ i' = [i EXCEPT ![x] = @ + 1]
    /\ Acquire(t)
    /\ ok' = ok \ {t}
    /\ \E y \in Target : dest' = [dest EXCEPT ![t] = y]
    /\ IF RequestOpen(x)
         THEN /\ pc' = [pc EXCEPT ![x] = "wait_end_request"]
              /\ trans' = [trans EXCEPT ![x] = t]
              /\ UNCHANGED <<request_in_progress, mMap, target_peq>>
         ELSE /\ SendBeginReq(x, t)
              /\ UNCHANGED <<pc, trans>>
    /\ UNCHANGED <<initiator_peq, targetVars, report>>

\* thread_process runs again after end_request_event.
Resume(x) ==
    /\ Running
    /\ pc[x] = "notified"
    /\ UNCHANGED dest
    /\ SendBeginReq(x, trans[x])
    /\ pc' = [pc EXCEPT ![x] = "gap"]
    /\ trans' = [trans EXCEPT ![x] = NULL]
    /\ UNCHANGED <<i, initiator_peq, targetVars, ref, ok, report>>

EndRequestSilently(x) ==
    /\ request_in_progress' = [request_in_progress EXCEPT ![x] = NULL]
    /\ UNCHANGED pc

\* request_in_progress = 0 and end_request_event.notify(), which only a thread that
\* is already waiting sees.
EndRequest(x) ==
    /\ request_in_progress' = [request_in_progress EXCEPT ![x] = NULL]
    /\ pc' = [pc EXCEPT ![x] = IF @ = "wait_end_request" THEN "notified" ELSE @]

\* BEGIN_RESP comes after END_REQ: the internal event it follows is queued the
\* latency later.
EndReqFirst(x, t) == <<t, "END_REQ">> \notin initiator_peq[x]

\* Initiator::peq_cb, phase END_REQ.
InitiatorEndReq(x, t) ==
    /\ Running
    /\ <<t, "END_REQ">> \in initiator_peq[x]
    /\ initiator_peq' = [initiator_peq EXCEPT ![x] = @ \ {<<t, "END_REQ">>}]
    /\ EndRequest(x)
    /\ UNCHANGED <<i, trans, mMap, targetVars, target_peq, dest, ref, ok, report>>

\* Initiator::peq_cb, phase BEGIN_RESP: the response of the request in progress
\* ends that request as well.
InitiatorBeginResp(x, t) ==
    /\ Running
    /\ <<t, "BEGIN_RESP">> \in initiator_peq[x]
    /\ EndReqFirst(x, t)
    /\ initiator_peq' = [initiator_peq EXCEPT ![x] = @ \ {<<t, "BEGIN_RESP">>}]
    /\ IF t = request_in_progress[x] THEN EndRequest(x)
                                     ELSE UNCHANGED <<request_in_progress, pc>>
    /\ report' = IF t \in ok THEN report ELSE "ERROR"
    /\ Release(t)
    /\ UNCHANGED dest
    /\ Forward(x, t, "END_RESP")
    /\ UNCHANGED <<i, trans, targetVars, ok>>

-----------------------------------------------------------------------------
(***************************************************************************)
(* Target y.                                                               *)
(***************************************************************************)

PipelineFullLate(y) == n_trans[y] = 3

PipelineFull(y) == n_trans[y] = 2

\* Target::peq_cb, phase BEGIN_REQ: accepted at once, or put off while two
\* transactions are in the pipeline.  There is room for one request put off.
TargetBeginReq(y, t) ==
    /\ Running
    /\ <<t, "BEGIN_REQ">> \in target_peq[y]
    /\ Acquire(t)
    /\ IF PipelineFull(y)
         THEN /\ end_req_pending' = [end_req_pending EXCEPT ![y] = t]
              /\ target_peq' = [target_peq EXCEPT ![y] = @ \ {<<t, "BEGIN_REQ">>}]
              /\ UNCHANGED <<n_trans, initiator_peq>>
         ELSE /\ initiator_peq' = Queued(initiator_peq, t, "END_REQ")
              /\ target_peq' = [target_peq EXCEPT ![y] =
                                   (@ \ {<<t, "BEGIN_REQ">>}) \cup {<<t, "internal_ph">>}]
              /\ n_trans' = [n_trans EXCEPT ![y] = @ + 1]
              /\ UNCHANGED end_req_pending
    /\ UNCHANGED <<initiatorVars, mMap, response_in_progress, next_response_pending, dest,
                   ok, report>>

AnswerAnyway(y) == FALSE

\* The BEGIN_RESP exclusion rule: the next response waits for END_RESP.
MustWait(y) == response_in_progress[y]

\* Target::peq_cb, phase internal_ph: the command is executed and answered.
TargetExecute(y, t) ==
    /\ Running
    /\ <<t, "internal_ph">> \in target_peq[y]
    /\ target_peq' = [target_peq EXCEPT ![y] = @ \ {<<t, "internal_ph">>}]
    /\ ok' = ok \cup {t}
    /\ IF MustWait(y)
         THEN /\ next_response_pending' = [next_response_pending EXCEPT ![y] = t]
              /\ report' = IF next_response_pending[y] # NULL THEN "FATAL" ELSE report
              /\ UNCHANGED <<response_in_progress, initiator_peq>>
         ELSE /\ response_in_progress' = [response_in_progress EXCEPT ![y] = TRUE]
              /\ initiator_peq' = Queued(initiator_peq, t, "BEGIN_RESP")
              /\ UNCHANGED <<next_response_pending, report>>
    /\ UNCHANGED <<initiatorVars, mMap, n_trans, end_req_pending, dest, ref>>

\* Target::peq_cb, phase END_RESP: t is released, the response put off is sent,
\* and the request put off is accepted.
TargetEndResp(y, t) ==
    LET next == next_response_pending[y]
        pending == end_req_pending[y]
        answered == IF next = NULL THEN initiator_peq
                                   ELSE Queued(initiator_peq, next, "BEGIN_RESP")
    IN  /\ Running
        /\ <<t, "END_RESP">> \in target_peq[y]
        /\ report' = IF response_in_progress[y] THEN report ELSE "FATAL"
        /\ Release(t)
        /\ response_in_progress' = [response_in_progress EXCEPT ![y] = next # NULL]
        /\ next_response_pending' = [next_response_pending EXCEPT ![y] = NULL]
        /\ end_req_pending' = [end_req_pending EXCEPT ![y] = NULL]
        /\ initiator_peq' = IF pending = NULL THEN answered
                                              ELSE Queued(answered, pending, "END_REQ")
        /\ n_trans' = [n_trans EXCEPT ![y] = IF pending = NULL THEN @ - 1 ELSE @]
        /\ target_peq' = [target_peq EXCEPT ![y] =
                             (@ \ {<<t, "END_RESP">>})
                                \cup ({pending} \ {NULL}) \X {"internal_ph"}]
        /\ UNCHANGED <<initiatorVars, mMap, dest, ok>>

-----------------------------------------------------------------------------
\* sc_start returns when no event is left: a thread that still waits is left there.
Finished ==
    /\ \A x \in Initiator : /\ initiator_peq[x] = {}
                            /\ \/ pc[x] = "wait_end_request"
                               \/ pc[x] = "gap" /\ i[x] = NbTransactions
    /\ \A y \in Target : target_peq[y] = {}
    /\ UNCHANGED vars

InitiatorStep(x) == \/ Resume(x)
                    \/ \E t \in Trans : \/ Generate(x, t)
                                        \/ InitiatorEndReq(x, t)
                                        \/ InitiatorBeginResp(x, t)

TargetStep(y) == \E t \in Trans : \/ TargetBeginReq(y, t)
                                  \/ TargetExecute(y, t)
                                  \/ TargetEndResp(y, t)

Next == \/ \E x \in Initiator : InitiatorStep(x)
        \/ \E y \in Target : TargetStep(y)
        \/ Finished

\* The kernel runs every ready thread and delivers every queued notification.
Fairness ==
    /\ \A x \in Initiator : /\ WF_vars(Resume(x))
                            /\ WF_vars(\E t \in Trans : Generate(x, t))
                            /\ \A t \in Trans : /\ WF_vars(InitiatorEndReq(x, t))
                                                /\ WF_vars(InitiatorBeginResp(x, t))
    /\ \A y \in Target, t \in Trans : /\ WF_vars(TargetBeginReq(y, t))
                                      /\ WF_vars(TargetExecute(y, t))
                                      /\ WF_vars(TargetEndResp(y, t))

Spec == Init /\ [][Next]_vars

FairSpec == Spec /\ Fairness

-----------------------------------------------------------------------------
(***************************************************************************)
(* Properties.                                                             *)
(***************************************************************************)

\* No report stops the simulation: in particular a target fed by several
\* initiators never has a third response to put off (Target.h:151-153).
NoReport == report = "none"

Responding(y) == {t \in Trans : dest[t] = y /\ (\/ <<t, "BEGIN_RESP">> \in initiator_peq[t[1]]
                                                \/ <<t, "END_RESP">> \in target_peq[y])}

InPipeline(y) == {t \in Trans : \/ <<t, "internal_ph">> \in target_peq[y]
                                \/ t = next_response_pending[y]} \cup Responding(y)

\* At each target n_trans is exact and never above two, and one response is open,
\* whichever initiators the transactions come from.  A request is put off only while
\* two are in the pipeline: only an END_RESP accepts it (Target.h:115-118), and
\* with nothing in the pipeline none would come.
PipelineCount == \A y \in Target : /\ n_trans[y] = Cardinality(InPipeline(y))
                                   /\ n_trans[y] <= 2
                                   /\ Cardinality(Responding(y)) <= 1
                                   /\ end_req_pending[y] # NULL => n_trans[y] = 2

\* The BEGIN_REQ rule at each initiator: whatever it sent and has not seen accepted
\* is its request in progress.
RequestExclusion ==
    \A t \in Trans :
       (\/ \E y \in Target : <<t, "BEGIN_REQ">> \in target_peq[y] \/ t = end_req_pending[y]
        \/ <<t, "END_REQ">> \in initiator_peq[t[1]])
       => t = request_in_progress[t[1]]

\* Whoever can still reach a transaction finds it live.
NoDanglingReference ==
    /\ \A x \in Initiator :
          /\ \A t \in {trans[x], request_in_progress[x]} \ {NULL} : ref[t] > 0
          /\ \A e \in initiator_peq[x] : ref[e[1]] > 0
    /\ \A y \in Target :
          /\ \A t \in {next_response_pending[y], end_req_pending[y]} \ {NULL} : ref[t] > 0
          /\ \A e \in target_peq[y] : ref[e[1]] > 0

\* No payload event queue holds a notification.
Quiet == /\ \A x \in Initiator : initiator_peq[x] = {}
         /\ \A y \in Target : target_peq[y] = {}

\* The request in progress of an initiator that nobody will accept any more: it is
\* in no queue, and no target has it in end_req_pending.
Overwritten(t) ==
    /\ t = request_in_progress[t[1]]
    /\ \A y \in Target : <<t, "BEGIN_REQ">> \notin target_peq[y] /\ t # end_req_pending[y]
    /\ <<t, "END_REQ">> \notin initiator_peq[t[1]]

\* An initiator whose thread waits behind such a request.
Stuck(x) == /\ pc[x] = "wait_end_request"
            /\ \E t \in Trans : t[1] = x /\ Overwritten(t)

\* A request put off and overwritten by the next (Target.h:83) is all that is ever
\* lost: once no notification is left, every target is idle with nothing put
\* off, whoever still has a reference is a thread that holds its next transaction
\* or the owner of an overwritten request, and a thread that waits for
\* end_request_event waits behind such a request.  No wake-up, no END_REQ put off
\* and no response put off is forgotten in any other way.
OnlyOverwrittenLost ==
    Quiet =>
    /\ \A y \in Target : /\ n_trans[y] = 0 /\ ~response_in_progress[y]
                         /\ next_response_pending[y] = NULL /\ end_req_pending[y] = NULL
    /\ \A t \in Trans : ref[t] > 0 => t = trans[t[1]] \/ Overwritten(t)
    /\ \A x \in Initiator : pc[x] = "wait_end_request" => Stuck(x)

\* What Target.h:81 and 115 say of a request put off: END_REQ is deferred until the
\* pipeline is clear, and then issued to unblock the initiator.
DeferredIsIssued ==
    \A t \in Trans : (\E y \in Target : t = end_req_pending[y])
                        ~> <<t, "END_REQ">> \in initiator_peq[t[1]]
=============================================================================

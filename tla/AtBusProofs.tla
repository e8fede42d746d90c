----------------------------- MODULE AtBusProofs -----------------------------
(***************************************************************************)
(* The bus with its initiators and targets, for every number of each, of   *)
(* transaction objects and of transactions.                                *)
(*                                                                         *)
(* As with the two-deep pipeline the invariants become inductive when a    *)
(* function st tells in which one place each transaction is.  Here there   *)
(* is one place more, "lost": a request put off by a target and then       *)
(* overwritten by the next one put off.  No queue and no target holds it   *)
(* any more, but its initiator still has it as its request in progress.    *)
(***************************************************************************)
EXTENDS AtBus, FiniteSetTheorems, TLAPS

-----------------------------------------------------------------------------
Stage == {"free", "held", "request", "deferred", "lost",
          "execute", "answer", "response", "end"}

\* The stages of a transaction that n_trans counts, of one its target has not
\* accepted, and of the response in progress.
Accepted == {"execute", "answer", "response", "end"}
Unaccepted == {"request", "deferred", "lost"}
Answered == {"response", "end"}

\* How many references a transaction has at each stage.
Refs(s) == IF s = "free" THEN 0
           ELSE IF s \in {"held", "request", "end"} THEN 1 ELSE 2

\* Where target y shows transaction t: in its queue, or behind one of its pointers.
AtTarget(st, t, y) ==
    /\ <<t, "BEGIN_REQ">> \in target_peq[y] <=> st[t] = "request" /\ dest[t] = y
    /\ <<t, "internal_ph">> \in target_peq[y] <=> st[t] = "execute" /\ dest[t] = y
    /\ <<t, "END_RESP">> \in target_peq[y] <=> st[t] = "end" /\ dest[t] = y
    /\ t = end_req_pending[y] <=> st[t] = "deferred" /\ dest[t] = y
    /\ t = next_response_pending[y] <=> st[t] = "answer" /\ dest[t] = y

\* Where initiator x shows transaction t, only ever one of its own.
AtInitiator(st, t, x) ==
    /\ <<t, "BEGIN_RESP">> \in initiator_peq[x] <=> st[t] = "response" /\ t[1] = x
    /\ t = trans[x] <=> st[t] = "held" /\ t[1] = x
    /\ <<t, "END_REQ">> \in initiator_peq[x]
          => /\ t[1] = x /\ st[t] \in {"execute", "answer", "response"}
             /\ t = request_in_progress[x]

Located(st) == \A t \in Trans : /\ \A y \in Target : AtTarget(st, t, y)
                                /\ \A x \in Initiator : AtInitiator(st, t, x)

\* The address and the way back of a transaction under way.
Routed(st) == \A t \in Trans : /\ st[t] # "free" => dest[t] \in Target
                               /\ st[t] \notin {"free", "held"} => mMap[t] = t[1]

Counted(st) == \A t \in Trans : ref[t] = Refs(st[t])

\* A transaction is executed before it is answered.
Executed(st) == \A t \in Trans : st[t] \in {"answer", "response"} => t \in ok

\* The request in progress of an initiator is the only one of its own that no
\* target has accepted; a thread that was notified finds none.
Requests(st) ==
    /\ \A t \in Trans : st[t] \in Unaccepted => t = request_in_progress[t[1]]
    /\ \A x \in Initiator : \A t \in Trans :
          t = request_in_progress[x]
             => t[1] = x /\ (st[t] \in Unaccepted \/ <<t, "END_REQ">> \in initiator_peq[x])
    /\ \A x \in Initiator : /\ pc[x] = "notified" => request_in_progress[x] = NULL
                            /\ trans[x] = NULL <=> pc[x] = "gap"

\* One response at a time at each target.
Responses(st) ==
    \A y \in Target :
       /\ \A t, u \in Trans : /\ st[t] \in Answered /\ dest[t] = y
                              /\ st[u] \in Answered /\ dest[u] = y
                              => t = u
       /\ response_in_progress[y] <=> \E t \in Trans : st[t] \in Answered /\ dest[t] = y
       /\ next_response_pending[y] # NULL => response_in_progress[y]

InStages(st, y) == {t \in Trans : st[t] \in Accepted /\ dest[t] = y}

\* At most two accepted transactions at each target.
Pipeline(st) ==
    \A y \in Target : /\ IsFiniteSet(InStages(st, y))
                      /\ n_trans[y] = Cardinality(InStages(st, y))
                      /\ n_trans[y] <= 2

Inv(st) == /\ st \in [Trans -> Stage]
           /\ TypeOK /\ NoReport
           /\ Located(st) /\ Routed(st) /\ Counted(st) /\ Executed(st)
           /\ Requests(st) /\ Responses(st) /\ Pipeline(st)

\* The inductive invariant.
IInv == \E st \in [Trans -> Stage] : Inv(st)

-----------------------------------------------------------------------------
(***************************************************************************)
(* Lemmas: who owns a transaction, and the count of a target's pipeline.   *)
(***************************************************************************)

\* The first part of a transaction is the initiator whose memory manager made it.
LEMMA Owner == \A t \in Trans : t[1] \in Initiator /\ t # NULL
BY NullAssumption DEF Trans

\* The parts of Inv as facts of their own.
LEMMA InvParts ==
    ASSUME NEW st, Inv(st)
    PROVE  /\ st \in [Trans -> Stage] /\ TypeOK /\ NoReport
           /\ Located(st) /\ Routed(st) /\ Counted(st) /\ Executed(st)
           /\ Requests(st) /\ Responses(st) /\ Pipeline(st)
BY DEF Inv

\* What the owner of a transaction shows of it.
LEMMA AtOwner ==
    ASSUME NEW st, Located(st), Requests(st), NEW t \in Trans
    PROVE  /\ AtInitiator(st, t, t[1])
           /\ t = request_in_progress[t[1]]
                 => st[t] \in Unaccepted \/ <<t, "END_REQ">> \in initiator_peq[t[1]]
<1>1. PICK x \in Initiator : x = t[1]
  BY Owner
<1>2. AtInitiator(st, t, x)
  BY DEF Located
<1>3. t = request_in_progress[x]
         => st[t] \in Unaccepted \/ <<t, "END_REQ">> \in initiator_peq[x]
  BY DEF Requests
<1>. QED  BY <1>1, <1>2, <1>3

\* The pipeline of a target that no transaction enters or leaves.
LEMMA PipelineKept ==
    ASSUME NEW st, NEW nx, NEW y \in Target, Pipeline(st),
           \A t \in Trans : nx[t] \in Accepted /\ dest'[t] = y
                               <=> st[t] \in Accepted /\ dest[t] = y,
           n_trans'[y] = n_trans[y]
    PROVE  /\ IsFiniteSet(InStages(nx, y)')
           /\ n_trans'[y] = Cardinality(InStages(nx, y)')
           /\ n_trans'[y] <= 2
<1>1. InStages(nx, y)' = InStages(st, y)
  BY DEF InStages
<1>. QED  BY <1>1 DEF Pipeline

\* The pipeline of a target that a transaction enters.
LEMMA PipelineEnters ==
    ASSUME NEW st, NEW nx, NEW y \in Target, NEW t \in Trans, TypeOK, Pipeline(st),
           ~(st[t] \in Accepted /\ dest[t] = y), nx[t] \in Accepted /\ dest'[t] = y,
           \A u \in Trans : u # t => (nx[u] \in Accepted /\ dest'[u] = y
                                         <=> st[u] \in Accepted /\ dest[u] = y),
           n_trans[y] # 2, n_trans'[y] = n_trans[y] + 1
    PROVE  /\ IsFiniteSet(InStages(nx, y)')
           /\ n_trans'[y] = Cardinality(InStages(nx, y)')
           /\ n_trans'[y] <= 2
<1>1. InStages(nx, y)' = InStages(st, y) \cup {t} /\ t \notin InStages(st, y)
  BY DEF InStages
<1>2. /\ IsFiniteSet(InStages(st, y))
      /\ n_trans[y] = Cardinality(InStages(st, y))
      /\ n_trans[y] <= 2 /\ n_trans[y] \in Nat
  BY DEF Pipeline, TypeOK
<1>3. /\ IsFiniteSet(InStages(nx, y)')
      /\ Cardinality(InStages(nx, y)') = n_trans[y] + 1
  BY <1>1, <1>2, FS_AddElement
<1>. QED  BY <1>2, <1>3

\* The pipeline of a target that a transaction leaves.
LEMMA PipelineLeaves ==
    ASSUME NEW st, NEW nx, NEW y \in Target, NEW t \in Trans, TypeOK, Pipeline(st),
           st[t] \in Accepted /\ dest[t] = y, ~(nx[t] \in Accepted /\ dest'[t] = y),
           \A u \in Trans : u # t => (nx[u] \in Accepted /\ dest'[u] = y
                                         <=> st[u] \in Accepted /\ dest[u] = y),
           n_trans'[y] = n_trans[y] - 1
    PROVE  /\ IsFiniteSet(InStages(nx, y)')
           /\ n_trans'[y] = Cardinality(InStages(nx, y)')
           /\ n_trans'[y] <= 2 /\ n_trans'[y] \in Nat
<1>1. InStages(nx, y)' = InStages(st, y) \ {t} /\ t \in InStages(st, y)
  BY DEF InStages
<1>2. /\ IsFiniteSet(InStages(st, y))
      /\ n_trans[y] = Cardinality(InStages(st, y))
      /\ n_trans[y] <= 2 /\ n_trans[y] \in Nat
  BY DEF Pipeline, TypeOK
<1>3. /\ IsFiniteSet(InStages(nx, y)')
      /\ Cardinality(InStages(nx, y)') = n_trans[y] - 1
  BY <1>1, <1>2, FS_RemoveElement
<1>4. Cardinality(InStages(nx, y)') \in Nat
  BY <1>3, FS_CardinalityType
<1>. QED  BY <1>2, <1>3, <1>4

\* The pipeline of a target where one transaction leaves and another enters.
LEMMA PipelineSwaps ==
    ASSUME NEW st, NEW nx, NEW y \in Target, NEW t \in Trans, NEW p \in Trans,
           TypeOK, Pipeline(st),
           st[t] \in Accepted /\ dest[t] = y, ~(nx[t] \in Accepted /\ dest'[t] = y),
           ~(st[p] \in Accepted /\ dest[p] = y), nx[p] \in Accepted /\ dest'[p] = y,
           \A u \in Trans \ {t, p} : nx[u] \in Accepted /\ dest'[u] = y
                                        <=> st[u] \in Accepted /\ dest[u] = y,
           n_trans'[y] = n_trans[y]
    PROVE  /\ IsFiniteSet(InStages(nx, y)')
           /\ n_trans'[y] = Cardinality(InStages(nx, y)')
           /\ n_trans'[y] <= 2
<1>. DEFINE rest == InStages(st, y) \ {t}
<1>1. /\ InStages(nx, y)' = rest \cup {p} /\ t \in InStages(st, y)
      /\ p \notin rest
  BY DEF InStages
<1>2. /\ IsFiniteSet(InStages(st, y))
      /\ n_trans[y] = Cardinality(InStages(st, y))
      /\ n_trans[y] <= 2 /\ n_trans[y] \in Nat
  BY DEF Pipeline, TypeOK
<1>3. IsFiniteSet(rest) /\ Cardinality(rest) = n_trans[y] - 1
  BY <1>1, <1>2, FS_RemoveElement
<1>. HIDE DEF rest
<1>4. IsFiniteSet(rest \cup {p}) /\ Cardinality(rest \cup {p}) = Cardinality(rest) + 1
  BY <1>1, <1>3, FS_AddElement
<1>. QED  BY <1>1, <1>2, <1>3, <1>4

\* Three things are three.
LEMMA ThreeOf ==
    ASSUME NEW t, NEW u, NEW v, t # u, t # v, u # v
    PROVE  IsFiniteSet({t, u, v}) /\ Cardinality({t, u, v}) = 3
<1>1. IsFiniteSet({t}) /\ Cardinality({t}) = 1
  BY FS_Singleton
<1>2. u \notin {t} /\ v \notin {t} \cup {u}
  OBVIOUS
<1>3. /\ IsFiniteSet({t} \cup {u})
      /\ Cardinality({t} \cup {u}) = IF u \in {t} THEN Cardinality({t}) ELSE Cardinality({t}) + 1
  BY ONLY <1>1, FS_AddElement
<1>4. IsFiniteSet({t} \cup {u}) /\ Cardinality({t} \cup {u}) = 2
  BY ONLY <1>1, <1>2, <1>3
<1>. DEFINE pair == {t} \cup {u}
<1>5. IsFiniteSet(pair) /\ Cardinality(pair) = 2 /\ v \notin pair /\ {t, u, v} = pair \cup {v}
  BY <1>2, <1>4
<1>. HIDE DEF pair
<1>6. IsFiniteSet(pair \cup {v}) /\ Cardinality(pair \cup {v}) = Cardinality(pair) + 1
  BY ONLY <1>5, FS_AddElement
<1>. QED  BY <1>5, <1>6

\* Three transactions are never accepted by one target.
LEMMA AtMostTwo ==
    ASSUME NEW st, TypeOK, Pipeline(st), NEW y \in Target,
           NEW t \in InStages(st, y), NEW u \in InStages(st, y), NEW v \in InStages(st, y),
           t # u, t # v, u # v
    PROVE  FALSE
<1>1. IsFiniteSet({t, u, v}) /\ Cardinality({t, u, v}) = 3
  BY ThreeOf
<1>2. {t, u, v} \subseteq InStages(st, y)
  OBVIOUS
<1>3. /\ IsFiniteSet(InStages(st, y))
      /\ Cardinality(InStages(st, y)) = n_trans[y] /\ n_trans[y] <= 2 /\ n_trans[y] \in Nat
  BY DEF Pipeline, TypeOK
<1>4. Cardinality({t, u, v}) <= Cardinality(InStages(st, y))
  BY <1>2, <1>3, FS_Subset
<1>. QED  BY <1>1, <1>3, <1>4

-----------------------------------------------------------------------------
(***************************************************************************)
(* Every action carries Inv from one placement of the transactions to the  *)
(* next; one lemma per action.                                             *)
(***************************************************************************)

LEMMA InitInv == Init => IInv
<1>. SUFFICES ASSUME Init PROVE IInv
  OBVIOUS
<1>. DEFINE st == [t \in Trans |-> "free"]
<1>1. st \in [Trans -> Stage]
  BY DEF Stage
<1>2. TypeOK /\ NoReport
  BY CountAssumption DEF Init, TypeOK, Pointer, NoReport
<1>3. Located(st)
  BY Owner DEF Init, Located, AtTarget, AtInitiator
<1>4. Routed(st) /\ Counted(st) /\ Executed(st)
  BY DEF Init, Routed, Counted, Refs, Executed
<1>5. Requests(st)
  BY Owner DEF Init, Requests, Unaccepted
<1>6. Responses(st)
  BY DEF Init, Responses, Answered
<1>7. Pipeline(st)
  <2>1. \A y \in Target : InStages(st, y) = {}
    BY DEF InStages, Accepted
  <2>2. \A y \in Target : n_trans[y] = 0
    BY DEF Init
  <2>. HIDE DEF st
  <2>. QED  BY <2>1, <2>2, FS_EmptySet DEF Pipeline
<1>. QED  BY <1>1, <1>2, <1>3, <1>4, <1>5, <1>6, <1>7 DEF IInv, Inv

LEMMA InitiatorEndReqInv ==
    ASSUME NEW st, Inv(st), NEW x \in Initiator, NEW t \in Trans, InitiatorEndReq(x, t)
    PROVE  IInv'
<1>1. /\ st \in [Trans -> Stage] /\ TypeOK /\ NoReport
      /\ Located(st) /\ Routed(st) /\ Counted(st) /\ Executed(st)
      /\ Requests(st) /\ Responses(st) /\ Pipeline(st)
  BY InvParts
<1>2. /\ <<t, "END_REQ">> \in initiator_peq[x]
      /\ initiator_peq' = [initiator_peq EXCEPT ![x] = @ \ {<<t, "END_REQ">>}]
      /\ request_in_progress' = [request_in_progress EXCEPT ![x] = NULL]
      /\ pc' = [pc EXCEPT ![x] = IF @ = "wait_end_request" THEN "notified" ELSE @]
      /\ UNCHANGED <<i, trans, mMap, n_trans, response_in_progress, next_response_pending,
                     end_req_pending, target_peq, dest, ref, ok, report>>
  BY DEF InitiatorEndReq, EndRequest, targetVars
<1>3. /\ t[1] = x /\ t = request_in_progress[x]
      /\ st[t] \in {"execute", "answer", "response"}
  BY <1>1, <1>2 DEF Located, AtInitiator
<1>4. /\ \A z \in Initiator : z # x => /\ initiator_peq'[z] = initiator_peq[z]
                                       /\ request_in_progress'[z] = request_in_progress[z]
                                       /\ pc'[z] = pc[z]
      /\ initiator_peq'[x] = initiator_peq[x] \ {<<t, "END_REQ">>}
      /\ request_in_progress'[x] = NULL
      /\ pc'[x] = IF pc[x] = "wait_end_request" THEN "notified" ELSE pc[x]
  BY <1>1, <1>2 DEF TypeOK
<1>5. TypeOK' /\ NoReport'
  BY <1>1, <1>2 DEF TypeOK, Pointer, NoReport
<1>6. Located(st)'
  <2>1. ASSUME NEW u \in Trans, NEW y \in Target PROVE AtTarget(st, u, y)'
    BY <1>1, <1>2 DEF Located, AtTarget
  <2>2. ASSUME NEW u \in Trans, NEW z \in Initiator PROVE AtInitiator(st, u, z)'
    BY <1>1, <1>2, <1>3, <1>4 DEF Located, AtInitiator
  <2>. QED  BY <2>1, <2>2 DEF Located
<1>7. Requests(st)'
  <2>1. ASSUME NEW u \in Trans, st[u] \in Unaccepted
        PROVE  u = request_in_progress'[u[1]]
    BY <1>1, <1>3, <1>4, <2>1, Owner DEF Requests, Unaccepted
  <2>2. ASSUME NEW z \in Initiator, NEW u \in Trans, u = request_in_progress'[z]
        PROVE  u[1] = z /\ (st[u] \in Unaccepted \/ <<u, "END_REQ">> \in initiator_peq'[z])
    BY <1>1, <1>4, <2>2, Owner DEF Requests
  <2>3. ASSUME NEW z \in Initiator
        PROVE  /\ pc'[z] = "notified" => request_in_progress'[z] = NULL
               /\ trans'[z] = NULL <=> pc'[z] = "gap"
    BY <1>1, <1>2, <1>4 DEF Requests
  <2>. QED  BY <2>1, <2>2, <2>3 DEF Requests
<1>8. Routed(st)' /\ Counted(st)' /\ Executed(st)' /\ Responses(st)'
  BY <1>1, <1>2 DEF Routed, Counted, Executed, Responses
<1>9. Pipeline(st)'
  BY <1>1, <1>2, PipelineKept DEF Pipeline
<1>. QED  BY <1>1, <1>5, <1>6, <1>7, <1>8, <1>9 DEF IInv, Inv

LEMMA GenerateInv ==
    ASSUME NEW st, Inv(st), NEW x \in Initiator, NEW t \in Trans, Generate(x, t)
    PROVE  IInv'
<1>1. /\ st \in [Trans -> Stage] /\ TypeOK /\ NoReport
      /\ Located(st) /\ Routed(st) /\ Counted(st) /\ Executed(st)
      /\ Requests(st) /\ Responses(st) /\ Pipeline(st)
  BY InvParts
<1>2. /\ pc[x] = "gap" /\ i[x] < NbTransactions /\ t[1] = x /\ ref[t] = 0
      /\ i' = [i EXCEPT ![x] = @ + 1]
      /\ ref' = [ref EXCEPT ![t] = @ + 1]
      /\ ok' = ok \ {t}
      /\ UNCHANGED <<initiator_peq, n_trans, response_in_progress, next_response_pending,
                     end_req_pending, report>>
  BY DEF Generate, Acquire, targetVars
<1>3. PICK d \in Target : dest' = [dest EXCEPT ![t] = d]
  BY DEF Generate
<1>4. st[t] = "free" /\ trans[x] = NULL
  BY <1>1, <1>2 DEF Counted, Refs, Requests
<1>5. IF request_in_progress[x] # NULL
        THEN /\ pc' = [pc EXCEPT ![x] = "wait_end_request"]
             /\ trans' = [trans EXCEPT ![x] = t]
             /\ UNCHANGED <<request_in_progress, mMap, target_peq>>
        ELSE /\ request_in_progress' = [request_in_progress EXCEPT ![x] = t]
             /\ mMap' = [mMap EXCEPT ![t] = x]
             /\ target_peq' = [target_peq EXCEPT ![dest'[t]] = @ \cup {<<t, "BEGIN_REQ">>}]
             /\ UNCHANGED <<pc, trans>>
  BY DEF Generate, RequestOpen, SendBeginReq, Forward
<1>6. /\ dest'[t] = d /\ ref'[t] = 1 /\ i'[x] \in 0 .. NbTransactions
      /\ \A u \in Trans : u # t => dest'[u] = dest[u] /\ ref'[u] = ref[u]
      /\ \A z \in Initiator : z # x => i'[z] = i[z]
  BY <1>1, <1>2, <1>3, CountAssumption DEF TypeOK
<1>s. PICK s \in Stage : s = IF request_in_progress[x] # NULL THEN "held" ELSE "request"
  BY DEF Stage
<1>. DEFINE nx == [st EXCEPT ![t] = s]
<1>7. nx \in [Trans -> Stage] /\ nx[t] = s /\ \A u \in Trans : u # t => nx[u] = st[u]
  BY <1>1
<1>. HIDE DEF nx
<1>8. /\ i' \in [Initiator -> 0 .. NbTransactions] /\ ref' \in [Trans -> 0 .. 2]
      /\ dest' \in [Trans -> Target \cup {NULL}] /\ ok' \subseteq Trans
      /\ initiator_peq' \in [Initiator -> SUBSET (Trans \X {"END_REQ", "BEGIN_RESP"})]
      /\ n_trans' \in [Target -> Nat] /\ response_in_progress' \in [Target -> BOOLEAN]
      /\ next_response_pending' \in [Target -> Pointer]
      /\ end_req_pending' \in [Target -> Pointer]
      /\ report' \in {"none", "ERROR", "FATAL"} /\ NoReport'
  <2>1. i' \in [Initiator -> 0 .. NbTransactions]
    BY <1>1, <1>2, <1>6 DEF TypeOK
  <2>2. ref' \in [Trans -> 0 .. 2]
    BY <1>1, <1>2 DEF TypeOK
  <2>. QED  BY <1>1, <1>2, <1>3, <2>1, <2>2 DEF TypeOK, NoReport
<1>9. Counted(nx)'
  <2>1. Refs(s) = 1
    BY <1>s DEF Refs
  <2>. QED  BY <1>1, <1>6, <1>7, <2>1 DEF Counted
<1>10. Executed(nx)'
  BY <1>1, <1>2, <1>s, <1>7 DEF Executed
<1>11. Responses(nx)'
  <2>1. \A y \in Target, u \in Trans : nx[u] \in Answered /\ dest'[u] = y
                                          <=> st[u] \in Answered /\ dest[u] = y
    BY <1>4, <1>6, <1>7, <1>s DEF Answered
  <2>. QED  BY <1>1, <1>2, <2>1 DEF Responses
<1>12. Pipeline(nx)'
  <2>1. \A y \in Target, u \in Trans : nx[u] \in Accepted /\ dest'[u] = y
                                          <=> st[u] \in Accepted /\ dest[u] = y
    BY <1>4, <1>6, <1>7, <1>s DEF Accepted
  <2>. QED  BY <1>1, <1>2, <2>1, PipelineKept DEF Pipeline
<1>a. CASE request_in_progress[x] # NULL
  <2>1. /\ s = "held" /\ trans'[x] = t /\ pc'[x] = "wait_end_request"
        /\ UNCHANGED <<request_in_progress, mMap, target_peq>>
        /\ \A z \in Initiator : z # x => trans'[z] = trans[z] /\ pc'[z] = pc[z]
    BY <1>1, <1>5, <1>s, <1>a DEF TypeOK
  <2>2. TypeOK' /\ NoReport'
    BY <1>1, <1>5, <1>8, <1>a, <2>1 DEF TypeOK, Pointer
  <2>3. ASSUME NEW u \in Trans, NEW y \in Target PROVE AtTarget(nx, u, y)'
    BY <1>1, <1>2, <1>4, <1>6, <1>7, <2>1 DEF Located, AtTarget
  <2>4. ASSUME NEW u \in Trans, NEW z \in Initiator PROVE AtInitiator(nx, u, z)'
    BY <1>1, <1>2, <1>4, <1>6, <1>7, <2>1, Owner DEF Located, AtInitiator
  <2>5. Routed(nx)'
    BY <1>1, <1>6, <1>7, <2>1 DEF Routed
  <2>6. Requests(nx)'
    BY <1>1, <1>2, <1>4, <1>7, <2>1, Owner DEF Requests, Unaccepted
  <2>. QED
    BY <1>7, <1>9, <1>10, <1>11, <1>12, <2>2, <2>3, <2>4, <2>5, <2>6 DEF IInv, Inv, Located
<1>b. CASE request_in_progress[x] = NULL
  <2>1. /\ s = "request" /\ request_in_progress'[x] = t /\ mMap'[t] = x
        /\ target_peq'[d] = target_peq[d] \cup {<<t, "BEGIN_REQ">>}
        /\ UNCHANGED <<pc, trans>>
        /\ \A z \in Initiator : z # x => request_in_progress'[z] = request_in_progress[z]
        /\ \A y \in Target : y # d => target_peq'[y] = target_peq[y]
        /\ \A u \in Trans : u # t => mMap'[u] = mMap[u]
    BY <1>1, <1>5, <1>6, <1>s, <1>b DEF TypeOK
  <2>2. TypeOK' /\ NoReport'
    <3>1. /\ request_in_progress' \in [Initiator -> Pointer]
          /\ mMap' \in [Trans -> Initiator \cup {NULL}]
      BY <1>1, <1>5, <1>b DEF TypeOK, Pointer
    <3>2. target_peq'
             \in [Target -> SUBSET (Trans \X {"BEGIN_REQ", "internal_ph", "END_RESP"})]
      BY <1>1, <1>5, <1>6, <1>b DEF TypeOK
    <3>. QED  BY <1>1, <1>8, <2>1, <3>1, <3>2 DEF TypeOK
  <2>3. ASSUME NEW u \in Trans, NEW y \in Target PROVE AtTarget(nx, u, y)'
    BY <1>1, <1>2, <1>4, <1>6, <1>7, <2>1 DEF Located, AtTarget
  <2>4. ASSUME NEW u \in Trans, NEW z \in Initiator PROVE AtInitiator(nx, u, z)'
    BY <1>1, <1>2, <1>4, <1>6, <1>7, <1>b, <2>1, Owner DEF Located, AtInitiator
  <2>5. Routed(nx)'
    BY <1>1, <1>2, <1>6, <1>7, <2>1 DEF Routed
  <2>6. Requests(nx)'
    BY <1>1, <1>2, <1>4, <1>7, <1>b, <2>1, Owner DEF Requests, Unaccepted
  <2>. QED
    BY <1>7, <1>9, <1>10, <1>11, <1>12, <2>2, <2>3, <2>4, <2>5, <2>6 DEF IInv, Inv, Located
<1>. QED  BY <1>a, <1>b

LEMMA ResumeInv ==
    ASSUME NEW st, Inv(st), NEW x \in Initiator, Resume(x)
    PROVE  IInv'
<1>1. /\ st \in [Trans -> Stage] /\ TypeOK /\ NoReport
      /\ Located(st) /\ Routed(st) /\ Counted(st) /\ Executed(st)
      /\ Requests(st) /\ Responses(st) /\ Pipeline(st)
  BY InvParts
<1>t. PICK t \in Trans : t = trans[x]
  BY <1>1 DEF Resume, TypeOK, Pointer, Requests
<1>d. PICK d \in Target : d = dest[t]
  BY <1>1, <1>t DEF Located, AtInitiator, Routed
<1>2. /\ pc[x] = "notified"
      /\ request_in_progress' = [request_in_progress EXCEPT ![x] = t]
      /\ mMap' = [mMap EXCEPT ![t] = x]
      /\ target_peq' = [target_peq EXCEPT ![d] = @ \cup {<<t, "BEGIN_REQ">>}]
      /\ pc' = [pc EXCEPT ![x] = "gap"]
      /\ trans' = [trans EXCEPT ![x] = NULL]
      /\ UNCHANGED <<i, initiator_peq, n_trans, response_in_progress, next_response_pending,
                     end_req_pending, dest, ref, ok, report>>
  BY <1>t, <1>d DEF Resume, SendBeginReq, Forward, targetVars
<1>3. st[t] = "held" /\ t[1] = x /\ request_in_progress[x] = NULL
  BY <1>1, <1>2, <1>t DEF Located, AtInitiator, Requests
<1>4. /\ request_in_progress'[x] = t /\ mMap'[t] = x /\ pc'[x] = "gap" /\ trans'[x] = NULL
      /\ target_peq'[d] = target_peq[d] \cup {<<t, "BEGIN_REQ">>}
      /\ \A z \in Initiator : z # x => /\ request_in_progress'[z] = request_in_progress[z]
                                       /\ trans'[z] = trans[z] /\ pc'[z] = pc[z]
      /\ \A y \in Target : y # d => target_peq'[y] = target_peq[y]
      /\ \A u \in Trans : u # t => mMap'[u] = mMap[u]
  BY <1>1, <1>2 DEF TypeOK
<1>. DEFINE nx == [st EXCEPT ![t] = "request"]
<1>5. /\ nx \in [Trans -> Stage] /\ nx[t] = "request"
      /\ \A u \in Trans : u # t => nx[u] = st[u]
  BY <1>1 DEF Stage
<1>. HIDE DEF nx
<1>6. TypeOK' /\ NoReport'
  BY <1>1, <1>2 DEF TypeOK, Pointer, NoReport
<1>7. ASSUME NEW u \in Trans, NEW y \in Target PROVE AtTarget(nx, u, y)'
  BY <1>1, <1>2, <1>3, <1>4, <1>5, <1>d DEF Located, AtTarget
<1>8. ASSUME NEW u \in Trans, NEW z \in Initiator PROVE AtInitiator(nx, u, z)'
  BY <1>1, <1>2, <1>3, <1>4, <1>5, <1>t, Owner DEF Located, AtInitiator
<1>9. Routed(nx)' /\ Counted(nx)' /\ Executed(nx)'
  BY <1>1, <1>2, <1>3, <1>4, <1>5 DEF Routed, Counted, Refs, Executed
<1>10. Requests(nx)'
  BY <1>1, <1>2, <1>3, <1>4, <1>5, Owner DEF Requests, Unaccepted
<1>11. Responses(nx)'
  <2>1. \A u \in Trans : nx[u] \in Answered <=> st[u] \in Answered
    BY <1>3, <1>5 DEF Answered
  <2>. QED  BY <1>1, <1>2, <2>1 DEF Responses
<1>12. Pipeline(nx)'
  <2>1. \A u \in Trans : nx[u] \in Accepted <=> st[u] \in Accepted
    BY <1>3, <1>5 DEF Accepted
  <2>. QED  BY <1>1, <1>2, <2>1, PipelineKept DEF Pipeline
<1>. QED
  BY <1>5, <1>6, <1>7, <1>8, <1>9, <1>10, <1>11, <1>12 DEF IInv, Inv, Located

LEMMA InitiatorBeginRespInv ==
    ASSUME NEW st, Inv(st), NEW x \in Initiator, NEW t \in Trans, InitiatorBeginResp(x, t)
    PROVE  IInv'
<1>1. /\ st \in [Trans -> Stage] /\ TypeOK /\ NoReport
      /\ Located(st) /\ Routed(st) /\ Counted(st) /\ Executed(st)
      /\ Requests(st) /\ Responses(st) /\ Pipeline(st)
  BY InvParts
<1>2. /\ <<t, "BEGIN_RESP">> \in initiator_peq[x] /\ <<t, "END_REQ">> \notin initiator_peq[x]
      /\ initiator_peq' = [initiator_peq EXCEPT ![x] = @ \ {<<t, "BEGIN_RESP">>}]
      /\ report' = IF t \in ok THEN report ELSE "ERROR"
      /\ ref' = [ref EXCEPT ![t] = @ - 1]
      /\ mMap' = [mMap EXCEPT ![t] = x]
      /\ UNCHANGED <<i, trans, n_trans, response_in_progress, next_response_pending,
                     end_req_pending, dest, ok>>
  BY DEF InitiatorBeginResp, EndReqFirst, Release, Forward, targetVars
<1>3. st[t] = "response" /\ t[1] = x /\ ref[t] = 2 /\ t \in ok
  BY <1>1, <1>2 DEF Located, AtInitiator, Counted, Refs, Executed
<1>d. PICK d \in Target : d = dest[t]
  BY <1>1, <1>3 DEF Routed
<1>4. t # request_in_progress[x]
  BY <1>1, <1>2, <1>3 DEF Requests, Unaccepted
<1>5. /\ UNCHANGED <<pc, request_in_progress, report>>
      /\ target_peq' = [target_peq EXCEPT ![d] = @ \cup {<<t, "END_RESP">>}]
  BY <1>2, <1>3, <1>4, <1>d DEF InitiatorBeginResp, Forward
<1>6. /\ initiator_peq'[x] = initiator_peq[x] \ {<<t, "BEGIN_RESP">>}
      /\ ref'[t] = 1 /\ mMap'[t] = x
      /\ target_peq'[d] = target_peq[d] \cup {<<t, "END_RESP">>}
      /\ \A z \in Initiator : z # x => initiator_peq'[z] = initiator_peq[z]
      /\ \A y \in Target : y # d => target_peq'[y] = target_peq[y]
      /\ \A u \in Trans : u # t => ref'[u] = ref[u] /\ mMap'[u] = mMap[u]
  BY <1>1, <1>2, <1>3, <1>5 DEF TypeOK
<1>. DEFINE nx == [st EXCEPT ![t] = "end"]
<1>7. /\ nx \in [Trans -> Stage] /\ nx[t] = "end"
      /\ \A u \in Trans : u # t => nx[u] = st[u]
  BY <1>1 DEF Stage
<1>. HIDE DEF nx
<1>8. TypeOK' /\ NoReport'
  <2>1. ref' \in [Trans -> 0 .. 2]
    BY <1>1, <1>2, <1>3 DEF TypeOK
  <2>. QED  BY <1>1, <1>2, <1>5, <2>1 DEF TypeOK, Pointer, NoReport
<1>9. ASSUME NEW u \in Trans, NEW y \in Target PROVE AtTarget(nx, u, y)'
  BY <1>1, <1>2, <1>3, <1>6, <1>7, <1>d DEF Located, AtTarget
<1>10. ASSUME NEW u \in Trans, NEW z \in Initiator PROVE AtInitiator(nx, u, z)'
  BY <1>1, <1>2, <1>3, <1>5, <1>6, <1>7 DEF Located, AtInitiator
<1>11. Routed(nx)' /\ Counted(nx)' /\ Executed(nx)'
  BY <1>1, <1>2, <1>3, <1>6, <1>7 DEF Routed, Counted, Refs, Executed
<1>12. Requests(nx)'
  <2>1. \A u \in Trans : nx[u] \in Unaccepted <=> st[u] \in Unaccepted
    BY <1>3, <1>7 DEF Unaccepted
  <2>2. \A z \in Initiator, u \in Trans :
           <<u, "END_REQ">> \in initiator_peq'[z] <=> <<u, "END_REQ">> \in initiator_peq[z]
    BY <1>6
  <2>. QED  BY <1>1, <1>2, <1>5, <2>1, <2>2 DEF Requests
<1>13. Responses(nx)'
  <2>1. \A u \in Trans : nx[u] \in Answered <=> st[u] \in Answered
    BY <1>3, <1>7 DEF Answered
  <2>. QED  BY <1>1, <1>2, <2>1 DEF Responses
<1>14. Pipeline(nx)'
  <2>1. \A u \in Trans : nx[u] \in Accepted <=> st[u] \in Accepted
    BY <1>3, <1>7 DEF Accepted
  <2>. QED  BY <1>1, <1>2, <2>1, PipelineKept DEF Pipeline
<1>. QED
  BY <1>7, <1>8, <1>9, <1>10, <1>11, <1>12, <1>13, <1>14 DEF IInv, Inv, Located

LEMMA TargetBeginReqInv ==
    ASSUME NEW st, Inv(st), NEW y \in Target, NEW t \in Trans, TargetBeginReq(y, t)
    PROVE  IInv'
<1>1. /\ st \in [Trans -> Stage] /\ TypeOK /\ NoReport
      /\ Located(st) /\ Routed(st) /\ Counted(st) /\ Executed(st)
      /\ Requests(st) /\ Responses(st) /\ Pipeline(st)
  BY InvParts
<1>2. /\ <<t, "BEGIN_REQ">> \in target_peq[y]
      /\ ref' = [ref EXCEPT ![t] = @ + 1]
      /\ UNCHANGED <<pc, i, trans, request_in_progress, mMap, response_in_progress,
                     next_response_pending, dest, ok, report>>
  BY DEF TargetBeginReq, Acquire, initiatorVars
<1>3. st[t] = "request" /\ dest[t] = y /\ ref[t] = 1
  BY <1>1, <1>2 DEF Located, AtTarget, Counted, Refs
<1>4. ref'[t] = 2 /\ \A u \in Trans : u # t => ref'[u] = ref[u]
  BY <1>1, <1>2, <1>3 DEF TypeOK
<1>5. ref' \in [Trans -> 0 .. 2]
  BY <1>1, <1>2, <1>3 DEF TypeOK
<1>a. CASE PipelineFull(y)
  <2>p. PICK p \in Pointer : p = end_req_pending[y]
    BY <1>1 DEF TypeOK
  <2>1. /\ end_req_pending' = [end_req_pending EXCEPT ![y] = t]
        /\ target_peq' = [target_peq EXCEPT ![y] = @ \ {<<t, "BEGIN_REQ">>}]
        /\ UNCHANGED <<n_trans, initiator_peq>>
    BY <1>a DEF TargetBeginReq
  <2>2. /\ end_req_pending'[y] = t
        /\ target_peq'[y] = target_peq[y] \ {<<t, "BEGIN_REQ">>}
        /\ \A z \in Target : z # y => /\ end_req_pending'[z] = end_req_pending[z]
                                      /\ target_peq'[z] = target_peq[z]
    BY <1>1, <2>1 DEF TypeOK
  <2>. DEFINE nx == [u \in Trans |-> IF u = t THEN "deferred"
                                     ELSE IF u = p THEN "lost" ELSE st[u]]
  <2>3. /\ nx \in [Trans -> Stage] /\ nx[t] = "deferred"
        /\ \A u \in Trans : u # t /\ u = p => nx[u] = "lost"
        /\ \A u \in Trans : u # t /\ u # p => nx[u] = st[u]
    BY <1>1 DEF Stage
  <2>. HIDE DEF nx
  <2>4. \A u \in Trans : u = p <=> st[u] = "deferred" /\ dest[u] = y
    BY <1>1, <2>p DEF Located, AtTarget
  <2>5. TypeOK' /\ NoReport'
    BY <1>1, <1>2, <1>5, <2>1 DEF TypeOK, Pointer, NoReport
  <2>6. ASSUME NEW u \in Trans, NEW z \in Target PROVE AtTarget(nx, u, z)'
    BY <1>1, <1>2, <1>3, <2>2, <2>3, <2>4 DEF Located, AtTarget
  <2>7. ASSUME NEW u \in Trans, NEW x \in Initiator PROVE AtInitiator(nx, u, x)'
    BY <1>1, <1>2, <1>3, <2>1, <2>3, <2>4 DEF Located, AtInitiator
  <2>8. Routed(nx)' /\ Counted(nx)' /\ Executed(nx)'
    BY <1>1, <1>2, <1>3, <1>4, <2>3, <2>4 DEF Routed, Counted, Refs, Executed
  <2>9. Requests(nx)'
    <3>1. \A u \in Trans : nx[u] \in Unaccepted <=> st[u] \in Unaccepted
      BY <1>3, <2>3, <2>4 DEF Unaccepted
    <3>. QED  BY <1>1, <1>2, <2>1, <3>1 DEF Requests
  <2>10. Responses(nx)'
    <3>1. \A u \in Trans : nx[u] \in Answered <=> st[u] \in Answered
      BY <1>3, <2>3, <2>4 DEF Answered
    <3>. QED  BY <1>1, <1>2, <3>1 DEF Responses
  <2>11. Pipeline(nx)'
    <3>1. \A u \in Trans : nx[u] \in Accepted <=> st[u] \in Accepted
      BY <1>3, <2>3, <2>4 DEF Accepted
    <3>. QED  BY <1>1, <1>2, <2>1, <3>1, PipelineKept DEF Pipeline
  <2>. QED
    BY <2>3, <2>5, <2>6, <2>7, <2>8, <2>9, <2>10, <2>11 DEF IInv, Inv, Located
<1>b. CASE ~PipelineFull(y)
  <2>h. PICK x \in Initiator : x = t[1]
    BY Owner
  <2>1. /\ initiator_peq' = [initiator_peq EXCEPT ![x] = @ \cup {<<t, "END_REQ">>}]
        /\ target_peq' = [target_peq EXCEPT ![y] =
                              (@ \ {<<t, "BEGIN_REQ">>}) \cup {<<t, "internal_ph">>}]
        /\ n_trans' = [n_trans EXCEPT ![y] = @ + 1]
        /\ n_trans[y] # 2
        /\ UNCHANGED end_req_pending
    BY <1>1, <1>3, <1>b, <2>h DEF TargetBeginReq, PipelineFull, Queued, Home, Routed
  <2>2. /\ initiator_peq'[x] = initiator_peq[x] \cup {<<t, "END_REQ">>}
        /\ target_peq'[y] = (target_peq[y] \ {<<t, "BEGIN_REQ">>}) \cup {<<t, "internal_ph">>}
        /\ n_trans'[y] = n_trans[y] + 1
        /\ \A z \in Initiator : z # x => initiator_peq'[z] = initiator_peq[z]
        /\ \A z \in Target : z # y => target_peq'[z] = target_peq[z] /\ n_trans'[z] = n_trans[z]
    BY <1>1, <2>1 DEF TypeOK
  <2>. DEFINE nx == [st EXCEPT ![t] = "execute"]
  <2>3. /\ nx \in [Trans -> Stage] /\ nx[t] = "execute"
        /\ \A u \in Trans : u # t => nx[u] = st[u]
    BY <1>1 DEF Stage
  <2>. HIDE DEF nx
  <2>4. t = request_in_progress[x]
    BY <1>1, <1>3, <2>h DEF Requests, Unaccepted
  <2>5. TypeOK' /\ NoReport'
    <3>1. /\ initiator_peq' \in [Initiator -> SUBSET (Trans \X {"END_REQ", "BEGIN_RESP"})]
          /\ n_trans' \in [Target -> Nat]
      BY <1>1, <2>1 DEF TypeOK
    <3>2. target_peq'
             \in [Target -> SUBSET (Trans \X {"BEGIN_REQ", "internal_ph", "END_RESP"})]
      BY <1>1, <2>1 DEF TypeOK
    <3>. QED  BY <1>1, <1>2, <1>5, <2>1, <3>1, <3>2 DEF TypeOK, NoReport
  <2>6. ASSUME NEW u \in Trans, NEW z \in Target PROVE AtTarget(nx, u, z)'
    BY <1>1, <1>2, <1>3, <2>1, <2>2, <2>3 DEF Located, AtTarget
  <2>7. ASSUME NEW u \in Trans, NEW z \in Initiator PROVE AtInitiator(nx, u, z)'
    BY <1>1, <1>2, <1>3, <2>h, <2>2, <2>3, <2>4 DEF Located, AtInitiator
  <2>8. Routed(nx)' /\ Counted(nx)' /\ Executed(nx)'
    BY <1>1, <1>2, <1>3, <1>4, <2>3 DEF Routed, Counted, Refs, Executed
  <2>9. Requests(nx)'
    BY <1>1, <1>2, <1>3, <2>h, <2>2, <2>3, <2>4, Owner DEF Requests, Unaccepted
  <2>10. Responses(nx)'
    <3>1. \A u \in Trans : nx[u] \in Answered <=> st[u] \in Answered
      BY <1>3, <2>3 DEF Answered
    <3>. QED  BY <1>1, <1>2, <3>1 DEF Responses
  <2>11. Pipeline(nx)'
    <3>1. /\ ~(st[t] \in Accepted /\ dest[t] = y) /\ nx[t] \in Accepted /\ dest'[t] = y
          /\ \A u \in Trans : u # t => (nx[u] \in Accepted <=> st[u] \in Accepted)
      BY <1>2, <1>3, <2>3 DEF Accepted
    <3>. QED
      BY <1>1, <1>2, <2>1, <2>2, <3>1, PipelineEnters, PipelineKept DEF Pipeline
  <2>. QED
    BY <2>3, <2>5, <2>6, <2>7, <2>8, <2>9, <2>10, <2>11 DEF IInv, Inv, Located
<1>. QED  BY <1>a, <1>b

LEMMA TargetExecuteInv ==
    ASSUME NEW st, Inv(st), NEW y \in Target, NEW t \in Trans, TargetExecute(y, t)
    PROVE  IInv'
<1>1. /\ st \in [Trans -> Stage] /\ TypeOK /\ NoReport
      /\ Located(st) /\ Routed(st) /\ Counted(st) /\ Executed(st)
      /\ Requests(st) /\ Responses(st) /\ Pipeline(st)
  BY InvParts
<1>2. /\ <<t, "internal_ph">> \in target_peq[y]
      /\ target_peq' = [target_peq EXCEPT ![y] = @ \ {<<t, "internal_ph">>}]
      /\ ok' = ok \cup {t}
      /\ UNCHANGED <<pc, i, trans, request_in_progress, mMap, n_trans, end_req_pending,
                     dest, ref>>
  BY DEF TargetExecute, initiatorVars
<1>3. st[t] = "execute" /\ dest[t] = y /\ ref[t] = 2 /\ mMap[t] = t[1]
  BY <1>1, <1>2 DEF Located, AtTarget, Counted, Refs, Routed
<1>4. /\ target_peq'[y] = target_peq[y] \ {<<t, "internal_ph">>}
      /\ \A z \in Target : z # y => target_peq'[z] = target_peq[z]
  BY <1>1, <1>2 DEF TypeOK
<1>n. next_response_pending[y] = NULL
  <2>1. SUFFICES ASSUME next_response_pending[y] \in Trans PROVE FALSE
    BY <1>1 DEF TypeOK, Pointer
  <2>2. PICK u \in Trans : u = next_response_pending[y]
    BY <2>1
  <2>3. st[u] = "answer" /\ dest[u] = y /\ u # NULL
    BY <1>1, <2>2, Owner DEF Located, AtTarget
  <2>4. PICK v \in Trans : st[v] \in Answered /\ dest[v] = y
    BY <1>1, <2>2, <2>3 DEF Responses
  <2>5. /\ t \in InStages(st, y) /\ u \in InStages(st, y) /\ v \in InStages(st, y)
        /\ t # u /\ t # v /\ u # v
    BY <1>3, <2>3, <2>4 DEF InStages, Accepted, Answered
  <2>. QED  BY <1>1, <2>5, AtMostTwo
<1>s. PICK s \in Stage : s = IF response_in_progress[y] THEN "answer" ELSE "response"
  BY DEF Stage
<1>. DEFINE nx == [st EXCEPT ![t] = s]
<1>5. /\ nx \in [Trans -> Stage] /\ nx[t] = s /\ s \in {"answer", "response"}
      /\ \A u \in Trans : u # t => nx[u] = st[u]
  BY <1>1, <1>s
<1>. HIDE DEF nx
<1>6. /\ ok' \subseteq Trans
      /\ target_peq'
             \in [Target -> SUBSET (Trans \X {"BEGIN_REQ", "internal_ph", "END_RESP"})]
  BY <1>1, <1>2 DEF TypeOK
<1>7. Routed(nx)' /\ Counted(nx)' /\ Executed(nx)'
  BY <1>1, <1>2, <1>3, <1>5 DEF Routed, Counted, Refs, Executed
<1>8. Pipeline(nx)'
  <2>1. \A u \in Trans : nx[u] \in Accepted <=> st[u] \in Accepted
    BY <1>3, <1>5 DEF Accepted
  <2>. QED  BY <1>1, <1>2, <2>1, PipelineKept DEF Pipeline
<1>a. CASE response_in_progress[y]
  <2>1. /\ s = "answer"
        /\ next_response_pending' = [next_response_pending EXCEPT ![y] = t]
        /\ UNCHANGED <<response_in_progress, initiator_peq, report>>
    BY <1>s, <1>n, <1>a DEF TargetExecute, MustWait
  <2>2. /\ next_response_pending'[y] = t
        /\ \A z \in Target : z # y => next_response_pending'[z] = next_response_pending[z]
    BY <1>1, <2>1 DEF TypeOK
  <2>3. TypeOK' /\ NoReport'
    BY <1>1, <1>2, <1>6, <2>1 DEF TypeOK, Pointer, NoReport
  <2>4. ASSUME NEW u \in Trans, NEW z \in Target PROVE AtTarget(nx, u, z)'
    BY <1>1, <1>2, <1>3, <1>4, <1>5, <1>n, <2>1, <2>2, Owner DEF Located, AtTarget
  <2>5. ASSUME NEW u \in Trans, NEW x \in Initiator PROVE AtInitiator(nx, u, x)'
    BY <1>1, <1>2, <1>3, <1>5, <2>1 DEF Located, AtInitiator
  <2>6. Requests(nx)'
    <3>1. \A u \in Trans : nx[u] \in Unaccepted <=> st[u] \in Unaccepted
      BY <1>3, <1>5 DEF Unaccepted
    <3>. QED  BY <1>1, <1>2, <2>1, <3>1 DEF Requests
  <2>7. Responses(nx)'
    <3>1. \A u \in Trans : nx[u] \in Answered <=> st[u] \in Answered
      BY <1>3, <1>5, <2>1 DEF Answered
    <3>. QED  BY <1>1, <1>2, <1>a, <2>1, <2>2, <3>1 DEF Responses
  <2>. QED
    BY <1>5, <1>7, <1>8, <2>3, <2>4, <2>5, <2>6, <2>7 DEF IInv, Inv, Located
<1>b. CASE ~response_in_progress[y]
  <2>h. PICK x \in Initiator : x = t[1]
    BY Owner
  <2>1. /\ s = "response"
        /\ response_in_progress' = [response_in_progress EXCEPT ![y] = TRUE]
        /\ initiator_peq' = [initiator_peq EXCEPT ![x] = @ \cup {<<t, "BEGIN_RESP">>}]
        /\ UNCHANGED <<next_response_pending, report>>
    BY <1>s, <1>3, <1>b, <2>h DEF TargetExecute, MustWait, Queued, Home
  <2>2. /\ response_in_progress'[y] = TRUE
        /\ initiator_peq'[x] = initiator_peq[x] \cup {<<t, "BEGIN_RESP">>}
        /\ \A z \in Target : z # y => response_in_progress'[z] = response_in_progress[z]
        /\ \A z \in Initiator : z # x => initiator_peq'[z] = initiator_peq[z]
    BY <1>1, <2>1 DEF TypeOK
  <2>3. TypeOK' /\ NoReport'
    BY <1>1, <1>2, <1>6, <2>1 DEF TypeOK, NoReport
  <2>4. ASSUME NEW u \in Trans, NEW z \in Target PROVE AtTarget(nx, u, z)'
    BY <1>1, <1>2, <1>3, <1>4, <1>5, <2>1 DEF Located, AtTarget
  <2>5. ASSUME NEW u \in Trans, NEW z \in Initiator PROVE AtInitiator(nx, u, z)'
    BY <1>1, <1>2, <1>3, <1>5, <2>h, <2>1, <2>2 DEF Located, AtInitiator
  <2>6. Requests(nx)'
    <3>1. \A u \in Trans : nx[u] \in Unaccepted <=> st[u] \in Unaccepted
      BY <1>3, <1>5 DEF Unaccepted
    <3>2. \A z \in Initiator, u \in Trans :
             <<u, "END_REQ">> \in initiator_peq'[z] <=> <<u, "END_REQ">> \in initiator_peq[z]
      BY <2>2
    <3>. QED  BY <1>1, <1>2, <3>1, <3>2 DEF Requests
  <2>7. Responses(nx)'
    <3>1. \A u \in Trans : ~(st[u] \in Answered /\ dest[u] = y)
      BY <1>1, <1>b DEF Responses
    <3>2. \A u \in Trans : nx[u] \in Answered <=> st[u] \in Answered \/ u = t
      BY <1>5, <2>1 DEF Answered
    <3>. QED  BY <1>1, <1>2, <1>3, <2>1, <2>2, <3>1, <3>2 DEF Responses
  <2>. QED
    BY <1>5, <1>7, <1>8, <2>3, <2>4, <2>5, <2>6, <2>7 DEF IInv, Inv, Located
<1>. QED  BY <1>a, <1>b

\* A call on the backward path reaches the queue of the owner and no other.
LEMMA QueuedAdds ==
    ASSUME NEW peq \in [Initiator -> SUBSET (Trans \X {"END_REQ", "BEGIN_RESP"})],
           NEW t \in Trans, NEW ph \in {"END_REQ", "BEGIN_RESP"}, mMap[t] = t[1]
    PROVE  /\ Queued(peq, t, ph) \in [Initiator -> SUBSET (Trans \X {"END_REQ", "BEGIN_RESP"})]
           /\ \A x \in Initiator, u \in Trans, q \in {"END_REQ", "BEGIN_RESP"} :
                 <<u, q>> \in Queued(peq, t, ph)[x]
                    <=> <<u, q>> \in peq[x] \/ (u = t /\ q = ph /\ x = t[1])
<1>1. PICK h \in Initiator : h = t[1]
  BY Owner
<1>2. Queued(peq, t, ph) = [peq EXCEPT ![h] = @ \cup {<<t, ph>>}]
  BY <1>1 DEF Queued, Home
<1>3. \A x \in Initiator :
         Queued(peq, t, ph)[x] = IF x = h THEN peq[x] \cup {<<t, ph>>} ELSE peq[x]
  BY <1>2
<1>4. Queued(peq, t, ph) \in [Initiator -> SUBSET (Trans \X {"END_REQ", "BEGIN_RESP"})]
  BY <1>2
<1>. QED  BY <1>1, <1>3, <1>4

LEMMA TargetEndRespInv ==
    ASSUME NEW st, Inv(st), NEW y \in Target, NEW t \in Trans, TargetEndResp(y, t)
    PROVE  IInv'
<1>1. /\ st \in [Trans -> Stage] /\ TypeOK /\ NoReport
      /\ Located(st) /\ Routed(st) /\ Counted(st) /\ Executed(st)
      /\ Requests(st) /\ Responses(st) /\ Pipeline(st)
  BY InvParts
<1>n. PICK n \in Pointer : n = next_response_pending[y]
  BY <1>1 DEF TypeOK
<1>p. PICK p \in Pointer : p = end_req_pending[y]
  BY <1>1 DEF TypeOK
<1>2. /\ <<t, "END_RESP">> \in target_peq[y]
      /\ report' = IF response_in_progress[y] THEN report ELSE "FATAL"
      /\ ref' = [ref EXCEPT ![t] = @ - 1]
      /\ response_in_progress' = [response_in_progress EXCEPT ![y] = n # NULL]
      /\ next_response_pending' = [next_response_pending EXCEPT ![y] = NULL]
      /\ end_req_pending' = [end_req_pending EXCEPT ![y] = NULL]
      /\ n_trans' = [n_trans EXCEPT ![y] = IF p = NULL THEN @ - 1 ELSE @]
      /\ target_peq' = [target_peq EXCEPT ![y] =
                           (@ \ {<<t, "END_RESP">>}) \cup ({p} \ {NULL}) \X {"internal_ph"}]
      /\ UNCHANGED <<pc, i, trans, request_in_progress, mMap, dest, ok>>
  BY <1>n, <1>p DEF TargetEndResp, Release, initiatorVars
<1>3. st[t] = "end" /\ dest[t] = y /\ ref[t] = 1
  BY <1>1, <1>2 DEF Located, AtTarget, Counted, Refs
<1>4. /\ \A u \in Trans : u = n <=> st[u] = "answer" /\ dest[u] = y
      /\ \A u \in Trans : u = p <=> st[u] = "deferred" /\ dest[u] = y
  BY <1>1, <1>n, <1>p DEF Located, AtTarget
<1>5. /\ \A x \in Initiator, u \in Trans :
            /\ <<u, "BEGIN_RESP">> \in initiator_peq'[x]
                  <=> <<u, "BEGIN_RESP">> \in initiator_peq[x] \/ (u = n /\ x = u[1])
            /\ <<u, "END_REQ">> \in initiator_peq'[x]
                  <=> <<u, "END_REQ">> \in initiator_peq[x] \/ (u = p /\ x = u[1])
      /\ initiator_peq' \in [Initiator -> SUBSET (Trans \X {"END_REQ", "BEGIN_RESP"})]
  <2>. DEFINE answered == IF n = NULL THEN initiator_peq
                                      ELSE Queued(initiator_peq, n, "BEGIN_RESP")
  <2>1. initiator_peq' = IF p = NULL THEN answered ELSE Queued(answered, p, "END_REQ")
    BY <1>n, <1>p DEF TargetEndResp
  <2>2. /\ n # NULL => n \in Trans /\ mMap[n] = n[1]
        /\ p # NULL => p \in Trans /\ mMap[p] = p[1]
    BY <1>1, <1>4 DEF Pointer, Routed
  <2>3. /\ answered \in [Initiator -> SUBSET (Trans \X {"END_REQ", "BEGIN_RESP"})]
        /\ \A x \in Initiator, u \in Trans, q \in {"END_REQ", "BEGIN_RESP"} :
              <<u, q>> \in answered[x]
                 <=> <<u, q>> \in initiator_peq[x]
                       \/ (u = n /\ q = "BEGIN_RESP" /\ x = n[1])
    <3>1. CASE n = NULL
      BY <1>1, <3>1, Owner DEF TypeOK
    <3>2. CASE n # NULL
      BY <1>1, <2>2, <3>2, QueuedAdds DEF TypeOK
    <3>. QED  BY <3>1, <3>2
  <2>. HIDE DEF answered
  <2>4. /\ initiator_peq' \in [Initiator -> SUBSET (Trans \X {"END_REQ", "BEGIN_RESP"})]
        /\ \A x \in Initiator, u \in Trans, q \in {"END_REQ", "BEGIN_RESP"} :
              <<u, q>> \in initiator_peq'[x]
                 <=> <<u, q>> \in answered[x] \/ (u = p /\ q = "END_REQ" /\ x = p[1])
    <3>1. CASE p = NULL
      BY <2>1, <2>3, <3>1, Owner
    <3>2. CASE p # NULL
      BY <2>1, <2>2, <2>3, <3>2, QueuedAdds
    <3>. QED  BY <3>1, <3>2
  <2>5. "END_REQ" # "BEGIN_RESP"
    OBVIOUS
  <2>. QED  BY <2>3, <2>4, <2>5
<1>6. /\ response_in_progress'[y] = (n # NULL)
      /\ next_response_pending'[y] = NULL /\ end_req_pending'[y] = NULL
      /\ n_trans'[y] = IF p = NULL THEN n_trans[y] - 1 ELSE n_trans[y]
      /\ target_peq'[y] = (target_peq[y] \ {<<t, "END_RESP">>})
                             \cup ({p} \ {NULL}) \X {"internal_ph"}
      /\ ref'[t] = 0
      /\ \A z \in Target : z # y => /\ response_in_progress'[z] = response_in_progress[z]
                                    /\ next_response_pending'[z] = next_response_pending[z]
                                    /\ end_req_pending'[z] = end_req_pending[z]
                                    /\ n_trans'[z] = n_trans[z]
                                    /\ target_peq'[z] = target_peq[z]
      /\ \A u \in Trans : u # t => ref'[u] = ref[u]
  BY <1>1, <1>2, <1>3 DEF TypeOK
<1>. DEFINE nx == [u \in Trans |-> IF u = t THEN "free"
                                   ELSE IF u = n THEN "response"
                                   ELSE IF u = p THEN "execute" ELSE st[u]]
<1>7. /\ nx \in [Trans -> Stage] /\ nx[t] = "free"
      /\ \A u \in Trans : u # t /\ u = n => nx[u] = "response"
      /\ \A u \in Trans : u # t /\ u # n /\ u = p => nx[u] = "execute"
      /\ \A u \in Trans : u # t /\ u # n /\ u # p => nx[u] = st[u]
  BY <1>1 DEF Stage
<1>. HIDE DEF nx
<1>8. t # n /\ t # p /\ (n \in Trans => n # p)
  BY <1>3, <1>4
<1>9. report' = report
  BY <1>1, <1>2, <1>3 DEF Responses, Answered
<1>10. /\ IsFiniteSet(InStages(nx, y)')
       /\ n_trans'[y] = Cardinality(InStages(nx, y)')
       /\ n_trans'[y] <= 2 /\ n_trans'[y] \in Nat
  <2>1. /\ st[t] \in Accepted /\ dest[t] = y /\ nx[t] \notin Accepted /\ dest' = dest
        /\ \A u \in Trans : u # t /\ u # p => (nx[u] \in Accepted <=> st[u] \in Accepted)
    BY <1>2, <1>3, <1>4, <1>7 DEF Accepted
  <2>2. CASE p = NULL
    <3>1. \A u \in Trans : u # p
      BY <2>2, Owner
    <3>. QED  BY <1>1, <1>6, <2>1, <2>2, <3>1, PipelineLeaves
  <2>3. CASE p # NULL
    <3>1. /\ p \in Trans /\ st[p] \notin Accepted /\ dest[p] = y /\ nx[p] \in Accepted
          /\ n_trans[y] \in Nat
      BY <1>1, <1>4, <1>7, <1>8, <2>3 DEF Pointer, Accepted, TypeOK
    <3>. QED  BY <1>1, <1>6, <2>1, <2>3, <3>1, PipelineSwaps
  <2>. QED  BY <2>2, <2>3
<1>11. Pipeline(nx)'
  <2>1. ASSUME NEW z \in Target, z # y
        PROVE  /\ IsFiniteSet(InStages(nx, z)')
               /\ n_trans'[z] = Cardinality(InStages(nx, z)')
               /\ n_trans'[z] <= 2
    <3>1. \A u \in Trans : nx[u] \in Accepted /\ dest'[u] = z
                               <=> st[u] \in Accepted /\ dest[u] = z
      BY <1>2, <1>3, <1>4, <1>7, <2>1
    <3>. QED  BY <1>1, <1>6, <2>1, <3>1, PipelineKept
  <2>. QED  BY <1>10, <2>1 DEF Pipeline
<1>12. TypeOK' /\ NoReport'
  <2>1. /\ ref' \in [Trans -> 0 .. 2]
        /\ response_in_progress' \in [Target -> BOOLEAN]
        /\ next_response_pending' \in [Target -> Pointer]
        /\ end_req_pending' \in [Target -> Pointer]
    BY <1>1, <1>2, <1>3 DEF TypeOK, Pointer
  <2>2. n_trans' \in [Target -> Nat]
    BY <1>1, <1>2, <1>6, <1>10 DEF TypeOK
  <2>3. target_peq' \in [Target -> SUBSET (Trans \X {"BEGIN_REQ", "internal_ph", "END_RESP"})]
    BY <1>1, <1>2 DEF TypeOK, Pointer
  <2>. QED  BY <1>1, <1>2, <1>5, <1>9, <2>1, <2>2, <2>3 DEF TypeOK, NoReport
<1>13. ASSUME NEW u \in Trans, NEW z \in Target PROVE AtTarget(nx, u, z)'
  <2>1. AtTarget(st, u, z)
    BY <1>1, <1>13 DEF Located
  <2>2. CASE z # y
    BY <1>2, <1>3, <1>4, <1>6, <1>7, <1>13, <2>1, <2>2 DEF AtTarget
  <2>3. CASE z = y
    <3>1. \A q \in {"BEGIN_REQ", "internal_ph", "END_RESP"} :
             <<u, q>> \in target_peq'[y]
                <=> \/ <<u, q>> \in target_peq[y] /\ ~(u = t /\ q = "END_RESP")
                    \/ u = p /\ q = "internal_ph"
      BY <1>6, Owner
    <3>2. u # end_req_pending'[y] /\ u # next_response_pending'[y]
      BY <1>6, Owner
    <3>. QED  BY <1>2, <1>3, <1>4, <1>7, <1>8, <1>13, <2>1, <2>3, <3>1, <3>2 DEF AtTarget
  <2>. QED  BY <2>2, <2>3
<1>14. ASSUME NEW u \in Trans, NEW x \in Initiator PROVE AtInitiator(nx, u, x)'
  <2>1. AtInitiator(st, u, x)
    BY <1>1, <1>14 DEF Located
  <2>2. <<u, "BEGIN_RESP">> \in initiator_peq'[x] <=> nx[u] = "response" /\ u[1] = x
    BY <1>3, <1>4, <1>5, <1>7, <1>8, <1>14, <2>1 DEF AtInitiator
  <2>3. u = trans'[x] <=> nx[u] = "held" /\ u[1] = x
    BY <1>2, <1>3, <1>4, <1>7, <1>14, <2>1 DEF AtInitiator
  <2>4. <<u, "END_REQ">> \in initiator_peq'[x]
           => /\ u[1] = x /\ nx[u] \in {"execute", "answer", "response"}
              /\ u = request_in_progress'[x]
    <3>1. CASE u = p
      BY <1>1, <1>2, <1>4, <1>5, <1>7, <1>8, <1>14, <2>1, <3>1
         DEF AtInitiator, Requests, Unaccepted
    <3>2. CASE u # p
      BY <1>2, <1>3, <1>4, <1>5, <1>7, <1>14, <2>1, <3>2 DEF AtInitiator
    <3>. QED  BY <3>1, <3>2
  <2>. QED  BY <2>2, <2>3, <2>4 DEF AtInitiator
<1>15. Routed(nx)' /\ Counted(nx)' /\ Executed(nx)'
  BY <1>1, <1>2, <1>3, <1>4, <1>6, <1>7 DEF Routed, Counted, Refs, Executed
<1>16. Requests(nx)'
  <2>1. \A u \in Trans : nx[u] \in Unaccepted <=> st[u] \in Unaccepted /\ u # p
    BY <1>3, <1>4, <1>7 DEF Unaccepted
  <2>2. \A u \in Trans : nx[u] \in Unaccepted => u = request_in_progress'[u[1]]
    BY <1>1, <1>2, <2>1 DEF Requests
  <2>3. ASSUME NEW x \in Initiator, NEW u \in Trans, u = request_in_progress'[x]
        PROVE  u[1] = x /\ (nx[u] \in Unaccepted \/ <<u, "END_REQ">> \in initiator_peq'[x])
    BY <1>1, <1>2, <1>5, <2>1, <2>3 DEF Requests
  <2>4. ASSUME NEW x \in Initiator
        PROVE  /\ pc'[x] = "notified" => request_in_progress'[x] = NULL
               /\ trans'[x] = NULL <=> pc'[x] = "gap"
    BY <1>1, <1>2 DEF Requests
  <2>. QED  BY <2>2, <2>3, <2>4 DEF Requests
<1>17. Responses(nx)'
  <2>1. \A u \in Trans : nx[u] \in Answered /\ dest[u] = y <=> u = n
    BY <1>1, <1>3, <1>4, <1>7, <1>8 DEF Responses, Answered
  <2>2. \A z \in Target, u \in Trans : z # y =>
           (nx[u] \in Answered /\ dest[u] = z <=> st[u] \in Answered /\ dest[u] = z)
    BY <1>3, <1>4, <1>7
  <2>3. n # NULL => n \in Trans
    BY DEF Pointer
  <2>4. \A u \in Trans : u # NULL
    BY Owner
  <2>. DEFINE At(z) ==
         /\ \A u, v \in Trans : /\ nx[u] \in Answered /\ dest[u] = z
                                /\ nx[v] \in Answered /\ dest[v] = z
                                => u = v
         /\ response_in_progress'[z] <=> \E u \in Trans : nx[u] \in Answered /\ dest[u] = z
         /\ next_response_pending'[z] # NULL => response_in_progress'[z]
  <2>5. At(y)
    <3>1. response_in_progress'[y] <=> \E u \in Trans : u = n
      BY <1>6, <2>3, <2>4
    <3>2. next_response_pending'[y] = NULL
      BY <1>6
    <3>. QED  BY <2>1, <3>1, <3>2
  <2>6. ASSUME NEW z \in Target, z # y PROVE At(z)
    BY <1>1, <1>6, <2>2, <2>6 DEF Responses
  <2>7. \A z \in Target : At(z)
    BY <2>5, <2>6
  <2>8. dest' = dest
    BY <1>2
  <2>. QED  BY <2>7, <2>8 DEF Responses
<1>. QED
  BY <1>7, <1>11, <1>12, <1>13, <1>14, <1>15, <1>16, <1>17 DEF IInv, Inv, Located

LEMMA InvInductive == IInv /\ [Next]_vars => IInv'
<1>. SUFFICES ASSUME NEW st, Inv(st), [Next]_vars PROVE IInv'
  BY DEF IInv
<1>1. CASE UNCHANGED vars
  <2>1. UNCHANGED <<pc, i, trans, request_in_progress, initiator_peq, mMap, n_trans,
                    response_in_progress, next_response_pending, end_req_pending,
                    target_peq, dest, ref, ok, report>>
    BY <1>1 DEF vars, initiatorVars, targetVars
  <2>2. /\ TypeOK' /\ NoReport' /\ Routed(st)' /\ Counted(st)' /\ Executed(st)'
        /\ Requests(st)' /\ Responses(st)'
    BY <2>1, InvParts DEF TypeOK, NoReport, Routed, Counted, Executed, Requests, Responses
  <2>3. Located(st)'
    BY <2>1, InvParts DEF Located, AtTarget, AtInitiator
  <2>4. Pipeline(st)'
    BY <2>1, InvParts, PipelineKept DEF Pipeline
  <2>. QED  BY <2>2, <2>3, <2>4, InvParts DEF IInv, Inv
<1>2. ASSUME NEW x \in Initiator, InitiatorStep(x)
      PROVE  IInv'
  BY <1>2, ResumeInv, GenerateInv, InitiatorEndReqInv, InitiatorBeginRespInv
     DEF InitiatorStep
<1>3. ASSUME NEW y \in Target, TargetStep(y)
      PROVE  IInv'
  BY <1>3, TargetBeginReqInv, TargetExecuteInv, TargetEndRespInv DEF TargetStep
<1>. QED  BY <1>1, <1>2, <1>3 DEF Next, Finished

LEMMA InvAlways == Spec => []IInv
<1>. QED  BY InitInv, InvInductive, PTL DEF Spec

-----------------------------------------------------------------------------
(***************************************************************************)
(* What the invariant says of the bus.                                     *)
(***************************************************************************)

\* Every variable keeps its type: no transaction ever has more than two references,
\* and each side is called only with phases it handles.
THEOREM TypeCorrect == Spec => []TypeOK
<1>1. IInv => TypeOK
  BY DEF IInv, Inv
<1>. QED  BY <1>1, InvAlways, PTL

\* The simulation never stops on a report, whatever the number of initiators that
\* feed a target: a third response is never put off, and no END_RESP comes without
\* a response (the SC_REPORT_FATALs of Target::peq_cb).
THEOREM NeverReports == Spec => []NoReport
<1>1. IInv => NoReport
  BY DEF IInv, Inv
<1>. QED  BY <1>1, InvAlways, PTL

\* Whoever waits has something to wait for: a request is put off only while the
\* pipeline is full, and a thread waits only while a request is open.
Owed == /\ \A y \in Target : end_req_pending[y] # NULL => n_trans[y] = 2
        /\ \A x \in Initiator : pc[x] = "wait_end_request" => request_in_progress[x] # NULL

LEMMA OwedStep ==
    ASSUME IInv, Owed, [Next]_vars
    PROVE  Owed'
<1>p. TypeOK
  BY DEF IInv, Inv
<1>1. ASSUME NEW x \in Initiator, NEW t \in Trans, Generate(x, t) PROVE Owed'
  <2>1. \A z \in Initiator : pc'[z] = "wait_end_request" => request_in_progress'[z] # NULL
    BY <1>p, <1>1, Owner DEF Owed, Generate, RequestOpen, SendBeginReq, TypeOK
  <2>. QED  BY <1>1, <2>1 DEF Owed, Generate, targetVars
<1>2. ASSUME NEW x \in Initiator, Resume(x) PROVE Owed'
  BY <1>p, <1>2 DEF Owed, Resume, SendBeginReq, targetVars, TypeOK
<1>3. ASSUME NEW x \in Initiator, NEW t \in Trans, InitiatorEndReq(x, t) PROVE Owed'
  BY <1>p, <1>3 DEF Owed, InitiatorEndReq, EndRequest, targetVars, TypeOK
<1>4. ASSUME NEW x \in Initiator, NEW t \in Trans, InitiatorBeginResp(x, t) PROVE Owed'
  BY <1>p, <1>4 DEF Owed, InitiatorBeginResp, EndRequest, targetVars, TypeOK
<1>5. ASSUME NEW y \in Target, NEW t \in Trans, TargetBeginReq(y, t) PROVE Owed'
  BY <1>p, <1>5 DEF Owed, TargetBeginReq, PipelineFull, initiatorVars, TypeOK
<1>6. ASSUME NEW y \in Target, NEW t \in Trans, TargetExecute(y, t) PROVE Owed'
  BY <1>6 DEF Owed, TargetExecute, initiatorVars
<1>7. ASSUME NEW y \in Target, NEW t \in Trans, TargetEndResp(y, t) PROVE Owed'
  BY <1>p, <1>7 DEF Owed, TargetEndResp, initiatorVars, TypeOK
<1>8. CASE UNCHANGED vars
  BY <1>8 DEF Owed, vars, initiatorVars, targetVars
<1>. QED
  BY <1>1, <1>2, <1>3, <1>4, <1>5, <1>6, <1>7, <1>8
     DEF Next, InitiatorStep, TargetStep, Finished

LEMMA OwedAlways == Spec => []Owed
<1>1. Init => Owed
  BY DEF Init, Owed
<1>. QED  BY <1>1, OwedStep, InvAlways, PTL DEF Spec

\* At each target n_trans counts exactly the transactions between their acceptance
\* and their end, is never above two, and one response is open; a request is put
\* off only behind two.
THEOREM PipelineCorrect == Spec => []PipelineCount
<1>1. IInv /\ Owed => PipelineCount
  <2>. SUFFICES ASSUME Owed, NEW st, Inv(st), NEW y \in Target
                PROVE  /\ n_trans[y] = Cardinality(InPipeline(y))
                       /\ n_trans[y] <= 2
                       /\ Cardinality(Responding(y)) <= 1
                       /\ end_req_pending[y] # NULL => n_trans[y] = 2
    BY DEF IInv, PipelineCount
  <2>p. /\ TypeOK /\ Located(st) /\ Routed(st) /\ Counted(st)
        /\ Requests(st) /\ Responses(st) /\ Pipeline(st)
    BY InvParts
  <2>1. ASSUME NEW t \in Trans
        PROVE  t \in Responding(y) <=> st[t] \in Answered /\ dest[t] = y
    <3>1. <<t, "BEGIN_RESP">> \in initiator_peq[t[1]] <=> st[t] = "response"
      BY <2>p, AtOwner DEF AtInitiator
    <3>2. <<t, "END_RESP">> \in target_peq[y] <=> st[t] = "end" /\ dest[t] = y
      BY <2>p DEF Located, AtTarget
    <3>. QED  BY <3>1, <3>2 DEF Responding, Answered
  <2>2. InPipeline(y) = InStages(st, y)
    <3>1. Responding(y) \subseteq Trans
      BY DEF Responding
    <3>2. ASSUME NEW t \in Trans PROVE t \in InPipeline(y) <=> t \in InStages(st, y)
      <4>1. /\ <<t, "internal_ph">> \in target_peq[y] <=> st[t] = "execute" /\ dest[t] = y
            /\ t = next_response_pending[y] <=> st[t] = "answer" /\ dest[t] = y
        BY <2>p DEF Located, AtTarget
      <4>. QED  BY <2>1, <4>1 DEF InPipeline, InStages, Accepted, Answered
    <3>. QED  BY <3>1, <3>2 DEF InPipeline, InStages
  <2>3. Cardinality(Responding(y)) <= 1
    <3>1. \A t, u \in Responding(y) : t = u
      BY <2>1, <2>p DEF Responses, Responding
    <3>2. CASE Responding(y) = {}
      BY <3>2, FS_EmptySet
    <3>3. CASE Responding(y) # {}
      <4>1. PICK t : Responding(y) = {t}
        BY <3>1, <3>3
      <4>2. Cardinality(Responding(y)) = 1
        BY <4>1, FS_Singleton
      <4>. QED  BY <4>2
    <3>. QED  BY <3>2, <3>3
  <2>. QED  BY <2>2, <2>3, <2>p DEF Pipeline, Owed
<1>. QED  BY <1>1, InvAlways, OwedAlways, PTL

\* An initiator has one request open: whatever it sent and has not seen accepted is
\* its request_in_progress.
THEOREM OneRequestEach == Spec => []RequestExclusion
<1>1. IInv => RequestExclusion
  <2>. SUFFICES ASSUME NEW st, Inv(st), NEW t \in Trans,
                       \/ \E y \in Target : \/ <<t, "BEGIN_REQ">> \in target_peq[y]
                                            \/ t = end_req_pending[y]
                       \/ <<t, "END_REQ">> \in initiator_peq[t[1]]
                PROVE  t = request_in_progress[t[1]]
    BY DEF IInv, RequestExclusion
  <2>p. /\ TypeOK /\ Located(st) /\ Routed(st) /\ Counted(st)
        /\ Requests(st) /\ Responses(st) /\ Pipeline(st)
    BY InvParts
  <2>1. CASE <<t, "END_REQ">> \in initiator_peq[t[1]]
    BY <2>p, <2>1, AtOwner DEF AtInitiator
  <2>2. ASSUME NEW y \in Target, <<t, "BEGIN_REQ">> \in target_peq[y] \/ t = end_req_pending[y]
        PROVE  t = request_in_progress[t[1]]
    BY <2>p, <2>2 DEF Located, AtTarget, Requests, Unaccepted
  <2>. QED  BY <2>1, <2>2
<1>. QED  BY <1>1, InvAlways, PTL

\* Nothing an initiator or a target can still reach has been given back to its
\* memory manager.
THEOREM NoReferenceDangles == Spec => []NoDanglingReference
<1>1. IInv => NoDanglingReference
  <2>. SUFFICES ASSUME NEW st, Inv(st) PROVE NoDanglingReference
    BY DEF IInv
  <2>p. /\ TypeOK /\ Located(st) /\ Routed(st) /\ Counted(st)
        /\ Requests(st) /\ Responses(st) /\ Pipeline(st)
    BY InvParts
  <2>1. \A t \in Trans : st[t] # "free" => ref[t] > 0
    BY <2>p DEF Counted, Refs
  <2>2. ASSUME NEW x \in Initiator, NEW t \in {trans[x], request_in_progress[x]} \ {NULL}
        PROVE  ref[t] > 0
    <3>1. t \in Trans /\ (t = trans[x] \/ t = request_in_progress[x])
      BY <2>2, <2>p DEF TypeOK, Pointer
    <3>2. st[t] # "free"
      BY <2>2, <3>1, <2>p DEF Located, AtInitiator, Requests, Unaccepted
    <3>. QED  BY <2>1, <3>1, <3>2
  <2>3. ASSUME NEW x \in Initiator, NEW e \in initiator_peq[x]
        PROVE  ref[e[1]] > 0
    <3>1. PICK t \in Trans, ph \in {"END_REQ", "BEGIN_RESP"} : e = <<t, ph>>
      BY <2>3, <2>p DEF TypeOK
    <3>2. st[t] # "free"
      BY <2>3, <3>1, <2>p DEF Located, AtInitiator
    <3>. QED  BY <2>1, <3>1, <3>2
  <2>4. ASSUME NEW y \in Target,
               NEW t \in {next_response_pending[y], end_req_pending[y]} \ {NULL}
        PROVE  ref[t] > 0
    <3>1. t \in Trans /\ (t = next_response_pending[y] \/ t = end_req_pending[y])
      BY <2>4, <2>p DEF TypeOK, Pointer
    <3>2. st[t] # "free"
      BY <2>4, <3>1, <2>p DEF Located, AtTarget
    <3>. QED  BY <2>1, <3>1, <3>2
  <2>5. ASSUME NEW y \in Target, NEW e \in target_peq[y]
        PROVE  ref[e[1]] > 0
    <3>1. PICK t \in Trans, ph \in {"BEGIN_REQ", "internal_ph", "END_RESP"} : e = <<t, ph>>
      BY <2>5, <2>p DEF TypeOK
    <3>2. st[t] # "free"
      BY <2>5, <3>1, <2>p DEF Located, AtTarget
    <3>. QED  BY <2>1, <3>1, <3>2
  <2>. QED  BY <2>2, <2>3, <2>4, <2>5 DEF NoDanglingReference
<1>. QED  BY <1>1, InvAlways, PTL

-----------------------------------------------------------------------------
(***************************************************************************)
(* What becomes of a request put off that the next one overwrites.         *)
(***************************************************************************)

LEMMA OverwrittenIsLost ==
    ASSUME NEW st, Inv(st), NEW t \in Trans
    PROVE  Overwritten(t) <=> st[t] = "lost"
<1>p. Located(st) /\ Routed(st) /\ Requests(st)
  BY InvParts
<1>o. /\ AtInitiator(st, t, t[1])
      /\ t = request_in_progress[t[1]]
            => st[t] \in Unaccepted \/ <<t, "END_REQ">> \in initiator_peq[t[1]]
  BY <1>p, AtOwner
<1>1. CASE Overwritten(t)
  <2>1. st[t] \in Unaccepted
    BY <1>1, <1>o DEF Overwritten
  <2>2. st[t] # "deferred" /\ st[t] # "request"
    <3>. SUFFICES ASSUME st[t] \in {"deferred", "request"} PROVE FALSE
      OBVIOUS
    <3>1. PICK y \in Target : y = dest[t]
      BY <1>p DEF Routed
    <3>2. AtTarget(st, t, y)
      BY <1>p DEF Located
    <3>. QED  BY <1>1, <3>1, <3>2 DEF Overwritten, AtTarget
  <2>. QED  BY <1>1, <2>1, <2>2 DEF Unaccepted
<1>2. CASE st[t] = "lost"
  <2>1. t = request_in_progress[t[1]]
    BY <1>2, <1>p DEF Requests, Unaccepted
  <2>2. \A y \in Target : <<t, "BEGIN_REQ">> \notin target_peq[y] /\ t # end_req_pending[y]
    BY <1>2, <1>p DEF Located, AtTarget
  <2>3. <<t, "END_REQ">> \notin initiator_peq[t[1]]
    BY <1>2, <1>o, Owner DEF AtInitiator
  <2>. QED  BY <1>2, <2>1, <2>2, <2>3 DEF Overwritten
<1>. QED  BY <1>1, <1>2

LEMMA StuckStep ==
    ASSUME NEW st, Inv(st), [Next]_vars, NEW x \in Initiator, Stuck(x)
    PROVE  Stuck(x)'
<1>1. PICK t \in Trans : t[1] = x /\ Overwritten(t)
  BY DEF Stuck
<1>2. /\ st[t] = "lost" /\ pc[x] = "wait_end_request" /\ t = request_in_progress[x] /\ t # NULL
      /\ \A y \in Target : <<t, "BEGIN_REQ">> \notin target_peq[y] /\ t # end_req_pending[y]
      /\ <<t, "END_REQ">> \notin initiator_peq[x]
  BY <1>1, OverwrittenIsLost, Owner DEF Overwritten, Stuck
<1>. SUFFICES /\ pc'[x] = "wait_end_request" /\ t = request_in_progress'[x]
              /\ \A y \in Target : <<t, "BEGIN_REQ">> \notin target_peq'[y] /\ t # end_req_pending'[y]
              /\ <<t, "END_REQ">> \notin initiator_peq'[x]
  BY <1>1 DEF Stuck, Overwritten
<1>3. /\ TypeOK /\ Located(st) /\ Routed(st) /\ Counted(st) /\ Requests(st)
  BY InvParts
<1>4. ASSUME NEW z \in Initiator, NEW u \in Trans, Generate(z, u)
      PROVE  /\ pc'[x] = "wait_end_request" /\ t = request_in_progress'[x]
             /\ \A y \in Target : /\ <<t, "BEGIN_REQ">> \notin target_peq'[y]
                                  /\ t # end_req_pending'[y]
             /\ <<t, "END_REQ">> \notin initiator_peq'[x]
  <2>1. z # x /\ u # t
    BY <1>2, <1>3, <1>4 DEF Generate, Counted, Refs
  <2>2. PICK d \in Target : dest'[u] = d
    BY <1>3, <1>4 DEF Generate, TypeOK
  <2>. QED
    BY <1>2, <1>3, <1>4, <2>1, <2>2 DEF Generate, SendBeginReq, Forward, targetVars, TypeOK
<1>5. ASSUME NEW z \in Initiator, Resume(z)
      PROVE  /\ pc'[x] = "wait_end_request" /\ t = request_in_progress'[x]
             /\ \A y \in Target : /\ <<t, "BEGIN_REQ">> \notin target_peq'[y]
                                  /\ t # end_req_pending'[y]
             /\ <<t, "END_REQ">> \notin initiator_peq'[x]
  <2>1. z # x /\ trans[z] # t
    BY <1>2, <1>3, <1>5 DEF Resume, Located, AtInitiator
  <2>. QED
    BY <1>2, <1>3, <1>5, <2>1 DEF Resume, SendBeginReq, Forward, targetVars, TypeOK
<1>6. ASSUME NEW z \in Initiator, NEW u \in Trans,
             InitiatorEndReq(z, u) \/ InitiatorBeginResp(z, u)
      PROVE  /\ pc'[x] = "wait_end_request" /\ t = request_in_progress'[x]
             /\ \A y \in Target : /\ <<t, "BEGIN_REQ">> \notin target_peq'[y]
                                  /\ t # end_req_pending'[y]
             /\ <<t, "END_REQ">> \notin initiator_peq'[x]
  <2>1. u # t
    BY <1>2, <1>3, <1>6 DEF InitiatorEndReq, InitiatorBeginResp, EndRequest, EndReqFirst, Located, AtInitiator
  <2>2. CASE InitiatorEndReq(z, u)
    <3>1. z # x
      BY <1>2, <1>3, <2>1, <2>2 DEF InitiatorEndReq, EndRequest, Located, AtInitiator
    <3>. QED  BY <1>2, <1>3, <2>2, <3>1 DEF InitiatorEndReq, EndRequest, targetVars, TypeOK
  <2>3. CASE InitiatorBeginResp(z, u)
    <3>1. u # request_in_progress[x]
      BY <1>2, <2>1
    <3>2. UNCHANGED end_req_pending /\ <<t, "END_REQ">> \notin initiator_peq'[x]
      BY <1>2, <1>3, <2>3 DEF InitiatorBeginResp, EndRequest, targetVars, TypeOK
    <3>3. pc'[x] = pc[x] /\ request_in_progress'[x] = request_in_progress[x]
      BY <1>3, <2>3, <3>1 DEF InitiatorBeginResp, EndRequest, TypeOK
    <3>4. \A y \in Target : <<t, "BEGIN_REQ">> \notin target_peq'[y]
      BY <1>2, <1>3, <2>3 DEF InitiatorBeginResp, Forward, TypeOK
    <3>. QED  BY <1>2, <3>2, <3>3, <3>4
  <2>. QED  BY <1>6, <2>2, <2>3
<1>7. ASSUME NEW y \in Target, NEW u \in Trans,
             TargetBeginReq(y, u) \/ TargetExecute(y, u) \/ TargetEndResp(y, u)
      PROVE  /\ pc'[x] = "wait_end_request" /\ t = request_in_progress'[x]
             /\ \A z \in Target : /\ <<t, "BEGIN_REQ">> \notin target_peq'[z]
                                  /\ t # end_req_pending'[z]
             /\ <<t, "END_REQ">> \notin initiator_peq'[x]
  <2>1. UNCHANGED <<pc, request_in_progress>>
    BY <1>7 DEF TargetBeginReq, TargetExecute, TargetEndResp, initiatorVars
  <2>2. u # t
    BY <1>2, <1>3, <1>7 DEF TargetBeginReq, TargetExecute, TargetEndResp, Located, AtTarget
  <2>3. CASE TargetBeginReq(y, u)
    <3>1. mMap[u] = u[1] /\ u[1] \in Initiator
      BY <1>3, <2>3, Owner DEF TargetBeginReq, Located, AtTarget, Routed
    <3>. QED
      BY <1>2, <1>3, <2>1, <2>2, <2>3, <3>1 DEF TargetBeginReq, Queued, Home, TypeOK
  <2>4. CASE TargetExecute(y, u)
    BY <1>2, <1>3, <2>1, <2>2, <2>4 DEF TargetExecute, Queued, Home, TypeOK
  <2>5. CASE TargetEndResp(y, u)
    <3>1. /\ \A z \in Target : end_req_pending'[z] \in {NULL, end_req_pending[z]}
          /\ \A z \in Target : <<t, "BEGIN_REQ">> \notin target_peq'[z]
      BY <1>2, <1>3, <2>5 DEF TargetEndResp, TypeOK
    <3>2. <<t, "END_REQ">> \notin initiator_peq'[x]
      BY <1>2, <1>3, <2>5 DEF TargetEndResp, Queued, Home, TypeOK
    <3>. QED  BY <1>2, <2>1, <3>1, <3>2
  <2>. QED  BY <1>7, <2>3, <2>4, <2>5
<1>8. CASE UNCHANGED vars
  BY <1>2, <1>8 DEF vars, initiatorVars, targetVars
<1>. QED
  BY <1>4, <1>5, <1>6, <1>7, <1>8 DEF Next, InitiatorStep, TargetStep, Finished

\* An initiator that waits behind an overwritten request waits for ever: no later
\* event of any initiator or target wakes its thread (the room for one request put
\* off, Target.h:82-84, is one too few when several initiators share a target).
THEOREM StuckForEver ==
    ASSUME NEW x \in Initiator
    PROVE  Spec => [](Stuck(x) => []Stuck(x))
<1>1. IInv /\ [Next]_vars /\ Stuck(x) => Stuck(x)'
  BY StuckStep DEF IInv
<1>. QED  BY <1>1, InvAlways, PTL DEF Spec

\* With one initiator in the system there is nobody to overwrite its request.
NothingOverwritten == \A t \in Trans : ~Overwritten(t)

LEMMA AloneStep ==
    ASSUME NEW st, Inv(st), NEW x, Initiator = {x}, NothingOverwritten, [Next]_vars
    PROVE  NothingOverwritten'
<1>p. TypeOK /\ Located(st) /\ Routed(st) /\ Requests(st)
  BY InvParts
<1>o. \A t \in Trans : t[1] = x /\ t # NULL
  BY Owner
<1>. SUFFICES ASSUME NEW t \in Trans, t = request_in_progress'[x],
                     \A y \in Target : /\ <<t, "BEGIN_REQ">> \notin target_peq'[y]
                                       /\ t # end_req_pending'[y],
                     <<t, "END_REQ">> \notin initiator_peq'[x]
              PROVE  FALSE
  BY <1>o DEF NothingOverwritten, Overwritten
\* What had t in view before the step.
<1>b. ~ /\ t = request_in_progress[x]
        /\ \A y \in Target : <<t, "BEGIN_REQ">> \notin target_peq[y] /\ t # end_req_pending[y]
        /\ <<t, "END_REQ">> \notin initiator_peq[x]
  BY <1>o DEF NothingOverwritten, Overwritten
<1>1. ASSUME NEW u \in Trans, Generate(x, u) PROVE FALSE
  <2>1. PICK d \in Target : dest'[u] = d
    BY <1>p, <1>1 DEF Generate, TypeOK
  <2>2. CASE RequestOpen(x)
    BY <1>b, <1>1, <2>2 DEF Generate, targetVars
  <2>3. CASE ~RequestOpen(x)
    <3>1. request_in_progress'[x] = u /\ <<u, "BEGIN_REQ">> \in target_peq'[d]
      BY <1>p, <1>1, <2>1, <2>3 DEF Generate, SendBeginReq, Forward, TypeOK
    <3>. QED  BY <3>1
  <2>. QED  BY <2>2, <2>3
<1>2. ASSUME Resume(x) PROVE FALSE
  <2>1. trans[x] \in Trans /\ trans[x] = t
    BY <1>p, <1>2 DEF Resume, SendBeginReq, TypeOK
  <2>2. dest[t] \in Target
    BY <1>p, <2>1 DEF Located, AtInitiator, Routed
  <2>3. <<t, "BEGIN_REQ">> \in target_peq'[dest[t]]
    BY <1>p, <1>2, <2>1, <2>2 DEF Resume, SendBeginReq, Forward, TypeOK
  <2>. QED  BY <2>2, <2>3
<1>3. ASSUME NEW u \in Trans, InitiatorEndReq(x, u) PROVE FALSE
  BY <1>p, <1>o, <1>3 DEF InitiatorEndReq, EndRequest, TypeOK
<1>4. ASSUME NEW u \in Trans, InitiatorBeginResp(x, u) PROVE FALSE
  <2>1. request_in_progress[x] = t
    BY <1>p, <1>o, <1>4 DEF InitiatorBeginResp, EndRequest, EndReqFirst, TypeOK
  <2>2. /\ \A y \in Target : target_peq[y] \subseteq target_peq'[y]
        /\ UNCHANGED end_req_pending
    BY <1>p, <1>4 DEF InitiatorBeginResp, EndRequest, Forward, targetVars, TypeOK
  <2>3. <<t, "END_REQ">> \notin initiator_peq[x]
    BY <1>p, <1>4 DEF InitiatorBeginResp, EndRequest, EndReqFirst, TypeOK
  <2>. QED  BY <1>b, <2>1, <2>2, <2>3
<1>5. ASSUME NEW y \in Target, NEW u \in Trans, TargetBeginReq(y, u) PROVE FALSE
  \* The request that arrives is the only one the initiator has.
  <2>1. u = t /\ mMap[t] = x
    <3>1. st[u] = "request"
      BY <1>p, <1>5 DEF TargetBeginReq, Located, AtTarget
    <3>2. u = request_in_progress[x] /\ mMap[u] = x
      BY <1>p, <1>o, <3>1 DEF Requests, Routed, Unaccepted
    <3>. QED  BY <1>5, <3>2 DEF TargetBeginReq, initiatorVars
  <2>2. CASE PipelineFull(y)
    BY <1>p, <1>5, <2>1, <2>2 DEF TargetBeginReq, TypeOK
  <2>3. CASE ~PipelineFull(y)
    BY <1>p, <1>5, <2>1, <2>3 DEF TargetBeginReq, Queued, Home, TypeOK
  <2>. QED  BY <2>2, <2>3
<1>6. ASSUME NEW y \in Target, NEW u \in Trans, TargetExecute(y, u) PROVE FALSE
  <2>1. request_in_progress[x] = t /\ UNCHANGED end_req_pending
    BY <1>6 DEF TargetExecute, initiatorVars
  <2>2. \A z \in Target : <<t, "BEGIN_REQ">> \notin target_peq[z]
    BY <1>p, <1>6 DEF TargetExecute, TypeOK
  <2>3. <<t, "END_REQ">> \notin initiator_peq[x]
    BY <1>p, <1>6 DEF TargetExecute, Queued, Home, TypeOK
  <2>. QED  BY <1>b, <2>1, <2>2, <2>3
<1>7. ASSUME NEW y \in Target, NEW u \in Trans, TargetEndResp(y, u) PROVE FALSE
  <2>1. request_in_progress[x] = t
    BY <1>7 DEF TargetEndResp, initiatorVars
  <2>2. \A z \in Target : <<t, "BEGIN_REQ">> \notin target_peq[z]
    BY <1>p, <1>7 DEF TargetEndResp, TypeOK
  <2>3. <<t, "END_REQ">> \notin initiator_peq[x]
    BY <1>p, <1>7 DEF TargetEndResp, Queued, Home, TypeOK
  <2>4. \A z \in Target : z # y => t # end_req_pending[z]
    BY <1>p, <1>7 DEF TargetEndResp, TypeOK
  <2>5. t = end_req_pending[y]
    BY <1>b, <2>1, <2>2, <2>3, <2>4
  <2>6. mMap[t] = x
    <3>1. st[t] = "deferred"
      BY <1>p, <2>5 DEF Located, AtTarget
    <3>. QED  BY <1>p, <1>o, <3>1 DEF Routed
  <2>7. <<t, "END_REQ">> \in initiator_peq'[x]
    <3>. DEFINE answered == IF next_response_pending[y] = NULL THEN initiator_peq
                            ELSE Queued(initiator_peq, next_response_pending[y], "BEGIN_RESP")
    <3>1. initiator_peq' = Queued(answered, t, "END_REQ")
      BY <1>o, <1>7, <2>5 DEF TargetEndResp
    <3>2. x \in DOMAIN answered
      BY <1>p DEF Queued, TypeOK
    <3>. HIDE DEF answered
    <3>. QED  BY <2>6, <3>1, <3>2 DEF Queued, Home
  <2>. QED  BY <2>7
<1>8. CASE UNCHANGED vars
  BY <1>b, <1>8 DEF vars, initiatorVars, targetVars
<1>. QED
  BY <1>1, <1>2, <1>3, <1>4, <1>5, <1>6, <1>7, <1>8
     DEF Next, InitiatorStep, TargetStep, Finished

\* The other side of it: with a single initiator, on however many targets, no request
\* that was put off is ever overwritten.  The room for one is enough exactly
\* because the BEGIN_REQ rule keeps an initiator to one request (Initiator.h:71-74).
THEOREM AloneNeverOverwritten ==
    ASSUME NEW x, Initiator = {x}
    PROVE  Spec => []NothingOverwritten
<1>1. Init => NothingOverwritten
  BY Owner DEF Init, NothingOverwritten, Overwritten
<1>2. IInv /\ NothingOverwritten /\ [Next]_vars => NothingOverwritten'
  BY AloneStep DEF IInv
<1>. QED  BY <1>1, <1>2, InvAlways, PTL DEF Spec

-----------------------------------------------------------------------------
(***************************************************************************)
(* What is left when no notification is.                                   *)
(***************************************************************************)

LEMMA QuietIsIdle ==
    ASSUME NEW st, Inv(st), Owed
    PROVE  OnlyOverwrittenLost
<1>. SUFFICES ASSUME Quiet PROVE OnlyOverwrittenLost
  BY DEF OnlyOverwrittenLost
<1>p. /\ st \in [Trans -> Stage] /\ TypeOK /\ Located(st) /\ Routed(st) /\ Counted(st)
      /\ Requests(st) /\ Responses(st) /\ Pipeline(st)
  BY InvParts
<1>q. ASSUME NEW t \in Trans
      PROVE  st[t] # "request" /\ st[t] # "execute" /\ st[t] # "response" /\ st[t] # "end"
  <2>1. AtInitiator(st, t, t[1]) /\ initiator_peq[t[1]] = {}
    BY <1>p, AtOwner, Owner DEF Quiet
  <2>2. st[t] # "response"
    BY <2>1 DEF AtInitiator
  <2>3. CASE st[t] = "free"
    BY <2>3
  <2>4. CASE st[t] # "free"
    <3>1. PICK y \in Target : y = dest[t]
      BY <1>p, <2>4 DEF Routed
    <3>2. AtTarget(st, t, y) /\ target_peq[y] = {}
      BY <1>p DEF Quiet, Located
    <3>. QED  BY <2>2, <3>1, <3>2 DEF AtTarget
  <2>. QED  BY <2>3, <2>4
<1>i. ASSUME NEW y \in Target
      PROVE  /\ n_trans[y] = 0 /\ ~response_in_progress[y]
             /\ next_response_pending[y] = NULL /\ end_req_pending[y] = NULL
  <2>1. ~response_in_progress[y] /\ next_response_pending[y] = NULL
    BY <1>p, <1>q DEF Responses, Answered
  <2>2. \A u \in Trans : ~(st[u] = "answer" /\ dest[u] = y)
    BY <1>p, <2>1, Owner DEF Located, AtTarget
  <2>3. InStages(st, y) = {}
    BY <1>q, <2>2 DEF InStages, Accepted
  <2>4. n_trans[y] = 0
    BY <1>p, <2>3, FS_EmptySet DEF Pipeline
  <2>5. end_req_pending[y] = NULL
    BY <2>4 DEF Owed
  <2>. QED  BY <2>1, <2>4, <2>5
<1>1. ASSUME NEW t \in Trans PROVE st[t] \in {"free", "held", "lost"}
  <2>1. CASE st[t] = "free"
    BY <2>1
  <2>2. CASE st[t] # "free"
    <3>1. PICK y \in Target : y = dest[t]
      BY <1>p, <2>2 DEF Routed
    <3>2. AtTarget(st, t, y)
      BY <1>p DEF Located
    <3>3. st[t] # "deferred" /\ st[t] # "answer"
      BY <1>i, <3>1, <3>2, Owner DEF AtTarget
    <3>4. st[t] \in Stage
      BY <1>p
    <3>. QED  BY <1>q, <3>3, <3>4 DEF Stage
  <2>. QED  BY <2>1, <2>2
<1>3. ASSUME NEW t \in Trans, ref[t] > 0 PROVE t = trans[t[1]] \/ Overwritten(t)
  <2>1. st[t] # "free"
    BY <1>p, <1>3 DEF Counted, Refs
  <2>2. st[t] = "held" => t = trans[t[1]]
    BY <1>p, AtOwner, Owner DEF AtInitiator
  <2>. QED  BY <1>1, <2>1, <2>2, OverwrittenIsLost
<1>4. ASSUME NEW x \in Initiator, pc[x] = "wait_end_request" PROVE Stuck(x)
  <2>1. PICK t \in Trans : t = request_in_progress[x]
    BY <1>p, <1>4 DEF Owed, TypeOK, Pointer
  <2>2. t[1] = x /\ st[t] \in Unaccepted
    BY <1>p, <1>4, <2>1 DEF Requests, Quiet
  <2>3. st[t] = "lost"
    BY <1>1, <2>2 DEF Unaccepted
  <2>. QED  BY <1>4, <2>2, <2>3, OverwrittenIsLost DEF Stuck
<1>. QED  BY <1>i, <1>3, <1>4 DEF OnlyOverwrittenLost

\* Overwriting a request put off is the one thing that can be lost on the bus: whenever
\* no notification is left, every target is idle and has answered and given up all
\* that it accepted, and a thread that still waits is one that StuckForEver is
\* about.  Liveness apart, this is what finishing means here.
THEOREM QuietButForTheStuck == Spec => []OnlyOverwrittenLost
<1>1. IInv /\ Owed => OnlyOverwrittenLost
  BY QuietIsIdle DEF IInv
<1>. QED  BY <1>1, InvAlways, OwedAlways, PTL

\* With a single initiator nothing is lost: once no notification is left its thread waits
\* for nobody.
THEOREM AloneNeverWaits ==
    ASSUME NEW x, Initiator = {x}
    PROVE  Spec => [](Quiet => pc[x] # "wait_end_request")
<1>1. OnlyOverwrittenLost /\ NothingOverwritten => (Quiet => pc[x] # "wait_end_request")
  BY DEF OnlyOverwrittenLost, NothingOverwritten, Stuck
<1>. QED  BY <1>1, QuietButForTheStuck, AloneNeverOverwritten, PTL

-----------------------------------------------------------------------------
(***************************************************************************)
(* How long it takes: a measure that every step brings down.               *)
(***************************************************************************)

\* What a transaction goes through, in this order: its thread takes it up again when
\* it had to wait, and then it is in the hands of the two callbacks.
Events == {"resume", "BEGIN_REQ", "END_REQ", "internal_ph", "BEGIN_RESP", "END_RESP"}

\* Where transaction t is: in a queue of a target or of an initiator, put off, or with
\* its thread.
AtTargetAs(t, phase) == \E y \in Target : <<t, phase>> \in target_peq[y]
AtInitiatorAs(t, phase) == \E x \in Initiator : <<t, phase>> \in initiator_peq[x]
PutOff(t) == \E y \in Target : t = end_req_pending[y]
Unanswered(t) == \E y \in Target : t = next_response_pending[y]
Held(t) == \E x \in Initiator : t = trans[x]

\* The event e of t is still to come: it is queued, or it follows from what is
\* queued, put off or held.
ToCome(t, e) ==
    \/ Held(t)
    \/ AtTargetAs(t, "BEGIN_REQ") /\ e # "resume"
    \/ PutOff(t) /\ e \in {"END_REQ", "internal_ph", "BEGIN_RESP", "END_RESP"}
    \/ AtInitiatorAs(t, "END_REQ") /\ e = "END_REQ"
    \/ AtTargetAs(t, "internal_ph") /\ e \in {"internal_ph", "BEGIN_RESP", "END_RESP"}
    \/ Unanswered(t) /\ e \in {"BEGIN_RESP", "END_RESP"}
    \/ AtInitiatorAs(t, "BEGIN_RESP") /\ e \in {"BEGIN_RESP", "END_RESP"}
    \/ AtTargetAs(t, "END_RESP") /\ e = "END_RESP"

Outstanding == {p \in Trans \X Events : ToCome(p[1], p[2])}

\* The iterations each initiator has not begun, with the events of a transaction and
\* the one that generates it.
Steps == Events \cup {"generate"}
Ungenerated == {q \in Initiator \X ((1 .. NbTransactions) \X Steps) : q[2][1] > i[q[1]]}

\* What is left at most.
Remaining == Cardinality(Ungenerated) + Cardinality(Outstanding)

LEMMA OneMore ==
    ASSUME NEW S, IsFiniteSet(S), NEW x
    PROVE  /\ IsFiniteSet(S \cup {x}) /\ Cardinality(S \cup {x}) \in Nat
           /\ Cardinality(S \cup {x}) <= Cardinality(S) + 1
<1>1. Cardinality(S) \in Nat
  BY FS_CardinalityType
<1>2. /\ IsFiniteSet(S \cup {x})
      /\ Cardinality(S \cup {x}) = IF x \in S THEN Cardinality(S) ELSE Cardinality(S) + 1
  BY FS_AddElement
<1>. QED  BY <1>1, <1>2

LEMMA OneLess ==
    ASSUME NEW S, IsFiniteSet(S), NEW x \in S
    PROVE  /\ IsFiniteSet(S \ {x}) /\ Cardinality(S \ {x}) \in Nat
           /\ Cardinality(S \ {x}) = Cardinality(S) - 1
<1>1. IsFiniteSet(S \ {x}) /\ Cardinality(S \ {x}) = Cardinality(S) - 1
  BY FS_RemoveElement
<1>. QED  BY <1>1, FS_CardinalityType

\* The six events of t were added, at most.
LEMMA SixMore ==
    ASSUME IsFiniteSet(Outstanding), NEW t \in Trans,
           \A u \in Trans, f \in Events : ToCome(u, f)' => ToCome(u, f) \/ u = t
    PROVE  /\ IsFiniteSet(Outstanding') /\ Cardinality(Outstanding') \in Nat
           /\ Cardinality(Outstanding') <= Cardinality(Outstanding) + 6
<1>. DEFINE A1 == Outstanding \cup {<<t, "resume">>}
            A2 == A1 \cup {<<t, "BEGIN_REQ">>}
            A3 == A2 \cup {<<t, "END_REQ">>}
            A4 == A3 \cup {<<t, "internal_ph">>}
            A5 == A4 \cup {<<t, "BEGIN_RESP">>}
            A6 == A5 \cup {<<t, "END_RESP">>}
<1>0. Cardinality(Outstanding) \in Nat
  BY FS_CardinalityType
<1>1. IsFiniteSet(A1) /\ Cardinality(A1) \in Nat /\ Cardinality(A1) <= Cardinality(Outstanding) + 1
  BY OneMore
<1>2. IsFiniteSet(A2) /\ Cardinality(A2) \in Nat /\ Cardinality(A2) <= Cardinality(A1) + 1
  BY <1>1, OneMore
<1>3. IsFiniteSet(A3) /\ Cardinality(A3) \in Nat /\ Cardinality(A3) <= Cardinality(A2) + 1
  BY <1>2, OneMore
<1>4. IsFiniteSet(A4) /\ Cardinality(A4) \in Nat /\ Cardinality(A4) <= Cardinality(A3) + 1
  BY <1>3, OneMore
<1>5. IsFiniteSet(A5) /\ Cardinality(A5) \in Nat /\ Cardinality(A5) <= Cardinality(A4) + 1
  BY <1>4, OneMore
<1>6. IsFiniteSet(A6) /\ Cardinality(A6) \in Nat /\ Cardinality(A6) <= Cardinality(A5) + 1
  BY <1>5, OneMore
<1>7. Outstanding' \subseteq A6
  BY DEF Outstanding, Events
<1>. HIDE DEF A1, A2, A3, A4, A5, A6
<1>8. IsFiniteSet(Outstanding') /\ Cardinality(Outstanding') <= Cardinality(A6)
  BY <1>6, <1>7, FS_Subset
<1>9. Cardinality(Outstanding') \in Nat
  BY <1>8, FS_CardinalityType
<1>. QED  BY <1>0, <1>1, <1>2, <1>3, <1>4, <1>5, <1>6, <1>8, <1>9

\* An iteration of initiator x has begun: its seven steps are no longer ahead.
LEMMA SevenLess ==
    ASSUME IsFiniteSet(Ungenerated), NEW x \in Initiator, i \in [Initiator -> 0 .. NbTransactions],
           i[x] < NbTransactions, i' = [i EXCEPT ![x] = @ + 1]
    PROVE  /\ IsFiniteSet(Ungenerated') /\ Cardinality(Ungenerated') \in Nat
           /\ Cardinality(Ungenerated') <= Cardinality(Ungenerated) - 7
<1>. DEFINE k == i[x] + 1
            A1 == Ungenerated \ {<<x, <<k, "resume">>>>}
            A2 == A1 \ {<<x, <<k, "BEGIN_REQ">>>>}
            A3 == A2 \ {<<x, <<k, "END_REQ">>>>}
            A4 == A3 \ {<<x, <<k, "internal_ph">>>>}
            A5 == A4 \ {<<x, <<k, "BEGIN_RESP">>>>}
            A6 == A5 \ {<<x, <<k, "END_RESP">>>>}
            A7 == A6 \ {<<x, <<k, "generate">>>>}
<1>k. k \in 1 .. NbTransactions /\ k > i[x] /\ i'[x] = k
  BY CountAssumption
<1>a. \A e \in Steps : <<x, <<k, e>>>> \in Ungenerated
  BY <1>k DEF Ungenerated
<1>b. \A e \in Steps : <<x, <<k, e>>>> \notin Ungenerated'
  BY <1>k DEF Ungenerated
<1>c. Ungenerated' \subseteq Ungenerated
  <2>. SUFFICES ASSUME NEW z \in Initiator, NEW j \in 1 .. NbTransactions, NEW e \in Steps,
                       j > i'[z]
                PROVE  j > i[z]
    BY DEF Ungenerated
  <2>1. i[z] \in Int /\ i'[z] \in {i[z], i[z] + 1}
    BY CountAssumption
  <2>. QED  BY <2>1, CountAssumption
<1>. HIDE DEF k
<1>0. Cardinality(Ungenerated) \in Nat
  BY FS_CardinalityType
<1>1. IsFiniteSet(A1) /\ Cardinality(A1) \in Nat /\ Cardinality(A1) = Cardinality(Ungenerated) - 1
  <2>1. <<x, <<k, "resume">>>> \in Ungenerated
    BY <1>a DEF Steps, Events
  <2>. QED  BY <2>1, OneLess
<1>2. IsFiniteSet(A2) /\ Cardinality(A2) \in Nat /\ Cardinality(A2) = Cardinality(A1) - 1
  <2>1. <<x, <<k, "BEGIN_REQ">>>> \in A1
    BY <1>a DEF Steps, Events
  <2>. QED  BY <2>1, <1>1, OneLess
<1>3. IsFiniteSet(A3) /\ Cardinality(A3) \in Nat /\ Cardinality(A3) = Cardinality(A2) - 1
  <2>1. <<x, <<k, "END_REQ">>>> \in A2
    BY <1>a DEF Steps, Events
  <2>. QED  BY <2>1, <1>2, OneLess
<1>4. IsFiniteSet(A4) /\ Cardinality(A4) \in Nat /\ Cardinality(A4) = Cardinality(A3) - 1
  <2>1. <<x, <<k, "internal_ph">>>> \in A3
    BY <1>a DEF Steps, Events
  <2>. QED  BY <2>1, <1>3, OneLess
<1>5. IsFiniteSet(A5) /\ Cardinality(A5) \in Nat /\ Cardinality(A5) = Cardinality(A4) - 1
  <2>1. <<x, <<k, "BEGIN_RESP">>>> \in A4
    BY <1>a DEF Steps, Events
  <2>. QED  BY <2>1, <1>4, OneLess
<1>6. IsFiniteSet(A6) /\ Cardinality(A6) \in Nat /\ Cardinality(A6) = Cardinality(A5) - 1
  <2>1. <<x, <<k, "END_RESP">>>> \in A5
    BY <1>a DEF Steps, Events
  <2>. QED  BY <2>1, <1>5, OneLess
<1>7. IsFiniteSet(A7) /\ Cardinality(A7) \in Nat /\ Cardinality(A7) = Cardinality(A6) - 1
  <2>1. <<x, <<k, "generate">>>> \in A6
    BY <1>a DEF Steps, Events
  <2>. QED  BY <2>1, <1>6, OneLess
<1>8. Ungenerated' \subseteq A7
  BY <1>b, <1>c DEF Steps, Events
<1>. HIDE DEF A1, A2, A3, A4, A5, A6, A7
<1>9. IsFiniteSet(Ungenerated') /\ Cardinality(Ungenerated') <= Cardinality(A7)
  BY <1>7, <1>8, FS_Subset
<1>10. Cardinality(Ungenerated') \in Nat
  BY <1>9, FS_CardinalityType
<1>. QED  BY <1>0, <1>1, <1>2, <1>3, <1>4, <1>5, <1>6, <1>7, <1>9, <1>10

\* Each step brings Remaining down.
Limited == IsFiniteSet(Ungenerated) /\ IsFiniteSet(Outstanding)
Falls == Limited' /\ Remaining' \in Int /\ Remaining' < Remaining

\* A callback, or a thread that goes on: the event is over, none was added, and no
\* iteration was begun.
LEMMA EventFalls ==
    ASSUME Limited, NEW t \in Trans, NEW e \in Events,
           ToCome(t, e), ~ToCome(t, e)',
           \A u \in Trans, f \in Events : ToCome(u, f)' => ToCome(u, f),
           i' = i
    PROVE  Falls
<1>. DEFINE rest == Outstanding \ {<<t, e>>}
<1>1. <<t, e>> \in Outstanding /\ Outstanding' \subseteq rest
  BY DEF Outstanding
<1>2. IsFiniteSet(rest) /\ Cardinality(rest) \in Nat /\ Cardinality(rest) = Cardinality(Outstanding) - 1
  BY <1>1, OneLess DEF Limited
<1>. HIDE DEF rest
<1>3. IsFiniteSet(Outstanding') /\ Cardinality(Outstanding') <= Cardinality(rest)
  BY <1>1, <1>2, FS_Subset
<1>4. Ungenerated' = Ungenerated
  BY DEF Ungenerated
<1>5. /\ Cardinality(Outstanding) \in Nat /\ Cardinality(Outstanding') \in Nat
      /\ Cardinality(Ungenerated) \in Nat
  BY <1>3, FS_CardinalityType DEF Limited
<1>. QED  BY <1>2, <1>3, <1>4, <1>5 DEF Falls, Remaining, Limited

\* In which one place a transaction is, whichever target or initiator has it.
LEMMA InOnePlace ==
    ASSUME NEW st, Inv(st), NEW t \in Trans
    PROVE  /\ Held(t) <=> st[t] = "held"
           /\ AtTargetAs(t, "BEGIN_REQ") <=> st[t] = "request"
           /\ PutOff(t) <=> st[t] = "deferred"
           /\ AtTargetAs(t, "internal_ph") <=> st[t] = "execute"
           /\ Unanswered(t) <=> st[t] = "answer"
           /\ AtInitiatorAs(t, "BEGIN_RESP") <=> st[t] = "response"
           /\ AtTargetAs(t, "END_RESP") <=> st[t] = "end"
           /\ AtInitiatorAs(t, "END_REQ") => st[t] \in {"execute", "answer", "response"}
<1>1. Located(st) /\ Routed(st)
  BY InvParts
<1>2. /\ \A y \in Target : AtTarget(st, t, y)
      /\ \A x \in Initiator : AtInitiator(st, t, x)
  BY <1>1 DEF Located
<1>3. t[1] \in Initiator /\ (st[t] # "free" => dest[t] \in Target)
  BY <1>1, Owner DEF Routed
<1>4. Held(t) <=> st[t] = "held"
  BY <1>2, <1>3 DEF AtInitiator, Held
<1>5. /\ AtInitiatorAs(t, "BEGIN_RESP") <=> st[t] = "response"
      /\ AtInitiatorAs(t, "END_REQ") => st[t] \in {"execute", "answer", "response"}
  BY <1>2, <1>3 DEF AtInitiator, AtInitiatorAs
<1>6. /\ AtTargetAs(t, "BEGIN_REQ") <=> st[t] = "request"
      /\ AtTargetAs(t, "internal_ph") <=> st[t] = "execute"
      /\ AtTargetAs(t, "END_RESP") <=> st[t] = "end"
  BY <1>2, <1>3 DEF AtTarget, AtTargetAs
<1>7. /\ PutOff(t) <=> st[t] = "deferred"
      /\ Unanswered(t) <=> st[t] = "answer"
  BY <1>2, <1>3 DEF AtTarget, PutOff, Unanswered
<1>. QED  BY <1>4, <1>5, <1>6, <1>7

\* What a backward call queues, whoever it goes to.
LEMMA QueuedAtMost ==
    ASSUME NEW peq \in [Initiator -> SUBSET (Trans \X {"END_REQ", "BEGIN_RESP"})],
           NEW t \in Trans, NEW ph \in {"END_REQ", "BEGIN_RESP"}
    PROVE  /\ Queued(peq, t, ph) \in [Initiator -> SUBSET (Trans \X {"END_REQ", "BEGIN_RESP"})]
           /\ \A x \in Initiator : Queued(peq, t, ph)[x] \subseteq peq[x] \cup {<<t, ph>>}
<1>1. PICK h : h = Home(t)
  OBVIOUS
<1>2. Queued(peq, t, ph) = [peq EXCEPT ![h] = @ \cup {<<t, ph>>}]
  BY <1>1 DEF Queued
<1>3. <<t, ph>> \in Trans \X {"END_REQ", "BEGIN_RESP"}
  OBVIOUS
<1>4. \A x \in Initiator :
         Queued(peq, t, ph)[x] = IF x = h THEN peq[x] \cup {<<t, ph>>} ELSE peq[x]
  BY <1>2
<1>5. \A x \in Initiator : Queued(peq, t, ph)[x] \in SUBSET (Trans \X {"END_REQ", "BEGIN_RESP"})
  BY <1>3, <1>4
<1>6. Queued(peq, t, ph) = [x \in Initiator |-> Queued(peq, t, ph)[x]]
  BY <1>2
<1>7. Queued(peq, t, ph) \in [Initiator -> SUBSET (Trans \X {"END_REQ", "BEGIN_RESP"})]
  BY ONLY <1>5, <1>6
<1>. QED  BY <1>4, <1>7

LEMMA GenerateFalls ==
    ASSUME NEW st, Inv(st), Limited, NEW x \in Initiator, NEW t \in Trans, Generate(x, t)
    PROVE  Falls
<1>p. TypeOK
  BY InvParts
<1>1. /\ i[x] < NbTransactions /\ i' = [i EXCEPT ![x] = @ + 1]
      /\ trans' \in {trans, [trans EXCEPT ![x] = t]}
      /\ \/ target_peq' = target_peq
         \/ target_peq' = [target_peq EXCEPT ![dest'[t]] = @ \cup {<<t, "BEGIN_REQ">>}]
      /\ UNCHANGED <<initiator_peq, next_response_pending, end_req_pending>>
  BY DEF Generate, SendBeginReq, Forward, targetVars
<1>2. \A u \in Trans, f \in Events : ToCome(u, f)' => ToCome(u, f) \/ u = t
  <2>1. \A y \in Target : target_peq'[y] \subseteq target_peq[y] \cup {<<t, "BEGIN_REQ">>}
    BY <1>p, <1>1 DEF TypeOK
  <2>2. \A u \in Trans : Held(u)' => Held(u) \/ u = t
    BY <1>p, <1>1 DEF TypeOK, Held
  <2>3. \A u \in Trans : /\ AtTargetAs(u, "BEGIN_REQ")' => AtTargetAs(u, "BEGIN_REQ") \/ u = t
                         /\ AtTargetAs(u, "internal_ph")' => AtTargetAs(u, "internal_ph")
                         /\ AtTargetAs(u, "END_RESP")' => AtTargetAs(u, "END_RESP")
    BY <2>1 DEF AtTargetAs
  <2>. QED  BY <1>1, <2>2, <2>3 DEF ToCome, AtInitiatorAs, PutOff, Unanswered
<1>3. /\ IsFiniteSet(Outstanding') /\ Cardinality(Outstanding') \in Nat
      /\ Cardinality(Outstanding') <= Cardinality(Outstanding) + 6
  BY <1>2, SixMore DEF Limited
<1>4. /\ IsFiniteSet(Ungenerated') /\ Cardinality(Ungenerated') \in Nat
      /\ Cardinality(Ungenerated') <= Cardinality(Ungenerated) - 7
  BY <1>p, <1>1, SevenLess DEF Limited, TypeOK
<1>5. Cardinality(Outstanding) \in Nat /\ Cardinality(Ungenerated) \in Nat
  BY FS_CardinalityType DEF Limited
<1>. QED  BY <1>3, <1>4, <1>5 DEF Falls, Limited, Remaining

LEMMA ResumeFalls ==
    ASSUME NEW st, Inv(st), Limited, NEW x \in Initiator, Resume(x)
    PROVE  Falls
<1>p. TypeOK /\ Located(st) /\ Requests(st)
  BY InvParts
<1>1. /\ pc[x] = "notified" /\ i' = i /\ trans' = [trans EXCEPT ![x] = NULL]
      /\ target_peq' = [target_peq EXCEPT ![dest'[trans[x]]] = @ \cup {<<trans[x], "BEGIN_REQ">>}]
      /\ UNCHANGED <<initiator_peq, next_response_pending, end_req_pending>>
  BY DEF Resume, SendBeginReq, Forward, targetVars
<1>2. PICK t \in Trans : t = trans[x]
  BY <1>p, <1>1 DEF TypeOK, Pointer, Requests
<1>3. ToCome(t, "resume") /\ "resume" \in Events
  BY <1>2 DEF ToCome, Held, Events
<1>4. \A y \in Target : target_peq'[y] \subseteq target_peq[y] \cup {<<t, "BEGIN_REQ">>}
  BY <1>p, <1>1, <1>2 DEF TypeOK
<1>5. \A u \in Trans : /\ AtTargetAs(u, "BEGIN_REQ")' => AtTargetAs(u, "BEGIN_REQ") \/ u = t
                       /\ AtTargetAs(u, "internal_ph")' => AtTargetAs(u, "internal_ph")
                       /\ AtTargetAs(u, "END_RESP")' => AtTargetAs(u, "END_RESP")
  BY <1>4 DEF AtTargetAs
<1>6. \A u \in Trans : Held(u)' => Held(u) /\ u # t
  <2>1. \A z \in Initiator : /\ z # x => trans'[z] = trans[z]
                             /\ trans'[x] = NULL
    BY <1>p, <1>1 DEF TypeOK
  <2>2. ASSUME NEW z \in Initiator, t = trans[z] PROVE z = x
    <3>1. AtInitiator(st, t, z) /\ AtInitiator(st, t, x)
      BY <1>p DEF Located
    <3>. QED  BY <1>2, <2>2, <3>1 DEF AtInitiator
  <2>. QED  BY <2>1, <2>2, Owner DEF Held
<1>7. ~ToCome(t, "resume")'
  BY <1>6 DEF ToCome
<1>8. \A u \in Trans, f \in Events : ToCome(u, f)' => ToCome(u, f)
  <2>1. ASSUME NEW u \in Trans, NEW f \in Events, ToCome(u, f)', ~ToCome(u, f)
        PROVE  FALSE
    <3>1. u # t
      BY <1>2, <2>1 DEF ToCome, Held
    <3>. QED  BY <1>1, <1>5, <1>6, <2>1, <3>1 DEF ToCome, AtInitiatorAs, PutOff, Unanswered
  <2>. QED  BY <2>1
<1>. QED  BY <1>1, <1>3, <1>7, <1>8, EventFalls

LEMMA InitiatorEndReqFalls ==
    ASSUME NEW st, Inv(st), Limited, NEW x \in Initiator, NEW t \in Trans, InitiatorEndReq(x, t)
    PROVE  Falls
<1>p. TypeOK /\ Located(st)
  BY InvParts
<1>1. /\ <<t, "END_REQ">> \in initiator_peq[x]
      /\ initiator_peq' = [initiator_peq EXCEPT ![x] = @ \ {<<t, "END_REQ">>}]
      /\ UNCHANGED <<i, trans, target_peq, next_response_pending, end_req_pending>>
  BY DEF InitiatorEndReq, EndRequest, targetVars
<1>2. AtInitiatorAs(t, "END_REQ") /\ ToCome(t, "END_REQ") /\ "END_REQ" \in Events
  BY <1>1 DEF ToCome, AtInitiatorAs, Events
<1>3. \A u \in Trans, ph \in {"END_REQ", "BEGIN_RESP"} :
         AtInitiatorAs(u, ph)' => AtInitiatorAs(u, ph)
  BY <1>p, <1>1 DEF AtInitiatorAs, TypeOK
<1>4. ~AtInitiatorAs(t, "END_REQ")'
  <2>1. ASSUME NEW z \in Initiator, <<t, "END_REQ">> \in initiator_peq[z] PROVE z = x
    <3>1. AtInitiator(st, t, z) /\ AtInitiator(st, t, x)
      BY <1>p DEF Located
    <3>. QED  BY <1>1, <2>1, <3>1 DEF AtInitiator
  <2>. QED  BY <1>p, <1>1, <2>1 DEF AtInitiatorAs, TypeOK
<1>5. ~ToCome(t, "END_REQ")'
  <2>1. ~Held(t) /\ ~AtTargetAs(t, "BEGIN_REQ") /\ ~PutOff(t)
    BY <1>2, InOnePlace
  <2>. QED  BY <1>1, <1>4, <2>1 DEF ToCome, Held, AtTargetAs, PutOff
<1>6. \A u \in Trans, f \in Events : ToCome(u, f)' => ToCome(u, f)
  BY <1>1, <1>3 DEF ToCome, Held, AtTargetAs, PutOff, Unanswered
<1>. QED  BY <1>1, <1>2, <1>5, <1>6, EventFalls

LEMMA InitiatorBeginRespFalls ==
    ASSUME NEW st, Inv(st), Limited, NEW x \in Initiator, NEW t \in Trans, InitiatorBeginResp(x, t)
    PROVE  Falls
<1>p. TypeOK /\ Located(st)
  BY InvParts
<1>1. /\ <<t, "BEGIN_RESP">> \in initiator_peq[x]
      /\ initiator_peq' = [initiator_peq EXCEPT ![x] = @ \ {<<t, "BEGIN_RESP">>}]
      /\ target_peq' = [target_peq EXCEPT ![dest'[t]] = @ \cup {<<t, "END_RESP">>}]
      /\ UNCHANGED <<i, trans, next_response_pending, end_req_pending>>
  BY DEF InitiatorBeginResp, EndRequest, EndReqFirst, Forward, targetVars
<1>2. AtInitiatorAs(t, "BEGIN_RESP") /\ ToCome(t, "BEGIN_RESP") /\ "BEGIN_RESP" \in Events
  BY <1>1 DEF ToCome, AtInitiatorAs, Events
<1>3. /\ \A u \in Trans, ph \in {"END_REQ", "BEGIN_RESP"} :
            AtInitiatorAs(u, ph)' => AtInitiatorAs(u, ph)
      /\ ~AtInitiatorAs(t, "BEGIN_RESP")'
  <2>1. ASSUME NEW z \in Initiator, <<t, "BEGIN_RESP">> \in initiator_peq[z] PROVE z = x
    <3>1. AtInitiator(st, t, z) /\ AtInitiator(st, t, x)
      BY <1>p DEF Located
    <3>. QED  BY <1>1, <2>1, <3>1 DEF AtInitiator
  <2>. QED  BY <1>p, <1>1, <2>1 DEF AtInitiatorAs, TypeOK
<1>4. \A u \in Trans : /\ AtTargetAs(u, "BEGIN_REQ")' => AtTargetAs(u, "BEGIN_REQ")
                       /\ AtTargetAs(u, "internal_ph")' => AtTargetAs(u, "internal_ph")
                       /\ AtTargetAs(u, "END_RESP")' => AtTargetAs(u, "END_RESP") \/ u = t
  <2>1. \A y \in Target : target_peq'[y] \subseteq target_peq[y] \cup {<<t, "END_RESP">>}
    BY <1>p, <1>1 DEF TypeOK
  <2>. QED  BY <2>1 DEF AtTargetAs
<1>5. ~ToCome(t, "BEGIN_RESP")'
  <2>1. /\ ~Held(t) /\ ~AtTargetAs(t, "BEGIN_REQ") /\ ~PutOff(t)
        /\ ~AtTargetAs(t, "internal_ph") /\ ~Unanswered(t)
    BY <1>2, InOnePlace
  <2>. QED  BY <1>1, <1>3, <1>4, <2>1 DEF ToCome, Held, PutOff, Unanswered
<1>6. \A u \in Trans, f \in Events : ToCome(u, f)' => ToCome(u, f)
  <2>1. ToCome(t, "END_RESP")
    BY <1>2 DEF ToCome
  <2>. QED  BY <1>1, <1>3, <1>4, <2>1 DEF ToCome, Held, PutOff, Unanswered
<1>. QED  BY <1>1, <1>2, <1>5, <1>6, EventFalls

LEMMA TargetBeginReqFalls ==
    ASSUME NEW st, Inv(st), Limited, NEW y \in Target, NEW t \in Trans, TargetBeginReq(y, t)
    PROVE  Falls
<1>p. TypeOK /\ Located(st)
  BY InvParts
<1>1. /\ <<t, "BEGIN_REQ">> \in target_peq[y]
      /\ target_peq' = [target_peq EXCEPT ![y] = @ \ {<<t, "BEGIN_REQ">>}]
         \/ target_peq' = [target_peq EXCEPT ![y] =
                              (@ \ {<<t, "BEGIN_REQ">>}) \cup {<<t, "internal_ph">>}]
      /\ end_req_pending' \in {end_req_pending, [end_req_pending EXCEPT ![y] = t]}
      /\ initiator_peq' \in {initiator_peq, Queued(initiator_peq, t, "END_REQ")}
      /\ UNCHANGED <<i, trans, next_response_pending>>
  BY DEF TargetBeginReq, initiatorVars
<1>2. AtTargetAs(t, "BEGIN_REQ") /\ ToCome(t, "BEGIN_REQ") /\ "BEGIN_REQ" \in Events
  BY <1>1 DEF ToCome, AtTargetAs, Events
<1>3. \A u \in Trans : /\ AtTargetAs(u, "BEGIN_REQ")' => AtTargetAs(u, "BEGIN_REQ") /\ u # t
                       /\ AtTargetAs(u, "internal_ph")' => AtTargetAs(u, "internal_ph") \/ u = t
                       /\ AtTargetAs(u, "END_RESP")' => AtTargetAs(u, "END_RESP")
  <2>1. /\ \A z \in Target : target_peq'[z] \subseteq target_peq[z] \cup {<<t, "internal_ph">>}
        /\ <<t, "BEGIN_REQ">> \notin target_peq'[y]
    BY <1>p, <1>1 DEF TypeOK
  <2>2. ASSUME NEW z \in Target, <<t, "BEGIN_REQ">> \in target_peq[z] PROVE z = y
    <3>1. AtTarget(st, t, z) /\ AtTarget(st, t, y)
      BY <1>p DEF Located
    <3>. QED  BY <1>1, <2>2, <3>1 DEF AtTarget
  <2>. QED  BY <2>1, <2>2 DEF AtTargetAs
<1>4. \A u \in Trans : PutOff(u)' => PutOff(u) \/ u = t
  BY <1>p, <1>1 DEF PutOff, TypeOK
<1>5. \A u \in Trans : /\ AtInitiatorAs(u, "END_REQ")' => AtInitiatorAs(u, "END_REQ") \/ u = t
                       /\ AtInitiatorAs(u, "BEGIN_RESP")' => AtInitiatorAs(u, "BEGIN_RESP")
  <2>1. \A x \in Initiator : initiator_peq'[x] \subseteq initiator_peq[x] \cup {<<t, "END_REQ">>}
    BY <1>p, <1>1, QueuedAtMost DEF TypeOK
  <2>. QED  BY <2>1 DEF AtInitiatorAs
<1>6. ~ToCome(t, "BEGIN_REQ")'
  <2>1. ~Held(t)
    BY <1>2, InOnePlace
  <2>. QED  BY <1>1, <1>3, <2>1 DEF ToCome, Held
<1>7. \A u \in Trans, f \in Events : ToCome(u, f)' => ToCome(u, f)
  <2>1. \A f \in Events \ {"resume"} : ToCome(t, f)
    BY <1>2 DEF ToCome
  <2>2. "resume" \in Events
    BY DEF Events
  <2>. QED  BY <1>1, <1>3, <1>4, <1>5, <2>1, <2>2 DEF ToCome, Held, Unanswered
<1>. QED  BY <1>1, <1>2, <1>6, <1>7, EventFalls

LEMMA TargetExecuteFalls ==
    ASSUME NEW st, Inv(st), Limited, NEW y \in Target, NEW t \in Trans, TargetExecute(y, t)
    PROVE  Falls
<1>p. TypeOK /\ Located(st)
  BY InvParts
<1>1. /\ <<t, "internal_ph">> \in target_peq[y]
      /\ target_peq' = [target_peq EXCEPT ![y] = @ \ {<<t, "internal_ph">>}]
      /\ next_response_pending' \in {next_response_pending, [next_response_pending EXCEPT ![y] = t]}
      /\ initiator_peq' \in {initiator_peq, Queued(initiator_peq, t, "BEGIN_RESP")}
      /\ UNCHANGED <<i, trans, end_req_pending>>
  BY DEF TargetExecute, initiatorVars
<1>2. AtTargetAs(t, "internal_ph") /\ ToCome(t, "internal_ph") /\ "internal_ph" \in Events
  BY <1>1 DEF ToCome, AtTargetAs, Events
<1>3. \A u \in Trans : /\ AtTargetAs(u, "BEGIN_REQ")' => AtTargetAs(u, "BEGIN_REQ")
                       /\ AtTargetAs(u, "internal_ph")' => AtTargetAs(u, "internal_ph") /\ u # t
                       /\ AtTargetAs(u, "END_RESP")' => AtTargetAs(u, "END_RESP")
  <2>1. /\ \A z \in Target : target_peq'[z] \subseteq target_peq[z]
        /\ <<t, "internal_ph">> \notin target_peq'[y]
    BY <1>p, <1>1 DEF TypeOK
  <2>2. ASSUME NEW z \in Target, <<t, "internal_ph">> \in target_peq[z] PROVE z = y
    <3>1. AtTarget(st, t, z) /\ AtTarget(st, t, y)
      BY <1>p DEF Located
    <3>. QED  BY <1>1, <2>2, <3>1 DEF AtTarget
  <2>. QED  BY <2>1, <2>2 DEF AtTargetAs
<1>4. \A u \in Trans : Unanswered(u)' => Unanswered(u) \/ u = t
  BY <1>p, <1>1 DEF Unanswered, TypeOK
<1>5. \A u \in Trans : /\ AtInitiatorAs(u, "END_REQ")' => AtInitiatorAs(u, "END_REQ")
                       /\ AtInitiatorAs(u, "BEGIN_RESP")' => AtInitiatorAs(u, "BEGIN_RESP") \/ u = t
  <2>1. \A x \in Initiator : initiator_peq'[x] \subseteq initiator_peq[x] \cup {<<t, "BEGIN_RESP">>}
    BY <1>p, <1>1, QueuedAtMost DEF TypeOK
  <2>. QED  BY <2>1 DEF AtInitiatorAs
<1>6. ~ToCome(t, "internal_ph")'
  <2>1. ~Held(t) /\ ~AtTargetAs(t, "BEGIN_REQ") /\ ~PutOff(t)
    BY <1>2, InOnePlace
  <2>. QED  BY <1>1, <1>3, <2>1 DEF ToCome, Held, PutOff
<1>7. \A u \in Trans, f \in Events : ToCome(u, f)' => ToCome(u, f)
  <2>1. ToCome(t, "BEGIN_RESP") /\ ToCome(t, "END_RESP")
    BY <1>2 DEF ToCome
  <2>. QED  BY <1>1, <1>3, <1>4, <1>5, <2>1 DEF ToCome, Held, PutOff
<1>. QED  BY <1>1, <1>2, <1>6, <1>7, EventFalls

LEMMA TargetEndRespFalls ==
    ASSUME NEW st, Inv(st), Limited, NEW y \in Target, NEW t \in Trans, TargetEndResp(y, t)
    PROVE  Falls
<1>p. TypeOK /\ Located(st)
  BY InvParts
<1>. DEFINE next == next_response_pending[y]
            pending == end_req_pending[y]
            answered == IF next = NULL THEN initiator_peq
                                       ELSE Queued(initiator_peq, next, "BEGIN_RESP")
<1>1. /\ <<t, "END_RESP">> \in target_peq[y]
      /\ target_peq' = [target_peq EXCEPT ![y] =
                           (@ \ {<<t, "END_RESP">>}) \cup ({pending} \ {NULL}) \X {"internal_ph"}]
      /\ initiator_peq' = (IF pending = NULL THEN answered
                                             ELSE Queued(answered, pending, "END_REQ"))
      /\ next_response_pending' = [next_response_pending EXCEPT ![y] = NULL]
      /\ end_req_pending' = [end_req_pending EXCEPT ![y] = NULL]
      /\ UNCHANGED <<i, trans>>
  BY DEF TargetEndResp, initiatorVars
<1>2. AtTargetAs(t, "END_RESP") /\ ToCome(t, "END_RESP") /\ "END_RESP" \in Events
  BY <1>1 DEF ToCome, AtTargetAs, Events
<1>3. next \in Trans \cup {NULL} /\ pending \in Trans \cup {NULL}
  BY <1>p DEF TypeOK, Pointer
<1>4. \A u \in Trans : /\ u = next => Unanswered(u)
                       /\ u = pending => PutOff(u)
  BY DEF Unanswered, PutOff
<1>5. \A u \in Trans : /\ Unanswered(u)' => Unanswered(u)
                       /\ PutOff(u)' => PutOff(u)
  BY <1>p, <1>1, Owner DEF Unanswered, PutOff, TypeOK
<1>6. \A u \in Trans : /\ AtTargetAs(u, "BEGIN_REQ")' => AtTargetAs(u, "BEGIN_REQ")
                       /\ AtTargetAs(u, "internal_ph")' => AtTargetAs(u, "internal_ph") \/ u = pending
                       /\ AtTargetAs(u, "END_RESP")' => AtTargetAs(u, "END_RESP") /\ u # t
  <2>1. /\ \A z \in Target : target_peq'[z] \subseteq target_peq[z] \cup {<<pending, "internal_ph">>}
        /\ <<t, "END_RESP">> \notin target_peq'[y]
    BY <1>p, <1>1 DEF TypeOK
  <2>2. ASSUME NEW z \in Target, <<t, "END_RESP">> \in target_peq[z] PROVE z = y
    <3>1. AtTarget(st, t, z) /\ AtTarget(st, t, y)
      BY <1>p DEF Located
    <3>. QED  BY <1>1, <2>2, <3>1 DEF AtTarget
  <2>. HIDE DEF pending
  <2>. QED  BY <2>1, <2>2 DEF AtTargetAs
<1>7. \A u \in Trans :
         /\ AtInitiatorAs(u, "END_REQ")' => AtInitiatorAs(u, "END_REQ") \/ u = pending
         /\ AtInitiatorAs(u, "BEGIN_RESP")' => AtInitiatorAs(u, "BEGIN_RESP") \/ u = next
  <2>. HIDE DEF next, pending
  <2>1. /\ answered \in [Initiator -> SUBSET (Trans \X {"END_REQ", "BEGIN_RESP"})]
        /\ \A x \in Initiator : answered[x] \subseteq initiator_peq[x] \cup {<<next, "BEGIN_RESP">>}
    BY <1>p, <1>3, QueuedAtMost DEF TypeOK
  <2>. HIDE DEF answered
  <2>2. \A x \in Initiator : initiator_peq'[x] \subseteq answered[x] \cup {<<pending, "END_REQ">>}
    BY <1>1, <1>3, <2>1, QueuedAtMost
  <2>. QED  BY <2>1, <2>2 DEF AtInitiatorAs
<1>8. ~ToCome(t, "END_RESP")'
  <2>1. /\ ~Held(t) /\ ~AtTargetAs(t, "BEGIN_REQ") /\ ~PutOff(t)
        /\ ~AtTargetAs(t, "internal_ph") /\ ~Unanswered(t) /\ ~AtInitiatorAs(t, "BEGIN_RESP")
    BY <1>2, InOnePlace
  <2>. HIDE DEF next, pending
  <2>. QED  BY <1>1, <1>4, <1>5, <1>6, <1>7, <2>1 DEF ToCome, Held
<1>9. \A u \in Trans, f \in Events : ToCome(u, f)' => ToCome(u, f)
  <2>. HIDE DEF next, pending
  <2>. QED  BY <1>1, <1>4, <1>5, <1>6, <1>7 DEF ToCome, Held
<1>. QED  BY <1>1, <1>2, <1>8, <1>9, EventFalls

LEMMA StepFalls ==
    ASSUME IInv, Limited, Next, vars' # vars
    PROVE  Falls
<1>1. PICK st : Inv(st)
  BY DEF IInv
<1>2. CASE \E x \in Initiator : InitiatorStep(x)
  BY <1>1, <1>2, GenerateFalls, ResumeFalls, InitiatorEndReqFalls, InitiatorBeginRespFalls
     DEF InitiatorStep
<1>3. CASE \E y \in Target : TargetStep(y)
  BY <1>1, <1>3, TargetBeginReqFalls, TargetExecuteFalls, TargetEndRespFalls DEF TargetStep
<1>. QED  BY <1>2, <1>3 DEF Next, Finished

\* However many initiators and targets there are and however the kernel orders their
\* notifications, the bus is done after seven steps for each transaction: what is left
\* is a natural number, and every step brings it down.  So each run comes to the state
\* QuietButForTheStuck describes, provided the kernel takes a step as long as there
\* is one.
THEOREM StepsAreBounded ==
    ASSUME IsFiniteSet(Initiator)
    PROVE  Spec => /\ [](Remaining \in 0 .. Cardinality(Initiator) * (NbTransactions * 7))
                   /\ [][Remaining' < Remaining]_vars
<1>. DEFINE most == Cardinality(Initiator) * (NbTransactions * 7)
            Left == Limited /\ Remaining <= most
<1>s. IsFiniteSet(Steps) /\ Cardinality(Steps) = 7
  <2>. DEFINE A1 == {"resume"}
              A2 == A1 \cup {"BEGIN_REQ"}
              A3 == A2 \cup {"END_REQ"}
              A4 == A3 \cup {"internal_ph"}
              A5 == A4 \cup {"BEGIN_RESP"}
              A6 == A5 \cup {"END_RESP"}
              A7 == A6 \cup {"generate"}
  <2>1. IsFiniteSet(A1) /\ Cardinality(A1) = 1
    BY FS_Singleton
  <2>2. /\ "BEGIN_REQ" \notin A1 /\ "END_REQ" \notin A2 /\ "internal_ph" \notin A3
        /\ "BEGIN_RESP" \notin A4 /\ "END_RESP" \notin A5 /\ "generate" \notin A6
    OBVIOUS
  <2>3. Steps = A7
    BY DEF Steps, Events
  <2>. HIDE DEF A1, A2, A3, A4, A5, A6, A7
  <2>4. IsFiniteSet(A2) /\ Cardinality(A2) = Cardinality(A1) + 1
    BY <2>1, <2>2, FS_AddElement DEF A2
  <2>5. IsFiniteSet(A3) /\ Cardinality(A3) = Cardinality(A2) + 1
    BY <2>4, <2>2, FS_AddElement DEF A3
  <2>6. IsFiniteSet(A4) /\ Cardinality(A4) = Cardinality(A3) + 1
    BY <2>5, <2>2, FS_AddElement DEF A4
  <2>7. IsFiniteSet(A5) /\ Cardinality(A5) = Cardinality(A4) + 1
    BY <2>6, <2>2, FS_AddElement DEF A5
  <2>8. IsFiniteSet(A6) /\ Cardinality(A6) = Cardinality(A5) + 1
    BY <2>7, <2>2, FS_AddElement DEF A6
  <2>9. IsFiniteSet(A7) /\ Cardinality(A7) = Cardinality(A6) + 1
    BY <2>8, <2>2, FS_AddElement DEF A7
  <2>. QED  BY <2>1, <2>3, <2>4, <2>5, <2>6, <2>7, <2>8, <2>9
<1>1. Init => Left
  <2>. SUFFICES ASSUME Init PROVE Left
    OBVIOUS
  <2>1. \A u \in Trans, f \in Events : ~ToCome(u, f)
    BY Owner DEF Init, ToCome, AtTargetAs, AtInitiatorAs, PutOff, Unanswered, Held
  <2>2. Outstanding = {}
    BY <2>1 DEF Outstanding
  <2>3. IsFiniteSet(Outstanding) /\ Cardinality(Outstanding) = 0
    BY <2>2, FS_EmptySet
  <2>4. IsFiniteSet(1 .. NbTransactions) /\ Cardinality(1 .. NbTransactions) = NbTransactions
    BY CountAssumption, FS_Interval
  <2>. DEFINE Iterations == 1 .. NbTransactions
              Pairs == Iterations \X Steps
  <2>. HIDE DEF Iterations
  <2>5. IsFiniteSet(Pairs) /\ Cardinality(Pairs) = NbTransactions * 7
    <3>1. /\ IsFiniteSet(Pairs)
          /\ Cardinality(Pairs) = Cardinality(Iterations) * Cardinality(Steps)
      BY <1>s, <2>4, FS_Product DEF Iterations
    <3>2. Cardinality(Iterations) = NbTransactions
      BY <2>4 DEF Iterations
    <3>. QED  BY <1>s, <3>1, <3>2
  <2>. HIDE DEF Pairs
  <2>6. IsFiniteSet(Initiator \X Pairs) /\ Cardinality(Initiator \X Pairs) = most
    BY <2>5, FS_Product DEF Pairs
  <2>7. Ungenerated \subseteq Initiator \X Pairs
    BY DEF Ungenerated, Pairs, Iterations
  <2>8. IsFiniteSet(Ungenerated) /\ Cardinality(Ungenerated) <= most
    BY <2>6, <2>7, FS_Subset
  <2>9. Cardinality(Ungenerated) \in Nat
    BY <2>8, FS_CardinalityType
  <2>. HIDE DEF most
  <2>. QED  BY <2>3, <2>8, <2>9 DEF Remaining, Limited
<1>m. most \in Nat
  BY FS_CardinalityType, CountAssumption
<1>. HIDE DEF most
<1>2. Left => Remaining \in 0 .. most
  <2>. SUFFICES ASSUME Left PROVE Remaining \in 0 .. most
    OBVIOUS
  <2>1. Cardinality(Outstanding) \in Nat /\ Cardinality(Ungenerated) \in Nat
    BY FS_CardinalityType DEF Limited
  <2>. QED  BY <1>m, <2>1 DEF Remaining
<1>3. IInv /\ Left /\ [Next]_vars => Left'
  <2>. SUFFICES ASSUME IInv, Left, [Next]_vars PROVE Left'
    OBVIOUS
  <2>1. CASE vars' = vars
    <3>1. /\ Ungenerated' = Ungenerated /\ Outstanding' = Outstanding
      BY <2>1 DEF vars, initiatorVars, targetVars, Ungenerated, Outstanding, ToCome, Held,
                  AtTargetAs, AtInitiatorAs, PutOff, Unanswered
    <3>. QED  BY <3>1 DEF Remaining, Limited, most
  <2>2. CASE Next /\ vars' # vars
    <3>1. Falls
      BY <2>2, StepFalls
    <3>2. Remaining \in Int /\ most' = most
      BY <1>2 DEF most
    <3>. QED  BY <1>m, <3>1, <3>2 DEF Falls
  <2>. QED  BY <2>1, <2>2
<1>4. IInv /\ Left /\ [Next]_vars => [Remaining' < Remaining]_vars
  BY StepFalls DEF Falls
<1>5. Spec => []Left
  BY <1>1, <1>3, InvAlways, PTL DEF Spec
<1>6. Spec => []IInv
  BY InvAlways
<1>7. Spec => [](Remaining \in 0 .. most) /\ [][Remaining' < Remaining]_vars
  BY <1>2, <1>4, <1>5, <1>6, PTL DEF Spec
<1>. QED  BY <1>7 DEF most
=============================================================================

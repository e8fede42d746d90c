-------------------------- MODULE AtPipelineProofs --------------------------
(***************************************************************************)
(* The two-deep pipeline, for every set of transaction objects and every   *)
(* number of transactions.                                                 *)
(*                                                                         *)
(* The invariants are not inductive as they stand.  What makes them so is  *)
(* that a transaction is in one place at a time: Inv(st) says that the     *)
(* function st tells where each one is, and relates every variable of the  *)
(* two sides to it.                                                        *)
(***************************************************************************)
EXTENDS AtPipeline, FiniteSetTheorems, SequenceTheorems, TLAPS

-----------------------------------------------------------------------------
Stage == {"free", "held", "request", "deferred", "execute", "answer", "response", "end"}

\* The stages of a transaction that n_trans counts, and of the response in progress.
Accepted == {"execute", "answer", "response", "end"}
Responding == {"response", "end"}

\* How many references a transaction has at each stage.
Refs(s) == IF s = "free" THEN 0
           ELSE IF s \in {"held", "request", "end"} THEN 1 ELSE 2

\* Where the transactions are: each queue and each pointer shows one stage.
Placed(st, t) ==
    /\ <<t, "BEGIN_REQ">> \in target_peq <=> st[t] = "request"
    /\ <<t, "internal_ph">> \in target_peq <=> st[t] = "execute"
    /\ <<t, "END_RESP">> \in target_peq <=> st[t] = "end"
    /\ <<t, "BEGIN_RESP">> \in initiator_peq <=> st[t] = "response"
    /\ t = end_req_pending <=> st[t] = "deferred"
    /\ t = next_response_pending <=> st[t] = "answer"
    /\ (t = trans /\ t # adapter) <=> st[t] = "held"

Located(st) == \A t \in Trans : Placed(st, t)

Counted(st) == \A t \in Trans : ref[t] = Refs(st[t])

\* A transaction is executed before it is answered.
Executed(st) ==
    /\ \A t \in Trans : st[t] \in {"answer", "response"} => t \in ok
    /\ pc = "returned" => trans \in ok

\* The request in progress is the only one not yet accepted.
Requests(st) ==
    /\ \A t \in Trans : /\ <<t, "END_REQ">> \in initiator_peq
                              => st[t] \in {"execute", "answer", "response"}
                                 /\ t = request_in_progress
                        /\ st[t] \in {"request", "deferred"} /\ t # adapter
                              => t = request_in_progress
    /\ request_in_progress # NULL
          => \/ st[request_in_progress] \in {"request", "deferred"}
             \/ <<request_in_progress, "END_REQ">> \in initiator_peq

\* One response at a time.
Responses(st) ==
    /\ \A t, u \in Trans : st[t] \in Responding /\ st[u] \in Responding => t = u
    /\ response_in_progress <=> \E t \in Trans : st[t] \in Responding
    /\ next_response_pending # NULL => response_in_progress

InStages(st, S) == {t \in Trans : st[t] \in S}

\* At most two accepted transactions; a request is put off behind exactly two.
Pipeline(st) ==
    /\ IsFiniteSet(InStages(st, Accepted))
    /\ n_trans = Cardinality(InStages(st, Accepted))
    /\ n_trans <= 2
    /\ end_req_pending # NULL => n_trans = 2

\* The pool holds free transactions, each once.
Pooled(st) ==
    /\ \A k \in 1 .. Len(pool) : st[pool[k]] = "free"
    /\ \A k, l \in 1 .. Len(pool) : pool[k] = pool[l] => k = l

\* The thread's program counter and what it waits with.
Thread(st) ==
    /\ trans = NULL <=> pc \in {"gap", "done"}
    /\ adapter # NULL <=> pc = "b_transport"
    /\ pc = "notified" => request_in_progress = NULL
    /\ pc = "wait_end_request" => request_in_progress # NULL
    /\ adapter # NULL => trans = adapter /\ st[adapter] \in {"request", "execute"}
    /\ pc \in {"b_transport", "returned", "done"}
          => /\ request_in_progress = NULL
             /\ \A t \in Trans : t # trans => st[t] = "free"

Inv(st) == /\ st \in [Trans -> Stage]
           /\ TypeOK /\ NoReport
           /\ Located(st) /\ Counted(st) /\ Executed(st) /\ Requests(st)
           /\ Responses(st) /\ Pipeline(st) /\ Pooled(st) /\ Thread(st)

\* The inductive invariant.
IInv == \E st \in [Trans -> Stage] : Inv(st)

-----------------------------------------------------------------------------
(***************************************************************************)
(* Lemmas: the memory manager, the count of the pipeline, and what no      *)
(* pending event leaves.                                                   *)
(***************************************************************************)

\* allocate() returns a free transaction and the pool keeps the others.
LEMMA AllocateFree ==
    ASSUME NEW st \in [Trans -> Stage], TypeOK, Counted(st), Pooled(st),
           NEW t \in Trans, Allocate(t)
    PROVE  /\ st[t] = "free"
           /\ pool' \in Seq(Trans)
           /\ \A k \in 1 .. Len(pool') : pool'[k] # t /\ st[pool'[k]] = "free"
           /\ \A k, l \in 1 .. Len(pool') : pool'[k] = pool'[l] => k = l
<1>1. pool \in Seq(Trans) /\ Len(pool) \in Nat
  BY DEF TypeOK
<1>2. CASE pool = << >>
  <2>1. ref[t] = 0 /\ pool' = << >>
    BY <1>2 DEF Allocate
  <2>2. Refs(st[t]) = 0
    BY <2>1 DEF Counted
  <2>3. st[t] = "free"
    BY <2>2 DEF Refs
  <2>. QED  BY <2>1, <2>3
<1>3. CASE pool # << >>
  <2>1. t = pool[1] /\ pool' = Tail(pool) /\ Len(pool) >= 1
    BY <1>1, <1>3 DEF Allocate
  <2>2. /\ pool' \in Seq(Trans)
        /\ Len(pool') = Len(pool) - 1
        /\ \A k \in 1 .. Len(pool') : pool'[k] = pool[k + 1]
    BY <1>1, <1>3, <2>1, HeadTailProperties
  <2>3. \A k \in 1 .. Len(pool') : k + 1 \in 1 .. Len(pool) /\ k + 1 # 1
    BY <1>1, <2>2
  <2>4. 1 \in 1 .. Len(pool)
    BY <1>1, <2>1
  <2>5. st[t] = "free"
    BY <2>1, <2>4 DEF Pooled
  <2>6. \A k \in 1 .. Len(pool') : pool'[k] # t /\ st[pool'[k]] = "free"
    BY <2>1, <2>2, <2>3, <2>4 DEF Pooled
  <2>7. \A k, l \in 1 .. Len(pool') : pool'[k] = pool'[l] => k = l
    <3>. SUFFICES ASSUME NEW k \in 1 .. Len(pool'), NEW l \in 1 .. Len(pool'),
                         pool'[k] = pool'[l]
                  PROVE  k = l
      OBVIOUS
    <3>1. k + 1 = l + 1
      BY <2>2, <2>3 DEF Pooled
    <3>. QED  BY <1>1, <2>2, <3>1
  <2>. QED  BY <2>2, <2>5, <2>6, <2>7
<1>. QED  BY <1>2, <1>3

\* release() puts a transaction back exactly when it drops the last reference.
LEMMA ReleasePools ==
    ASSUME NEW st \in [Trans -> Stage], TypeOK, Pooled(st),
           NEW t \in Trans, st[t] # "free", Release(t)
    PROVE  /\ pool' \in Seq(Trans)
           /\ \A k \in 1 .. Len(pool') : \/ pool'[k] = t /\ ref[t] = 1
                                         \/ pool'[k] # t /\ st[pool'[k]] = "free"
           /\ \A k, l \in 1 .. Len(pool') : pool'[k] = pool'[l] => k = l
<1>1. pool \in Seq(Trans) /\ Len(pool) \in Nat
  BY DEF TypeOK
<1>2. CASE ref[t] # 1
  <2>1. pool' = pool
    BY <1>2 DEF Release
  <2>. QED  BY <1>1, <2>1 DEF Pooled
<1>3. CASE ref[t] = 1
  <2>1. pool' = <<t>> \o pool
    BY <1>3 DEF Release
  <2>2. <<t>> \in Seq(Trans) /\ Len(<<t>>) = 1 /\ <<t>>[1] = t
    OBVIOUS
  <2>3. /\ pool' \in Seq(Trans)
        /\ Len(pool') = 1 + Len(pool)
        /\ \A k \in 1 .. Len(pool') :
              pool'[k] = IF k <= 1 THEN <<t>>[k] ELSE pool[k - 1]
    BY <1>1, <2>1, <2>2, ConcatProperties
  <2>4. \A k \in 1 .. Len(pool') : k = 1 \/ (k # 1 /\ k - 1 \in 1 .. Len(pool))
    BY <1>1, <2>3
  <2>5. \A k \in 1 .. Len(pool') : pool'[k] = IF k = 1 THEN t ELSE pool[k - 1]
    BY <1>1, <2>2, <2>3
  <2>6. \A k \in 1 .. Len(pool') : k # 1 => pool'[k] # t /\ st[pool'[k]] = "free"
    BY <2>4, <2>5 DEF Pooled
  <2>7. \A k, l \in 1 .. Len(pool') : pool'[k] = pool'[l] => k = l
    <3>. SUFFICES ASSUME NEW k \in 1 .. Len(pool'), NEW l \in 1 .. Len(pool'),
                         pool'[k] = pool'[l]
                  PROVE  k = l
      OBVIOUS
    <3>1. CASE k = 1 \/ l = 1
      BY <2>5, <2>6, <3>1
    <3>2. CASE k # 1 /\ l # 1
      <4>1. k - 1 = l - 1
        BY <2>4, <2>5, <3>2 DEF Pooled
      <4>. QED  BY <1>1, <2>3, <4>1
    <3>. QED  BY <3>1, <3>2
  <2>. QED  BY <1>3, <2>3, <2>5, <2>6, <2>7
<1>. QED  BY <1>2, <1>3

\* A transaction enters, leaves, or stays inside or outside a finite set of stages.
LEMMA StageEnters ==
    ASSUME NEW st \in [Trans -> Stage], NEW t \in Trans, NEW s \in Stage,
           NEW S, IsFiniteSet(InStages(st, S)), s \in S, st[t] \notin S
    PROVE  LET next == InStages([st EXCEPT ![t] = s], S)
           IN  IsFiniteSet(next) /\ Cardinality(next) = Cardinality(InStages(st, S)) + 1
<1>1. InStages([st EXCEPT ![t] = s], S) = InStages(st, S) \cup {t}
  BY DEF InStages
<1>2. t \notin InStages(st, S)
  BY DEF InStages
<1>. QED  BY <1>1, <1>2, FS_AddElement

LEMMA StageLeaves ==
    ASSUME NEW st \in [Trans -> Stage], NEW t \in Trans, NEW s \in Stage,
           NEW S, IsFiniteSet(InStages(st, S)), s \notin S, st[t] \in S
    PROVE  LET next == InStages([st EXCEPT ![t] = s], S)
           IN  IsFiniteSet(next) /\ Cardinality(next) = Cardinality(InStages(st, S)) - 1
<1>1. InStages([st EXCEPT ![t] = s], S) = InStages(st, S) \ {t}
  BY DEF InStages
<1>2. t \in InStages(st, S)
  BY DEF InStages
<1>. QED  BY <1>1, <1>2, FS_RemoveElement

LEMMA StageStays ==
    ASSUME NEW st \in [Trans -> Stage], NEW t \in Trans, NEW s \in Stage,
           NEW S, s \in S <=> st[t] \in S
    PROVE  InStages([st EXCEPT ![t] = s], S) = InStages(st, S)
BY DEF InStages

\* n_trans stays exact when it changes by one as a transaction enters or leaves.
LEMMA PipelineStep ==
    ASSUME NEW st \in [Trans -> Stage], Pipeline(st), NEW t \in Trans, NEW s \in Stage,
           NEW next, next = [st EXCEPT ![t] = s],
           n_trans' = IF s \in Accepted /\ st[t] \notin Accepted THEN n_trans + 1
                      ELSE IF s \notin Accepted /\ st[t] \in Accepted THEN n_trans - 1
                      ELSE n_trans,
           n_trans' <= 2,
           end_req_pending' # NULL => n_trans' = 2
    PROVE  Pipeline(next)'
<1>1. IsFiniteSet(InStages(st, Accepted)) /\ n_trans = Cardinality(InStages(st, Accepted))
  BY DEF Pipeline
<1>2. IsFiniteSet(InStages(next, Accepted)) /\ Cardinality(InStages(next, Accepted)) = n_trans'
  <2>1. CASE s \in Accepted /\ st[t] \notin Accepted
    BY <1>1, <2>1, StageEnters
  <2>2. CASE s \notin Accepted /\ st[t] \in Accepted
    BY <1>1, <2>2, StageLeaves
  <2>3. CASE s \in Accepted <=> st[t] \in Accepted
    BY <1>1, <2>3, StageStays
  <2>. QED  BY <2>1, <2>2, <2>3
<1>. QED  BY <1>2 DEF Pipeline, InStages

\* With no event pending nothing is in flight.
LEMMA DrainedIdle ==
    ASSUME NEW st, Inv(st), Drained
    PROVE  /\ \A t \in Trans : st[t] \in {"free", "held"}
           /\ n_trans = 0 /\ ~response_in_progress
           /\ request_in_progress = NULL
           /\ end_req_pending = NULL /\ next_response_pending = NULL
<1>1. \A t \in Trans : st[t] \notin {"request", "execute", "response", "end"}
  BY DEF Inv, Located, Placed, Drained
<1>2. ~response_in_progress /\ next_response_pending = NULL
  BY <1>1 DEF Inv, Responses, Responding, TypeOK
<1>3. \A t \in Trans : st[t] # "answer"
  BY <1>2, NullAssumption DEF Inv, Located, Placed
<1>4. InStages(st, Accepted) = {}
  BY <1>1, <1>3 DEF InStages, Accepted
<1>5. n_trans = 0
  BY <1>4, FS_EmptySet DEF Inv, Pipeline
<1>6. end_req_pending = NULL
  BY <1>5 DEF Inv, Pipeline
<1>7. \A t \in Trans : st[t] # "deferred"
  BY <1>6, NullAssumption DEF Inv, Located, Placed
<1>8. request_in_progress = NULL
  BY <1>1, <1>7 DEF Inv, Requests, Drained, TypeOK, Pointer
<1>. QED  BY <1>1, <1>2, <1>3, <1>5, <1>6, <1>7, <1>8 DEF Inv, Stage

-----------------------------------------------------------------------------
(***************************************************************************)
(* Every action carries Inv from one placement of the transactions to the  *)
(* next; one lemma per action.                                             *)
(***************************************************************************)

LEMMA InitInv == Init => IInv
<1>. SUFFICES ASSUME Init PROVE IInv
  OBVIOUS
<1>. DEFINE st == [t \in Trans |-> "free"]
<1>1. st \in [Trans -> Stage]
  BY DEF Stage
<1>2. TypeOK /\ NoReport
  <2>1. << >> \in Seq(Trans) /\ 0 \in 0 .. NbTransactions
    BY CountAssumption
  <2>2. [t \in Trans |-> 0] \in [Trans -> 0 .. 2]
    OBVIOUS
  <2>. QED  BY <2>1, <2>2 DEF Init, TypeOK, Pointer, NoReport
<1>3. Located(st)
  BY NullAssumption DEF Init, Located, Placed
<1>4. Counted(st)
  BY DEF Init, Counted, Refs
<1>5. Executed(st) /\ Requests(st) /\ Responses(st)
  BY DEF Init, Executed, Requests, Responses, Responding
<1>6. InStages(st, Accepted) = {}
  BY DEF InStages, Accepted
<1>7. Pipeline(st)
  BY <1>6, FS_EmptySet DEF Init, Pipeline
<1>8. Pooled(st) /\ Thread(st)
  BY DEF Init, Pooled, Thread
<1>. QED  BY <1>1, <1>2, <1>3, <1>4, <1>5, <1>7, <1>8 DEF IInv, Inv

LEMMA GenerateInv ==
    ASSUME NEW st, Inv(st), NEW t \in Trans, Generate(t)
    PROVE  IInv'
<1>s. PICK s \in Stage : s = IF request_in_progress # NULL THEN "held" ELSE "request"
  BY DEF Stage
<1>. DEFINE nx == [st EXCEPT ![t] = s]
<1>1. /\ st \in [Trans -> Stage] /\ TypeOK /\ NoReport /\ Located(st) /\ Counted(st)
      /\ Executed(st) /\ Requests(st) /\ Responses(st) /\ Pipeline(st) /\ Pooled(st)
      /\ Thread(st)
  BY DEF Inv
<1>2. /\ pc = "gap" /\ i < NbTransactions /\ i' = i + 1
      /\ Allocate(t)
      /\ UNCHANGED <<initiator_peq, n_trans, response_in_progress, next_response_pending,
                     end_req_pending, adapter, report>>
  BY DEF Generate, targetVars
<1>3. /\ st[t] = "free"
      /\ pool' \in Seq(Trans)
      /\ \A k \in 1 .. Len(pool') : pool'[k] # t /\ st[pool'[k]] = "free"
      /\ \A k, l \in 1 .. Len(pool') : pool'[k] = pool'[l] => k = l
  BY <1>1, <1>2, AllocateFree
<1>4. ref' = [ref EXCEPT ![t] = 1] /\ ok' = ok \ {t}
  BY <1>2 DEF Allocate
<1>f. st[t] = "free"
  BY <1>3
<1>5. trans = NULL /\ adapter = NULL
  BY <1>1, <1>2 DEF Thread
<1>6. IF request_in_progress # NULL
        THEN /\ pc' = "wait_end_request" /\ trans' = t
             /\ request_in_progress' = request_in_progress
             /\ target_peq' = target_peq
        ELSE /\ pc' = "gap" /\ trans' = NULL
             /\ request_in_progress' = t
             /\ target_peq' = target_peq \cup {<<t, "BEGIN_REQ">>}
  BY <1>2, <1>5 DEF Generate, SendBeginReq, RequestOpen
<1>7. s \in Stage /\ nx \in [Trans -> Stage] /\ nx[t] = s
      /\ \A u \in Trans : u # t => nx[u] = st[u]
  BY <1>1 DEF Stage
<1>e. nx = [st EXCEPT ![t] = s]
  OBVIOUS
<1>. HIDE DEF nx
<1>8. TypeOK' /\ NoReport'
  BY <1>1, <1>2, <1>3, <1>4, <1>6, CountAssumption DEF TypeOK, Pointer, NoReport
<1>9. Located(nx)'
  <2>1. CASE request_in_progress # NULL
    <3>1. s = "held" /\ trans' = t /\ target_peq' = target_peq
      BY <1>s, <1>6, <2>1
    <3>2. ASSUME NEW u \in Trans, u # t PROVE Placed(nx, u)'
      BY <1>1, <1>2, <1>f, <1>5, <1>7, <3>1, NullAssumption DEF Located, Placed
    <3>3. Placed(nx, t)'
      BY <1>1, <1>2, <1>f, <1>5, <1>7, <3>1, NullAssumption DEF Located, Placed
    <3>. QED  BY <3>2, <3>3 DEF Located
  <2>2. CASE request_in_progress = NULL
    <3>1. s = "request" /\ trans' = NULL /\ target_peq' = target_peq \cup {<<t, "BEGIN_REQ">>}
      BY <1>s, <1>6, <2>2
    <3>. QED  BY <1>1, <1>2, <1>f, <1>5, <1>7, <3>1, NullAssumption DEF Located, Placed
  <2>. QED  BY <2>1, <2>2
<1>10. Counted(nx)'
  BY <1>s, <1>1, <1>4, <1>7 DEF Counted, Refs, TypeOK
<1>11. Executed(nx)'
  BY <1>s, <1>1, <1>4, <1>6, <1>7 DEF Executed
<1>12. Requests(nx)'
  <2>1. CASE request_in_progress # NULL
    <3>1. request_in_progress \in Trans /\ request_in_progress # t
      BY <1>1, <1>3, <2>1 DEF Requests, TypeOK, Pointer
    <3>. QED  BY <1>s, <1>1, <1>2, <1>3, <1>5, <1>6, <1>7, <2>1, <3>1 DEF Requests
  <2>2. CASE request_in_progress = NULL
    BY <1>s, <1>1, <1>2, <1>3, <1>5, <1>6, <1>7, <2>2, NullAssumption DEF Requests
  <2>. QED  BY <2>1, <2>2
<1>13. Responses(nx)'
  BY <1>s, <1>1, <1>2, <1>3, <1>7 DEF Responses, Responding
<1>14. Pipeline(nx)'
  <2>1. s \notin Accepted /\ st[t] \notin Accepted
    BY <1>s, <1>3 DEF Accepted
  <2>. QED  BY <1>e, <1>1, <1>2, <2>1, PipelineStep DEF Pipeline
<1>15. Pooled(nx)'
  BY <1>3, <1>7 DEF Pooled
<1>16. Thread(nx)'
  BY <1>1, <1>2, <1>5, <1>6, NullAssumption DEF Thread
<1>. QED
  BY <1>7, <1>8, <1>9, <1>10, <1>11, <1>12, <1>13, <1>14, <1>15, <1>16 DEF IInv, Inv

LEMMA ResumeInv ==
    ASSUME NEW st, Inv(st), Resume
    PROVE  IInv'
<1>1. /\ st \in [Trans -> Stage] /\ TypeOK /\ NoReport /\ Located(st) /\ Counted(st)
      /\ Executed(st) /\ Requests(st) /\ Responses(st) /\ Pipeline(st) /\ Pooled(st)
      /\ Thread(st)
  BY DEF Inv
<1>t. PICK t \in Pointer : t = trans
  BY <1>1 DEF TypeOK
<1>. DEFINE nx == [st EXCEPT ![t] = "request"]
<1>2. /\ pc = "notified" /\ pc' = "gap" /\ trans' = NULL
      /\ request_in_progress' = t
      /\ target_peq' = target_peq \cup {<<t, "BEGIN_REQ">>}
      /\ UNCHANGED <<i, initiator_peq, n_trans, response_in_progress,
                     next_response_pending, end_req_pending, adapter, ref, ok, pool, report>>
  BY <1>t DEF Resume, SendBeginReq, targetVars
<1>3. t \in Trans /\ adapter = NULL /\ request_in_progress = NULL
  BY <1>t, <1>1, <1>2 DEF Thread, Pointer
<1>4. st[t] = "held"
  BY <1>t, <1>1, <1>3, NullAssumption DEF Located, Placed
<1>7. nx \in [Trans -> Stage] /\ nx[t] = "request"
      /\ \A u \in Trans : u # t => nx[u] = st[u]
  BY <1>1, <1>3 DEF Stage
<1>e. nx = [st EXCEPT ![t] = "request"]
  OBVIOUS
<1>. HIDE DEF nx
<1>8. TypeOK' /\ NoReport'
  BY <1>1, <1>2, <1>3 DEF TypeOK, Pointer, NoReport
<1>9. Located(nx)'
  BY <1>t, <1>1, <1>2, <1>3, <1>4, <1>7, NullAssumption DEF Located, Placed
<1>10. Counted(nx)'
  BY <1>1, <1>2, <1>4, <1>7 DEF Counted, Refs
<1>11. Executed(nx)'
  BY <1>1, <1>2, <1>4, <1>7 DEF Executed
<1>12. Requests(nx)'
  BY <1>1, <1>2, <1>3, <1>4, <1>7, NullAssumption DEF Requests
<1>13. Responses(nx)'
  BY <1>1, <1>2, <1>4, <1>7 DEF Responses, Responding
<1>14. Pipeline(nx)'
  <2>1. "request" \in Stage
        /\ "request" \notin Accepted /\ st[t] \notin Accepted
    BY <1>4 DEF Accepted, Stage
  <2>. QED  BY <1>e, <1>1, <1>2, <1>3, <2>1, PipelineStep DEF Pipeline
<1>15. Pooled(nx)'
  BY <1>1, <1>2, <1>4, <1>7 DEF Pooled, TypeOK
<1>16. Thread(nx)'
  BY <1>1, <1>2, <1>3, NullAssumption DEF Thread
<1>. QED
  BY <1>7, <1>8, <1>9, <1>10, <1>11, <1>12, <1>13, <1>14, <1>15, <1>16 DEF IInv, Inv

LEMMA InitiatorEndReqInv ==
    ASSUME NEW st, Inv(st), NEW t \in Trans, InitiatorEndReq(t)
    PROVE  IInv'
<1>1. /\ st \in [Trans -> Stage] /\ TypeOK /\ NoReport /\ Located(st) /\ Counted(st)
      /\ Executed(st) /\ Requests(st) /\ Responses(st) /\ Pipeline(st) /\ Pooled(st)
      /\ Thread(st)
  BY DEF Inv
<1>2. /\ <<t, "END_REQ">> \in initiator_peq
      /\ initiator_peq' = initiator_peq \ {<<t, "END_REQ">>}
      /\ request_in_progress' = NULL
      /\ pc' = IF pc = "wait_end_request" THEN "notified" ELSE pc
      /\ UNCHANGED <<i, trans, n_trans, response_in_progress, next_response_pending,
                     end_req_pending, target_peq, adapter, ref, ok, pool, report>>
  BY DEF InitiatorEndReq, EndRequest, targetVars
<1>3. t = request_in_progress /\ st[t] \in {"execute", "answer", "response"}
  BY <1>1, <1>2 DEF Requests
<1>8. TypeOK' /\ NoReport'
  BY <1>1, <1>2 DEF TypeOK, Pointer, NoReport
<1>9. Located(st)' /\ Counted(st)' /\ Executed(st)'
  BY <1>1, <1>2 DEF Located, Placed, Counted, Executed
<1>12. Requests(st)'
  BY <1>1, <1>2, <1>3 DEF Requests
<1>13. Responses(st)' /\ Pipeline(st)' /\ Pooled(st)'
  BY <1>1, <1>2 DEF Responses, Pipeline, InStages, Pooled
<1>16. Thread(st)'
  BY <1>1, <1>2 DEF Thread
<1>. QED  BY <1>1, <1>8, <1>9, <1>12, <1>13, <1>16 DEF IInv, Inv

LEMMA InitiatorBeginRespInv ==
    ASSUME NEW st, Inv(st), NEW t \in Trans, InitiatorBeginResp(t)
    PROVE  IInv'
<1>. DEFINE nx == [st EXCEPT ![t] = "end"]
<1>1. /\ st \in [Trans -> Stage] /\ TypeOK /\ NoReport /\ Located(st) /\ Counted(st)
      /\ Executed(st) /\ Requests(st) /\ Responses(st) /\ Pipeline(st) /\ Pooled(st)
      /\ Thread(st)
  BY DEF Inv
<1>2. /\ <<t, "BEGIN_RESP">> \in initiator_peq /\ <<t, "END_REQ">> \notin initiator_peq
      /\ initiator_peq' = initiator_peq \ {<<t, "BEGIN_RESP">>}
      /\ target_peq' = target_peq \cup {<<t, "END_RESP">>}
      /\ CheckTransaction(t)
      /\ UNCHANGED <<i, trans, n_trans, response_in_progress, next_response_pending,
                     end_req_pending, adapter, ok>>
  BY DEF InitiatorBeginResp, EndReqFirst, targetVars
<1>3. st[t] = "response" /\ t \in ok /\ ref[t] = 2
  BY <1>1, <1>2 DEF Located, Placed, Executed, Counted, Refs
<1>4. t # request_in_progress
  BY <1>1, <1>2, <1>3, NullAssumption DEF Requests
<1>5. /\ pc' = pc /\ request_in_progress' = request_in_progress /\ report' = report
      /\ ref' = [ref EXCEPT ![t] = 1] /\ pool' = pool
  BY <1>1, <1>3, <1>4 DEF InitiatorBeginResp, CheckTransaction, Release
<1>6. t # adapter
  BY <1>1, <1>3, NullAssumption DEF Thread
<1>7. nx \in [Trans -> Stage] /\ nx[t] = "end"
      /\ \A u \in Trans : u # t => nx[u] = st[u]
  BY <1>1 DEF Stage
<1>e. nx = [st EXCEPT ![t] = "end"]
  OBVIOUS
<1>. HIDE DEF nx
<1>8. TypeOK' /\ NoReport'
  BY <1>1, <1>2, <1>3, <1>5 DEF TypeOK, NoReport
<1>9. Located(nx)'
  <2>1. ASSUME NEW u \in Trans, u # t PROVE Placed(nx, u)'
    BY <1>1, <1>2, <1>3, <1>5, <1>7 DEF Located, Placed
  <2>2. Placed(nx, t)'
    BY <1>1, <1>2, <1>3, <1>5, <1>7 DEF Located, Placed
  <2>. QED  BY <2>1, <2>2 DEF Located
<1>10. Counted(nx)'
  BY <1>1, <1>5, <1>7 DEF Counted, Refs, TypeOK
<1>11. Executed(nx)'
  BY <1>1, <1>2, <1>5, <1>7 DEF Executed
<1>12. Requests(nx)'
  BY <1>1, <1>2, <1>3, <1>4, <1>5, <1>7, NullAssumption DEF Requests, TypeOK, Pointer
<1>13. Responses(nx)'
  BY <1>1, <1>2, <1>3, <1>7 DEF Responses, Responding
<1>14. Pipeline(nx)'
  <2>1. "end" \in Stage /\ "end" \in Accepted /\ st[t] \in Accepted
    BY <1>3 DEF Accepted, Stage
  <2>. QED  BY <1>e, <1>1, <1>2, <2>1, PipelineStep DEF Pipeline
<1>15. Pooled(nx)'
  BY <1>1, <1>3, <1>5, <1>7 DEF Pooled, TypeOK
<1>16. Thread(nx)'
  BY <1>1, <1>2, <1>3, <1>5, <1>6, <1>7 DEF Thread, TypeOK, Pointer
<1>. QED
  BY <1>7, <1>8, <1>9, <1>10, <1>11, <1>12, <1>13, <1>14, <1>15, <1>16 DEF IInv, Inv

LEMMA TargetBeginReqInv ==
    ASSUME NEW st, Inv(st), NEW t \in Trans, TargetBeginReq(t)
    PROVE  IInv'
<1>1. /\ st \in [Trans -> Stage] /\ TypeOK /\ NoReport /\ Located(st) /\ Counted(st)
      /\ Executed(st) /\ Requests(st) /\ Responses(st) /\ Pipeline(st) /\ Pooled(st)
      /\ Thread(st)
  BY DEF Inv
<1>s. PICK s \in Stage : s = IF n_trans = 2 THEN "deferred" ELSE "execute"
  BY DEF Stage
<1>. DEFINE nx == [st EXCEPT ![t] = s]
<1>2. /\ <<t, "BEGIN_REQ">> \in target_peq
      /\ Acquire(t)
      /\ UNCHANGED <<pc, i, trans, request_in_progress, response_in_progress,
                     next_response_pending, adapter, ok, pool, report>>
  BY DEF TargetBeginReq, initiatorVars
<1>3. st[t] = "request" /\ ref[t] = 1
  BY <1>1, <1>2 DEF Located, Placed, Counted, Refs
<1>4. ref' = [ref EXCEPT ![t] = 2]
  BY <1>1, <1>2, <1>3 DEF Acquire
<1>5. t = adapter => \A u \in Trans : u # t => st[u] = "free"
  BY <1>1, NullAssumption DEF Thread
<1>6. n_trans = 2 => t # adapter
  <2>. SUFFICES ASSUME t = adapter PROVE n_trans = 0
    OBVIOUS
  <2>1. InStages(st, Accepted) = {}
    BY <1>3, <1>5 DEF InStages, Accepted
  <2>. QED  BY <1>1, <2>1, FS_EmptySet DEF Pipeline
<1>n. end_req_pending = NULL
  <2>1. SUFFICES ASSUME end_req_pending \in Trans PROVE FALSE
    BY <1>1 DEF TypeOK, Pointer
  <2>2. st[end_req_pending] = "deferred" /\ n_trans = 2
    BY <1>1, <2>1, NullAssumption DEF Located, Placed, Pipeline
  <2>3. t = request_in_progress
    BY <1>1, <1>3, <1>6, <2>2 DEF Requests
  <2>4. end_req_pending # adapter
    BY <1>1, <2>1, <2>2, NullAssumption DEF Thread
  <2>5. end_req_pending = request_in_progress
    BY <1>1, <2>1, <2>2, <2>4 DEF Requests
  <2>. QED  BY <1>3, <2>2, <2>3, <2>5
<1>7. nx \in [Trans -> Stage] /\ nx[t] = s
      /\ \A u \in Trans : u # t => nx[u] = st[u]
  BY <1>1 DEF Stage
<1>e. nx = [st EXCEPT ![t] = s]
  OBVIOUS
<1>. HIDE DEF nx
<1>a. CASE n_trans = 2
  <2>1. /\ s = "deferred"
        /\ end_req_pending' = t
        /\ target_peq' = target_peq \ {<<t, "BEGIN_REQ">>}
        /\ n_trans' = 2 /\ initiator_peq' = initiator_peq
    BY <1>s, <1>a DEF TargetBeginReq, PipelineFull
  <2>2. TypeOK' /\ NoReport'
    BY <1>1, <1>2, <1>4, <2>1 DEF TypeOK, Pointer, NoReport
  <2>3. Located(nx)'
    <3>1. ASSUME NEW u \in Trans, u # t PROVE Placed(nx, u)'
      BY <1>1, <1>2, <1>3, <1>n, <1>7, <2>1, NullAssumption DEF Located, Placed
    <3>2. Placed(nx, t)'
      BY <1>1, <1>2, <1>3, <1>n, <1>7, <2>1, NullAssumption DEF Located, Placed
    <3>. QED  BY <3>1, <3>2 DEF Located
  <2>4. Requests(nx)'
    BY <1>1, <1>2, <1>3, <1>7, <2>1 DEF Requests, TypeOK, Pointer
  <2>5. Responses(nx)'
    BY <1>1, <1>2, <1>3, <1>7, <2>1 DEF Responses, Responding
  <2>6. Pipeline(nx)'
    <3>1. s \notin Accepted /\ st[t] \notin Accepted
      BY <1>3, <2>1 DEF Accepted
    <3>. QED  BY <1>e, <1>1, <1>a, <2>1, <3>1, PipelineStep DEF Pipeline
  <2>7. Thread(nx)'
    BY <1>1, <1>2, <1>3, <1>6, <1>a, <1>7, <2>1, NullAssumption DEF Thread, TypeOK, Pointer
  <2>8. Counted(nx)' /\ Executed(nx)' /\ Pooled(nx)'
    BY <1>1, <1>2, <1>3, <1>4, <1>7, <2>1 DEF Counted, Refs, Executed, Pooled, TypeOK
  <2>. QED  BY <1>7, <2>2, <2>3, <2>4, <2>5, <2>6, <2>7, <2>8 DEF IInv, Inv
<1>b. CASE n_trans # 2
  <2>1. /\ s = "execute"
        /\ end_req_pending' = NULL
        /\ target_peq' = (target_peq \ {<<t, "BEGIN_REQ">>}) \cup {<<t, "internal_ph">>}
        /\ n_trans' = n_trans + 1
        /\ initiator_peq' = initiator_peq \cup Backward({t}, "END_REQ")
    BY <1>s, <1>n, <1>b DEF TargetBeginReq, PipelineFull
  <2>2. /\ Backward({t}, "END_REQ") \subseteq {<<t, "END_REQ">>}
        /\ t # adapter => <<t, "END_REQ">> \in Backward({t}, "END_REQ")
        /\ t = adapter => Backward({t}, "END_REQ") = {}
    BY NullAssumption DEF Backward
  <2>3. TypeOK' /\ NoReport'
    <3>1. <<t, "END_REQ">> \in Trans \X {"END_REQ", "BEGIN_RESP"}
      OBVIOUS
    <3>2. initiator_peq' \subseteq Trans \X {"END_REQ", "BEGIN_RESP"}
      BY <1>1, <2>1, <2>2, <3>1 DEF TypeOK
    <3>3. <<t, "internal_ph">> \in Trans \X {"BEGIN_REQ", "internal_ph", "END_RESP"}
      OBVIOUS
    <3>4. target_peq' \subseteq Trans \X {"BEGIN_REQ", "internal_ph", "END_RESP"}
      BY <1>1, <2>1, <3>3 DEF TypeOK
    <3>5. n_trans' \in Nat /\ ref' \in [Trans -> 0 .. 2]
      BY <1>1, <1>4, <2>1 DEF TypeOK
    <3>. QED  BY <1>1, <1>2, <2>1, <3>2, <3>4, <3>5 DEF TypeOK, Pointer, NoReport
  <2>4. Located(nx)'
    BY <1>1, <1>2, <1>3, <1>n, <1>7, <2>1, <2>2, NullAssumption DEF Located, Placed
  <2>5. Requests(nx)'
    <3>1. \A u \in Trans : <<u, "END_REQ">> \in initiator_peq'
                             <=> <<u, "END_REQ">> \in initiator_peq \/ (u = t /\ t # adapter)
      BY <2>1, <2>2
    <3>2. t # adapter => t = request_in_progress
      BY <1>1, <1>3 DEF Requests
    <3>3. t = adapter => request_in_progress = NULL
      BY <1>1, NullAssumption DEF Thread
    <3>. QED
      BY <1>1, <1>2, <1>3, <1>7, <2>1, <3>1, <3>2, <3>3 DEF Requests, TypeOK, Pointer
  <2>6. Responses(nx)'
    BY <1>1, <1>2, <1>3, <1>7, <2>1 DEF Responses, Responding
  <2>7. Pipeline(nx)'
    <3>1. s \in Accepted /\ st[t] \notin Accepted
      BY <1>3, <2>1 DEF Accepted
    <3>2. n_trans' <= 2
      BY <1>1, <1>b, <2>1 DEF Pipeline, TypeOK
    <3>. QED  BY <1>e, <1>1, <2>1, <3>1, <3>2, PipelineStep
  <2>8. Thread(nx)'
    BY <1>1, <1>2, <1>3, <1>7, <2>1, NullAssumption DEF Thread, TypeOK, Pointer
  <2>9. Counted(nx)' /\ Executed(nx)' /\ Pooled(nx)'
    BY <1>1, <1>2, <1>3, <1>4, <1>7, <2>1 DEF Counted, Refs, Executed, Pooled, TypeOK
  <2>. QED  BY <1>7, <2>3, <2>4, <2>5, <2>6, <2>7, <2>8, <2>9 DEF IInv, Inv
<1>. QED  BY <1>a, <1>b

\* Three accepted transactions are one too many: no response is put off twice.
LEMMA AtMostTwo ==
    ASSUME NEW st, Inv(st),
           NEW t \in Trans, st[t] = "execute",
           NEW u \in Trans, st[u] = "answer",
           NEW v \in Trans, st[v] \in Responding
    PROVE  FALSE
<1>1. t # u /\ t # v /\ u # v
  BY DEF Responding
<1>2. {t, u} \cup {v} \in SUBSET InStages(st, Accepted)
  BY DEF InStages, Accepted, Responding
<1>3. IsFiniteSet({t, u}) /\ Cardinality({t, u}) = 2
  <2>1. {t, u} = {t} \cup {u} /\ u \notin {t}
    BY <1>1
  <2>2. IsFiniteSet({t}) /\ Cardinality({t}) = 1
    BY FS_Singleton
  <2>3. /\ IsFiniteSet({t} \cup {u})
        /\ Cardinality({t} \cup {u}) = IF u \in {t} THEN Cardinality({t}) ELSE Cardinality({t}) + 1
    BY <2>2, FS_AddElement
  <2>4. Cardinality({t} \cup {u}) = 2
    BY <2>1, <2>2, <2>3
  <2>. QED  BY <2>1, <2>3, <2>4
<1>4. Cardinality({t, u} \cup {v}) = 3
  <2>1. v \notin {t, u}
    BY <1>1
  <2>2. Cardinality({t, u} \cup {v})
           = IF v \in {t, u} THEN Cardinality({t, u}) ELSE Cardinality({t, u}) + 1
    BY <1>3, FS_AddElement
  <2>. QED  BY <1>3, <2>1, <2>2
<1>5. /\ IsFiniteSet(InStages(st, Accepted))
      /\ Cardinality(InStages(st, Accepted)) = n_trans /\ n_trans <= 2 /\ n_trans \in Nat
  BY DEF Inv, Pipeline, TypeOK
<1>6. Cardinality({t, u} \cup {v}) <= Cardinality(InStages(st, Accepted))
  BY <1>2, <1>5, FS_Subset
<1>. QED  BY <1>4, <1>5, <1>6

LEMMA TargetExecuteInv ==
    ASSUME NEW st, Inv(st), NEW t \in Trans, TargetExecute(t)
    PROVE  IInv'
<1>1. /\ st \in [Trans -> Stage] /\ TypeOK /\ NoReport /\ Located(st) /\ Counted(st)
      /\ Executed(st) /\ Requests(st) /\ Responses(st) /\ Pipeline(st) /\ Pooled(st)
      /\ Thread(st)
  BY DEF Inv
<1>s. PICK s \in Stage : s = IF response_in_progress THEN "answer"
                            ELSE IF t = adapter THEN "held" ELSE "response"
  BY DEF Stage
<1>. DEFINE nx == [st EXCEPT ![t] = s]
<1>2. /\ <<t, "internal_ph">> \in target_peq
      /\ target_peq' = target_peq \ {<<t, "internal_ph">>}
      /\ ok' = ok \cup {t}
      /\ report' = IF response_in_progress /\ next_response_pending # NULL
                     THEN "FATAL" ELSE report
      /\ UNCHANGED <<i, trans, request_in_progress, end_req_pending>>
  BY DEF TargetExecute
<1>3. st[t] = "execute" /\ ref[t] = 2
  BY <1>1, <1>2 DEF Located, Placed, Counted, Refs
<1>n. next_response_pending = NULL
  <2>1. SUFFICES ASSUME next_response_pending \in Trans PROVE FALSE
    BY <1>1 DEF TypeOK, Pointer
  <2>2. st[next_response_pending] = "answer"
    BY <1>1, <2>1 DEF Located, Placed
  <2>3. PICK v \in Trans : st[v] \in Responding
    BY <1>1, <2>1, NullAssumption DEF Responses
  <2>. QED  BY <1>3, <2>1, <2>2, <2>3, AtMostTwo
<1>r. report' = report
  BY <1>2, <1>n
<1>5. t = adapter => \A u \in Trans : u # t => st[u] = "free"
  BY <1>1, NullAssumption DEF Thread
<1>6. response_in_progress => t # adapter
  BY <1>1, <1>3, <1>5 DEF Responses, Responding
<1>7. nx \in [Trans -> Stage] /\ nx[t] = s
      /\ \A u \in Trans : u # t => nx[u] = st[u]
  BY <1>1 DEF Stage
<1>e. nx = [st EXCEPT ![t] = s]
  OBVIOUS
<1>. HIDE DEF nx
<1>a. CASE response_in_progress
  <2>1. /\ s = "answer"
        /\ next_response_pending' = t
        /\ UNCHANGED <<response_in_progress, initiator_peq, n_trans, adapter, ref, pool, pc>>
    BY <1>s, <1>a DEF TargetExecute, DeferResponse
  <2>2. TypeOK' /\ NoReport'
    BY <1>1, <1>2, <1>r, <2>1 DEF TypeOK, Pointer, NoReport
  <2>3. Located(nx)'
    <3>1. ASSUME NEW u \in Trans, u # t PROVE Placed(nx, u)'
      BY <1>1, <1>2, <1>3, <1>n, <1>7, <2>1, NullAssumption DEF Located, Placed
    <3>2. Placed(nx, t)'
      BY <1>1, <1>2, <1>3, <1>n, <1>7, <2>1, NullAssumption DEF Located, Placed
    <3>. QED  BY <3>1, <3>2 DEF Located
  <2>4. Requests(nx)'
    BY <1>1, <1>2, <1>3, <1>7, <2>1 DEF Requests, TypeOK, Pointer
  <2>5. Responses(nx)'
    BY <1>1, <1>2, <1>3, <1>7, <1>a, <2>1 DEF Responses, Responding
  <2>6. Pipeline(nx)'
    <3>1. s \in Accepted /\ st[t] \in Accepted
      BY <1>3, <2>1 DEF Accepted
    <3>. QED  BY <1>e, <1>1, <1>2, <2>1, <3>1, PipelineStep DEF Pipeline
  <2>7. Thread(nx)'
    BY <1>1, <1>2, <1>3, <1>6, <1>a, <1>7, <2>1, NullAssumption DEF Thread, TypeOK, Pointer
  <2>8. Counted(nx)' /\ Executed(nx)' /\ Pooled(nx)'
    BY <1>1, <1>2, <1>3, <1>7, <2>1 DEF Counted, Refs, Executed, Pooled, TypeOK
  <2>. QED  BY <1>7, <2>2, <2>3, <2>4, <2>5, <2>6, <2>7, <2>8 DEF IInv, Inv
<1>b. CASE ~response_in_progress /\ t # adapter
  <2>1. /\ s = "response"
        /\ response_in_progress' = TRUE
        /\ initiator_peq' = initiator_peq \cup {<<t, "BEGIN_RESP">>}
        /\ UNCHANGED <<n_trans, next_response_pending, adapter, ref, pool, pc>>
    BY <1>s, <1>b, NullAssumption DEF TargetExecute, SendResponse, Backward
  <2>2. TypeOK' /\ NoReport'
    BY <1>1, <1>2, <1>r, <2>1 DEF TypeOK, Pointer, NoReport
  <2>3. Located(nx)'
    <3>1. ASSUME NEW u \in Trans, u # t PROVE Placed(nx, u)'
      BY <1>1, <1>2, <1>3, <1>7, <2>1 DEF Located, Placed
    <3>2. Placed(nx, t)'
      BY <1>1, <1>2, <1>3, <1>7, <2>1 DEF Located, Placed
    <3>. QED  BY <3>1, <3>2 DEF Located
  <2>4. Requests(nx)'
    BY <1>1, <1>2, <1>3, <1>7, <2>1 DEF Requests, TypeOK, Pointer
  <2>5. Responses(nx)'
    BY <1>1, <1>2, <1>3, <1>7, <1>b, <1>n, <2>1 DEF Responses, Responding
  <2>6. Pipeline(nx)'
    <3>1. s \in Accepted /\ st[t] \in Accepted
      BY <1>3, <2>1 DEF Accepted
    <3>. QED  BY <1>e, <1>1, <1>2, <2>1, <3>1, PipelineStep DEF Pipeline
  <2>7. Thread(nx)'
    BY <1>1, <1>2, <1>3, <1>b, <1>7, <2>1, NullAssumption DEF Thread, TypeOK, Pointer
  <2>8. Counted(nx)' /\ Executed(nx)' /\ Pooled(nx)'
    BY <1>1, <1>2, <1>3, <1>7, <2>1 DEF Counted, Refs, Executed, Pooled, TypeOK
  <2>. QED  BY <1>7, <2>2, <2>3, <2>4, <2>5, <2>6, <2>7, <2>8 DEF IInv, Inv
<1>c. CASE ~response_in_progress /\ t = adapter
  <2>1. /\ s = "held"
        /\ response_in_progress' = FALSE
        /\ n_trans' = n_trans - 1
        /\ adapter' = NULL /\ pc' = "returned"
        /\ Release(t)
        /\ UNCHANGED <<initiator_peq, next_response_pending>>
    BY <1>s, <1>c DEF TargetExecute, Complete
  <2>2. ref' = [ref EXCEPT ![t] = 1] /\ pool' = pool
    BY <1>1, <1>3, <2>1 DEF Release
  <2>3. trans = t /\ request_in_progress = NULL
    BY <1>1, <1>c, NullAssumption DEF Thread
  <2>6. s \notin Accepted /\ st[t] \in Accepted
    BY <1>3, <2>1 DEF Accepted
  <2>7. n_trans \in Nat /\ n_trans # 0 /\ n_trans <= 2 /\ end_req_pending = NULL
    <3>1. t \in InStages(st, Accepted)
      BY <2>6 DEF InStages
    <3>2. n_trans # 0
      BY <1>1, <3>1, FS_EmptySet DEF Pipeline
    <3>3. \A u \in Trans : st[u] # "deferred"
      BY <1>3, <1>5, <1>c
    <3>4. end_req_pending = NULL
      BY <1>1, <3>3 DEF Located, Placed, TypeOK, Pointer
    <3>. QED  BY <1>1, <3>2, <3>4 DEF TypeOK, Pipeline
  <2>8. TypeOK' /\ NoReport'
    <3>1. n_trans' \in Nat
      BY <2>1, <2>7
    <3>2. ref' \in [Trans -> 0 .. 2]
      BY <1>1, <2>2 DEF TypeOK
    <3>3. target_peq' \subseteq Trans \X {"BEGIN_REQ", "internal_ph", "END_RESP"}
      BY <1>1, <1>2 DEF TypeOK
    <3>. QED
      BY <1>1, <1>2, <1>r, <2>1, <2>2, <3>1, <3>2, <3>3 DEF TypeOK, Pointer, NoReport
  <2>9. Located(nx)'
    <3>1. ASSUME NEW u \in Trans, u # t PROVE Placed(nx, u)'
      BY <1>1, <1>2, <1>3, <1>c, <1>7, <2>1, <2>3, NullAssumption DEF Located, Placed
    <3>2. Placed(nx, t)'
      BY <1>1, <1>2, <1>3, <1>c, <1>7, <2>1, <2>3, NullAssumption DEF Located, Placed
    <3>. QED  BY <3>1, <3>2 DEF Located
  <2>10. Requests(nx)'
    <3>1. \A u \in Trans : st[u] \in {"free", "execute"}
      BY <1>3, <1>5, <1>c
    <3>2. \A u \in Trans : nx[u] \in {"free", "held"}
      BY <1>5, <1>c, <1>7, <2>1
    <3>3. \A u \in Trans : <<u, "END_REQ">> \notin initiator_peq
      BY <1>1, <2>3, NullAssumption DEF Requests
    <3>4. request_in_progress' = NULL
      BY <1>2, <2>3
    <3>. QED  BY <2>1, <3>2, <3>3, <3>4 DEF Requests
  <2>11. Responses(nx)'
    BY <1>1, <1>2, <1>3, <1>7, <1>c, <1>n, <2>1 DEF Responses, Responding
  <2>12. Pipeline(nx)'
    <3>1. n_trans' <= 2 /\ n_trans' = n_trans - 1
      BY <2>1, <2>7
    <3>2. end_req_pending' = NULL
      BY <1>2, <2>7
    <3>. QED  BY <1>e, <1>1, <2>6, <3>1, <3>2, PipelineStep
  <2>13. Thread(nx)'
    BY <1>1, <1>2, <1>5, <1>c, <1>7, <2>1, <2>3, NullAssumption DEF Thread
  <2>14. Counted(nx)' /\ Executed(nx)' /\ Pooled(nx)'
    BY <1>1, <1>2, <1>3, <1>7, <2>1, <2>2, <2>3
       DEF Counted, Refs, Executed, Pooled, TypeOK
  <2>. QED
    BY <1>7, <2>8, <2>9, <2>10, <2>11, <2>12, <2>13, <2>14 DEF IInv, Inv
<1>. QED  BY <1>a, <1>b, <1>c

LEMMA TargetEndRespInv ==
    ASSUME NEW st, Inv(st), NEW t \in Trans, TargetEndResp(t)
    PROVE  IInv'
<1>1. /\ st \in [Trans -> Stage] /\ TypeOK /\ NoReport /\ Located(st) /\ Counted(st)
      /\ Executed(st) /\ Requests(st) /\ Responses(st) /\ Pipeline(st) /\ Pooled(st)
      /\ Thread(st)
  BY DEF Inv
<1>q. PICK q \in Pointer : q = next_response_pending
  BY <1>1 DEF TypeOK
<1>r. PICK r \in Pointer : r = end_req_pending
  BY <1>1 DEF TypeOK
<1>. DEFINE nx == [w \in Trans |-> IF w = t THEN "free"
                                   ELSE IF st[w] = "answer" THEN "response"
                                   ELSE IF st[w] = "deferred" THEN "execute" ELSE st[w]]
<1>2. /\ <<t, "END_RESP">> \in target_peq
      /\ report' = IF response_in_progress THEN report ELSE "FATAL"
      /\ Release(t)
      /\ response_in_progress' = (q # NULL)
      /\ next_response_pending' = NULL /\ end_req_pending' = NULL
      /\ n_trans' = n_trans - 1 + Cardinality(Deref(r))
      /\ UNCHANGED <<pc, i, trans, request_in_progress, adapter, ok>>
  BY <1>q, <1>r DEF TargetEndResp, initiatorVars
<1>3. st[t] = "end" /\ ref[t] = 1 /\ t # NULL
  BY <1>1, <1>2, NullAssumption DEF Located, Placed, Counted, Refs
<1>4. adapter = NULL /\ pc \notin {"b_transport", "returned", "done"}
  <2>1. adapter = NULL
    BY <1>1, <1>3, NullAssumption DEF Thread
  <2>2. t # trans
    BY <1>1, <1>3, <2>1 DEF Located, Placed
  <2>. QED  BY <1>1, <1>3, <2>1, <2>2 DEF Thread
<1>5. \A u \in Trans : /\ (u = q) <=> st[u] = "answer"
                       /\ (u = r) <=> st[u] = "deferred"
                       /\ st[u] \in Responding => u = t
  BY <1>q, <1>r, <1>1, <1>3 DEF Located, Placed, Responses, Responding
<1>6. /\ \A u \in Trans, ph \in {"BEGIN_REQ", "internal_ph", "END_RESP"} :
            <<u, ph>> \in target_peq' <=> \/ <<u, ph>> \in target_peq /\ <<u, ph>> # <<t, "END_RESP">>
                                          \/ u = r /\ ph = "internal_ph"
      /\ target_peq' \subseteq Trans \X {"BEGIN_REQ", "internal_ph", "END_RESP"}
  <2>1. target_peq' = (target_peq \ {<<t, "END_RESP">>}) \cup Deref(r) \X {"internal_ph"}
    BY <1>r DEF TargetEndResp
  <2>2. \A u \in Trans : u \in Deref(r) <=> u = r
    BY NullAssumption DEF Deref
  <2>3. Deref(r) \subseteq Trans
    BY DEF Deref, Pointer
  <2>4. Deref(r) \X {"internal_ph"} \subseteq Trans \X {"BEGIN_REQ", "internal_ph", "END_RESP"}
    BY <2>3
  <2>. QED  BY <1>1, <2>1, <2>2, <2>4 DEF TypeOK
<1>7. /\ \A u \in Trans : <<u, "BEGIN_RESP">> \in initiator_peq'
                             <=> <<u, "BEGIN_RESP">> \in initiator_peq \/ u = q
      /\ \A u \in Trans : <<u, "END_REQ">> \in initiator_peq'
                             <=> <<u, "END_REQ">> \in initiator_peq \/ u = r
      /\ initiator_peq' \subseteq Trans \X {"END_REQ", "BEGIN_RESP"}
  <2>1. initiator_peq' = initiator_peq \cup Backward(Deref(q), "BEGIN_RESP")
                                       \cup Backward(Deref(r), "END_REQ")
    BY <1>q, <1>r DEF TargetEndResp
  <2>2. \A u \in Trans, ph \in {"END_REQ", "BEGIN_RESP"} :
           /\ <<u, ph>> \in Backward(Deref(q), "BEGIN_RESP") <=> u = q /\ ph = "BEGIN_RESP"
           /\ <<u, ph>> \in Backward(Deref(r), "END_REQ") <=> u = r /\ ph = "END_REQ"
    BY <1>4, NullAssumption DEF Backward, Deref
  <2>3. /\ Backward(Deref(q), "BEGIN_RESP") \subseteq Trans \X {"END_REQ", "BEGIN_RESP"}
        /\ Backward(Deref(r), "END_REQ") \subseteq Trans \X {"END_REQ", "BEGIN_RESP"}
    BY DEF Backward, Deref, Pointer
  <2>. QED  BY <1>1, <2>1, <2>2, <2>3 DEF TypeOK
<1>8. /\ nx \in [Trans -> Stage] /\ nx[t] = "free"
      /\ \A u \in Trans : u # t =>
            nx[u] = IF st[u] = "answer" THEN "response"
                    ELSE IF st[u] = "deferred" THEN "execute" ELSE st[u]
  <2>1. \A u \in Trans : st[u] \in Stage
    BY <1>1
  <2>2. {"free", "response", "execute"} \subseteq Stage
    BY DEF Stage
  <2>. QED  BY <2>1, <2>2
<1>. HIDE DEF nx
<1>9. response_in_progress /\ report' = report
  BY <1>1, <1>2, <1>3 DEF Responses, Responding
<1>10. ref' = [ref EXCEPT ![t] = 0]
  BY <1>2, <1>3 DEF Release
<1>11. /\ pool' \in Seq(Trans)
       /\ \A k \in 1 .. Len(pool') : \/ pool'[k] = t /\ ref[t] = 1
                                     \/ pool'[k] # t /\ st[pool'[k]] = "free"
       /\ \A k, l \in 1 .. Len(pool') : pool'[k] = pool'[l] => k = l
  BY <1>1, <1>2, <1>3, ReleasePools
<1>12. /\ IsFiniteSet(InStages(nx, Accepted))
       /\ n_trans' = Cardinality(InStages(nx, Accepted))
       /\ n_trans' <= 2 /\ n_trans' \in Nat
  <2>1. t \in InStages(st, Accepted) /\ t \notin InStages(nx, Accepted)
    BY <1>3, <1>8 DEF InStages, Accepted
  <2>2. /\ IsFiniteSet(InStages(st, Accepted) \ {t})
        /\ Cardinality(InStages(st, Accepted) \ {t}) = n_trans - 1
    BY <1>1, <2>1, FS_RemoveElement DEF Pipeline
  <2>3. n_trans \in Nat /\ n_trans <= 2 /\ n_trans - 1 \in Nat
    BY <1>1, <2>2, FS_CardinalityType DEF TypeOK, Pipeline
  <2>4. CASE r = NULL
    <3>1. InStages(nx, Accepted) = InStages(st, Accepted) \ {t}
      BY <1>3, <1>5, <1>8, <2>4, NullAssumption DEF InStages, Accepted
    <3>2. Deref(r) = {}
      BY <2>4 DEF Deref
    <3>3. Cardinality(Deref(r)) = 0
      BY <3>2, FS_EmptySet
    <3>4. n_trans' = n_trans - 1
      BY <1>2, <2>3, <3>3
    <3>. QED  BY <2>2, <2>3, <3>1, <3>4
  <2>5. CASE r # NULL
    <3>1. r \in Trans /\ r # t /\ st[r] = "deferred"
      BY <1>3, <1>5, <2>5 DEF Pointer
    <3>2. InStages(nx, Accepted) = (InStages(st, Accepted) \ {t}) \cup {r}
      BY <1>3, <1>5, <1>8, <3>1 DEF InStages, Accepted
    <3>3. r \notin InStages(st, Accepted) \ {t}
      BY <3>1 DEF InStages, Accepted
    <3>4. /\ IsFiniteSet(InStages(nx, Accepted))
          /\ Cardinality(InStages(nx, Accepted)) = n_trans - 1 + 1
      <4>. DEFINE rest == InStages(st, Accepted) \ {t}
      <4>1. IsFiniteSet(rest) /\ Cardinality(rest) = n_trans - 1 /\ r \notin rest
        BY <2>2, <3>3
      <4>2. InStages(nx, Accepted) = rest \cup {r}
        BY <3>2
      <4>. HIDE DEF rest
      <4>3. IsFiniteSet(rest \cup {r}) /\ Cardinality(rest \cup {r}) = Cardinality(rest) + 1
        BY <4>1, FS_AddElement
      <4>. QED  BY <4>1, <4>2, <4>3
    <3>5. Deref(r) = {r}
      BY <2>5 DEF Deref
    <3>6. Cardinality(Deref(r)) = 1
      BY <3>5, FS_Singleton
    <3>7. n_trans' = n_trans
      BY <1>2, <2>3, <3>6
    <3>. QED  BY <2>3, <3>4, <3>7
  <2>. QED  BY <2>4, <2>5
<1>13. TypeOK' /\ NoReport'
  <2>1. ref' \in [Trans -> 0 .. 2]
    BY <1>1, <1>10 DEF TypeOK
  <2>. QED
    BY <1>1, <1>2, <1>6, <1>7, <1>9, <1>11, <1>12, <2>1 DEF TypeOK, Pointer, NoReport
<1>14. Located(nx)'
  <2>. SUFFICES ASSUME NEW u \in Trans
                PROVE  /\ <<u, "BEGIN_REQ">> \in target_peq' <=> nx[u] = "request"
                       /\ <<u, "internal_ph">> \in target_peq' <=> nx[u] = "execute"
                       /\ <<u, "END_RESP">> \in target_peq' <=> nx[u] = "end"
                       /\ <<u, "BEGIN_RESP">> \in initiator_peq' <=> nx[u] = "response"
                       /\ nx[u] # "deferred" /\ nx[u] # "answer"
                       /\ (u = trans /\ u # adapter) <=> nx[u] = "held"
    BY <1>2, NullAssumption DEF Located, Placed
  <2>1. /\ <<u, "BEGIN_REQ">> \in target_peq <=> st[u] = "request"
        /\ <<u, "internal_ph">> \in target_peq <=> st[u] = "execute"
        /\ <<u, "END_RESP">> \in target_peq <=> st[u] = "end"
        /\ <<u, "BEGIN_RESP">> \in initiator_peq <=> st[u] = "response"
        /\ (u = trans /\ u # adapter) <=> st[u] = "held"
    BY <1>1 DEF Located, Placed
  <2>2. (u = q <=> st[u] = "answer") /\ (u = r <=> st[u] = "deferred")
    BY <1>5
  <2>3. st[u] \in Responding => u = t
    BY <1>5
  <2>4. /\ <<u, "BEGIN_REQ">> \in target_peq' <=> <<u, "BEGIN_REQ">> \in target_peq
        /\ <<u, "internal_ph">> \in target_peq'
              <=> <<u, "internal_ph">> \in target_peq \/ u = r
        /\ <<u, "END_RESP">> \in target_peq'
              <=> <<u, "END_RESP">> \in target_peq /\ u # t
        /\ <<u, "BEGIN_RESP">> \in initiator_peq'
              <=> <<u, "BEGIN_RESP">> \in initiator_peq \/ u = q
    <3>1. <<u, "END_RESP">> # <<t, "END_RESP">> <=> u # t
      OBVIOUS
    <3>. QED  BY <1>6, <1>7, <3>1
  <2>5. CASE u = t
    BY <1>3, <1>8, <2>1, <2>2, <2>4, <2>5
  <2>6. CASE u # t
    <3>1. nx[u] = IF st[u] = "answer" THEN "response"
                  ELSE IF st[u] = "deferred" THEN "execute" ELSE st[u]
      BY <1>8, <2>6
    <3>. QED  BY <2>1, <2>2, <2>3, <2>4, <2>6, <3>1 DEF Responding
  <2>. QED  BY <2>5, <2>6
<1>15. Counted(nx)'
  BY <1>1, <1>8, <1>10 DEF Counted, Refs, TypeOK
<1>16. Executed(nx)'
  BY <1>1, <1>2, <1>8 DEF Executed
<1>17. Requests(nx)'
  <2>1. r # NULL => r = request_in_progress /\ st[r] = "deferred" /\ r # t
    BY <1>1, <1>3, <1>4, <1>5, NullAssumption DEF Requests, Pointer
  <2>. QED
    BY <1>1, <1>2, <1>3, <1>4, <1>5, <1>7, <1>8, <2>1, NullAssumption
       DEF Requests, TypeOK, Pointer
<1>18. Responses(nx)'
  <2>1. \A u \in Trans : nx[u] \in Responding <=> u = q
    <3>1. \A u \in Trans : u # t => (nx[u] \in Responding <=> st[u] = "answer")
      BY <1>5, <1>8 DEF Responding
    <3>2. nx[t] \notin Responding /\ t # q
      BY <1>3, <1>5, <1>8 DEF Responding
    <3>. QED  BY <1>5, <3>1, <3>2
  <2>2. q # NULL <=> \E u \in Trans : nx[u] \in Responding
    BY <2>1, NullAssumption DEF Pointer
  <2>. QED  BY <1>2, <2>1, <2>2 DEF Responses
<1>19. Pipeline(nx)'
  BY <1>2, <1>12 DEF Pipeline, InStages
<1>20. Pooled(nx)'
  BY <1>8, <1>11 DEF Pooled, TypeOK
<1>21. Thread(nx)'
  BY <1>1, <1>2, <1>4 DEF Thread
<1>. QED
  BY <1>8, <1>13, <1>14, <1>15, <1>16, <1>17, <1>18, <1>19, <1>20, <1>21 DEF IInv, Inv

LEMMA CallBTransportInv ==
    ASSUME NEW st, Inv(st), NEW t \in Trans, CallBTransport(t)
    PROVE  IInv'
<1>. DEFINE nx == [st EXCEPT ![t] = "request"]
<1>1. /\ st \in [Trans -> Stage] /\ TypeOK /\ NoReport /\ Located(st) /\ Counted(st)
      /\ Executed(st) /\ Requests(st) /\ Responses(st) /\ Pipeline(st) /\ Pooled(st)
      /\ Thread(st)
  BY DEF Inv
<1>2. /\ pc = "gap" /\ pc' = "b_transport" /\ trans' = t /\ adapter' = t
      /\ Allocate(t) /\ Drained
      /\ target_peq' = {<<t, "BEGIN_REQ">>} /\ initiator_peq' = initiator_peq
      /\ UNCHANGED <<i, request_in_progress, n_trans, response_in_progress,
                     next_response_pending, end_req_pending, report>>
  BY DEF CallBTransport, targetVars
<1>3. /\ \A u \in Trans : st[u] \in {"free", "held"}
      /\ n_trans = 0 /\ ~response_in_progress
      /\ request_in_progress = NULL
      /\ end_req_pending = NULL /\ next_response_pending = NULL
  BY <1>2, DrainedIdle
<1>4. initiator_peq = {} /\ trans = NULL /\ adapter = NULL
  BY <1>1, <1>2 DEF Drained, Thread
<1>5. \A u \in Trans : st[u] = "free"
  BY <1>1, <1>3, <1>4, NullAssumption DEF Located, Placed
<1>6. /\ pool' \in Seq(Trans)
      /\ \A k \in 1 .. Len(pool') : pool'[k] # t /\ st[pool'[k]] = "free"
      /\ \A k, l \in 1 .. Len(pool') : pool'[k] = pool'[l] => k = l
  BY <1>1, <1>2, AllocateFree
<1>7. nx \in [Trans -> Stage] /\ nx[t] = "request"
      /\ \A u \in Trans : u # t => nx[u] = "free"
  BY <1>1, <1>5 DEF Stage
<1>e. nx = [st EXCEPT ![t] = "request"]
  OBVIOUS
<1>. HIDE DEF nx
<1>8. ref' = [ref EXCEPT ![t] = 1] /\ ok' = ok \ {t}
  BY <1>2 DEF Allocate
<1>9. TypeOK' /\ NoReport'
  BY <1>1, <1>2, <1>6, <1>8 DEF TypeOK, Pointer, NoReport
<1>10. Located(nx)'
  BY <1>2, <1>3, <1>4, <1>7, NullAssumption DEF Located, Placed
<1>11. Counted(nx)' /\ Executed(nx)'
  BY <1>1, <1>2, <1>5, <1>7, <1>8 DEF Counted, Refs, Executed, TypeOK
<1>12. Requests(nx)'
  BY <1>2, <1>3, <1>4, <1>7 DEF Requests
<1>13. Responses(nx)'
  BY <1>2, <1>3, <1>7 DEF Responses, Responding
<1>14. Pipeline(nx)'
  <2>1. "request" \in Stage /\ "request" \notin Accepted /\ st[t] \notin Accepted
    BY <1>5 DEF Accepted, Stage
  <2>. QED  BY <1>e, <1>1, <1>2, <2>1, PipelineStep DEF Pipeline
<1>15. Pooled(nx)'
  BY <1>6, <1>7 DEF Pooled, TypeOK
<1>16. Thread(nx)'
  BY <1>2, <1>3, <1>7, NullAssumption DEF Thread
<1>. QED
  BY <1>7, <1>9, <1>10, <1>11, <1>12, <1>13, <1>14, <1>15, <1>16 DEF IInv, Inv

LEMMA BTransportReturnsInv ==
    ASSUME NEW st, Inv(st), BTransportReturns
    PROVE  IInv'
<1>1. /\ st \in [Trans -> Stage] /\ TypeOK /\ NoReport /\ Located(st) /\ Counted(st)
      /\ Executed(st) /\ Requests(st) /\ Responses(st) /\ Pipeline(st) /\ Pooled(st)
      /\ Thread(st)
  BY DEF Inv
<1>t. PICK t \in Pointer : t = trans
  BY <1>1 DEF TypeOK
<1>. DEFINE nx == [st EXCEPT ![t] = "free"]
<1>2. /\ pc = "returned" /\ pc' = "done" /\ trans' = NULL
      /\ CheckTransaction(t)
      /\ UNCHANGED <<i, request_in_progress, n_trans, response_in_progress,
                     next_response_pending, end_req_pending, initiator_peq, target_peq,
                     adapter, ok>>
  BY <1>t DEF BTransportReturns, targetVars
<1>3. t \in Trans /\ adapter = NULL /\ request_in_progress = NULL
  BY <1>t, <1>1, <1>2 DEF Thread, Pointer
<1>4. st[t] = "held" /\ ref[t] = 1 /\ t \in ok
  BY <1>t, <1>1, <1>2, <1>3, NullAssumption DEF Located, Placed, Counted, Refs, Executed
<1>5. report' = report /\ ref' = [ref EXCEPT ![t] = 0] /\ Release(t)
  BY <1>2, <1>4 DEF CheckTransaction, Release
<1>6. \A u \in Trans : u # t => st[u] = "free"
  BY <1>t, <1>1, <1>2 DEF Thread
<1>7. /\ pool' \in Seq(Trans)
      /\ \A k, l \in 1 .. Len(pool') : pool'[k] = pool'[l] => k = l
  BY <1>1, <1>3, <1>4, <1>5, ReleasePools
<1>8. nx \in [Trans -> Stage] /\ \A u \in Trans : nx[u] = "free"
  BY <1>1, <1>3, <1>6 DEF Stage
<1>e. nx = [st EXCEPT ![t] = "free"]
  OBVIOUS
<1>. HIDE DEF nx
<1>9. TypeOK' /\ NoReport'
  <2>1. ref' \in [Trans -> 0 .. 2]
    <3>1. ref \in [Trans -> 0 .. 2] /\ 0 \in 0 .. 2
      BY <1>1 DEF TypeOK
    <3>2. ref' = [ref EXCEPT ![t] = 0]
      BY <1>5
    <3>. QED  BY <3>1, <3>2
  <2>. QED  BY <1>1, <1>2, <1>5, <1>7, <2>1 DEF TypeOK, Pointer, NoReport
<1>10. Located(nx)'
  BY <1>1, <1>2, <1>3, <1>4, <1>6, <1>8, NullAssumption DEF Located, Placed
<1>11. Counted(nx)'
  BY <1>1, <1>4, <1>5, <1>6, <1>8 DEF Counted, Refs, TypeOK
<1>12. Executed(nx)' /\ Responses(nx)'
  BY <1>1, <1>2, <1>4, <1>6, <1>8 DEF Executed, Responses, Responding
<1>13. Requests(nx)'
  BY <1>1, <1>2, <1>3, <1>4, <1>6, <1>8 DEF Requests
<1>14. Pipeline(nx)'
  <2>1. "free" \in Stage /\ "free" \notin Accepted /\ st[t] \notin Accepted
    BY <1>4 DEF Accepted, Stage
  <2>. QED  BY <1>e, <1>1, <1>2, <1>3, <2>1, PipelineStep DEF Pipeline
<1>15. Pooled(nx)'
  BY <1>7, <1>8 DEF Pooled
<1>16. Thread(nx)'
  BY <1>1, <1>2, <1>3, <1>8 DEF Thread
<1>. QED
  BY <1>8, <1>9, <1>10, <1>11, <1>12, <1>13, <1>14, <1>15, <1>16 DEF IInv, Inv

-----------------------------------------------------------------------------
(***************************************************************************)
(* The inductive invariant, and what follows from it.                      *)
(***************************************************************************)

LEMMA InvInductive == IInv /\ [Next]_vars => IInv'
<1>. SUFFICES ASSUME IInv, [Next]_vars PROVE IInv'
  OBVIOUS
<1>1. PICK st : Inv(st)
  BY DEF IInv
<1>2. CASE UNCHANGED vars
  <2>1. UNCHANGED <<pc, i, trans, request_in_progress, initiator_peq, n_trans,
                    response_in_progress, next_response_pending, end_req_pending,
                    target_peq, adapter, ref, ok, pool, report>>
    BY <1>2 DEF vars, initiatorVars, targetVars
  <2>2. TypeOK' /\ NoReport' /\ Thread(st)' /\ Requests(st)' /\ Executed(st)'
    BY <1>1, <2>1 DEF Inv, TypeOK, NoReport, Thread, Requests, Executed
  <2>3. Located(st)' /\ Counted(st)' /\ Responses(st)' /\ Pipeline(st)' /\ Pooled(st)'
    BY <1>1, <2>1 DEF Inv, Located, Placed, Counted, Responses, Pipeline, InStages, Pooled
  <2>. QED  BY <1>1, <2>2, <2>3 DEF IInv, Inv
<1>3. CASE \E t \in Trans :
              \/ Generate(t) \/ CallBTransport(t)
              \/ InitiatorEndReq(t) \/ InitiatorBeginResp(t)
              \/ TargetBeginReq(t) \/ TargetExecute(t) \/ TargetEndResp(t)
  BY <1>1, <1>3, GenerateInv, CallBTransportInv, InitiatorEndReqInv, InitiatorBeginRespInv,
     TargetBeginReqInv, TargetExecuteInv, TargetEndRespInv
<1>4. CASE Resume
  BY <1>1, <1>4, ResumeInv
<1>5. CASE BTransportReturns
  BY <1>1, <1>5, BTransportReturnsInv
<1>. QED  BY <1>2, <1>3, <1>4, <1>5 DEF Next, Finished

LEMMA InvAlways == Spec => []IInv
<1>. QED  BY InitInv, InvInductive, PTL DEF Spec

\* Every variable keeps its type: the reference counts stay between 0 and 2, and the
\* queues hold only phases their side can take.
THEOREM TypeCorrect == Spec => []TypeOK
<1>1. IInv => TypeOK
  BY DEF IInv, Inv
<1>. QED  BY <1>1, InvAlways, PTL

\* The simulation never stops on a report: SC_REPORT_FATAL in Target::peq_cb and
\* SC_REPORT_ERROR in Initiator::check_transaction are unreachable.
THEOREM NeverReports == Spec => []NoReport
<1>1. IInv => NoReport
  BY DEF IInv, Inv
<1>. QED  BY <1>1, InvAlways, PTL

\* n_trans counts exactly the transactions between their acceptance and their end,
\* and is never above two; a request put off always has two in front of it, whose
\* END_RESP releases it.
THEOREM PipelineCorrect == Spec => []PipelineCount
<1>1. IInv => PipelineCount
  <2>. SUFFICES ASSUME NEW st, Inv(st) PROVE PipelineCount
    BY DEF IInv
  <2>1. InPipeline = InStages(st, Accepted)
    BY DEF Inv, Located, Placed, InPipeline, InStages, Accepted
  <2>. QED  BY <2>1 DEF Inv, Pipeline, PipelineCount
<1>. QED  BY <1>1, InvAlways, PTL

\* At most one request is open: whatever is not yet accepted is request_in_progress.
THEOREM OneRequest == Spec => []RequestExclusion
<1>1. IInv => RequestExclusion
  <2>. SUFFICES ASSUME NEW st, Inv(st) PROVE RequestExclusion
    BY DEF IInv
  <2>. QED  BY DEF Inv, Located, Placed, Requests, RequestExclusion
<1>. QED  BY <1>1, InvAlways, PTL

\* Back-pressure bounds the heap: no more than four transactions are ever in use,
\* however many the initiator generates.
THEOREM FourAreEnough == Spec => []AtMostFourLive
<1>1. IInv => AtMostFourLive
  <2>. SUFFICES ASSUME NEW st, Inv(st) PROVE AtMostFourLive
    BY DEF IInv
  <2>. DEFINE A == InStages(st, Accepted)
              B == A \cup {trans}
              C == B \cup {request_in_progress}
  <2>1. IsFiniteSet(A) /\ Cardinality(A) \in Nat /\ Cardinality(A) <= 2
    BY DEF Inv, Pipeline, TypeOK
  <2>2. IsFiniteSet(B) /\ Cardinality(B) \in Nat /\ Cardinality(B) <= 3
    <3>1. /\ IsFiniteSet(B)
          /\ Cardinality(B) = IF trans \in A THEN Cardinality(A) ELSE Cardinality(A) + 1
      BY <2>1, FS_AddElement
    <3>. HIDE DEF A, B
    <3>. QED  BY <2>1, <3>1
  <2>3. IsFiniteSet(C) /\ Cardinality(C) \in Nat /\ Cardinality(C) <= 4
    <3>1. /\ IsFiniteSet(C)
          /\ Cardinality(C)
               = IF request_in_progress \in B THEN Cardinality(B) ELSE Cardinality(B) + 1
      BY <2>2, FS_AddElement
    <3>. HIDE DEF B, C
    <3>. QED  BY <2>2, <3>1
  <2>4. Live \subseteq C
    <3>. SUFFICES ASSUME NEW t \in Trans, ref[t] > 0 PROVE t \in C
      BY DEF Live
    <3>0. ref[t] # 0
      BY DEF Inv, TypeOK
    <3>1. st[t] \in Stage /\ st[t] # "free"
      BY <3>0 DEF Inv, Counted, Refs
    <3>2. CASE st[t] \in Accepted
      BY <3>2 DEF InStages
    <3>3. CASE st[t] = "held"
      BY <3>3 DEF Inv, Located, Placed
    <3>4. CASE st[t] \in {"request", "deferred"}
      <4>1. t # adapter => t = request_in_progress
        BY <3>4 DEF Inv, Requests
      <4>2. t = adapter => t = trans
        BY NullAssumption DEF Inv, Thread
      <4>. QED  BY <4>1, <4>2
    <3>. QED  BY <3>1, <3>2, <3>3, <3>4 DEF Stage, Accepted
  <2>5. Cardinality(Live) <= Cardinality(C) /\ Cardinality(Live) \in Nat
    BY <2>3, <2>4, FS_Subset, FS_CardinalityType
  <2>. HIDE DEF C
  <2>. QED  BY <2>3, <2>5 DEF AtMostFourLive
<1>. QED  BY <1>1, InvAlways, PTL

\* What is left when no event is: nothing is in flight or put off, the thread can
\* run or has ended, and no object is in use but the one it holds.
NothingOwed ==
    /\ pc \in {"gap", "notified", "returned", "done"}
    /\ request_in_progress = NULL /\ end_req_pending = NULL /\ next_response_pending = NULL
    /\ n_trans = 0 /\ ~response_in_progress
    /\ Live \subseteq {trans}

\* No wake-up and no deferred call is lost: whenever the event queues have run
\* empty nobody waits any more.  The final b_transport, which comes 100 ns after
\* the loop, relies on it.
THEOREM QuietMeansDone == Spec => [](Drained => NothingOwed)
<1>1. IInv => (Drained => NothingOwed)
  <2>. SUFFICES ASSUME NEW st, Inv(st), Drained PROVE NothingOwed
    BY DEF IInv
  <2>1. /\ \A t \in Trans : st[t] \in {"free", "held"}
        /\ n_trans = 0 /\ ~response_in_progress
        /\ request_in_progress = NULL
        /\ end_req_pending = NULL /\ next_response_pending = NULL
    BY DrainedIdle
  <2>2. pc # "wait_end_request"
    BY <2>1 DEF Inv, Thread
  <2>3. pc # "b_transport"
    <3>1. adapter # NULL => adapter \in Trans /\ st[adapter] \in {"request", "execute"}
      BY DEF Inv, Thread, TypeOK, Pointer
    <3>. QED  BY <2>1, <3>1 DEF Inv, Thread
  <2>4. \A t \in Trans : ref[t] > 0 => t = trans
    <3>. SUFFICES ASSUME NEW t \in Trans, ref[t] > 0 PROVE t = trans
      OBVIOUS
    <3>1. st[t] # "free"
      BY DEF Inv, Counted, Refs
    <3>. QED  BY <2>1, <3>1 DEF Inv, Located, Placed
  <2>. QED  BY <2>1, <2>2, <2>3, <2>4 DEF Inv, TypeOK, NothingOwed, Live
<1>. QED  BY <1>1, InvAlways, PTL

-----------------------------------------------------------------------------
(***************************************************************************)
(* How long it takes: a measure that every step brings down.               *)
(***************************************************************************)

\* What a transaction goes through, in this order: the thread takes it up again
\* when it had to wait, and then it is in the hands of the two callbacks.
Events == {"resume", "BEGIN_REQ", "END_REQ", "internal_ph", "BEGIN_RESP", "END_RESP"}

\* The thread has yet to send the request of t.
Held(t) == t = trans /\ pc \in {"wait_end_request", "notified"}

\* The event e of t is still to come: it is queued, or it follows from what is
\* queued, put off or held.
ToCome(t, e) ==
    \/ Held(t)
    \/ <<t, "BEGIN_REQ">> \in target_peq /\ e # "resume"
    \/ t = end_req_pending /\ e \in {"END_REQ", "internal_ph", "BEGIN_RESP", "END_RESP"}
    \/ <<t, "END_REQ">> \in initiator_peq /\ e = "END_REQ"
    \/ <<t, "internal_ph">> \in target_peq /\ e \in {"internal_ph", "BEGIN_RESP", "END_RESP"}
    \/ t = next_response_pending /\ e \in {"BEGIN_RESP", "END_RESP"}
    \/ <<t, "BEGIN_RESP">> \in initiator_peq /\ e \in {"BEGIN_RESP", "END_RESP"}
    \/ <<t, "END_RESP">> \in target_peq /\ e = "END_RESP"
Outstanding == {p \in Trans \X Events : ToCome(p[1], p[2])}

\* The call of the final b_transport with the events it starts, and its return.
FinalSteps == IF pc = "done" THEN 0 ELSE IF pc \in {"b_transport", "returned"} THEN 1 ELSE 8

\* What is left at most: each transaction of the loop is generated and goes through
\* its events, and the final one is called, goes through its own and returns.
Remaining == 7 * (NbTransactions - i) + FinalSteps + Cardinality(Outstanding)

\* The event e of t has come, and nothing else was added.
LEMMA OneLess ==
    ASSUME IsFiniteSet(Outstanding), NEW t \in Trans, NEW e \in Events,
           ToCome(t, e), ~ToCome(t, e)',
           \A u \in Trans, f \in Events : ToCome(u, f)' => ToCome(u, f)
    PROVE  /\ IsFiniteSet(Outstanding') /\ Cardinality(Outstanding') \in Nat
           /\ Cardinality(Outstanding') < Cardinality(Outstanding)
<1>. DEFINE Rest == Outstanding \ {<<t, e>>}
<1>1. <<t, e>> \in Outstanding /\ Outstanding' \subseteq Rest
  BY DEF Outstanding
<1>2. IsFiniteSet(Rest) /\ Cardinality(Rest) = Cardinality(Outstanding) - 1
  BY <1>1, FS_RemoveElement
<1>3. IsFiniteSet(Outstanding') /\ Cardinality(Outstanding') <= Cardinality(Rest)
  BY <1>1, <1>2, FS_Subset
<1>4. /\ Cardinality(Outstanding) \in Nat /\ Cardinality(Outstanding') \in Nat
      /\ Cardinality(Rest) \in Nat
  BY <1>2, <1>3, FS_CardinalityType
<1>. QED  BY <1>2, <1>3, <1>4

\* No event was added.
LEMMA NoneMore ==
    ASSUME IsFiniteSet(Outstanding),
           \A u \in Trans, f \in Events : ToCome(u, f)' => ToCome(u, f)
    PROVE  /\ IsFiniteSet(Outstanding') /\ Cardinality(Outstanding') \in Nat
           /\ Cardinality(Outstanding') <= Cardinality(Outstanding)
<1>1. Outstanding' \subseteq Outstanding
  BY DEF Outstanding
<1>. QED  BY <1>1, FS_Subset, FS_CardinalityType

LEMMA OneMore ==
    ASSUME NEW S, IsFiniteSet(S), NEW x
    PROVE  /\ IsFiniteSet(S \cup {x}) /\ Cardinality(S \cup {x}) \in Nat
           /\ Cardinality(S \cup {x}) <= Cardinality(S) + 1
<1>1. Cardinality(S) \in Nat
  BY FS_CardinalityType
<1>2. /\ IsFiniteSet(S \cup {x})
      /\ Cardinality(S \cup {x}) = IF x \in S THEN Cardinality(S) ELSE Cardinality(S) + 1
  BY FS_AddElement
<1>. QED  BY <1>1, <1>2

\* The events of t were added.
LEMMA SixMore ==
    ASSUME IsFiniteSet(Outstanding), NEW t \in Trans,
           \A u \in Trans, f \in Events : ToCome(u, f)' => ToCome(u, f) \/ u = t
    PROVE  /\ IsFiniteSet(Outstanding') /\ Cardinality(Outstanding') \in Nat
           /\ Cardinality(Outstanding') <= Cardinality(Outstanding) + 6
<1>. DEFINE A1 == Outstanding \cup {<<t, "resume">>}
            A2 == A1 \cup {<<t, "BEGIN_REQ">>}
            A3 == A2 \cup {<<t, "END_REQ">>}
            A4 == A3 \cup {<<t, "internal_ph">>}
            A5 == A4 \cup {<<t, "BEGIN_RESP">>}
            A6 == A5 \cup {<<t, "END_RESP">>}
<1>0. Cardinality(Outstanding) \in Nat
  BY FS_CardinalityType
<1>1. IsFiniteSet(A1) /\ Cardinality(A1) \in Nat /\ Cardinality(A1) <= Cardinality(Outstanding) + 1
  BY OneMore
<1>2. IsFiniteSet(A2) /\ Cardinality(A2) \in Nat /\ Cardinality(A2) <= Cardinality(A1) + 1
  BY <1>1, OneMore
<1>3. IsFiniteSet(A3) /\ Cardinality(A3) \in Nat /\ Cardinality(A3) <= Cardinality(A2) + 1
  BY <1>2, OneMore
<1>4. IsFiniteSet(A4) /\ Cardinality(A4) \in Nat /\ Cardinality(A4) <= Cardinality(A3) + 1
  BY <1>3, OneMore
<1>5. IsFiniteSet(A5) /\ Cardinality(A5) \in Nat /\ Cardinality(A5) <= Cardinality(A4) + 1
  BY <1>4, OneMore
<1>6. IsFiniteSet(A6) /\ Cardinality(A6) \in Nat /\ Cardinality(A6) <= Cardinality(A5) + 1
  BY <1>5, OneMore
<1>7. Outstanding' \subseteq A6
  BY DEF Outstanding, Events
<1>. HIDE DEF A1, A2, A3, A4, A5, A6
<1>8. IsFiniteSet(Outstanding') /\ Cardinality(Outstanding') <= Cardinality(A6)
  BY <1>6, <1>7, FS_Subset
<1>9. Cardinality(Outstanding') \in Nat
  BY <1>8, FS_CardinalityType
<1>. QED  BY <1>0, <1>1, <1>2, <1>3, <1>4, <1>5, <1>6, <1>8, <1>9

\* Each action brings Remaining down: by the event it is, or because it generates
\* fewer events than were counted for it.
Falls == IsFiniteSet(Outstanding') /\ Remaining' \in Int /\ Remaining' < Remaining

\* What the steps below rest on: the numbers are numbers, and each transaction is at one stage.
LEMMA Apart ==
    ASSUME NEW st, Inv(st)
    PROVE  /\ NbTransactions \in Nat /\ i \in 0 .. NbTransactions
           /\ trans = NULL <=> pc \in {"gap", "done"}
           /\ adapter # NULL <=> pc = "b_transport"
           /\ NULL \notin Trans
           /\ \A t \in Trans :
                 /\ Held(t) => st[t] = "held"
                 /\ <<t, "BEGIN_REQ">> \in target_peq <=> st[t] = "request"
                 /\ <<t, "internal_ph">> \in target_peq <=> st[t] = "execute"
                 /\ <<t, "END_RESP">> \in target_peq <=> st[t] = "end"
                 /\ <<t, "BEGIN_RESP">> \in initiator_peq <=> st[t] = "response"
                 /\ t = end_req_pending <=> st[t] = "deferred"
                 /\ t = next_response_pending <=> st[t] = "answer"
                 /\ <<t, "END_REQ">> \in initiator_peq => st[t] \in {"execute", "answer", "response"}
<1>1. /\ TypeOK /\ Located(st) /\ Requests(st) /\ Thread(st)
  BY DEF Inv
<1>2. ASSUME NEW t \in Trans, Held(t) PROVE st[t] = "held"
  <2>1. t = trans /\ adapter = NULL
    BY <1>1, <1>2 DEF Held, Thread
  <2>. QED  BY <1>1, <2>1, NullAssumption DEF Located, Placed
<1>. QED  BY <1>1, <1>2, NullAssumption, CountAssumption
          DEF TypeOK, Located, Placed, Requests, Thread

LEMMA GenerateFalls ==
    ASSUME NEW st, Inv(st), IsFiniteSet(Outstanding), NEW t \in Trans, Generate(t)
    PROVE  Falls
<1>1. /\ pc = "gap" /\ pc' \in {"gap", "wait_end_request"} /\ i < NbTransactions /\ i' = i + 1
      /\ trans = NULL /\ trans' \in {NULL, t} /\ NULL \notin Trans
      /\ target_peq' \subseteq target_peq \cup {<<t, "BEGIN_REQ">>}
      /\ UNCHANGED <<initiator_peq, next_response_pending, end_req_pending>>
  BY Apart DEF Generate, SendBeginReq, targetVars
<1>2. \A u \in Trans, f \in Events : ToCome(u, f)' => ToCome(u, f) \/ u = t
  BY <1>1 DEF ToCome, Held
<1>3. /\ IsFiniteSet(Outstanding') /\ Cardinality(Outstanding') \in Nat
      /\ Cardinality(Outstanding') <= Cardinality(Outstanding) + 6
  BY <1>2, SixMore
<1>4. Cardinality(Outstanding) \in Nat /\ NbTransactions \in Nat /\ i \in Nat
  BY Apart, FS_CardinalityType
<1>5. FinalSteps = 8 /\ FinalSteps' = 8
  BY <1>1 DEF FinalSteps
<1>. QED  BY <1>1, <1>3, <1>4, <1>5 DEF Falls, Remaining

LEMMA CallBTransportFalls ==
    ASSUME NEW st, Inv(st), IsFiniteSet(Outstanding), NEW t \in Trans, CallBTransport(t)
    PROVE  Falls
<1>1. /\ pc = "gap" /\ pc' = "b_transport" /\ i' = i
      /\ target_peq' = {<<t, "BEGIN_REQ">>}
      /\ UNCHANGED <<initiator_peq, next_response_pending, end_req_pending>>
  BY DEF CallBTransport, targetVars
<1>2. \A u \in Trans, f \in Events : ToCome(u, f)' => ToCome(u, f) \/ u = t
  BY <1>1 DEF ToCome, Held
<1>3. /\ IsFiniteSet(Outstanding') /\ Cardinality(Outstanding') \in Nat
      /\ Cardinality(Outstanding') <= Cardinality(Outstanding) + 6
  BY <1>2, SixMore
<1>4. Cardinality(Outstanding) \in Nat /\ NbTransactions \in Nat /\ i \in Nat
  BY Apart, FS_CardinalityType
<1>5. FinalSteps = 8 /\ FinalSteps' = 1
  BY <1>1 DEF FinalSteps
<1>. QED  BY <1>1, <1>3, <1>4, <1>5 DEF Falls, Remaining

LEMMA BTransportReturnsFalls ==
    ASSUME NEW st, Inv(st), IsFiniteSet(Outstanding), BTransportReturns
    PROVE  Falls
<1>1. /\ pc = "returned" /\ pc' = "done" /\ i' = i
      /\ UNCHANGED <<initiator_peq, target_peq, next_response_pending, end_req_pending>>
  BY DEF BTransportReturns, targetVars
<1>2. \A u \in Trans, f \in Events : ToCome(u, f)' => ToCome(u, f)
  BY <1>1 DEF ToCome, Held
<1>3. /\ IsFiniteSet(Outstanding') /\ Cardinality(Outstanding') \in Nat
      /\ Cardinality(Outstanding') <= Cardinality(Outstanding)
  BY <1>2, NoneMore
<1>4. Cardinality(Outstanding) \in Nat /\ NbTransactions \in Nat /\ i \in Nat
  BY Apart, FS_CardinalityType
<1>5. FinalSteps = 1 /\ FinalSteps' = 0
  BY <1>1 DEF FinalSteps
<1>. QED  BY <1>1, <1>3, <1>4, <1>5 DEF Falls, Remaining

\* A callback, or the thread that goes on: the event is over, and the loop and the
\* final call are where they were.
LEMMA EventFalls ==
    ASSUME NEW st, Inv(st), IsFiniteSet(Outstanding), NEW t \in Trans, NEW e \in Events,
           ToCome(t, e), ~ToCome(t, e)',
           \A u \in Trans, f \in Events : ToCome(u, f)' => ToCome(u, f),
           i' = i, FinalSteps' = FinalSteps
    PROVE  Falls
<1>1. /\ IsFiniteSet(Outstanding') /\ Cardinality(Outstanding') \in Nat
      /\ Cardinality(Outstanding') < Cardinality(Outstanding)
  BY OneLess
<1>2. Cardinality(Outstanding) \in Nat /\ NbTransactions \in Nat /\ i \in Nat
  BY Apart, FS_CardinalityType
<1>3. FinalSteps \in Nat
  BY DEF FinalSteps
<1>. QED  BY <1>1, <1>2, <1>3 DEF Falls, Remaining

LEMMA ResumeFalls ==
    ASSUME NEW st, Inv(st), IsFiniteSet(Outstanding), Resume
    PROVE  Falls
<1>1. /\ pc = "notified" /\ pc' = "gap" /\ trans' = NULL /\ i' = i /\ NULL \notin Trans
      /\ target_peq' = target_peq \cup {<<trans, "BEGIN_REQ">>}
      /\ UNCHANGED <<initiator_peq, next_response_pending, end_req_pending>>
  BY Apart DEF Resume, SendBeginReq, targetVars
<1>2. trans \in Trans
  BY <1>1, Apart DEF Inv, TypeOK, Pointer
<1>3. ToCome(trans, "resume") /\ "resume" \in Events
  BY <1>1 DEF ToCome, Held, Events
<1>4. \A u \in Trans : ~ToCome(u, "resume")'
  BY <1>1 DEF ToCome, Held
<1>5. \A u \in Trans, f \in Events : ToCome(u, f)' => ToCome(u, f)
  BY <1>1 DEF ToCome, Held
<1>6. FinalSteps' = FinalSteps
  BY <1>1 DEF FinalSteps
<1>7. PICK t \in Trans : t = trans
  BY <1>2
<1>. QED  BY <1>1, <1>3, <1>4, <1>5, <1>6, <1>7, EventFalls

LEMMA InitiatorEndReqFalls ==
    ASSUME NEW st, Inv(st), IsFiniteSet(Outstanding), NEW t \in Trans, InitiatorEndReq(t)
    PROVE  Falls
<1>1. /\ <<t, "END_REQ">> \in initiator_peq
      /\ initiator_peq' = initiator_peq \ {<<t, "END_REQ">>}
      /\ pc' = (IF pc = "wait_end_request" THEN "notified" ELSE pc)
      /\ UNCHANGED <<i, trans, target_peq, next_response_pending, end_req_pending>>
  BY DEF InitiatorEndReq, EndRequest, targetVars
<1>2. ToCome(t, "END_REQ") /\ "END_REQ" \in Events
  BY <1>1 DEF ToCome, Events
<1>3. ~ToCome(t, "END_REQ")'
  <2>1. ~Held(t) /\ <<t, "BEGIN_REQ">> \notin target_peq /\ t # end_req_pending
    BY <1>1, Apart
  <2>. QED  BY <1>1, <2>1 DEF ToCome, Held
<1>4. \A u \in Trans, f \in Events : ToCome(u, f)' => ToCome(u, f)
  BY <1>1 DEF ToCome, Held
<1>5. FinalSteps' = FinalSteps
  BY <1>1 DEF FinalSteps
<1>. QED  BY <1>1, <1>2, <1>3, <1>4, <1>5, EventFalls

LEMMA InitiatorBeginRespFalls ==
    ASSUME NEW st, Inv(st), IsFiniteSet(Outstanding), NEW t \in Trans, InitiatorBeginResp(t)
    PROVE  Falls
<1>1. /\ <<t, "BEGIN_RESP">> \in initiator_peq
      /\ initiator_peq' = initiator_peq \ {<<t, "BEGIN_RESP">>}
      /\ target_peq' = target_peq \cup {<<t, "END_RESP">>}
      /\ pc' \in {pc, IF pc = "wait_end_request" THEN "notified" ELSE pc}
      /\ UNCHANGED <<i, trans, next_response_pending, end_req_pending>>
  BY DEF InitiatorBeginResp, EndReqFirst, EndRequest, targetVars
<1>2. ToCome(t, "BEGIN_RESP") /\ "BEGIN_RESP" \in Events
  BY <1>1 DEF ToCome, Events
<1>3. ~ToCome(t, "BEGIN_RESP")'
  <2>1. /\ ~Held(t) /\ <<t, "BEGIN_REQ">> \notin target_peq /\ t # end_req_pending
        /\ <<t, "internal_ph">> \notin target_peq /\ t # next_response_pending
    BY <1>1, Apart
  <2>. QED  BY <1>1, <2>1 DEF ToCome, Held
<1>4. \A u \in Trans, f \in Events : ToCome(u, f)' => ToCome(u, f)
  BY <1>1 DEF ToCome, Held
<1>5. FinalSteps' = FinalSteps
  BY <1>1 DEF FinalSteps
<1>. QED  BY <1>1, <1>2, <1>3, <1>4, <1>5, EventFalls

LEMMA TargetBeginReqFalls ==
    ASSUME NEW st, Inv(st), IsFiniteSet(Outstanding), NEW t \in Trans, TargetBeginReq(t)
    PROVE  Falls
<1>1. /\ <<t, "BEGIN_REQ">> \in target_peq
      /\ UNCHANGED <<pc, i, trans, next_response_pending>>
      /\ \/ /\ end_req_pending' = t /\ initiator_peq' = initiator_peq
            /\ target_peq' = target_peq \ {<<t, "BEGIN_REQ">>}
         \/ /\ end_req_pending' = end_req_pending
            /\ initiator_peq' \subseteq initiator_peq \cup {<<t, "END_REQ">>}
            /\ target_peq' = (target_peq \ {<<t, "BEGIN_REQ">>}) \cup {<<t, "internal_ph">>}
  BY DEF TargetBeginReq, Backward, initiatorVars
<1>2. ToCome(t, "BEGIN_REQ") /\ "BEGIN_REQ" \in Events
  BY <1>1 DEF ToCome, Events
<1>3. ~ToCome(t, "BEGIN_REQ")'
  <2>1. ~Held(t)
    BY <1>1, Apart
  <2>. QED  BY <1>1, <2>1 DEF ToCome, Held
<1>4. \A u \in Trans, f \in Events : ToCome(u, f)' => ToCome(u, f)
  BY <1>1 DEF ToCome, Held
<1>5. FinalSteps' = FinalSteps
  BY <1>1 DEF FinalSteps
<1>. QED  BY <1>1, <1>2, <1>3, <1>4, <1>5, EventFalls

LEMMA TargetExecuteFalls ==
    ASSUME NEW st, Inv(st), IsFiniteSet(Outstanding), NEW t \in Trans, TargetExecute(t)
    PROVE  Falls
<1>1. /\ <<t, "internal_ph">> \in target_peq
      /\ target_peq' = target_peq \ {<<t, "internal_ph">>}
      /\ next_response_pending' \in {next_response_pending, t}
      /\ initiator_peq' \subseteq initiator_peq \cup {<<t, "BEGIN_RESP">>}
      /\ UNCHANGED <<i, trans, end_req_pending>>
      /\ pc' = pc \/ (t = adapter /\ pc' = "returned")
  BY DEF TargetExecute, DeferResponse, Complete, SendResponse, Backward
<1>2. ToCome(t, "internal_ph") /\ "internal_ph" \in Events
  BY <1>1 DEF ToCome, Events
<1>3. ~ToCome(t, "internal_ph")'
  <2>1. ~Held(t) /\ <<t, "BEGIN_REQ">> \notin target_peq /\ t # end_req_pending
    BY <1>1, Apart
  <2>. QED  BY <1>1, <2>1 DEF ToCome, Held
<1>4. \A u \in Trans, f \in Events : ToCome(u, f)' => ToCome(u, f)
  BY <1>1 DEF ToCome, Held
<1>5. FinalSteps' = FinalSteps
  <2>1. t = adapter => pc = "b_transport"
    BY Apart
  <2>. QED  BY <1>1, <2>1 DEF FinalSteps
<1>. QED  BY <1>1, <1>2, <1>3, <1>4, <1>5, EventFalls

LEMMA TargetEndRespFalls ==
    ASSUME NEW st, Inv(st), IsFiniteSet(Outstanding), NEW t \in Trans, TargetEndResp(t)
    PROVE  Falls
<1>1. /\ <<t, "END_RESP">> \in target_peq
      /\ target_peq' = (target_peq \ {<<t, "END_RESP">>}) \cup Deref(end_req_pending) \X {"internal_ph"}
      /\ initiator_peq' = initiator_peq
                            \cup Backward(Deref(next_response_pending), "BEGIN_RESP")
                            \cup Backward(Deref(end_req_pending), "END_REQ")
      /\ next_response_pending' = NULL /\ end_req_pending' = NULL /\ NULL \notin Trans
      /\ UNCHANGED <<pc, i, trans>>
  BY Apart DEF TargetEndResp, initiatorVars
<1>2. \A u \in Trans :
         /\ <<u, "BEGIN_REQ">> \in target_peq' <=> <<u, "BEGIN_REQ">> \in target_peq
         /\ <<u, "internal_ph">> \in target_peq'
               => <<u, "internal_ph">> \in target_peq \/ u = end_req_pending
         /\ <<u, "END_RESP">> \in target_peq' <=> <<u, "END_RESP">> \in target_peq /\ u # t
         /\ <<u, "END_REQ">> \in initiator_peq'
               => <<u, "END_REQ">> \in initiator_peq \/ u = end_req_pending
         /\ <<u, "BEGIN_RESP">> \in initiator_peq'
               => <<u, "BEGIN_RESP">> \in initiator_peq \/ u = next_response_pending
  BY <1>1 DEF Backward, Deref
<1>3. ToCome(t, "END_RESP") /\ "END_RESP" \in Events
  BY <1>1 DEF ToCome, Events
<1>4. ~ToCome(t, "END_RESP")'
  <2>1. /\ ~Held(t) /\ <<t, "BEGIN_REQ">> \notin target_peq /\ t # end_req_pending
        /\ <<t, "internal_ph">> \notin target_peq /\ t # next_response_pending
        /\ <<t, "BEGIN_RESP">> \notin initiator_peq
    BY <1>1, Apart
  <2>. QED  BY <1>1, <1>2, <2>1 DEF ToCome, Held
<1>5. \A u \in Trans, f \in Events : ToCome(u, f)' => ToCome(u, f)
  BY <1>1, <1>2 DEF ToCome, Held
<1>6. FinalSteps' = FinalSteps
  BY <1>1 DEF FinalSteps
<1>. QED  BY <1>1, <1>3, <1>4, <1>5, <1>6, EventFalls

LEMMA StepFalls ==
    ASSUME IInv, IsFiniteSet(Outstanding), Next, vars' # vars
    PROVE  Falls
<1>1. PICK st : Inv(st)
  BY DEF IInv
<1>2. CASE \E t \in Trans :
              \/ Generate(t) \/ CallBTransport(t)
              \/ InitiatorEndReq(t) \/ InitiatorBeginResp(t)
              \/ TargetBeginReq(t) \/ TargetExecute(t) \/ TargetEndResp(t)
  BY <1>1, <1>2, GenerateFalls, CallBTransportFalls, InitiatorEndReqFalls, InitiatorBeginRespFalls,
     TargetBeginReqFalls, TargetExecuteFalls, TargetEndRespFalls
<1>3. CASE Resume
  BY <1>1, <1>3, ResumeFalls
<1>4. CASE BTransportReturns
  BY <1>1, <1>4, BTransportReturnsFalls
<1>. QED  BY <1>2, <1>3, <1>4 DEF Next, Finished

\* The pair takes at most 7 * NbTransactions + 8 steps, in whatever order the kernel
\* takes them: what is left is a natural number, and every step brings it down. No
\* phase goes back and forth for ever, and nothing is put off again and again.  With
\* QuietMeansDone this is what EverythingCompletes says but for one thing, that the
\* kernel takes a step as long as there is one.
THEOREM StepsAreBounded ==
    Spec => /\ [](Remaining \in 0 .. 7 * NbTransactions + 8)
            /\ [][Remaining' < Remaining]_vars
<1>. DEFINE Left == IsFiniteSet(Outstanding) /\ Remaining <= 7 * NbTransactions + 8
<1>1. Init => Left
  <2>. SUFFICES ASSUME Init PROVE Left
    OBVIOUS
  <2>1. \A u \in Trans, f \in Events : ~ToCome(u, f)
    BY NullAssumption DEF Init, ToCome, Held
  <2>2. Outstanding = {}
    BY <2>1 DEF Outstanding
  <2>3. IsFiniteSet(Outstanding) /\ Cardinality(Outstanding) = 0
    BY <2>2, FS_EmptySet
  <2>4. i = 0 /\ FinalSteps = 8
    BY DEF Init, FinalSteps
  <2>. QED  BY <2>3, <2>4, CountAssumption DEF Remaining
<1>2. IInv /\ Left => Remaining \in 0 .. 7 * NbTransactions + 8
  <2>. SUFFICES ASSUME NEW st, Inv(st), Left PROVE Remaining \in 0 .. 7 * NbTransactions + 8
    BY DEF IInv
  <2>1. Cardinality(Outstanding) \in Nat /\ NbTransactions \in Nat /\ i \in 0 .. NbTransactions
    BY Apart, FS_CardinalityType
  <2>2. FinalSteps \in Nat
    BY DEF FinalSteps
  <2>. QED  BY <2>1, <2>2 DEF Remaining
<1>3. IInv /\ Left /\ [Next]_vars => [Remaining' < Remaining]_vars /\ Left'
  <2>. SUFFICES ASSUME IInv, Left, [Next]_vars PROVE [Remaining' < Remaining]_vars /\ Left'
    OBVIOUS
  <2>1. CASE vars' = vars
    <3>1. UNCHANGED <<pc, i, trans, initiator_peq, target_peq, next_response_pending, end_req_pending>>
      BY <2>1 DEF vars, initiatorVars, targetVars
    <3>2. Outstanding' = Outstanding /\ Remaining' = Remaining
      BY <3>1 DEF Outstanding, ToCome, Held, Remaining, FinalSteps
    <3>. QED  BY <2>1, <3>2
  <2>2. CASE vars' # vars
    <3>1. IsFiniteSet(Outstanding') /\ Remaining' \in Int /\ Remaining' < Remaining
      BY <2>2, StepFalls DEF Falls
    <3>2. Remaining \in Nat /\ NbTransactions \in Nat
      BY <1>2, CountAssumption
    <3>. QED  BY <2>2, <3>1, <3>2
  <2>. QED  BY <2>1, <2>2
<1>. QED  BY <1>1, <1>2, <1>3, InvAlways, PTL DEF Spec

-----------------------------------------------------------------------------
(***************************************************************************)
(* What can be reached is live.                                            *)
(***************************************************************************)

LEMMA ReachableIsLive == IInv => NoDanglingReference
<1>. SUFFICES ASSUME NEW st, Inv(st), NEW t \in Trans, ref[t] <= 0
              PROVE  /\ \A ph \in {"END_REQ", "BEGIN_RESP"} : <<t, ph>> \notin initiator_peq
                     /\ \A ph \in {"BEGIN_REQ", "internal_ph", "END_RESP"} :
                           <<t, ph>> \notin target_peq
                     /\ t \notin {trans, request_in_progress, next_response_pending,
                                 end_req_pending, adapter}
  <2>1. IInv => \A u \in Trans : ref[u] \in 0 .. 2
    BY DEF IInv, Inv, TypeOK
  <2>. QED  BY <2>1 DEF IInv, NoDanglingReference
<1>1. ref[t] = 0
  BY DEF Inv, TypeOK
<1>2. st[t] = "free" /\ t # NULL
  BY <1>1, NullAssumption DEF Inv, Counted, Refs
<1>3. /\ t # next_response_pending /\ t # end_req_pending
      /\ t # adapter
      /\ <<t, "BEGIN_RESP">> \notin initiator_peq
      /\ <<t, "BEGIN_REQ">> \notin target_peq
      /\ <<t, "internal_ph">> \notin target_peq
      /\ <<t, "END_RESP">> \notin target_peq
  BY <1>2 DEF Inv, Located, Placed, Thread
<1>4. t # trans
  BY <1>2, <1>3 DEF Inv, Located, Placed
<1>5. <<t, "END_REQ">> \notin initiator_peq
  BY <1>2 DEF Inv, Requests
<1>6. t # request_in_progress
  BY <1>2, <1>5 DEF Inv, Requests
<1>. QED  BY <1>3, <1>4, <1>5, <1>6

\* Nothing that can still be reached has been given back to the memory manager.
THEOREM NoReferenceDangles == Spec => []NoDanglingReference
<1>. QED  BY ReachableIsLive, InvAlways, PTL

-----------------------------------------------------------------------------
(***************************************************************************)
(* The two sides keep the contract of the memory manager.                  *)
(***************************************************************************)

LEMMA AllocateMaps ==
    ASSUME TypeOK, NEW t \in Trans, Allocate(t)
    PROVE  FP!Next
<1>1. ref' = [ref EXCEPT ![t] = 1] /\ ref \in [Trans -> 0 .. 2]
  BY DEF TypeOK, Allocate
<1>2. Live' = Live \cup {t}
  BY <1>1 DEF Live
<1>3. pool = << >> => t \notin Live
  BY DEF Allocate, Live
<1>4. FP!Allocate(t)
  BY <1>2, <1>3 DEF FP!Allocate, Allocate
<1>. QED  BY <1>4 DEF FP!Next

LEMMA ReleaseMaps ==
    ASSUME TypeOK, NEW t \in Trans, ref[t] # 0, Release(t)
    PROVE  [FP!Next]_<<pool, Live>>
<1>1. ref' = [ref EXCEPT ![t] = ref[t] - 1] /\ ref \in [Trans -> 0 .. 2] /\ ref[t] \in 1 .. 2
  BY DEF TypeOK, Release
<1>2. CASE ref[t] = 1
  <2>1. t \in Live /\ Live' = Live \ {t}
    BY <1>1, <1>2 DEF Live
  <2>2. pool' = <<t>> \o pool
    BY <1>2 DEF Release
  <2>3. FP!Free(t)
    BY <2>1, <2>2 DEF FP!Free
  <2>. QED  BY <2>3 DEF FP!Next
<1>3. CASE ref[t] = 2
  <2>1. Live' = Live
    BY <1>1, <1>3 DEF Live
  <2>2. pool' = pool
    BY <1>3 DEF Release
  <2>. QED  BY <2>1, <2>2
<1>. QED  BY <1>1, <1>2, <1>3

\* The initiator and the target use the memory manager as FreePool asks: what they
\* acquire and release in any order never frees a transaction twice or one that is
\* in use (MM implements that pool).
THEOREM PoolUsedCorrectly == Spec => UsesPoolCorrectly
<1>1. Init => FP!Init
  BY DEF Init, FP!Init, Live
<1>2. IInv /\ [Next]_vars => [FP!Next]_<<pool, Live>>
  <2>. SUFFICES ASSUME NEW st, Inv(st), [Next]_vars PROVE [FP!Next]_<<pool, Live>>
    BY DEF IInv
  <2>t. TypeOK /\ Located(st) /\ Counted(st) /\ Thread(st)
    BY DEF Inv
  <2>n. NoDanglingReference
    BY ReachableIsLive DEF IInv, Inv
  <2>m. \A t \in Trans : ref[t] > 0 => ref[t] # 0
    BY <2>t DEF TypeOK
  <2>1. CASE UNCHANGED <<ref, pool>>
    BY <2>1 DEF Live
  <2>2. ASSUME NEW t \in Trans, Generate(t) \/ CallBTransport(t)
        PROVE  FP!Next
    BY <2>2, <2>t, AllocateMaps DEF Generate, CallBTransport
  <2>3. ASSUME NEW t \in Trans, InitiatorBeginResp(t)
        PROVE  [FP!Next]_<<pool, Live>>
    <3>0. <<t, "BEGIN_RESP">> \in initiator_peq
      BY <2>3 DEF InitiatorBeginResp
    <3>1. ref[t] # 0
      BY <2>n, <2>m, <3>0 DEF NoDanglingReference
    <3>. QED
      BY <2>3, <2>t, <3>1, ReleaseMaps DEF InitiatorBeginResp, CheckTransaction
  <2>4. ASSUME NEW t \in Trans, TargetBeginReq(t)
        PROVE  [FP!Next]_<<pool, Live>>
    <3>1. ref[t] = 1
      BY <2>4, <2>t DEF TargetBeginReq, Located, Placed, Counted, Refs
    <3>2. ref' = [ref EXCEPT ![t] = 2] /\ pool' = pool
      BY <2>4, <3>1 DEF TargetBeginReq, Acquire
    <3>3. Live' = Live
      BY <2>t, <3>1, <3>2 DEF Live, TypeOK
    <3>. QED  BY <3>2, <3>3
  <2>5. ASSUME NEW t \in Trans, TargetExecute(t)
        PROVE  [FP!Next]_<<pool, Live>>
    <3>0. <<t, "internal_ph">> \in target_peq
      BY <2>5 DEF TargetExecute
    <3>1. ref[t] # 0
      BY <2>n, <2>m, <3>0 DEF NoDanglingReference
    <3>2. Release(t) \/ UNCHANGED <<ref, pool>>
      BY <2>5 DEF TargetExecute, DeferResponse, SendResponse, Complete
    <3>. QED  BY <2>t, <2>1, <3>1, <3>2, ReleaseMaps
  <2>6. ASSUME NEW t \in Trans, TargetEndResp(t)
        PROVE  [FP!Next]_<<pool, Live>>
    <3>0. <<t, "END_RESP">> \in target_peq
      BY <2>6 DEF TargetEndResp
    <3>1. ref[t] # 0
      BY <2>n, <2>m, <3>0 DEF NoDanglingReference
    <3>. QED  BY <2>6, <2>t, <3>1, ReleaseMaps DEF TargetEndResp
  <2>7. CASE BTransportReturns
    <3>t. PICK t \in Pointer : t = trans
      BY <2>t DEF TypeOK
    <3>1. t \in Trans /\ adapter = NULL
      BY <3>t, <2>t, <2>7 DEF BTransportReturns, Thread, Pointer
    <3>2. ref[t] # 0
      BY <3>t, <2>n, <2>m, <3>1 DEF NoDanglingReference
    <3>3. Release(t)
      BY <3>t, <2>7 DEF BTransportReturns, CheckTransaction
    <3>. QED  BY <2>t, <3>1, <3>2, <3>3, ReleaseMaps
  <2>8. ASSUME Resume \/ Finished \/ UNCHANGED vars \/ \E t \in Trans : InitiatorEndReq(t)
        PROVE  UNCHANGED <<ref, pool>>
    BY <2>8 DEF Resume, Finished, InitiatorEndReq, vars
  <2>. QED
    BY <2>1, <2>2, <2>3, <2>4, <2>5, <2>6, <2>7, <2>8 DEF Next
<1>. QED  BY <1>1, <1>2, InvAlways, PTL DEF Spec, UsesPoolCorrectly, FP!Spec

-----------------------------------------------------------------------------
(***************************************************************************)
(* The calls on the socket follow the base protocol.                       *)
(***************************************************************************)

\* The phase of a transaction is its stage as the socket shows it.
LEMMA PhaseOfStage ==
    ASSUME NEW st, Inv(st), NEW t \in Trans
    PROVE  /\ phase[t] = IF st[t] \in {"request", "deferred"} THEN "BEGIN_REQ"
                         ELSE IF st[t] \in {"execute", "answer"} THEN "END_REQ"
                         ELSE IF st[t] = "response" THEN "BEGIN_RESP"
                         ELSE IF st[t] = "end" THEN "END_RESP" ELSE "IDLE"
           /\ phase[t] \in BP!Phase
BY DEF Inv, Located, Placed, phase, BP!Phase

LEMMA ProtocolExclusion == IInv => BP!Exclusion
<1>. SUFFICES ASSUME NEW st, Inv(st) PROVE BP!Exclusion
  BY DEF IInv
<1>1. \A t \in Trans :
         /\ phase[t] = "BEGIN_REQ" => st[t] \in {"request", "deferred"}
         /\ phase[t] \in {"BEGIN_RESP", "END_RESP"} => st[t] \in Responding
         /\ phase[t] \in {"END_REQ", "BEGIN_RESP", "END_RESP"} => st[t] \in Accepted
  BY PhaseOfStage DEF Responding, Accepted
<1>2. ASSUME NEW t \in BP!In({"BEGIN_REQ"}), NEW u \in BP!In({"BEGIN_REQ"})
      PROVE  t = u
  <2>1. /\ t \in Trans /\ st[t] \in {"request", "deferred"}
        /\ u \in Trans /\ st[u] \in {"request", "deferred"}
    BY <1>1, <1>2 DEF BP!In
  <2>2. CASE adapter = NULL
    BY <2>1, <2>2, NullAssumption DEF Inv, Requests
  <2>3. CASE adapter # NULL
    BY <2>1, <2>3 DEF Inv, Thread
  <2>. QED  BY <2>2, <2>3
<1>3. ASSUME NEW t \in BP!In({"BEGIN_RESP", "END_RESP"}),
             NEW u \in BP!In({"BEGIN_RESP", "END_RESP"})
      PROVE  t = u
  BY <1>1, <1>3 DEF BP!In, Inv, Responses
<1>4. ASSUME NEW S \in SUBSET BP!In({"END_REQ", "BEGIN_RESP", "END_RESP"}), IsFiniteSet(S)
      PROVE  Cardinality(S) <= 2
  <2>1. S \subseteq InStages(st, Accepted)
    BY <1>1, <1>4 DEF BP!In, InStages
  <2>2. /\ IsFiniteSet(InStages(st, Accepted))
        /\ Cardinality(InStages(st, Accepted)) \in Nat
        /\ Cardinality(InStages(st, Accepted)) <= 2
    BY DEF Inv, Pipeline, TypeOK
  <2>3. Cardinality(S) <= Cardinality(InStages(st, Accepted)) /\ Cardinality(S) \in Nat
    BY <2>1, <2>2, FS_Subset, FS_CardinalityType
  <2>. QED  BY <2>2, <2>3
<1>5. \A t, u \in BP!In({"BEGIN_REQ"}) : t = u
  BY <1>2
<1>6. \A t, u \in BP!In({"BEGIN_RESP", "END_RESP"}) : t = u
  BY <1>3
<1>7. \A S \in SUBSET BP!In({"END_REQ", "BEGIN_RESP", "END_RESP"}) :
         IsFiniteSet(S) => Cardinality(S) <= 2
  BY <1>4
<1>8. \A S : BP!IsFiniteSet(S) <=> IsFiniteSet(S)
  BY DEF BP!IsFiniteSet, IsFiniteSet
<1>9. \A S : BP!Cardinality(S) = Cardinality(S)
  BY Zenon DEF BP!Cardinality, Cardinality
<1>. QED  BY <1>5, <1>6, <1>7, <1>8, <1>9 DEF BP!Exclusion

\* What decides the phase of t and has not changed leaves it.
LEMMA PhaseStays ==
    ASSUME NEW u \in Trans,
           <<u, "BEGIN_REQ">> \in target_peq' <=> <<u, "BEGIN_REQ">> \in target_peq,
           <<u, "internal_ph">> \in target_peq' <=> <<u, "internal_ph">> \in target_peq,
           <<u, "END_RESP">> \in target_peq' <=> <<u, "END_RESP">> \in target_peq,
           <<u, "BEGIN_RESP">> \in initiator_peq' <=> <<u, "BEGIN_RESP">> \in initiator_peq,
           u = end_req_pending' <=> u = end_req_pending,
           u = next_response_pending' <=> u = next_response_pending
    PROVE  phase'[u] = phase[u]
BY DEF phase

\* One step takes each transaction to its next phase at most.
LEMMA PhaseSteps ==
    ASSUME NEW st, Inv(st), IInv', [Next]_vars, NEW u \in Trans
    PROVE  phase'[u] \in {phase[u]} \cup BP!Succ[phase[u]]
<1>1. TypeOK /\ Located(st) /\ Thread(st) /\ Pooled(st) /\ Counted(st) /\ st \in [Trans -> Stage]
  BY DEF Inv
<1>2. /\ phase[u] = IF st[u] \in {"request", "deferred"} THEN "BEGIN_REQ"
                    ELSE IF st[u] \in {"execute", "answer"} THEN "END_REQ"
                    ELSE IF st[u] = "response" THEN "BEGIN_RESP"
                    ELSE IF st[u] = "end" THEN "END_RESP" ELSE "IDLE"
  BY PhaseOfStage
<1>3. PICK nx : Inv(nx)'
  BY DEF IInv
<1>4. /\ phase'[u] = IF nx[u] \in {"request", "deferred"} THEN "BEGIN_REQ"
                    ELSE IF nx[u] \in {"execute", "answer"} THEN "END_REQ"
                    ELSE IF nx[u] = "response" THEN "BEGIN_RESP"
                    ELSE IF nx[u] = "end" THEN "END_RESP" ELSE "IDLE"
      /\ Located(nx)'
  BY <1>3 DEF phase, Inv, Located, Placed
<1>5. /\ BP!Succ["IDLE"] = {"BEGIN_REQ"}
      /\ BP!Succ["BEGIN_REQ"] = {"END_REQ"}
      /\ BP!Succ["END_REQ"] = {"BEGIN_RESP", "IDLE"}
      /\ BP!Succ["BEGIN_RESP"] = {"END_RESP"}
      /\ BP!Succ["END_RESP"] = {"IDLE"}
  BY DEF BP!Succ
<1>6. ASSUME NEW t \in Trans, Generate(t) \/ CallBTransport(t)
      PROVE  phase'[u] \in {phase[u]} \cup BP!Succ[phase[u]]
  <2>1. CASE u = t
    <3>1. st[t] = "free"
      BY <1>1, <1>6, AllocateFree DEF Generate, CallBTransport
    <3>2. /\ initiator_peq' = initiator_peq /\ end_req_pending' = end_req_pending
          /\ next_response_pending' = next_response_pending
          /\ target_peq' \subseteq target_peq \cup {<<t, "BEGIN_REQ">>}
      BY <1>6 DEF Generate, CallBTransport, targetVars, SendBeginReq
    <3>3. /\ <<u, "internal_ph">> \notin target_peq' /\ <<u, "END_RESP">> \notin target_peq'
          /\ <<u, "BEGIN_RESP">> \notin initiator_peq'
          /\ u # end_req_pending' /\ u # next_response_pending'
      BY <1>1, <2>1, <3>1, <3>2 DEF Located, Placed
    <3>4. phase'[u] \in {"IDLE", "BEGIN_REQ"}
      BY <3>3 DEF phase
    <3>. QED  BY <1>2, <1>5, <2>1, <3>1, <3>4
  <2>2. CASE u # t
    <3>1. /\ initiator_peq' = initiator_peq /\ end_req_pending' = end_req_pending
          /\ next_response_pending' = next_response_pending
          /\ \/ target_peq' = target_peq \cup {<<t, "BEGIN_REQ">>}
             \/ target_peq' = target_peq
             \/ target_peq = {} /\ target_peq' = {<<t, "BEGIN_REQ">>}
      BY <1>6 DEF Generate, CallBTransport, targetVars, SendBeginReq, Drained
    <3>. QED  BY <2>2, <3>1, PhaseStays
  <2>. QED  BY <2>1, <2>2
<1>7. CASE Resume
  <2>1. /\ initiator_peq' = initiator_peq /\ end_req_pending' = end_req_pending
        /\ next_response_pending' = next_response_pending
        /\ target_peq' = target_peq \cup {<<trans, "BEGIN_REQ">>}
    BY <1>7 DEF Resume, targetVars, SendBeginReq
  <2>2. CASE u = trans
    <3>1. st[u] = "held"
      BY <1>1, <1>7, <2>2, NullAssumption DEF Located, Placed, Thread, Resume
    <3>2. <<u, "BEGIN_REQ">> \in target_peq'
      BY <2>1, <2>2
    <3>3. phase'[u] = "BEGIN_REQ"
      BY <3>2 DEF phase
    <3>. QED  BY <1>2, <1>5, <3>1, <3>3
  <2>3. CASE u # trans
    BY <2>1, <2>3, PhaseStays
  <2>. QED  BY <2>2, <2>3
<1>8. ASSUME NEW t \in Trans, InitiatorEndReq(t)
      PROVE  phase'[u] = phase[u]
  BY <1>8, PhaseStays DEF InitiatorEndReq, targetVars
<1>9. ASSUME NEW t \in Trans, InitiatorBeginResp(t)
      PROVE  phase'[u] \in {phase[u]} \cup BP!Succ[phase[u]]
  <2>1. /\ <<t, "BEGIN_RESP">> \in initiator_peq
        /\ initiator_peq' = initiator_peq \ {<<t, "BEGIN_RESP">>}
        /\ target_peq' = target_peq \cup {<<t, "END_RESP">>}
        /\ end_req_pending' = end_req_pending
        /\ next_response_pending' = next_response_pending
    BY <1>9 DEF InitiatorBeginResp, EndReqFirst, targetVars
  <2>2. CASE u = t
    <3>1. st[u] = "response"
      BY <1>1, <2>1, <2>2 DEF Located, Placed
    <3>2. <<u, "END_RESP">> \in target_peq'
      BY <2>1, <2>2
    <3>3. phase'[u] = "END_RESP"
      BY <1>4, <3>2 DEF Located, Placed
    <3>. QED  BY <1>2, <1>5, <3>1, <3>3
  <2>3. CASE u # t
    BY <2>1, <2>3, PhaseStays
  <2>. QED  BY <2>2, <2>3
<1>10. ASSUME NEW t \in Trans, TargetBeginReq(t)
       PROVE  phase'[u] \in {phase[u]} \cup BP!Succ[phase[u]]
  <2>1. <<t, "BEGIN_REQ">> \in target_peq /\ next_response_pending' = next_response_pending
    BY <1>10 DEF TargetBeginReq
  <2>2. CASE n_trans = 2
    <3>1. /\ end_req_pending' = t /\ initiator_peq' = initiator_peq
          /\ target_peq' = target_peq \ {<<t, "BEGIN_REQ">>}
      BY <1>10, <2>2 DEF TargetBeginReq, PipelineFull
    <3>2. CASE u = t
      <4>1. st[u] = "request"
        BY <1>1, <2>1, <3>2 DEF Located, Placed
      <4>2. phase'[u] = "BEGIN_REQ"
        BY <3>1, <3>2 DEF phase
      <4>. QED  BY <1>2, <4>1, <4>2
    <3>3. CASE u # t
      <4>1. CASE u # end_req_pending
        BY <2>1, <3>1, <3>3, <4>1, PhaseStays
      <4>2. CASE u = end_req_pending
        <5>1. st[u] = "deferred" /\ st[t] = "request"
          BY <1>1, <2>1, <4>2 DEF Located, Placed
        <5>2. phase[u] = "BEGIN_REQ" /\ phase[t] = "BEGIN_REQ"
          BY <5>1, PhaseOfStage
        <5>3. FALSE
          BY <3>3, <5>2, ProtocolExclusion DEF BP!Exclusion, BP!In, IInv, Inv
        <5>. QED  BY <5>3
      <4>. QED  BY <4>1, <4>2
    <3>. QED  BY <3>2, <3>3
  <2>3. CASE n_trans # 2
    <3>1. /\ end_req_pending' = end_req_pending
          /\ initiator_peq' = initiator_peq \cup Backward({t}, "END_REQ")
          /\ target_peq' = (target_peq \ {<<t, "BEGIN_REQ">>}) \cup {<<t, "internal_ph">>}
      BY <1>10, <2>3 DEF TargetBeginReq, PipelineFull
    <3>2. CASE u = t
      <4>1. st[u] = "request"
        BY <1>1, <2>1, <3>2 DEF Located, Placed
      <4>2. <<u, "internal_ph">> \in target_peq'
        BY <3>1, <3>2
      <4>3. phase'[u] = "END_REQ"
        BY <1>4, <4>2 DEF Located, Placed
      <4>. QED  BY <1>2, <1>5, <4>1, <4>3
    <3>3. CASE u # t
      <4>1. <<u, "BEGIN_RESP">> \in initiator_peq' <=> <<u, "BEGIN_RESP">> \in initiator_peq
        BY <3>1 DEF Backward
      <4>. QED  BY <2>1, <3>1, <3>3, <4>1, PhaseStays
    <3>. QED  BY <3>2, <3>3
  <2>. QED  BY <2>2, <2>3
<1>11. ASSUME NEW t \in Trans, TargetExecute(t)
       PROVE  phase'[u] \in {phase[u]} \cup BP!Succ[phase[u]]
  <2>1. /\ <<t, "internal_ph">> \in target_peq
        /\ target_peq' = target_peq \ {<<t, "internal_ph">>}
        /\ end_req_pending' = end_req_pending
    BY <1>11 DEF TargetExecute
  <2>2. \/ next_response_pending' = t /\ initiator_peq' = initiator_peq
        \/ /\ next_response_pending' = next_response_pending
           /\ initiator_peq' \in {initiator_peq, initiator_peq \cup Backward({t}, "BEGIN_RESP")}
    BY <1>11 DEF TargetExecute, DeferResponse, SendResponse, Complete
  <2>3. CASE u = t
    <3>1. st[u] = "execute" /\ phase[u] = "END_REQ"
      BY <1>1, <1>2, <2>1, <2>3 DEF Located, Placed
    <3>2. /\ <<u, "BEGIN_REQ">> \notin target_peq' /\ <<u, "END_RESP">> \notin target_peq'
          /\ u # end_req_pending'
      BY <1>1, <2>1, <3>1 DEF Located, Placed
    <3>3. phase'[u] \in {"END_REQ", "BEGIN_RESP", "IDLE"}
      BY <3>2 DEF phase
    <3>. QED  BY <1>5, <3>1, <3>3
  <2>4. CASE u # t
    <3>1. <<u, "BEGIN_RESP">> \in initiator_peq' <=> <<u, "BEGIN_RESP">> \in initiator_peq
      BY <2>2, <2>4 DEF Backward
    <3>2. CASE u # next_response_pending
      BY <2>1, <2>2, <2>4, <3>1, <3>2, PhaseStays
    <3>3. CASE u = next_response_pending
      <4>1. st[u] = "answer" /\ st[t] = "execute" /\ u # NULL
        BY <1>1, <2>1, <3>3, NullAssumption DEF Located, Placed
      <4>2. PICK v \in Trans : st[v] \in Responding
        BY <3>3, <4>1 DEF Inv, Responses
      <4>. QED  BY <4>1, <4>2, AtMostTwo
    <3>. QED  BY <3>2, <3>3
  <2>. QED  BY <2>3, <2>4
<1>12. ASSUME NEW t \in Trans, TargetEndResp(t)
       PROVE  phase'[u] \in {phase[u]} \cup BP!Succ[phase[u]]
  <2>1. /\ <<t, "END_RESP">> \in target_peq
        /\ next_response_pending' = NULL /\ end_req_pending' = NULL
        /\ initiator_peq' = initiator_peq
                              \cup Backward(Deref(next_response_pending), "BEGIN_RESP")
                              \cup Backward(Deref(end_req_pending), "END_REQ")
        /\ target_peq' = (target_peq \ {<<t, "END_RESP">>})
                              \cup Deref(end_req_pending) \X {"internal_ph"}
    BY <1>12 DEF TargetEndResp
  <2>2. /\ st[t] = "end" /\ phase[t] = "END_RESP"
        /\ t # end_req_pending /\ t # next_response_pending
    BY <1>1, <2>1, PhaseOfStage DEF Located, Placed
  <2>3. adapter = NULL
    BY <1>1, <2>2, NullAssumption DEF Thread
  <2>4. CASE u = t
    <3>1. /\ <<u, "BEGIN_REQ">> \notin target_peq /\ <<u, "internal_ph">> \notin target_peq
          /\ <<u, "BEGIN_RESP">> \notin initiator_peq
      BY <1>1, <2>2, <2>4 DEF Located, Placed
    <3>2. /\ <<u, "BEGIN_REQ">> \notin target_peq' /\ <<u, "internal_ph">> \notin target_peq'
          /\ <<u, "BEGIN_RESP">> \notin initiator_peq'
          /\ <<u, "END_RESP">> \notin target_peq'
      BY <2>1, <2>2, <2>4, <3>1 DEF Backward, Deref
    <3>3. phase'[u] = "IDLE"
      BY <2>1, <3>2, NullAssumption DEF phase
    <3>. QED  BY <1>5, <2>2, <2>4, <3>3
  <2>5. CASE u # t /\ u = end_req_pending
    <3>1. st[u] = "deferred" /\ phase[u] = "BEGIN_REQ"
      BY <1>1, <1>2, <2>5 DEF Located, Placed
    <3>2. <<u, "internal_ph">> \in target_peq'
      BY <2>1, <2>5, NullAssumption DEF Deref
    <3>3. phase'[u] = "END_REQ"
      BY <1>4, <3>2 DEF Located, Placed
    <3>. QED  BY <1>5, <3>1, <3>3
  <2>6. CASE u # t /\ u = next_response_pending
    <3>1. st[u] = "answer" /\ phase[u] = "END_REQ"
      BY <1>1, <1>2, <2>6 DEF Located, Placed
    <3>2. <<u, "BEGIN_RESP">> \in initiator_peq'
      BY <2>1, <2>3, <2>6, NullAssumption DEF Backward, Deref
    <3>3. phase'[u] = "BEGIN_RESP"
      BY <1>4, <3>2 DEF Located, Placed
    <3>. QED  BY <1>5, <3>1, <3>3
  <2>7. CASE u # t /\ u # end_req_pending /\ u # next_response_pending
    <3>1. /\ \A ph \in {"BEGIN_REQ", "internal_ph", "END_RESP"} :
                <<u, ph>> \in target_peq' <=> <<u, ph>> \in target_peq
          /\ <<u, "BEGIN_RESP">> \in initiator_peq' <=> <<u, "BEGIN_RESP">> \in initiator_peq
      BY <2>1, <2>7 DEF Backward, Deref
    <3>2. u # end_req_pending' /\ u # next_response_pending'
      BY <2>1, NullAssumption
    <3>. QED  BY <2>7, <3>1, <3>2, PhaseStays
  <2>. QED  BY <2>4, <2>5, <2>6, <2>7
<1>13. ASSUME BTransportReturns \/ Finished \/ UNCHANGED vars
       PROVE  phase'[u] = phase[u]
  BY <1>13, PhaseStays DEF BTransportReturns, Finished, vars, targetVars
<1>. QED
  BY <1>6, <1>7, <1>8, <1>9, <1>10, <1>11, <1>12, <1>13 DEF Next

\* The initiator and the target implement the base protocol with a pipeline of two.
THEOREM ProtocolFollowed == Spec => FollowsProtocol
<1>1. Init => BP!Init
  BY NullAssumption DEF Init, BP!Init, phase
<1>2. IInv /\ IInv' /\ [Next]_vars => [BP!Next]_phase
  <2>. SUFFICES ASSUME NEW st, Inv(st), IInv', [Next]_vars PROVE BP!Next
    BY DEF IInv
  <2>1. phase' \in [Trans -> BP!Phase]
    BY DEF phase, BP!Phase
  <2>2. BP!Exclusion'
    BY ProtocolExclusion, PTL
  <2>3. \A u \in Trans : phase'[u] \in {phase[u]} \cup BP!Succ[phase[u]]
    BY PhaseSteps
  <2>. QED  BY <2>1, <2>2, <2>3 DEF BP!Next
<1>. QED  BY <1>1, <1>2, InvAlways, PTL DEF Spec, FollowsProtocol, BP!Spec

=============================================================================

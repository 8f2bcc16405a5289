-------------------------- MODULE OvEngine_proofs --------------------------
(***************************************************************************)
(* Proofs about the pool of infer requests, for any set of callers and     *)
(* jobs and any bound on the pool.  PoolPartition  is inductive given the  *)
(* types of size, request, idleIds and caller; the type of pending and     *)
(* JobInOnePlace rest on it, because a started request keeps the job of    *)
(* the one caller that holds it; NoLostWakeUp needs only the types.        *)
(***************************************************************************)
EXTENDS OvEngine, SequenceTheorems, TLAPS

(* TypeOK but for pending, which is typed only because whoever started a     *)
(* request gave it a job.                                                    *)
BaseOK ==
  /\ size \in 0 .. MaxRequests
  /\ request \in [Ids -> Request]
  /\ idleIds \in Seq(Ids)
  /\ caller \in [Callers -> Caller]
  /\ alive \in BOOLEAN

LEMMA IdsFacts == Ids \subseteq Nat /\ 0 \in Ids
BY EngineAssumption DEF Ids

\* The ids create_infer_requests_impl queues.
NewIds(n) == [k \in 1 .. n - size |-> size + k - 1]

LEMMA NewIdsFacts ==
  ASSUME BaseOK, NEW n \in size .. MaxRequests
  PROVE  /\ NewIds(n) \in Seq(Ids)
         /\ Len(NewIds(n)) = n - size
         /\ n \in Nat /\ size \in Nat
         /\ \A k \in 1 .. n - size : NewIds(n)[k] = size + k - 1
<1>1. size \in Nat /\ n \in Nat /\ n <= MaxRequests /\ n - size \in Nat
  BY EngineAssumption DEF BaseOK
<1>2. \A k \in 1 .. n - size : size + k - 1 \in Ids
  BY <1>1, EngineAssumption DEF Ids
<1> QED
  BY <1>1, <1>2 DEF NewIds

LEMMA RequestMoves ==
  ASSUME NEW r \in Request, NEW s \in RequestStates
  PROVE  /\ [r EXCEPT !.st = s] \in Request
         /\ [r EXCEPT !.st = s].st = s
         /\ [r EXCEPT !.st = s].job = r.job
BY DEF Request

LEMMA RequestConstants ==
  /\ Idle \in Request /\ Idle.st = "idle"
  /\ Absent \in Request /\ Absent.st = "absent"
  /\ [st |-> "lost", job |-> NoJob] \in Request
  /\ Out \in Caller /\ Out.at = "out"
BY IdsFacts DEF Idle, Absent, Out, Request, RequestStates, Caller

LEMMA BaseFacts ==
  ASSUME BaseOK
  PROVE  /\ request \in [Ids -> Request] /\ caller \in [Callers -> Caller]
         /\ \A id \in Ids : request[id] \in Request
         /\ \A t \in Callers : caller[t] \in Caller /\ caller[t].id \in Ids
         /\ {"running", "done", "held", "lost"} \subseteq RequestStates
BY DEF BaseOK, RequestStates, Caller

(* What put_idle_request does to the callers: at most a sleeper wakes. *)
LEMMA NotifyFacts ==
  ASSUME BaseOK, NotifyOne
  PROVE  /\ caller' \in [Callers -> Caller]
         /\ \A t \in Callers : /\ caller'[t].job = caller[t].job
                               /\ caller'[t].id = caller[t].id
                               /\ \/ caller'[t].at = caller[t].at
                                  \/ caller[t].at = "asleep" /\ caller'[t].at = "get"
<1>1. CASE \E t \in Callers : caller[t].at = "asleep"
  <2>1. PICK t \in Callers : /\ caller[t].at = "asleep"
                             /\ caller' = [caller EXCEPT ![t] = [@ EXCEPT !.at = "get"]]
    BY <1>1 DEF NotifyOne
  <2>2. [caller[t] EXCEPT !.at = "get"] \in Caller
    BY BaseFacts DEF Caller
  <2> QED
    BY <2>1, <2>2 DEF BaseOK, Caller
<1>2. CASE ~ \E t \in Callers : caller[t].at = "asleep"
  BY <1>2 DEF NotifyOne, BaseOK
<1> QED
  BY <1>1, <1>2

LEMMA BaseStep == BaseOK /\ [Next]_vars => BaseOK'
<1> SUFFICES ASSUME BaseOK, [Next]_vars
             PROVE  BaseOK'
  OBVIOUS
<1>0. /\ request \in [Ids -> Request] /\ caller \in [Callers -> Caller]
      /\ \A id \in Ids : request[id] \in Request
      /\ \A t \in Callers : caller[t] \in Caller /\ caller[t].id \in Ids
      /\ {"running", "done", "held", "lost"} \subseteq RequestStates
  BY BaseFacts
<1>1. ASSUME NEW n \in 1 .. MaxRequests, CreateInferRequests(n)
      PROVE  BaseOK'
  <2>1. n \in size .. MaxRequests /\ size' = n /\ idleIds' = idleIds \o NewIds(n)
    BY <1>1 DEF CreateInferRequests, NewIds
  <2>2. idleIds' \in Seq(Ids)
    BY <2>1, NewIdsFacts DEF BaseOK
  <2>3. request' \in [Ids -> Request]
    BY <1>0, <1>1, RequestConstants DEF CreateInferRequests
  <2>4. size' \in 0 .. MaxRequests
    BY EngineAssumption, <2>1 DEF BaseOK
  <2> QED
    BY <1>1, <2>2, <2>3, <2>4 DEF BaseOK, CreateInferRequests
<1>2. ASSUME NEW t \in Callers, NEW j \in Jobs, Run(t, j)
      PROVE  BaseOK'
  BY <1>2, IdsFacts DEF BaseOK, Run, Caller
<1>3. ASSUME NEW t \in Callers, GetIdleRequest(t)
      PROVE  BaseOK'
  <2> DEFINE id == Head(idleIds)
  <2>1. id \in Ids /\ Tail(idleIds) \in Seq(Ids)
    BY <1>3 DEF BaseOK, GetIdleRequest
  <2>2. caller' \in [Callers -> Caller]
    BY <1>0, <1>3, <2>1 DEF GetIdleRequest, Caller
  <2>3. [st |-> "held", job |-> caller[t].job] \in Request
    BY <1>0 DEF Caller, Request
  <2>4. request' \in [Ids -> Request]
    BY <1>0, <1>3, <2>1, <2>3 DEF GetIdleRequest
  <2> QED
    BY <1>3, <2>1, <2>2, <2>4 DEF BaseOK, GetIdleRequest
<1>4. ASSUME NEW t \in Callers, WaitForIdle(t)
      PROVE  BaseOK'
  BY <1>4 DEF BaseOK, WaitForIdle, Caller
<1>5. ASSUME NEW t \in Callers, SpuriousWakeUp(t)
      PROVE  BaseOK'
  BY <1>5 DEF BaseOK, SpuriousWakeUp, Caller
<1>6. ASSUME NEW t \in Callers, StartAsync(t)
      PROVE  BaseOK'
  <2>1. caller' \in [Callers -> Caller]
    BY <1>0, <1>6, RequestConstants DEF StartAsync
  <2>2. request' = [request EXCEPT ![caller[t].id] = [request[caller[t].id] EXCEPT !.st = "running"]]
    BY <1>6 DEF StartAsync
  <2>3. request' \in [Ids -> Request]
    BY <1>0, <2>2, RequestMoves
  <2> QED
    BY <1>6, <2>1, <2>3 DEF StartAsync, BaseOK
<1>7. ASSUME NEW t \in Callers, StartThrows(t)
      PROVE  BaseOK'
  <2>1. caller' \in [Callers -> Caller]
    BY <1>0, <1>7, RequestConstants DEF StartThrows
  <2>2. request' \in [Ids -> Request]
    BY <1>0, <1>7, RequestConstants DEF StartThrows
  <2> QED
    BY <1>7, <2>1, <2>2 DEF StartThrows, BaseOK
<1>8. ASSUME NEW id \in Ids, InferDone(id)
      PROVE  BaseOK'
  <2>1. request' = [request EXCEPT ![id] = [request[id] EXCEPT !.st = "done"]]
    BY <1>8 DEF InferDone
  <2>2. request' \in [Ids -> Request]
    BY <1>0, <2>1, RequestMoves
  <2> QED
    BY <1>8, <2>2 DEF InferDone, BaseOK
<1>9. ASSUME NEW id \in Ids, InferFailed(id)
      PROVE  BaseOK'
  <2>1. request' \in [Ids -> Request]
    BY <1>0, <1>9, RequestConstants DEF InferFailed
  <2> QED
    BY <1>9, <2>1 DEF InferFailed, BaseOK
<1>10. ASSUME NEW id \in Ids, PutIdleRequest(id)
       PROVE  BaseOK'
  <2>1. idleIds' \in Seq(Ids)
    BY <1>10 DEF BaseOK, PutIdleRequest
  <2>2. caller' \in [Callers -> Caller]
    BY <1>10, NotifyFacts DEF PutIdleRequest
  <2>3. request' \in [Ids -> Request]
    BY <1>0, <1>10, RequestConstants DEF PutIdleRequest
  <2> QED
    BY <1>10, <2>1, <2>2, <2>3 DEF PutIdleRequest, BaseOK
<1>11. ASSUME NEW j \in pending, CallBack(j)
       PROVE  BaseOK'
  BY <1>11 DEF BaseOK, CallBack
<1>12. CASE Destroy
  BY <1>12 DEF BaseOK, Destroy
<1>13. CASE UNCHANGED vars
  BY <1>13 DEF BaseOK, vars
<1> QED
  BY <1>1, <1>2, <1>3, <1>4, <1>5, <1>6, <1>7, <1>8, <1>9, <1>10, <1>11, <1>12, <1>13 DEF Next

-----------------------------------------------------------------------------
(* The pool. *)

LEMMA SameOffset ==
  ASSUME NEW a \in Int, NEW b \in Int, NEW c \in Int, NEW d \in Int,
         a + (c - b) - 1 = a + (d - b) - 1
  PROVE  c = d
OBVIOUS

LEMMA HeldFacts ==
  ASSUME PoolPartition, NEW t \in Callers, caller[t].at = "start"
  PROVE  request[caller[t].id].st = "held" /\ request[caller[t].id].job = caller[t].job
<1>1. request[caller[t].id] = [st |-> "held", job |-> caller[t].job]
  BY DEF PoolPartition, HeldByOne
<1> QED
  BY <1>1

LEMMA PartitionStep == BaseOK /\ PoolPartition /\ [Next]_vars => PoolPartition'
<1> SUFFICES ASSUME BaseOK, PoolPartition, [Next]_vars
             PROVE  PoolPartition'
  OBVIOUS
<1> DEFINE Exact == \A id \in Ids : request[id].st = "absent" <=> id >= size
<1>0. /\ request \in [Ids -> Request] /\ caller \in [Callers -> Caller]
      /\ \A id \in Ids : request[id] \in Request
      /\ \A t \in Callers : caller[t] \in Caller /\ caller[t].id \in Ids
      /\ {"running", "done", "held", "lost"} \subseteq RequestStates
  BY BaseFacts
<1>a. Len(idleIds) \in Nat /\ \A k \in 1 .. Len(idleIds) : idleIds[k] \in Ids
  BY DEF BaseOK
<1>1. ASSUME NEW n \in 1 .. MaxRequests, Quiescent, CreateInferRequests(n)
      PROVE  PoolPartition'
  <2>1. n \in size .. MaxRequests /\ size' = n /\ idleIds' = idleIds \o NewIds(n)
    BY <1>1 DEF CreateInferRequests, NewIds
  <2>2. /\ NewIds(n) \in Seq(Ids)
        /\ Len(NewIds(n)) = n - size
        /\ n \in Nat /\ size \in Nat
        /\ \A k \in 1 .. n - size : NewIds(n)[k] = size + k - 1
    BY <2>1, NewIdsFacts
  <2>3. /\ Len(idleIds') = Len(idleIds) + (n - size)
        /\ \A k \in 1 .. Len(idleIds) : idleIds'[k] = idleIds[k]
        /\ \A k \in Len(idleIds) + 1 .. Len(idleIds') : idleIds'[k] = size + (k - Len(idleIds)) - 1
    <3>1. idleIds \in Seq(Ids)
      BY DEF BaseOK
    <3>2. /\ Len(idleIds') = Len(idleIds) + Len(NewIds(n))
          /\ \A k \in 1 .. Len(idleIds) + Len(NewIds(n)) :
               idleIds'[k] = IF k <= Len(idleIds) THEN idleIds[k] ELSE NewIds(n)[k - Len(idleIds)]
      BY <2>1, <2>2, <3>1, ConcatProperties
    <3>3. Len(idleIds') = Len(idleIds) + (n - size)
      BY <2>2, <3>2
    <3>4. ASSUME NEW k \in 1 .. Len(idleIds)
          PROVE  idleIds'[k] = idleIds[k]
      <4>1. k \in 1 .. Len(idleIds) + Len(NewIds(n)) /\ k <= Len(idleIds)
        BY <1>a, <2>2
      <4> QED
        BY <3>2, <4>1
    <3>5. ASSUME NEW k \in Len(idleIds) + 1 .. Len(idleIds')
          PROVE  idleIds'[k] = size + (k - Len(idleIds)) - 1
      <4>1. k \in 1 .. Len(idleIds) + Len(NewIds(n)) /\ ~(k <= Len(idleIds))
        BY <1>a, <2>2, <3>3
      <4>2. k - Len(idleIds) \in 1 .. n - size
        BY <1>a, <2>2, <3>3
      <4> QED
        BY <2>2, <3>2, <4>1, <4>2
    <3> QED
      BY <3>3, <3>4, <3>5
  <2>4. \A k \in 1 .. Len(idleIds) : idleIds[k] < size
    <3> SUFFICES ASSUME NEW k \in 1 .. Len(idleIds)
                 PROVE  idleIds[k] < size
      OBVIOUS
    <3>1. idleIds[k] \in Ids /\ idleIds[k] \in Nat
      BY <1>a, IdsFacts
    <3>2. request[idleIds[k]].st = "idle"
      BY <3>1 DEF PoolPartition, IdleIdsExact
    <3>3. ~(idleIds[k] >= size)
      BY <3>1, <3>2 DEF PoolPartition
    <3> QED
      BY <2>2, <3>1, <3>3
  <2>5. IdleIdsDistinct'
    <3> DEFINE old == 1 .. Len(idleIds)
               new == Len(idleIds) + 1 .. Len(idleIds')
    <3> SUFFICES ASSUME NEW k \in 1 .. Len(idleIds'), NEW l \in 1 .. Len(idleIds'), idleIds'[k] = idleIds'[l]
                 PROVE  k = l
      BY DEF IdleIdsDistinct
    <3>1. (k \in old \/ k \in new) /\ (l \in old \/ l \in new)
      BY <1>a, <2>2, <2>3
    <3>2. \A x \in old : idleIds'[x] = idleIds[x] /\ idleIds[x] \in Nat /\ idleIds[x] < size
      BY <1>a, <2>3, <2>4, IdsFacts
    <3>3. \A x \in new : idleIds'[x] = size + (x - Len(idleIds)) - 1 /\ x \in Int /\ x > Len(idleIds)
      BY <1>a, <2>3
    <3>a. \A x \in new : idleIds'[x] \in Int /\ ~(idleIds'[x] < size)
      <4> SUFFICES ASSUME NEW x \in new
                   PROVE  idleIds'[x] \in Int /\ ~(idleIds'[x] < size)
        OBVIOUS
      <4>1. x - Len(idleIds) \in Nat /\ x - Len(idleIds) >= 1
        BY <1>a, <3>3
      <4>2. idleIds'[x] = size + (x - Len(idleIds)) - 1
        BY <3>3
      <4> QED
        BY <2>2, <4>1, <4>2
    <3>4. CASE k \in old /\ l \in old
      BY <3>2, <3>4 DEF PoolPartition, IdleIdsDistinct
    <3>5. CASE k \in new /\ l \in new
      <4>1. size + (k - Len(idleIds)) - 1 = size + (l - Len(idleIds)) - 1
        BY <3>3, <3>5
      <4>2. k \in Int /\ l \in Int
        BY <3>3, <3>5
      <4>3. size \in Int /\ Len(idleIds) \in Int
        BY <1>a, <2>2
      <4> QED
        BY <4>1, <4>2, <4>3, SameOffset
    <3>6. CASE k \in old /\ l \in new
      BY <3>2, <3>a, <3>6
    <3>7. CASE k \in new /\ l \in old
      BY <3>2, <3>a, <3>7
    <3> QED
      BY <3>1, <3>4, <3>5, <3>6, <3>7
  <2>6. \A id \in Ids : request'[id] = IF id \in size .. n - 1 THEN Idle ELSE request[id]
    BY <1>1 DEF CreateInferRequests
  <2>7. IdleIdsExact'
    <3> SUFFICES ASSUME NEW id \in Ids
                 PROVE  request'[id].st = "idle" <=> \E k \in 1 .. Len(idleIds') : idleIds'[k] = id
      BY DEF IdleIdsExact
    <3>1. id \in Nat
      BY IdsFacts
    <3>2. CASE id \in size .. n - 1
      <4> DEFINE k == Len(idleIds) + (id - size) + 1
      <4>1. k \in Len(idleIds) + 1 .. Len(idleIds') /\ k - Len(idleIds) = id - size + 1
        BY <1>a, <2>2, <2>3, <3>1, <3>2
      <4>2. idleIds'[k] = size + (k - Len(idleIds)) - 1
        BY <2>3, <4>1
      <4>3. k \in 1 .. Len(idleIds') /\ idleIds'[k] = id
        <5> HIDE DEF k
        <5> QED BY <1>a, <2>2, <3>1, <4>1, <4>2
      <4> QED
        BY <4>3, <3>2, <2>6, RequestConstants
    <3>3. CASE id \notin size .. n - 1
      <4>1. ASSUME NEW k \in 1 .. Len(idleIds'), idleIds'[k] = id
            PROVE  k \in 1 .. Len(idleIds)
        <5> SUFFICES ASSUME k \notin 1 .. Len(idleIds)
                     PROVE  FALSE
          OBVIOUS
        <5>1. k \in Len(idleIds) + 1 .. Len(idleIds')
          BY <1>a, <2>3
        <5>2. id = size + (k - Len(idleIds)) - 1
          BY <2>3, <4>1, <5>1
        <5> QED
          BY <1>a, <2>2, <2>3, <3>1, <3>3, <5>1, <5>2
      <4>2. (\E k \in 1 .. Len(idleIds') : idleIds'[k] = id) <=> (\E k \in 1 .. Len(idleIds) : idleIds[k] = id)
        <5>1. \A k \in 1 .. Len(idleIds) : k \in 1 .. Len(idleIds')
          BY <1>a, <2>2, <2>3
        <5> QED
          BY <2>3, <4>1, <5>1
      <4> QED
        BY <4>2, <3>3, <2>6 DEF PoolPartition, IdleIdsExact
    <3> QED
      BY <3>2, <3>3
  <2>8. HeldByOne'
    BY <1>1, <2>6, RequestConstants DEF PoolPartition, HeldByOne, Quiescent, CreateInferRequests
  <2>9. Exact'
    BY <2>1, <2>2, <2>6, RequestConstants, IdsFacts DEF PoolPartition
  <2> QED
    BY <2>5, <2>7, <2>8, <2>9 DEF PoolPartition
<1>2. ASSUME NEW t \in Callers, NEW j \in Jobs, Run(t, j)
      PROVE  PoolPartition'
  BY <1>2 DEF PoolPartition, IdleIdsDistinct, IdleIdsExact, HeldByOne, Run, BaseOK
<1>3. ASSUME NEW t \in Callers, GetIdleRequest(t)
      PROVE  PoolPartition'
  <2> DEFINE id == Head(idleIds)
             q == Tail(idleIds)
  <2>1. /\ id = idleIds[1] /\ id \in Ids
        /\ Len(q) = Len(idleIds) - 1
        /\ \A k \in 1 .. Len(q) : q[k] = idleIds[k + 1]
        /\ idleIds' = q
    BY <1>3 DEF BaseOK, GetIdleRequest
  <2>2. /\ request' = [request EXCEPT ![id] = [st |-> "held", job |-> caller[t].job]]
        /\ caller' = [caller EXCEPT ![t] = [caller[t] EXCEPT !.at = "start", !.id = id]]
        /\ caller[t].at = "get"
        /\ size' = size
    BY <1>3 DEF GetIdleRequest
  <2> HIDE DEF id, q
  <2>3. request[id].st = "idle" /\ 1 \in 1 .. Len(idleIds)
    BY <1>a, <1>3, <2>1 DEF GetIdleRequest, BaseOK, PoolPartition, IdleIdsExact
  <2>4. IdleIdsDistinct'
    BY <1>a, <2>1 DEF PoolPartition, IdleIdsDistinct
  <2>5. \A k \in 1 .. Len(q) : q[k] # id
    BY <1>a, <2>1 DEF PoolPartition, IdleIdsDistinct
  <2>6. IdleIdsExact'
    <3> SUFFICES ASSUME NEW i \in Ids
                 PROVE  request'[i].st = "idle" <=> \E k \in 1 .. Len(q) : q[k] = i
      BY <2>1 DEF IdleIdsExact
    <3>1. CASE i = id
      BY <1>0, <2>1, <2>2, <2>5, <3>1
    <3>2. CASE i # id
      <4>1. (\E k \in 1 .. Len(q) : q[k] = i) <=> (\E k \in 1 .. Len(idleIds) : idleIds[k] = i)
        <5>1. ASSUME NEW k \in 1 .. Len(idleIds), idleIds[k] = i
              PROVE  k - 1 \in 1 .. Len(q) /\ q[k - 1] = i
          BY <1>a, <2>1, <3>2, <5>1
        <5>2. \A k \in 1 .. Len(q) : k + 1 \in 1 .. Len(idleIds)
          BY <1>a, <2>1
        <5> QED
          BY <5>1, <5>2, <2>1
      <4> QED
        BY <1>0, <2>2, <3>2, <4>1 DEF PoolPartition, IdleIdsExact
    <3> QED
      BY <3>1, <3>2
  <2>7. HeldByOne'
    <3>1. \A u \in Callers : u # t => caller'[u] = caller[u]
      BY <1>0, <2>2
    <3>2. caller'[t].at = "start" /\ caller'[t].id = id /\ caller'[t].job = caller[t].job
      BY <1>0, <2>2 DEF Caller
    <3>3. \A u \in Callers : caller[u].at = "start" => caller[u].id # id
      BY <2>3, HeldFacts
    <3>4. /\ request'[id] = [st |-> "held", job |-> caller[t].job]
          /\ \A i \in Ids : i # id => request'[i] = request[i]
      BY <1>0, <2>1, <2>2
    <3>5. ASSUME NEW u \in Callers, caller'[u].at = "start"
          PROVE  request'[caller'[u].id] = [st |-> "held", job |-> caller'[u].job]
      <4>1. CASE u = t
        BY <3>2, <3>4, <4>1
      <4>2. CASE u # t
        <5>1. caller'[u] = caller[u] /\ caller[u].at = "start" /\ caller[u].id \in Ids /\ caller[u].id # id
          BY <1>0, <3>1, <3>3, <3>5, <4>2
        <5>2. request[caller[u].id] = [st |-> "held", job |-> caller[u].job]
          BY <5>1 DEF PoolPartition, HeldByOne
        <5> QED
          BY <3>4, <5>1, <5>2
      <4> QED
        BY <4>1, <4>2
    <3>6. \A i \in Ids : request'[i].st = "held" =>
            \E u \in Callers : caller'[u].at = "start" /\ caller'[u].id = i
      BY <2>2, <3>1, <3>2, <3>4 DEF PoolPartition, HeldByOne
    <3>7. \A u, v \in Callers :
            caller'[u].at = "start" /\ caller'[v].at = "start" /\ caller'[u].id = caller'[v].id => u = v
      BY <3>1, <3>2, <3>3 DEF PoolPartition, HeldByOne
    <3> QED
      BY <3>5, <3>6, <3>7 DEF HeldByOne
  <2>8. Exact'
    BY <1>0, <2>1, <2>2, <2>3 DEF PoolPartition
  <2> QED
    BY <2>4, <2>6, <2>7, <2>8 DEF PoolPartition
<1>4. ASSUME NEW t \in Callers, WaitForIdle(t)
      PROVE  PoolPartition'
  BY <1>0, <1>4 DEF PoolPartition, IdleIdsDistinct, IdleIdsExact, HeldByOne, WaitForIdle
<1>5. ASSUME NEW t \in Callers, SpuriousWakeUp(t)
      PROVE  PoolPartition'
  BY <1>0, <1>5 DEF PoolPartition, IdleIdsDistinct, IdleIdsExact, HeldByOne, SpuriousWakeUp
<1>b. ASSUME NEW id \in Ids, request[id].st \in {"held", "running", "done"},
             NEW r \in Request, r.st \in {"running", "done", "lost"},
             request' = [request EXCEPT ![id] = r],
             UNCHANGED <<size, idleIds>>
      PROVE  IdleIdsDistinct' /\ IdleIdsExact' /\ Exact'
  BY <1>0, <1>b DEF PoolPartition, IdleIdsDistinct, IdleIdsExact
<1>6. ASSUME NEW t \in Callers, caller[t].at = "start", caller' = [caller EXCEPT ![t] = Out],
             NEW r \in Request, r.st \in {"running", "lost"},
             request' = [request EXCEPT ![caller[t].id] = r],
             UNCHANGED <<size, idleIds>>
      PROVE  PoolPartition'
  <2>1. request[caller[t].id].st = "held"
    BY <1>6, HeldFacts
  <2>2. IdleIdsDistinct' /\ IdleIdsExact' /\ Exact'
    BY <1>0, <1>6, <1>b, <2>1
  <2>3. /\ caller'[t].at = "out"
        /\ \A u \in Callers : u # t => caller'[u] = caller[u]
        /\ \A u \in Callers : u # t /\ caller[u].at = "start" => caller[u].id # caller[t].id
    BY <1>0, <1>6, RequestConstants DEF PoolPartition, HeldByOne
  <2>4. /\ request'[caller[t].id].st # "held"
        /\ \A i \in Ids : i # caller[t].id => request'[i] = request[i]
    BY <1>0, <1>6
  <2>5. HeldByOne'
    <3>1. \A u \in Callers : caller'[u].at = "start" =>
            request'[caller'[u].id] = [st |-> "held", job |-> caller'[u].job]
      BY <1>0, <2>3, <2>4 DEF PoolPartition, HeldByOne
    <3>2. \A i \in Ids : request'[i].st = "held" =>
            \E u \in Callers : caller'[u].at = "start" /\ caller'[u].id = i
      BY <2>3, <2>4 DEF PoolPartition, HeldByOne
    <3>3. \A u, v \in Callers :
            caller'[u].at = "start" /\ caller'[v].at = "start" /\ caller'[u].id = caller'[v].id => u = v
      BY <2>3 DEF PoolPartition, HeldByOne
    <3> QED
      BY <3>1, <3>2, <3>3 DEF HeldByOne
  <2> QED
    BY <2>2, <2>5 DEF PoolPartition
<1>7. ASSUME NEW t \in Callers, StartAsync(t)
      PROVE  PoolPartition'
  <2>1. [request[caller[t].id] EXCEPT !.st = "running"] \in Request
    BY <1>0, RequestMoves
  <2>2. [request[caller[t].id] EXCEPT !.st = "running"].st = "running"
    BY <1>0, RequestMoves
  <2> QED
    BY <1>6, <1>7, <2>1, <2>2 DEF StartAsync
<1>8. ASSUME NEW t \in Callers, StartThrows(t)
      PROVE  PoolPartition'
  BY <1>6, <1>8, RequestConstants DEF StartThrows
<1>9. ASSUME NEW id \in Ids, request[id].st = "running",
             NEW r \in Request, r.st \in {"done", "lost"},
             request' = [request EXCEPT ![id] = r],
             UNCHANGED <<size, idleIds, caller>>
      PROVE  PoolPartition'
  <2>1. IdleIdsDistinct' /\ IdleIdsExact' /\ Exact'
    BY <1>0, <1>9, <1>b
  <2>2. HeldByOne'
    BY <1>0, <1>9 DEF PoolPartition, HeldByOne
  <2> QED
    BY <2>1, <2>2 DEF PoolPartition
<1>10. ASSUME NEW id \in Ids, InferDone(id)
       PROVE  PoolPartition'
  <2>1. [request[id] EXCEPT !.st = "done"] \in Request
    BY <1>0, RequestMoves
  <2>2. [request[id] EXCEPT !.st = "done"].st = "done"
    BY <1>0, RequestMoves
  <2> QED
    BY <1>9, <1>10, <2>1, <2>2 DEF InferDone
<1>11. ASSUME NEW id \in Ids, InferFailed(id)
       PROVE  PoolPartition'
  BY <1>9, <1>11, RequestConstants DEF InferFailed
<1>12. ASSUME NEW id \in Ids, PutIdleRequest(id)
       PROVE  PoolPartition'
  <2>1. /\ Len(idleIds') = Len(idleIds) + 1
        /\ idleIds'[Len(idleIds) + 1] = id
        /\ \A k \in 1 .. Len(idleIds) : idleIds'[k] = idleIds[k]
    BY <1>12 DEF PutIdleRequest, BaseOK
  <2>2. /\ request[id].st = "done"
        /\ request'[id].st = "idle"
        /\ \A i \in Ids : i # id => request'[i] = request[i]
    BY <1>0, <1>12, RequestConstants DEF PutIdleRequest
  <2>3. \A k \in 1 .. Len(idleIds) : idleIds[k] # id
    BY <2>2 DEF PoolPartition, IdleIdsExact
  <2>4. IdleIdsDistinct'
    BY <1>a, <2>1, <2>3 DEF PoolPartition, IdleIdsDistinct
  <2>5. IdleIdsExact'
    <3>1. \A i \in Ids : (\E k \in 1 .. Len(idleIds') : idleIds'[k] = i) <=>
                         (i = id \/ \E k \in 1 .. Len(idleIds) : idleIds[k] = i)
      BY <1>a, <2>1
    <3> QED
      BY <2>2, <3>1 DEF PoolPartition, IdleIdsExact
  <2>6. HeldByOne'
    <3>1. NotifyOne
      BY <1>12 DEF PutIdleRequest
    <3>2. \A t \in Callers : \/ caller'[t].at = caller[t].at
                             \/ caller[t].at = "asleep" /\ caller'[t].at = "get"
      BY <3>1, NotifyFacts
    <3>3. \A t \in Callers : caller'[t].id = caller[t].id /\ caller'[t].job = caller[t].job
      BY <3>1, NotifyFacts
    <3>4. \A t \in Callers : caller[t].at = "start" => caller[t].id # id
      BY <2>2, HeldFacts
    <3> QED
      BY <1>0, <2>2, <3>2, <3>3, <3>4 DEF PoolPartition, HeldByOne
  <2>7. Exact'
    BY <1>12, <2>2 DEF PutIdleRequest, PoolPartition
  <2> QED
    BY <2>4, <2>5, <2>6, <2>7 DEF PoolPartition
<1>13. ASSUME UNCHANGED <<size, request, idleIds, caller>>
       PROVE  PoolPartition'
  BY <1>13 DEF PoolPartition, IdleIdsDistinct, IdleIdsExact, HeldByOne
<1>14. ASSUME NEW j \in pending, CallBack(j)
       PROVE  PoolPartition'
  BY <1>13, <1>14 DEF CallBack
<1>15. CASE Destroy
  BY <1>13, <1>15 DEF Destroy
<1>16. CASE UNCHANGED vars
  BY <1>13, <1>16 DEF vars
<1> QED
  BY <1>1, <1>2, <1>3, <1>4, <1>5, <1>7, <1>8, <1>10, <1>11, <1>12, <1>14, <1>15, <1>16 DEF Next

LEMMA PoolInit == Init => BaseOK /\ PoolPartition
<1> SUFFICES ASSUME Init
             PROVE  BaseOK /\ PoolPartition
  OBVIOUS
<1>1. /\ size = 0 /\ idleIds = <<>> /\ idleIds \in Seq(Ids) /\ Len(idleIds) = 0
      /\ \A id \in Ids : request[id] = Absent /\ id >= 0
      /\ \A t \in Callers : caller[t] = Out
  BY IdsFacts DEF Init
<1>2. BaseOK
  BY <1>1, RequestConstants, EngineAssumption DEF Init, BaseOK
<1> QED
  BY <1>1, <1>2, RequestConstants DEF PoolPartition, IdleIdsDistinct, IdleIdsExact, HeldByOne

(* Every infer request stays in one place, for any number of callers and    *)
(* any size of the pool: get_idle_request and put_idle_request neither lose *)
(* nor duplicate an id, and create_infer_requests_impl numbers new ones.    *)
THEOREM PoolConserved == Spec => []PoolPartition
<1>1. BaseOK /\ PoolPartition /\ [Next]_vars => (BaseOK /\ PoolPartition)'
  BY BaseStep, PartitionStep
<1> QED
  BY <1>1, PoolInit, PTL DEF Spec

-----------------------------------------------------------------------------
(* Jobs. *)

\* Whoever is in the engine, and every request in use, has a job.
JobsGiven ==
  /\ \A t \in Callers : caller[t].at # "out" => caller[t].job \in Jobs
  /\ \A id \in Ids : request[id].st \in {"held", "running", "done"} => request[id].job \in Jobs
  /\ pending \subseteq Jobs

JobsInv == JobsGiven /\ JobInOnePlace

\* A job of a caller, and of a request in flight.
Asks(t, j) == caller[t].at # "out" /\ caller[t].job = j
Flies(id, j) == request[id].st \in {"running", "done"} /\ request[id].job = j

(* JobInOnePlace, in terms of who has a job. *)
LEMMA OnePlace ==
  JobInOnePlace <=>
    /\ \A t, u \in Callers : \A j : Asks(t, j) /\ Asks(u, j) => t = u
    /\ \A i, k \in Ids : \A j : Flies(i, j) /\ Flies(k, j) => i = k
    /\ \A t \in Callers, i \in Ids : \A j : ~(Asks(t, j) /\ Flies(i, j))
    /\ \A j \in pending : /\ \A t \in Callers : ~Asks(t, j)
                          /\ \A i \in Ids : ~Flies(i, j)
BY DEF JobInOnePlace, Asks, Flies

(* A step in which nobody gains a job keeps each in one place. *)
LEMMA NobodyGains ==
  ASSUME JobInOnePlace,
         \A t \in Callers : \A j : Asks(t, j)' => Asks(t, j),
         \A i \in Ids : \A j : Flies(i, j)' => Flies(i, j),
         pending' \subseteq pending
  PROVE  JobInOnePlace'
<1>1. /\ \A t, u \in Callers : \A j : Asks(t, j)' /\ Asks(u, j)' => t = u
      /\ \A i, k \in Ids : \A j : Flies(i, j)' /\ Flies(k, j)' => i = k
      /\ \A t \in Callers, i \in Ids : \A j : ~(Asks(t, j)' /\ Flies(i, j)')
      /\ \A j \in pending' : /\ \A t \in Callers : ~Asks(t, j)'
                             /\ \A i \in Ids : ~Flies(i, j)'
  BY OnePlace
<1> QED
  BY <1>1 DEF JobInOnePlace, Asks, Flies

LEMMA JobsStep == BaseOK /\ PoolPartition /\ JobsInv /\ [Next]_vars => JobsInv'
<1> SUFFICES ASSUME BaseOK, PoolPartition, JobsInv, [Next]_vars
             PROVE  JobsInv'
  OBVIOUS
<1>0. /\ request \in [Ids -> Request] /\ caller \in [Callers -> Caller]
      /\ \A id \in Ids : request[id] \in Request
      /\ \A t \in Callers : caller[t] \in Caller /\ caller[t].id \in Ids
      /\ {"running", "done", "held", "lost"} \subseteq RequestStates
  BY BaseFacts
<1>a. /\ \A t, u \in Callers : \A j : Asks(t, j) /\ Asks(u, j) => t = u
      /\ \A i, k \in Ids : \A j : Flies(i, j) /\ Flies(k, j) => i = k
      /\ \A t \in Callers, i \in Ids : \A j : ~(Asks(t, j) /\ Flies(i, j))
      /\ \A j \in pending : /\ \A t \in Callers : ~Asks(t, j)
                            /\ \A i \in Ids : ~Flies(i, j)
  BY OnePlace DEF JobsInv
<1>b. JobInOnePlace
  BY DEF JobsInv
<1>1. ASSUME NEW n \in 1 .. MaxRequests, CreateInferRequests(n)
      PROVE  JobsInv'
  <2>1. \A id \in Ids : request'[id] = Idle \/ request'[id] = request[id]
    BY <1>1 DEF CreateInferRequests
  <2>2. caller' = caller /\ pending' = pending
    BY <1>1 DEF CreateInferRequests
  <2>3. JobsGiven'
    BY <2>1, <2>2, RequestConstants DEF JobsInv, JobsGiven
  <2>4. /\ \A t \in Callers : \A j : Asks(t, j)' => Asks(t, j)
        /\ \A i \in Ids : \A j : Flies(i, j)' => Flies(i, j)
    BY <2>1, <2>2, RequestConstants DEF Asks, Flies
  <2> QED
    BY <1>b, <2>2, <2>3, <2>4, NobodyGains DEF JobsInv
<1>2. ASSUME NEW t \in Callers, NEW job \in Jobs \ InEngine, Run(t, job)
      PROVE  JobsInv'
  <2>1. /\ caller'[t].at = "get" /\ caller'[t].job = job
        /\ \A u \in Callers : u # t => caller'[u] = caller[u]
        /\ request' = request /\ pending' = pending
        /\ caller[t].at = "out"
    BY <1>0, <1>2 DEF Run
  <2>2. /\ job \notin pending
        /\ \A u \in Callers : ~Asks(u, job)
        /\ \A i \in Ids : ~Flies(i, job)
    BY DEF InEngine, Asks, Flies
  <2>3. JobsGiven'
    BY <2>1 DEF JobsInv, JobsGiven
  <2>4. /\ \A u \in Callers : \A j : Asks(u, j)' <=> IF u = t THEN j = job ELSE Asks(u, j)
        /\ \A i \in Ids : \A j : Flies(i, j)' <=> Flies(i, j)
    BY <2>1 DEF Asks, Flies
  <2>5. /\ \A u, v \in Callers : \A j : Asks(u, j)' /\ Asks(v, j)' => u = v
        /\ \A i, k \in Ids : \A j : Flies(i, j)' /\ Flies(k, j)' => i = k
        /\ \A u \in Callers, i \in Ids : \A j : ~(Asks(u, j)' /\ Flies(i, j)')
        /\ \A j \in pending' : /\ \A u \in Callers : ~Asks(u, j)'
                               /\ \A i \in Ids : ~Flies(i, j)'
    BY <1>a, <2>1, <2>2, <2>4
  <2>6. JobInOnePlace'
    BY <2>5 DEF JobInOnePlace, Asks, Flies
  <2> QED
    BY <2>3, <2>6 DEF JobsInv
<1>3. ASSUME NEW t \in Callers, GetIdleRequest(t)
      PROVE  JobsInv'
  <2> DEFINE id == Head(idleIds)
  <2>1. /\ id \in Ids
        /\ request' = [request EXCEPT ![id] = [st |-> "held", job |-> caller[t].job]]
        /\ caller' = [caller EXCEPT ![t] = [caller[t] EXCEPT !.at = "start", !.id = id]]
        /\ caller[t].at = "get"
        /\ pending' = pending
    BY <1>3 DEF GetIdleRequest, BaseOK
  <2> HIDE DEF id
  <2>2. /\ request'[id].st = "held" /\ request'[id].job = caller[t].job
        /\ \A i \in Ids : i # id => request'[i] = request[i]
    BY <1>0, <2>1
  <2>3. /\ caller'[t].at = "start" /\ caller'[t].job = caller[t].job
        /\ \A u \in Callers : u # t => caller'[u] = caller[u]
    BY <1>0, <2>1 DEF Caller
  <2>4. JobsGiven'
    BY <2>1, <2>2, <2>3 DEF JobsInv, JobsGiven
  <2>5. /\ \A u \in Callers : \A j : Asks(u, j)' => Asks(u, j)
        /\ \A i \in Ids : \A j : Flies(i, j)' => Flies(i, j)
    BY <2>1, <2>2, <2>3 DEF Asks, Flies
  <2> QED
    BY <1>b, <2>1, <2>4, <2>5, NobodyGains DEF JobsInv
<1>4. ASSUME NEW t \in Callers, WaitForIdle(t) \/ SpuriousWakeUp(t)
      PROVE  JobsInv'
  <2>1. /\ request' = request /\ pending' = pending
        /\ \A u \in Callers : /\ caller'[u].job = caller[u].job
                              /\ caller'[u].at # "out" <=> caller[u].at # "out"
    BY <1>0, <1>4 DEF WaitForIdle, SpuriousWakeUp, Caller
  <2>2. JobsGiven'
    BY <2>1 DEF JobsInv, JobsGiven
  <2>3. /\ \A u \in Callers : \A j : Asks(u, j)' => Asks(u, j)
        /\ \A i \in Ids : \A j : Flies(i, j)' => Flies(i, j)
    BY <2>1 DEF Asks, Flies
  <2> QED
    BY <1>b, <2>1, <2>2, <2>3, NobodyGains DEF JobsInv
<1>5. ASSUME NEW t \in Callers, StartAsync(t)
      PROVE  JobsInv'
  <2> DEFINE id == caller[t].id
  <2>1. /\ id \in Ids /\ caller[t].at = "start" /\ pending' = pending
        /\ request' = [request EXCEPT ![id] = [request[id] EXCEPT !.st = "running"]]
        /\ caller' = [caller EXCEPT ![t] = Out]
    BY <1>0, <1>5 DEF StartAsync
  <2>2. request[id].st = "held" /\ request[id].job = caller[t].job
    BY <2>1, HeldFacts
  <2>3. /\ request'[id].st = "running" /\ request'[id].job = caller[t].job
        /\ \A i \in Ids : i # id => request'[i] = request[i]
    BY <1>0, <2>1, <2>2, RequestMoves
  <2>4. caller'[t].at = "out" /\ \A u \in Callers : u # t => caller'[u] = caller[u]
    BY <1>0, <2>1, RequestConstants
  <2> HIDE DEF id
  <2>5. JobsGiven'
    BY <2>1, <2>3, <2>4 DEF JobsInv, JobsGiven
  <2>6. /\ \A u \in Callers : \A j : Asks(u, j)' <=> (u # t /\ Asks(u, j))
        /\ \A i \in Ids : \A j : Flies(i, j)' <=> IF i = id THEN Asks(t, j) ELSE Flies(i, j)
    BY <2>1, <2>3, <2>4 DEF Asks, Flies
  <2>7. /\ \A u, v \in Callers : \A j : Asks(u, j)' /\ Asks(v, j)' => u = v
        /\ \A i, k \in Ids : \A j : Flies(i, j)' /\ Flies(k, j)' => i = k
        /\ \A u \in Callers, i \in Ids : \A j : ~(Asks(u, j)' /\ Flies(i, j)')
        /\ \A j \in pending' : /\ \A u \in Callers : ~Asks(u, j)'
                               /\ \A i \in Ids : ~Flies(i, j)'
    BY <1>a, <2>1, <2>6
  <2>8. JobInOnePlace'
    BY <2>7 DEF JobInOnePlace, Asks, Flies
  <2> QED
    BY <2>5, <2>8 DEF JobsInv
<1>6. ASSUME NEW t \in Callers, StartThrows(t)
      PROVE  JobsInv'
  <2>1. /\ pending' = pending
        /\ \A i \in Ids : request'[i].st = "lost" \/ request'[i] = request[i]
        /\ \A u \in Callers : caller'[u].at = "out" \/ caller'[u] = caller[u]
    BY <1>0, <1>6, RequestConstants DEF StartThrows
  <2>2. JobsGiven'
    BY <2>1 DEF JobsInv, JobsGiven
  <2>3. /\ \A u \in Callers : \A j : Asks(u, j)' => Asks(u, j)
        /\ \A i \in Ids : \A j : Flies(i, j)' => Flies(i, j)
    BY <2>1 DEF Asks, Flies
  <2> QED
    BY <1>b, <2>1, <2>2, <2>3, NobodyGains DEF JobsInv
<1>7. ASSUME NEW id \in Ids, InferDone(id) \/ InferFailed(id)
      PROVE  JobsInv'
  <2>1. /\ pending' = pending /\ caller' = caller /\ request[id].st = "running"
        /\ \A i \in Ids : \/ request'[i].st = "lost"
                          \/ request'[i] = request[i]
                          \/ /\ request[i].st = "running"
                             /\ request'[i].st = "done" /\ request'[i].job = request[i].job
    <3>1. CASE InferDone(id)
      <4>1. /\ [request[id] EXCEPT !.st = "done"].st = "done"
            /\ [request[id] EXCEPT !.st = "done"].job = request[id].job
        BY <1>0, RequestMoves
      <4> QED
        BY <1>0, <3>1, <4>1 DEF InferDone
    <3>2. CASE InferFailed(id)
      BY <1>0, <3>2 DEF InferFailed
    <3> QED
      BY <1>7, <3>1, <3>2
  <2>2. JobsGiven'
    BY <2>1 DEF JobsInv, JobsGiven
  <2>3. /\ \A u \in Callers : \A j : Asks(u, j)' => Asks(u, j)
        /\ \A i \in Ids : \A j : Flies(i, j)' => Flies(i, j)
    BY <2>1 DEF Asks, Flies
  <2> QED
    BY <1>b, <2>1, <2>2, <2>3, NobodyGains DEF JobsInv
<1>8. ASSUME NEW id \in Ids, PutIdleRequest(id)
      PROVE  JobsInv'
  <2> DEFINE job == request[id].job
  <2>1. /\ request[id].st = "done" /\ request'[id].st = "idle"
        /\ \A i \in Ids : i # id => request'[i] = request[i]
        /\ pending' = pending \cup {job}
        /\ NotifyOne
    BY <1>0, <1>8, RequestConstants DEF PutIdleRequest
  <2>2. \A u \in Callers : /\ caller'[u].job = caller[u].job
                           /\ \/ caller'[u].at = caller[u].at
                              \/ caller[u].at = "asleep" /\ caller'[u].at = "get"
    BY <2>1, NotifyFacts
  <2>3. job \in Jobs /\ Flies(id, job)
    BY <2>1 DEF JobsInv, JobsGiven, Flies
  <2> HIDE DEF job
  <2>4. JobsGiven'
    BY <2>1, <2>2, <2>3 DEF JobsInv, JobsGiven
  <2>5. /\ \A u \in Callers : \A j : Asks(u, j)' <=> Asks(u, j)
        /\ \A i \in Ids : \A j : Flies(i, j)' <=> (i # id /\ Flies(i, j))
    BY <2>1, <2>2 DEF Asks, Flies
  <2>6. /\ \A u, v \in Callers : \A j : Asks(u, j)' /\ Asks(v, j)' => u = v
        /\ \A i, k \in Ids : \A j : Flies(i, j)' /\ Flies(k, j)' => i = k
        /\ \A u \in Callers, i \in Ids : \A j : ~(Asks(u, j)' /\ Flies(i, j)')
        /\ \A j \in pending' : /\ \A u \in Callers : ~Asks(u, j)'
                               /\ \A i \in Ids : ~Flies(i, j)'
    BY <1>a, <2>1, <2>3, <2>5
  <2>7. JobInOnePlace'
    BY <2>6 DEF JobInOnePlace, Asks, Flies
  <2> QED
    BY <2>4, <2>7 DEF JobsInv
<1>9. ASSUME UNCHANGED <<request, caller>>, pending' \subseteq pending
      PROVE  JobsInv'
  BY <1>9 DEF JobsInv, JobsGiven, JobInOnePlace
<1>10. ASSUME NEW j \in pending, CallBack(j)
       PROVE  JobsInv'
  BY <1>9, <1>10 DEF CallBack
<1>11. CASE Destroy
  BY <1>9, <1>11 DEF Destroy
<1>12. CASE UNCHANGED vars
  BY <1>9, <1>12 DEF vars
<1> QED
  BY <1>1, <1>2, <1>3, <1>4, <1>5, <1>6, <1>7, <1>8, <1>10, <1>11, <1>12 DEF Next

EngineInv == BaseOK /\ PoolPartition /\ JobsInv

LEMMA EngineInit == Init => EngineInv
<1>1. Init => JobsInv
  BY RequestConstants DEF Init, JobsInv, JobsGiven, JobInOnePlace
<1> QED
  BY <1>1, PoolInit DEF EngineInv

LEMMA EngineInvariant == Spec => []EngineInv
<1>1. EngineInv /\ [Next]_vars => EngineInv'
  BY BaseStep, PartitionStep, JobsStep DEF EngineInv
<1> QED
  BY <1>1, EngineInit, PTL DEF Spec

(* The engine's variables keep their types: in particular, a callback       *)
(* always knows whom to report to (run_impl, process_impl).                 *)
THEOREM TypeCorrect == Spec => []TypeOK
<1>1. EngineInv => TypeOK
  BY DEF EngineInv, BaseOK, JobsInv, JobsGiven, TypeOK
<1> QED
  BY <1>1, EngineInvariant, PTL

(* No job is ever in two inferences, nor reported while it runs, if none is *)
(* handed in that the engine still has (run_impl, process_impl).            *)
THEOREM OneInferencePerJob == Spec => []JobInOnePlace
<1>1. EngineInv => JobInOnePlace
  BY DEF EngineInv, JobsInv
<1> QED
  BY <1>1, EngineInvariant, PTL

-----------------------------------------------------------------------------
(* Wake-ups. *)

\* The callers awake at get_idle_request.
Getters == {t \in Callers : caller[t].at = "get"}

(* NoLostWakeUp, with its injection named. *)
LEMMA WakeUpForm ==
  NoLostWakeUp <=>
    ((\E t \in Callers : caller[t].at = "asleep") =>
       \E f \in [1 .. Len(idleIds) -> Getters] : \A k, l \in 1 .. Len(idleIds) : f[k] = f[l] => k = l)
BY DEF NoLostWakeUp, Getters

(* A step that touches neither the queue nor a sleeper or getter, or only   *)
(* wakes one, keeps the property.                                           *)
LEMMA StillAwake ==
  ASSUME NoLostWakeUp, UNCHANGED idleIds,
         \A t \in Callers : caller[t].at = "get" => caller'[t].at = "get",
         \A t \in Callers : caller'[t].at = "asleep" => caller[t].at = "asleep"
  PROVE  NoLostWakeUp'
<1> SUFFICES ASSUME NEW t \in Callers, caller'[t].at = "asleep"
             PROVE  \E f \in [1 .. Len(idleIds) -> Getters'] : \A k, l \in 1 .. Len(idleIds) : f[k] = f[l] => k = l
  BY DEF NoLostWakeUp, Getters
<1>1. PICK f \in [1 .. Len(idleIds) -> Getters] : \A k, l \in 1 .. Len(idleIds) : f[k] = f[l] => k = l
  BY WakeUpForm
<1>2. Getters \subseteq Getters'
  BY DEF Getters
<1> QED
  BY <1>1, <1>2

LEMMA WakeUpStep == BaseOK /\ NoLostWakeUp /\ [Next]_vars => NoLostWakeUp'
<1> SUFFICES ASSUME BaseOK, NoLostWakeUp, [Next]_vars
             PROVE  NoLostWakeUp'
  OBVIOUS
<1>0. /\ caller \in [Callers -> Caller]
      /\ Len(idleIds) \in Nat
  BY DEF BaseOK
<1>1. ASSUME NEW n \in 1 .. MaxRequests, Quiescent, CreateInferRequests(n)
      PROVE  NoLostWakeUp'
  BY <1>1 DEF NoLostWakeUp, Quiescent, CreateInferRequests
<1>2. ASSUME NEW t \in Callers, NEW j \in Jobs, Run(t, j)
      PROVE  NoLostWakeUp'
  BY <1>0, <1>2, StillAwake DEF Run
<1>3. ASSUME NEW t \in Callers, GetIdleRequest(t)
      PROVE  NoLostWakeUp'
  <2>1. /\ caller[t].at = "get" /\ caller'[t].at = "start"
        /\ \A u \in Callers : u # t => caller'[u] = caller[u]
        /\ Len(idleIds') = Len(idleIds) - 1
        /\ Len(idleIds) >= 1
    BY <1>0, <1>3 DEF GetIdleRequest, BaseOK, Caller
  <2>2. Getters' = Getters \ {t}
    BY <2>1 DEF Getters
  <2> SUFFICES ASSUME NEW s \in Callers, caller'[s].at = "asleep"
               PROVE  \E f \in [1 .. Len(idleIds') -> Getters'] :
                        \A k, l \in 1 .. Len(idleIds') : f[k] = f[l] => k = l
    BY DEF NoLostWakeUp, Getters
  <2>3. caller[s].at = "asleep"
    BY <2>1
  <2>4. PICK f \in [1 .. Len(idleIds) -> Getters] : \A k, l \in 1 .. Len(idleIds) : f[k] = f[l] => k = l
    BY <2>3, WakeUpForm
  <2> DEFINE n == Len(idleIds) - 1
             g == [k \in 1 .. n |-> IF f[k] = t THEN f[n + 1] ELSE f[k]]
  <2>5. n \in Nat /\ n + 1 = Len(idleIds) /\ n + 1 \in 1 .. Len(idleIds) /\ 1 .. n \subseteq 1 .. Len(idleIds)
        /\ n + 1 \notin 1 .. n /\ Len(idleIds') = n
    BY <1>0, <2>1
  <2> HIDE DEF n
  <2>6. g \in [1 .. n -> Getters \ {t}]
    <3> SUFFICES ASSUME NEW k \in 1 .. n
                 PROVE  (IF f[k] = t THEN f[n + 1] ELSE f[k]) \in Getters \ {t}
      OBVIOUS
    <3>1. f[k] \in Getters /\ f[n + 1] \in Getters /\ f[k] # f[n + 1]
      BY <2>4, <2>5
    <3> QED
      BY <3>1
  <2>7. ASSUME NEW k \in 1 .. n, NEW l \in 1 .. n, g[k] = g[l]
        PROVE  k = l
    <3>1. /\ f[k] # f[n + 1] /\ f[l] # f[n + 1]
          /\ f[k] = f[l] => k = l
          /\ g[k] = IF f[k] = t THEN f[n + 1] ELSE f[k]
          /\ g[l] = IF f[l] = t THEN f[n + 1] ELSE f[l]
      BY <2>4, <2>5
    <3> QED
      BY <2>7, <3>1
  <2> HIDE DEF g
  <2> QED
    BY <2>2, <2>5, <2>6, <2>7
<1>4. ASSUME NEW t \in Callers, WaitForIdle(t)
      PROVE  NoLostWakeUp'
  <2>1. idleIds' = <<>> /\ Len(idleIds') = 0
    BY <1>4 DEF WaitForIdle
  <2>2. [k \in 1 .. 0 |-> 0] \in [1 .. 0 -> Getters'] /\ 1 .. 0 = {}
    OBVIOUS
  <2>3. \E f \in [1 .. Len(idleIds') -> Getters'] : \A k, l \in 1 .. Len(idleIds') : f[k] = f[l] => k = l
    BY <2>1, <2>2
  <2> QED
    BY <2>3 DEF NoLostWakeUp, Getters
<1>5. ASSUME NEW t \in Callers, SpuriousWakeUp(t)
      PROVE  NoLostWakeUp'
  BY <1>0, <1>5, StillAwake DEF SpuriousWakeUp, Caller
<1>6. ASSUME NEW t \in Callers, StartAsync(t) \/ StartThrows(t)
      PROVE  NoLostWakeUp'
  BY <1>0, <1>6, StillAwake, RequestConstants DEF StartAsync, StartThrows
<1>7. ASSUME UNCHANGED <<idleIds, caller>>
      PROVE  NoLostWakeUp'
  BY <1>7 DEF NoLostWakeUp
<1>8. ASSUME NEW id \in Ids, InferDone(id) \/ InferFailed(id)
      PROVE  NoLostWakeUp'
  BY <1>7, <1>8 DEF InferDone, InferFailed
<1>9. ASSUME NEW id \in Ids, PutIdleRequest(id)
      PROVE  NoLostWakeUp'
  <2> SUFFICES ASSUME NEW s \in Callers, caller'[s].at = "asleep"
               PROVE  \E f \in [1 .. Len(idleIds') -> Getters'] :
                        \A k, l \in 1 .. Len(idleIds') : f[k] = f[l] => k = l
    BY DEF NoLostWakeUp, Getters
  <2>1. NotifyOne /\ Len(idleIds') = Len(idleIds) + 1
    BY <1>9 DEF PutIdleRequest, BaseOK
  <2>2. caller[s].at = "asleep"
    BY <2>1, NotifyFacts
  <2>3. PICK t \in Callers : /\ caller[t].at = "asleep"
                             /\ caller' = [caller EXCEPT ![t] = [caller[t] EXCEPT !.at = "get"]]
    BY <2>1, <2>2 DEF NotifyOne
  <2>4. Getters' = Getters \cup {t} /\ t \notin Getters
    <3>1. caller'[t].at = "get" /\ \A u \in Callers : u # t => caller'[u] = caller[u]
      BY <1>0, <2>3 DEF Caller
    <3> QED
      BY <2>3, <3>1 DEF Getters
  <2>5. PICK f \in [1 .. Len(idleIds) -> Getters] : \A k, l \in 1 .. Len(idleIds) : f[k] = f[l] => k = l
    BY <2>2, WakeUpForm
  <2> DEFINE n == Len(idleIds)
             g == [k \in 1 .. n + 1 |-> IF k = n + 1 THEN t ELSE f[k]]
  <2>6. n \in Nat /\ \A k \in 1 .. n + 1 : k = n + 1 \/ k \in 1 .. n
    BY <1>0
  <2> HIDE DEF n
  <2>7. \A k \in 1 .. n : f[k] \in Getters
    BY <2>5 DEF n
  <2>8. g \in [1 .. n + 1 -> Getters \cup {t}]
    BY <2>6, <2>7
  <2>9. ASSUME NEW k \in 1 .. n + 1, NEW l \in 1 .. n + 1, g[k] = g[l]
        PROVE  k = l
    <3>1. \A i, m \in 1 .. n : f[i] = f[m] => i = m
      BY <2>5 DEF n
    <3>2. \A i \in 1 .. n : f[i] # t
      BY <2>4, <2>7
    <3>3. g[k] = (IF k = n + 1 THEN t ELSE f[k]) /\ g[l] = (IF l = n + 1 THEN t ELSE f[l])
      OBVIOUS
    <3> QED
      BY <2>6, <2>9, <3>1, <3>2, <3>3
  <2>10. Len(idleIds') = n + 1
    BY <2>1 DEF n
  <2> HIDE DEF g
  <2> QED
    BY <2>4, <2>8, <2>9, <2>10
<1>10. ASSUME NEW j \in pending, CallBack(j)
       PROVE  NoLostWakeUp'
  BY <1>7, <1>10 DEF CallBack
<1>11. CASE Destroy
  BY <1>7, <1>11 DEF Destroy
<1>12. CASE UNCHANGED vars
  BY <1>7, <1>12 DEF vars
<1> QED
  BY <1>1, <1>2, <1>3, <1>4, <1>5, <1>6, <1>8, <1>9, <1>10, <1>11, <1>12 DEF Next

(* put_idle_request's notify_one is enough for any number of callers: while *)
(* one sleeps in get_idle_request, each queued id has a caller of its own   *)
(* awake and about to take one.                                             *)
THEOREM WakeUpsSuffice == Spec => []NoLostWakeUp
<1>1. Init => NoLostWakeUp
  BY RequestConstants DEF Init, NoLostWakeUp
<1>2. BaseOK /\ NoLostWakeUp /\ [Next]_vars => (BaseOK /\ NoLostWakeUp)'
  BY BaseStep, WakeUpStep
<1>3. Init => BaseOK
  BY PoolInit
<1> QED
  BY <1>1, <1>2, <1>3, PTL DEF Spec

-----------------------------------------------------------------------------
(* What each step does to the jobs in the engine, for the modules that      *)
(* compose it: Ahead are the jobs whose inference is still to come, Over    *)
(* those it is over for but not yet reported.                               *)

Ahead == {caller[t].job : t \in {t \in Callers : caller[t].at # "out"}}
           \cup {request[id].job : id \in {id \in Ids : request[id].st = "running"}}
Over  == pending \cup {request[id].job : id \in {id \in Ids : request[id].st = "done"}}

Runs(id, j)  == request[id].st = "running" /\ request[id].job = j
Ended(id, j) == request[id].st = "done" /\ request[id].job = j

LEMMA AheadFacts ==
  /\ \A j : j \in Ahead <=> (\E t \in Callers : Asks(t, j)) \/ (\E id \in Ids : Runs(id, j))
  /\ \A j : j \in Over <=> j \in pending \/ \E id \in Ids : Ended(id, j)
BY DEF Ahead, Over, Asks, Runs, Ended

LEMMA NextFacts ==
  /\ \A j : j \in Ahead' <=> (\E t \in Callers : Asks(t, j)') \/ (\E id \in Ids : Runs(id, j)')
  /\ \A j : j \in Over' <=> j \in pending' \/ \E id \in Ids : Ended(id, j)'
BY DEF Ahead, Over, Asks, Runs, Ended

LEMMA AheadOrOver ==
  /\ InEngine = Ahead \cup Over
  /\ JobsInv => Ahead \cap Over = {} /\ InEngine \subseteq Jobs
<1>1. InEngine = Ahead \cup Over
  BY DEF InEngine, Ahead, Over
<1>2. JobsInv => Ahead \cap Over = {}
  BY AheadFacts DEF JobsInv, JobInOnePlace, Asks, Runs, Ended
<1>3. JobsInv => InEngine \subseteq Jobs
  BY DEF JobsInv, JobsGiven, InEngine
<1> QED
  BY <1>1, <1>2, <1>3

(* A step in which every job stays where it is. *)
LEMMA NobodyMoves ==
  ASSUME \A t \in Callers : caller'[t].job = caller[t].job /\ (caller'[t].at = "out" <=> caller[t].at = "out"),
         \A id \in Ids : \A j : (Runs(id, j)' <=> Runs(id, j)) /\ (Ended(id, j)' <=> Ended(id, j)),
         pending' = pending
  PROVE  Ahead' = Ahead /\ Over' = Over
<1>1. \A t \in Callers : \A j : Asks(t, j)' <=> Asks(t, j)
  BY DEF Asks
<1>2. \A j : j \in Ahead' <=> j \in Ahead
  BY <1>1, AheadFacts, NextFacts
<1>3. \A j : j \in Over' <=> j \in Over
  BY AheadFacts, NextFacts
<1> QED
  BY <1>2, <1>3

LEMMA JobsStay ==
  ASSUME BaseOK, PoolPartition,
         \/ \E n \in size .. MaxRequests : CreateInferRequests(n)
         \/ \E t \in Callers : GetIdleRequest(t) \/ WaitForIdle(t) \/ SpuriousWakeUp(t)
         \/ Destroy
         \/ UNCHANGED vars
  PROVE  Ahead' = Ahead /\ Over' = Over
<1>0. /\ request \in [Ids -> Request] /\ caller \in [Callers -> Caller]
      /\ \A id \in Ids : request[id] \in Request
      /\ \A t \in Callers : caller[t] \in Caller /\ caller[t].id \in Ids
  BY BaseFacts
<1>1. ASSUME NEW n \in size .. MaxRequests, CreateInferRequests(n)
      PROVE  Ahead' = Ahead /\ Over' = Over
  <2>1. \A id \in Ids : id \in size .. n - 1 => request[id].st = "absent"
    BY EngineAssumption, IdsFacts DEF PoolPartition, BaseOK
  <2>2. \A id \in Ids : request'[id] = IF id \in size .. n - 1 THEN Idle ELSE request[id]
    BY <1>1 DEF CreateInferRequests
  <2>3. \A id \in Ids : \A j : (Runs(id, j)' <=> Runs(id, j)) /\ (Ended(id, j)' <=> Ended(id, j))
    BY <2>1, <2>2, RequestConstants DEF Runs, Ended
  <2> QED
    BY <1>1, <2>3, NobodyMoves DEF CreateInferRequests
<1>2. ASSUME NEW t \in Callers, GetIdleRequest(t)
      PROVE  Ahead' = Ahead /\ Over' = Over
  <2> DEFINE id == Head(idleIds)
  <2>0. id = idleIds[1] /\ 1 \in 1 .. Len(idleIds) /\ id \in Ids
    <3>1. idleIds \in Seq(Ids) /\ idleIds # <<>>
      BY <1>2 DEF GetIdleRequest, BaseOK
    <3> QED
      BY <3>1
  <2>1. /\ request' = [request EXCEPT ![id] = [st |-> "held", job |-> caller[t].job]]
        /\ caller' = [caller EXCEPT ![t] = [caller[t] EXCEPT !.at = "start", !.id = id]]
        /\ caller[t].at = "get"
        /\ pending' = pending
    BY <1>2 DEF GetIdleRequest
  <2> HIDE DEF id
  <2>2. request[id].st = "idle"
    BY <2>0 DEF PoolPartition, IdleIdsExact
  <2>3. request'[id].st = "held" /\ \A i \in Ids : i # id => request'[i] = request[i]
    BY <1>0, <2>0, <2>1
  <2>4. \A i \in Ids : \A j : (Runs(i, j)' <=> Runs(i, j)) /\ (Ended(i, j)' <=> Ended(i, j))
    BY <2>2, <2>3 DEF Runs, Ended
  <2>5. /\ caller'[t].at = "start" /\ caller'[t].job = caller[t].job
        /\ \A u \in Callers : u # t => caller'[u] = caller[u]
    BY <1>0, <2>1 DEF Caller
  <2> QED
    BY <2>1, <2>4, <2>5, NobodyMoves
<1>3. ASSUME NEW t \in Callers, WaitForIdle(t) \/ SpuriousWakeUp(t)
      PROVE  Ahead' = Ahead /\ Over' = Over
  <2>1. /\ request' = request /\ pending' = pending
        /\ \A u \in Callers : /\ caller'[u].job = caller[u].job
                              /\ caller'[u].at = "out" <=> caller[u].at = "out"
    BY <1>0, <1>3 DEF WaitForIdle, SpuriousWakeUp, Caller
  <2>2. \A id \in Ids : \A j : (Runs(id, j)' <=> Runs(id, j)) /\ (Ended(id, j)' <=> Ended(id, j))
    BY <2>1 DEF Runs, Ended
  <2> QED
    BY <2>1, <2>2, NobodyMoves
<1>4. CASE Destroy \/ UNCHANGED vars
  BY <1>4 DEF Destroy, vars, Ahead, Over
<1> QED
  BY <1>1, <1>2, <1>3, <1>4

LEMMA JobComes ==
  ASSUME BaseOK, NEW t \in Callers, NEW job, Run(t, job)
  PROVE  Ahead' = Ahead \cup {job} /\ Over' = Over
<1>1. /\ caller[t].at = "out" /\ caller'[t].at = "get" /\ caller'[t].job = job
      /\ \A u \in Callers : u # t => caller'[u] = caller[u]
      /\ request' = request /\ pending' = pending
  BY DEF Run, BaseOK
<1>2. Over' = Over
  BY <1>1 DEF Over
<1>3. \A u \in Callers : \A j : Asks(u, j)' <=> IF u = t THEN j = job ELSE Asks(u, j)
  BY <1>1 DEF Asks
<1>4. \A j : ~Asks(t, j)
  BY <1>1 DEF Asks
<1>5. \A id \in Ids : \A j : Runs(id, j)' <=> Runs(id, j)
  BY <1>1 DEF Runs
<1>6. \A j : j \in Ahead' <=> j \in Ahead \/ j = job
  BY <1>3, <1>4, <1>5, AheadFacts, NextFacts
<1> QED
  BY <1>2, <1>6

LEMMA JobStarts ==
  ASSUME BaseOK, PoolPartition, NEW t \in Callers, StartAsync(t)
  PROVE  Ahead' = Ahead /\ Over' = Over
<1> DEFINE id == caller[t].id
<1>1. /\ id \in Ids /\ caller[t].at = "start" /\ pending' = pending
      /\ request \in [Ids -> Request] /\ caller \in [Callers -> Caller] /\ request[id] \in Request
      /\ "running" \in RequestStates
      /\ request' = [request EXCEPT ![id] = [request[id] EXCEPT !.st = "running"]]
      /\ caller' = [caller EXCEPT ![t] = Out]
  BY BaseFacts DEF StartAsync
<1>2. request[id].st = "held" /\ request[id].job = caller[t].job
  BY <1>1, HeldFacts
<1>3. /\ request'[id].st = "running" /\ request'[id].job = caller[t].job
      /\ \A i \in Ids : i # id => request'[i] = request[i]
  BY <1>1, <1>2, RequestMoves
<1>4. caller'[t].at = "out" /\ \A u \in Callers : u # t => caller'[u] = caller[u]
  BY <1>1, RequestConstants
<1> HIDE DEF id
<1>5. /\ \A u \in Callers : \A j : Asks(u, j)' <=> (u # t /\ Asks(u, j))
      /\ \A i \in Ids : \A j : Runs(i, j)' <=> IF i = id THEN Asks(t, j) ELSE Runs(i, j)
      /\ \A i \in Ids : \A j : Ended(i, j)' <=> Ended(i, j)
      /\ \A j : ~Runs(id, j)
  BY <1>1, <1>2, <1>3, <1>4 DEF Asks, Runs, Ended
<1>6. \A j : j \in Ahead' <=> j \in Ahead
  BY <1>1, <1>5, AheadFacts, NextFacts
<1>7. \A j : j \in Over' <=> j \in Over
  BY <1>1, <1>5, AheadFacts, NextFacts
<1> QED
  BY <1>6, <1>7

LEMMA JobLost ==
  ASSUME BaseOK, PoolPartition, JobsInv, NEW t \in Callers, StartThrows(t)
  PROVE  Ahead' = Ahead \ {caller[t].job} /\ Over' = Over /\ caller[t].job \in Ahead
<1> DEFINE id == caller[t].id
<1>1. /\ id \in Ids /\ caller[t].at = "start" /\ pending' = pending
      /\ request \in [Ids -> Request] /\ caller \in [Callers -> Caller]
      /\ request' = [request EXCEPT ![id] = [st |-> "lost", job |-> NoJob]]
      /\ caller' = [caller EXCEPT ![t] = Out]
  BY BaseFacts DEF StartThrows
<1>2. request[id].st = "held"
  BY <1>1, HeldFacts
<1>3. /\ request'[id].st = "lost"
      /\ \A i \in Ids : i # id => request'[i] = request[i]
      /\ caller'[t].at = "out" /\ \A u \in Callers : u # t => caller'[u] = caller[u]
  BY <1>1, RequestConstants
<1> HIDE DEF id
<1>4. /\ \A u \in Callers : \A j : Asks(u, j)' <=> (u # t /\ Asks(u, j))
      /\ \A i \in Ids : \A j : (Runs(i, j)' <=> Runs(i, j)) /\ (Ended(i, j)' <=> Ended(i, j))
      /\ Asks(t, caller[t].job)
  BY <1>1, <1>2, <1>3 DEF Asks, Runs, Ended
<1>5. /\ \A u \in Callers : Asks(u, caller[t].job) => u = t
      /\ \A i \in Ids : ~Runs(i, caller[t].job)
  BY <1>1 DEF JobsInv, JobInOnePlace, Asks, Runs
<1>6. \A j : Asks(t, j) <=> j = caller[t].job
  BY <1>1 DEF Asks
<1>7. caller[t].job \in Ahead
  BY <1>4, AheadFacts
<1>8. \A j : j \in Ahead' <=> j \in Ahead /\ j # caller[t].job
  BY <1>4, <1>5, <1>6, AheadFacts, NextFacts
<1>9. \A j : j \in Over' <=> j \in Over
  BY <1>1, <1>4, AheadFacts, NextFacts
<1> QED
  BY <1>7, <1>8, <1>9

LEMMA JobEnds ==
  ASSUME BaseOK, JobsInv, NEW id \in Ids, InferDone(id) \/ InferFailed(id)
  PROVE  /\ request[id].job \in Ahead
         /\ Ahead' = Ahead \ {request[id].job}
         /\ InferDone(id) => Over' = Over \cup {request[id].job}
         /\ InferFailed(id) => Over' = Over
<1> DEFINE job == request[id].job
<1>1. /\ request[id].st = "running" /\ caller' = caller /\ pending' = pending
      /\ \A i \in Ids : i # id => request'[i] = request[i]
      /\ InferDone(id) => request'[id].st = "done" /\ request'[id].job = job
      /\ InferFailed(id) => request'[id].st = "lost"
      /\ request'[id].st \in {"done", "lost"}
  <2>1. request \in [Ids -> Request] /\ request[id] \in Request /\ "done" \in RequestStates
    BY BaseFacts DEF RequestStates
  <2>2. CASE InferDone(id)
    <3>1. request' = [request EXCEPT ![id] = [request[id] EXCEPT !.st = "done"]]
      BY <2>2 DEF InferDone
    <3>2. request'[id].st = "done" /\ request'[id].job = job
      BY <2>1, <3>1, RequestMoves
    <3>3. ~InferFailed(id)
      BY <2>1, <3>2, RequestConstants DEF InferFailed
    <3> QED
      BY <2>1, <2>2, <3>1, <3>2, <3>3 DEF InferDone
  <2>3. CASE InferFailed(id)
    <3>1. request'[id].st = "lost"
      BY <2>1, <2>3 DEF InferFailed
    <3>2. ~InferDone(id)
      <4>1. InferDone(id) => request'[id].st = "done"
        BY <2>1 DEF InferDone, Request
      <4> QED
        BY <3>1, <4>1
    <3> QED
      BY <2>1, <2>3, <3>1, <3>2 DEF InferFailed
  <2> QED
    BY <2>2, <2>3
<1>3. /\ \A j : Runs(id, j) <=> j = job
      /\ \A j : ~Runs(id, j)' /\ ~Ended(id, j)
      /\ InferDone(id) => \A j : Ended(id, j)' <=> j = job
      /\ InferFailed(id) => \A j : ~Ended(id, j)'
      /\ \A i \in Ids : \A j : i # id => (Runs(i, j)' <=> Runs(i, j)) /\ (Ended(i, j)' <=> Ended(i, j))
      /\ \A t \in Callers : \A j : Asks(t, j)' <=> Asks(t, j)
  BY <1>1 DEF Asks, Runs, Ended
<1>4. /\ \A t \in Callers : ~Asks(t, job)
      /\ \A i \in Ids : Runs(i, job) => i = id
  BY <1>1 DEF JobsInv, JobInOnePlace, Asks, Runs
<1> HIDE DEF job
<1>5. job \in Ahead
  BY <1>3, AheadFacts
<1>6. \A j : j \in Ahead' <=> j \in Ahead /\ j # job
  BY <1>3, <1>4, AheadFacts, NextFacts
<1>7. ASSUME InferDone(id)
      PROVE  Over' = Over \cup {job}
  <2>1. \A j : j \in Over' <=> j \in Over \/ j = job
    BY <1>1, <1>3, <1>7, AheadFacts, NextFacts
  <2> QED
    BY <2>1
<1>8. ASSUME InferFailed(id)
      PROVE  Over' = Over
  <2>1. \A j : j \in Over' <=> j \in Over
    BY <1>1, <1>3, <1>8, AheadFacts, NextFacts
  <2> QED
    BY <2>1
<1>9. Ahead' = Ahead \ {job}
  BY <1>6
<1> QED
  BY <1>5, <1>7, <1>8, <1>9 DEF job

LEMMA JobPutBack ==
  ASSUME BaseOK, NEW id \in Ids, PutIdleRequest(id)
  PROVE  Ahead' = Ahead /\ Over' = Over
<1> DEFINE job == request[id].job
<1>1. /\ request[id].st = "done" /\ request'[id].st = "idle"
      /\ \A i \in Ids : i # id => request'[i] = request[i]
      /\ pending' = pending \cup {job}
      /\ NotifyOne
  BY BaseFacts, RequestConstants DEF PutIdleRequest
<1>2. \A u \in Callers : /\ caller'[u].job = caller[u].job
                         /\ caller'[u].at = "out" <=> caller[u].at = "out"
  BY <1>1, NotifyFacts
<1>3. /\ \A i \in Ids : \A j : Runs(i, j)' <=> Runs(i, j)
      /\ \A i \in Ids : \A j : Ended(i, j)' <=> (i # id /\ Ended(i, j))
      /\ \A j : Ended(id, j) <=> j = job
      /\ \A t \in Callers : \A j : Asks(t, j)' <=> Asks(t, j)
  BY <1>1, <1>2 DEF Asks, Runs, Ended
<1> HIDE DEF job
<1>4. \A j : j \in Ahead' <=> j \in Ahead
  BY <1>3, AheadFacts, NextFacts
<1>5. \A j : j \in Over' <=> j \in Over
  BY <1>1, <1>3, AheadFacts, NextFacts
<1> QED
  BY <1>4, <1>5

LEMMA JobLeaves ==
  ASSUME JobsInv, NEW j, CallBack(j)
  PROVE  Ahead' = Ahead /\ Over' = Over \ {j} /\ j \in Over
<1>1. j \in pending /\ pending' = pending \ {j} /\ UNCHANGED <<request, caller>>
  BY DEF CallBack
<1>2. \A id \in Ids : request[id].st = "done" => request[id].job # j
  BY <1>1 DEF JobsInv, JobInOnePlace
<1> QED
  BY <1>1, <1>2 DEF Ahead, Over

(* Nothing in the engine means nobody in the pool. *)
LEMMA EmptyIsQuiet ==
  ASSUME InEngine = {}
  PROVE  Quiescent
BY DEF InEngine, Quiescent

(* Only cv_.wait on an empty queue puts a caller to sleep, and a lost       *)
(* request stays lost.                                                      *)
LEMMA SleepsOnlyWhenEmpty ==
  ASSUME BaseOK, [Next]_vars, NEW t \in Callers, caller'[t].at = "asleep"
  PROVE  caller[t].at = "asleep" \/ WaitForIdle(t)
<1>0. caller \in [Callers -> Caller] /\ \A u \in Callers : caller[u] \in Caller
  BY BaseFacts
<1>1. ASSUME NEW u \in Callers, NEW c, c.at # "asleep", caller' = [caller EXCEPT ![u] = c]
      PROVE  caller[t].at = "asleep"
  BY <1>0, <1>1
<1>2. ASSUME NEW u \in Callers, NEW j, Run(u, j)
      PROVE  caller[t].at = "asleep"
  <2>1. [at |-> "get", job |-> j, id |-> 0].at # "asleep"
    OBVIOUS
  <2> QED
    BY <1>1, <1>2, <2>1 DEF Run
<1>3. ASSUME NEW u \in Callers, GetIdleRequest(u)
      PROVE  caller[t].at = "asleep"
  <2>1. [caller[u] EXCEPT !.at = "start", !.id = Head(idleIds)].at # "asleep"
    BY <1>0 DEF Caller
  <2> QED
    BY <1>1, <1>3, <2>1 DEF GetIdleRequest
<1>4. ASSUME NEW u \in Callers, WaitForIdle(u)
      PROVE  caller[t].at = "asleep" \/ WaitForIdle(t)
  BY <1>0, <1>4 DEF WaitForIdle
<1>5. ASSUME NEW u \in Callers, SpuriousWakeUp(u)
      PROVE  caller[t].at = "asleep"
  <2>1. [caller[u] EXCEPT !.at = "get"].at # "asleep"
    BY <1>0 DEF Caller
  <2> QED
    BY <1>1, <1>5, <2>1 DEF SpuriousWakeUp
<1>6. ASSUME NEW u \in Callers, StartAsync(u) \/ StartThrows(u)
      PROVE  caller[t].at = "asleep"
  BY <1>1, <1>6, RequestConstants DEF StartAsync, StartThrows
<1>7. ASSUME NEW id \in Ids, PutIdleRequest(id)
      PROVE  caller[t].at = "asleep"
  BY <1>7, NotifyFacts DEF PutIdleRequest
<1>8. ASSUME UNCHANGED caller
      PROVE  caller[t].at = "asleep"
  BY <1>8
<1> QED
  BY <1>2, <1>3, <1>4, <1>5, <1>6, <1>7, <1>8
  DEF Next, vars, CreateInferRequests, InferDone, InferFailed, CallBack, Destroy

LEMMA LostForGood ==
  ASSUME BaseOK, PoolPartition, [Next]_vars, NEW id \in Ids, request[id].st = "lost"
  PROVE  request'[id].st = "lost"
<1>0. /\ request \in [Ids -> Request] /\ \A u \in Callers : caller[u] \in Caller /\ caller[u].id \in Ids
      /\ id < size
  BY BaseFacts, EngineAssumption, IdsFacts DEF PoolPartition, BaseOK, Ids
<1>1. ASSUME NEW n \in 1 .. MaxRequests, CreateInferRequests(n)
      PROVE  request'[id].st = "lost"
  <2>1. id \notin size .. n - 1
    BY <1>0, EngineAssumption DEF BaseOK, Ids
  <2> QED
    BY <1>1, <2>1 DEF CreateInferRequests
<1>2. ASSUME NEW u \in Callers, GetIdleRequest(u)
      PROVE  request'[id].st = "lost"
  <2>1. idleIds \in Seq(Ids) /\ idleIds # <<>>
    BY <1>2 DEF GetIdleRequest, BaseOK
  <2>2. Head(idleIds) = idleIds[1] /\ 1 \in 1 .. Len(idleIds) /\ Head(idleIds) \in Ids
    BY <2>1
  <2>3. request[Head(idleIds)].st = "idle"
    BY <2>2 DEF PoolPartition, IdleIdsExact
  <2> QED
    BY <1>0, <1>2, <2>2, <2>3 DEF GetIdleRequest
<1>3. ASSUME NEW u \in Callers, StartAsync(u) \/ StartThrows(u)
      PROVE  request'[id].st = "lost"
  <2>1. request[caller[u].id].st = "held"
    BY <1>3, HeldFacts DEF StartAsync, StartThrows
  <2> QED
    BY <1>0, <1>3, <2>1 DEF StartAsync, StartThrows
<1>4. ASSUME NEW k \in Ids, InferDone(k) \/ InferFailed(k) \/ PutIdleRequest(k)
      PROVE  request'[id].st = "lost"
  BY <1>0, <1>4 DEF InferDone, InferFailed, PutIdleRequest
<1>5. ASSUME UNCHANGED request
      PROVE  request'[id].st = "lost"
  BY <1>5
<1> QED
  BY <1>1, <1>2, <1>3, <1>4, <1>5
  DEF Next, vars, Run, WaitForIdle, SpuriousWakeUp, CallBack, Destroy
=============================================================================

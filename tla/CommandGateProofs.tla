------------------------- MODULE CommandGateProofs -------------------------
(***************************************************************************)
(* Theorems about CommandGate, for any number of callers and any capacity. *)
(***************************************************************************)
EXTENDS CommandGate, TLAPS

\* Readiness leaves "pending" once, before the deferred, and nobody is past the
\* gate before.
Gated ==
    /\ startup = "starting" => readiness = "pending"
    /\ startup # "over" => ready = "pending"
    /\ \A c \in Callers : pc[c] \in {"direct", "running"} => readiness = "ready"
    /\ RunsOnlyWhenReady

\* Who has a command: its caller, the queue or the worker.
Owned ==
    /\ \A c \in Callers : c \in Range(queue) \/ c = worker =>
                              pc[c] \in {"waiting", "gone"} /\ ran[c] = 0
    /\ \A c \in Callers : c \in running => c = worker \/ pc[c] = "running"
    /\ \A c \in Callers : ran[c] # 0 => pc[c] \in {"answered", "gone"}
    /\ \A c \in Callers : ran[c] <= 1
    /\ \A c \in Callers : pc[c] = "answered" => ran[c] = 1

\* The inductive invariant.
IInv == TypeOK /\ Gated /\ QueueHoldsWaiting /\ Owned

LEMMA AppendCaller ==
    ASSUME NEW q \in Seq(Callers), NEW c \in Callers, IsInjective(q), c \notin Range(q)
    PROVE  /\ Append(q, c) \in Seq(Callers) /\ Len(Append(q, c)) = Len(q) + 1
           /\ IsInjective(Append(q, c))
           /\ Range(Append(q, c)) = Range(q) \cup {c}
<1> DEFINE r == Append(q, c)
<1>1. /\ r \in Seq(Callers) /\ DOMAIN r = 1..(Len(q) + 1) /\ DOMAIN q = 1..Len(q)
      /\ Len(q) \in Nat /\ Len(r) = Len(q) + 1
      /\ \A i \in 1..Len(q) : r[i] = q[i]
      /\ r[Len(q) + 1] = c
  OBVIOUS
<1> HIDE DEF r
<1>2. \A i \in DOMAIN r : i \in DOMAIN q \/ i = Len(q) + 1
  BY <1>1
<1>3. IsInjective(r)
  <2>1. \A i, j \in DOMAIN q : q[i] = q[j] => i = j
    BY DEF IsInjective
  <2>2. \A i \in DOMAIN q : q[i] # c
    BY DEF Range
  <2>3. \A i, j \in DOMAIN r : r[i] = r[j] => i = j
    BY <1>1, <1>2, <2>1, <2>2
  <2> QED
    BY <2>3 DEF IsInjective
<1>4. Range(r) = Range(q) \cup {c}
  <2>1. \A x \in Range(r) : x \in Range(q) \cup {c}
    BY <1>1, <1>2 DEF Range
  <2>2. \A i \in DOMAIN q : i \in DOMAIN r /\ q[i] = r[i]
    BY <1>1
  <2>3. Len(q) + 1 \in DOMAIN r
    BY <1>1
  <2>4. \A x \in Range(q) \cup {c} : x \in Range(r)
    BY <1>1, <2>2, <2>3 DEF Range
  <2> QED
    BY <2>1, <2>4
<1> QED
  BY <1>1, <1>3, <1>4 DEF r

LEMMA TailCallers ==
    ASSUME NEW q \in Seq(Callers), q # <<>>, IsInjective(q)
    PROVE  /\ Tail(q) \in Seq(Callers) /\ Head(q) \in Callers
           /\ Len(Tail(q)) = Len(q) - 1 /\ IsInjective(Tail(q))
           /\ Head(q) \notin Range(Tail(q))
           /\ Range(q) = Range(Tail(q)) \cup {Head(q)}
<1> DEFINE r == Tail(q)
<1>1. /\ r \in Seq(Callers) /\ Head(q) = q[1] /\ 1 \in DOMAIN q /\ Head(q) \in Callers
      /\ DOMAIN q = 1..Len(q) /\ DOMAIN r = 1..(Len(q) - 1) /\ Len(q) \in Nat
      /\ Len(r) = Len(q) - 1
      /\ \A i \in DOMAIN r : r[i] = q[i + 1] /\ i + 1 \in DOMAIN q
  OBVIOUS
<1> HIDE DEF r
<1>2. \A i, j \in DOMAIN q : q[i] = q[j] => i = j
  BY DEF IsInjective
<1>3. IsInjective(r)
  <2>1. \A i, j \in DOMAIN r : r[i] = r[j] => i = j
    BY <1>1, <1>2
  <2> QED
    BY <2>1 DEF IsInjective
<1>4. Head(q) \notin Range(r)
  <2>1. \A i \in DOMAIN r : r[i] # Head(q)
    BY <1>1, <1>2
  <2> QED
    BY <2>1 DEF Range
<1>5. Range(q) = Range(r) \cup {Head(q)}
  <2>1. \A i \in DOMAIN q : i = 1 \/ (i - 1 \in DOMAIN r /\ r[i - 1] = q[i])
    BY <1>1
  <2>2. \A x \in Range(q) : x \in Range(r) \cup {Head(q)}
    BY <1>1, <2>1 DEF Range
  <2>3. \A x \in Range(r) \cup {Head(q)} : x \in Range(q)
    BY <1>1 DEF Range
  <2> QED
    BY <2>2, <2>3
<1> QED
  BY <1>1, <1>3, <1>4, <1>5 DEF r

LEMMA InitIInv == Init => IInv
BY GateConstants DEF Init, IInv, TypeOK, Gated, RunsOnlyWhenReady, QueueHoldsWaiting,
   Owned, Range, IsInjective, GateConstants
-----------------------------------------------------------------------------
\* The steps of a caller.
LEMMA CallerStep ==
    ASSUME IInv, NEW c \in Callers, ReadReadiness(c) \/ Proceed(c) \/ Interrupt(c)
    PROVE  IInv'
<1> USE DEF IInv
<1>1. CASE ReadReadiness(c)
  <2>1. /\ UNCHANGED <<readiness, ready, startup, queue, worker, running, ran>>
        /\ pc[c] = "new"
        /\ pc' \in [Callers -> {"new", "direct", "running", "offering", "waiting",
                                "answered", "refused", "gone"}]
        /\ \A d \in Callers : d # c => pc'[d] = pc[d]
        /\ pc'[c] \in {"direct", "refused", "offering"}
        /\ pc'[c] = "direct" => readiness = "ready"
    BY <1>1 DEF ReadReadiness, TypeOK
  <2>2. TypeOK'
    BY <2>1 DEF TypeOK
  <2>3. Gated'
    BY <2>1 DEF Gated, RunsOnlyWhenReady
  <2>4. QueueHoldsWaiting'
    <3>1. \A d \in Range(queue) : d \in Callers /\ d # c
      BY <2>1 DEF QueueHoldsWaiting, TypeOK, Range
    <3> QED
      BY <2>1, <3>1 DEF QueueHoldsWaiting
  <2>5. Owned'
    BY <2>1 DEF Owned
  <2> QED
    BY <2>2, <2>3, <2>4, <2>5
<1>2. CASE RunDirect(c)
  <2>1. /\ UNCHANGED <<readiness, ready, startup, queue, worker, ran>>
        /\ pc[c] = "direct" /\ running' = running \cup {c}
        /\ pc' = [pc EXCEPT ![c] = "running"]
    BY <1>2 DEF RunDirect
  <2>2. TypeOK'
    BY <2>1 DEF TypeOK
  <2>3. Gated'
    BY <2>1 DEF Gated, RunsOnlyWhenReady, TypeOK
  <2>4. QueueHoldsWaiting'
    BY <2>1 DEF QueueHoldsWaiting, TypeOK, Range
  <2>5. Owned'
    BY <2>1 DEF Owned, TypeOK
  <2> QED
    BY <2>2, <2>3, <2>4, <2>5
<1>3. CASE Offer(c)
  <2>1. /\ UNCHANGED <<readiness, ready, startup, worker, running, ran>>
        /\ pc[c] = "offering" /\ Len(queue) < Capacity /\ queue' = Append(queue, c)
        /\ pc' = [pc EXCEPT ![c] = "waiting"]
    BY <1>3 DEF Offer
  <2>2. c \notin Range(queue) /\ c # worker /\ ran[c] = 0
    BY <2>1 DEF QueueHoldsWaiting, Owned
  <2>3. /\ queue' \in Seq(Callers) /\ Len(queue') = Len(queue) + 1
        /\ IsInjective(queue') /\ Range(queue') = Range(queue) \cup {c}
    BY <2>1, <2>2, AppendCaller DEF TypeOK, QueueHoldsWaiting
  <2>4. TypeOK'
    BY <2>1, <2>3 DEF TypeOK
  <2>5. Gated'
    BY <2>1 DEF Gated, RunsOnlyWhenReady, TypeOK
  <2>6. Len(queue') <= Capacity
    BY <2>1, <2>3, GateConstants DEF GateConstants, TypeOK
  <2>7. QueueHoldsWaiting'
    BY <2>1, <2>2, <2>3, <2>6 DEF QueueHoldsWaiting, TypeOK
  <2>8. Owned'
    BY <2>1, <2>2, <2>3 DEF Owned, TypeOK
  <2> QED
    BY <2>4, <2>5, <2>7, <2>8
<1>4. CASE EndDirect(c)
  <2>1. /\ UNCHANGED <<readiness, ready, startup, queue, worker>>
        /\ pc[c] = "running" /\ running' = running \ {c}
        /\ ran' = [ran EXCEPT ![c] = @ + 1]
        /\ pc' = [pc EXCEPT ![c] = "answered"]
    BY <1>4 DEF EndDirect
  <2>2. ran[c] = 0 /\ c \notin Range(queue) /\ c # worker
    BY <2>1 DEF Owned
  <2>3. ran'[c] = 1 /\ \A d \in Callers : d # c => ran'[d] = ran[d] /\ pc'[d] = pc[d]
    BY <2>1, <2>2 DEF TypeOK
  <2>4. TypeOK'
    BY <2>1 DEF TypeOK
  <2>5. Gated'
    BY <2>1, <2>3 DEF Gated, RunsOnlyWhenReady, TypeOK
  <2>6. QueueHoldsWaiting'
    BY <2>1, <2>2 DEF QueueHoldsWaiting, TypeOK, Range
  <2>7. Owned'
    BY <2>1, <2>2, <2>3 DEF Owned, TypeOK
  <2> QED
    BY <2>4, <2>5, <2>6, <2>7
<1>5. CASE Interrupt(c)
  <2>1. /\ UNCHANGED <<readiness, ready, startup, queue, worker, ran>>
        /\ pc[c] \in {"direct", "running", "offering", "waiting"}
        /\ running' \subseteq running /\ pc' = [pc EXCEPT ![c] = "gone"]
        /\ pc[c] = "running" => c \notin running'
    BY <1>5 DEF Interrupt
  <2>2. TypeOK'
    BY <2>1 DEF TypeOK
  <2>3. Gated'
    BY <2>1 DEF Gated, RunsOnlyWhenReady, TypeOK
  <2>4. QueueHoldsWaiting'
    BY <2>1 DEF QueueHoldsWaiting, TypeOK, Range
  <2>5. Owned'
    BY <2>1 DEF Owned, TypeOK
  <2> QED
    BY <2>2, <2>3, <2>4, <2>5
<1> QED
  BY <1>1, <1>2, <1>3, <1>4, <1>5 DEF Proceed

\* The worker settles the caller of the command it holds.
LEMMA AnswerStep ==
    ASSUME TypeOK, NEW c \in Callers, NEW a \in {"answered", "refused"}, Answer(c, a)
    PROVE  /\ pc' \in [Callers -> {"new", "direct", "running", "offering", "waiting",
                                   "answered", "refused", "gone"}]
           /\ \A d \in Callers : d # c => pc'[d] = pc[d]
           /\ pc[c] = "waiting" => pc'[c] = a
           /\ pc[c] # "waiting" => pc'[c] = pc[c]
BY DEF TypeOK, Answer

LEMMA WorkerStep == ASSUME IInv, Worker PROVE IInv'
<1> USE DEF IInv
<1>1. CASE Take
  <2>1. /\ UNCHANGED <<readiness, ready, startup, pc, running, ran>>
        /\ worker = NoCaller /\ queue # <<>>
        /\ worker' = Head(queue) /\ queue' = Tail(queue)
    BY <1>1 DEF Take
  <2>2. /\ queue' \in Seq(Callers) /\ worker' \in Callers
        /\ Len(queue') = Len(queue) - 1 /\ IsInjective(queue')
        /\ worker' \notin Range(queue')
        /\ Range(queue) = Range(queue') \cup {worker'}
    BY <2>1, TailCallers DEF TypeOK, QueueHoldsWaiting
  <2>3. TypeOK'
    BY <2>1, <2>2 DEF TypeOK
  <2>4. Gated'
    BY <2>1 DEF Gated, RunsOnlyWhenReady
  <2>5. Len(queue') <= Capacity
    BY <2>1, <2>2, GateConstants DEF GateConstants, TypeOK, QueueHoldsWaiting
  <2>6. \A c \in Callers : c # worker
    BY <2>1, GateConstants DEF GateConstants
  <2>7. QueueHoldsWaiting'
    BY <2>1, <2>2, <2>5, <2>6 DEF QueueHoldsWaiting
  <2>8. Owned'
    BY <2>1, <2>2, <2>6 DEF Owned
  <2> QED
    BY <2>3, <2>4, <2>7, <2>8
<1>2. CASE RunQueued
  <2>1. /\ UNCHANGED <<readiness, ready, startup, queue, worker, pc, ran>>
        /\ worker \in Callers /\ running' = running \cup {worker} /\ readiness = "ready"
    BY <1>2 DEF RunQueued, TypeOK
  <2> QED
    BY <2>1 DEF TypeOK, Gated, RunsOnlyWhenReady, QueueHoldsWaiting, Owned
<1>3. CASE EndQueued
  <2>1. /\ UNCHANGED <<readiness, ready, startup, queue>>
        /\ worker \in running /\ worker \in Callers /\ running' = running \ {worker}
        /\ ran' = [ran EXCEPT ![worker] = @ + 1]
        /\ Answer(worker, "answered") /\ worker' = NoCaller
    BY <1>3 DEF EndQueued, TypeOK
  <2>2. pc[worker] \in {"waiting", "gone"} /\ ran[worker] = 0 /\ worker \notin Range(queue)
    BY <2>1 DEF Owned, QueueHoldsWaiting
  <2>3. /\ ran' \in [Callers -> Nat] /\ ran'[worker] = 1
        /\ \A d \in Callers : d # worker => ran'[d] = ran[d]
    BY <2>1, <2>2 DEF TypeOK
  <2>4. /\ pc' \in [Callers -> {"new", "direct", "running", "offering", "waiting",
                                "answered", "refused", "gone"}]
        /\ \A d \in Callers : d # worker => pc'[d] = pc[d]
        /\ pc'[worker] \in {"answered", "gone"}
    BY <2>1, <2>2, AnswerStep
  <2>5. \A d \in Callers : d # worker'
    BY <2>1, GateConstants DEF GateConstants
  <2>6. TypeOK'
    BY <2>1, <2>3, <2>4 DEF TypeOK
  <2>7. Gated'
    <3>1. readiness = "ready"
      BY <2>1 DEF Gated, RunsOnlyWhenReady
    <3> QED
      BY <2>1, <3>1 DEF Gated, RunsOnlyWhenReady
  <2>8. QueueHoldsWaiting'
    <3>1. worker' \notin Range(queue)
      BY <2>1, GateConstants DEF GateConstants, TypeOK, Range
    <3> QED
      BY <2>1, <2>2, <2>4, <3>1 DEF QueueHoldsWaiting, TypeOK, Range
  <2>9. Owned'
    BY <2>1, <2>2, <2>3, <2>4, <2>5 DEF Owned
  <2> QED
    BY <2>6, <2>7, <2>8, <2>9
<1>4. CASE RefuseQueued
  <2>1. /\ UNCHANGED <<readiness, ready, startup, queue, running, ran>>
        /\ worker \in Callers /\ readiness = "failed"
        /\ Answer(worker, "refused") /\ worker' = NoCaller
    BY <1>4 DEF RefuseQueued, TypeOK
  <2>2. /\ pc[worker] \in {"waiting", "gone"} /\ ran[worker] = 0
        /\ worker \notin Range(queue) /\ worker \notin running
    BY <2>1 DEF Owned, QueueHoldsWaiting, Gated, RunsOnlyWhenReady
  <2>3. /\ pc' \in [Callers -> {"new", "direct", "running", "offering", "waiting",
                                "answered", "refused", "gone"}]
        /\ \A d \in Callers : d # worker => pc'[d] = pc[d]
        /\ pc'[worker] \in {"refused", "gone"}
    BY <2>1, <2>2, AnswerStep
  <2>4. \A d \in Callers : d # worker'
    BY <2>1, GateConstants DEF GateConstants
  <2>5. TypeOK'
    BY <2>1, <2>3 DEF TypeOK
  <2>6. Gated'
    BY <2>1, <2>3 DEF Gated, RunsOnlyWhenReady
  <2>7. QueueHoldsWaiting'
    <3>1. worker' \notin Range(queue)
      BY <2>1, GateConstants DEF GateConstants, TypeOK, Range
    <3> QED
      BY <2>1, <2>2, <2>3, <3>1 DEF QueueHoldsWaiting, TypeOK, Range
  <2>8. Owned'
    BY <2>1, <2>2, <2>3, <2>4 DEF Owned
  <2> QED
    BY <2>5, <2>6, <2>7, <2>8
<1> QED
  BY <1>1, <1>2, <1>3, <1>4 DEF Worker

LEMMA StartupStep == ASSUME IInv, Startup \/ SettleReady PROVE IInv'
<1>1. /\ UNCHANGED <<queue, worker, pc, running, ran>>
      /\ readiness' \in {"pending", "ready", "failed"}
      /\ ready' \in {"pending", readiness'}
      /\ startup' \in {"settling", "over"} /\ (startup' # "over" => ready' = "pending")
      /\ readiness = "pending" \/ readiness' = readiness
  BY DEF Startup, SetReadiness, SettleReady, IInv, TypeOK, Gated
<1>2. TypeOK'
  BY <1>1 DEF IInv, TypeOK
<1>3. Gated'
  BY <1>1 DEF IInv, Gated, RunsOnlyWhenReady
<1>4. QueueHoldsWaiting' /\ Owned'
  BY <1>1 DEF IInv, QueueHoldsWaiting, Owned
<1> QED
  BY <1>2, <1>3, <1>4 DEF IInv

LEMMA StutterStep == ASSUME IInv, UNCHANGED vars PROVE IInv'
BY DEF vars, IInv, TypeOK, Gated, RunsOnlyWhenReady, QueueHoldsWaiting, Owned

\* The invariant is one of the specification.
THEOREM GateInvariant == Spec => []IInv
<1>1. IInv /\ [Next]_vars => IInv'
  BY CallerStep, WorkerStep, StartupStep, StutterStep DEF Next
<1> QED
  BY InitIInv, <1>1, PTL DEF Spec

\* Every variable keeps its type.
THEOREM GateTypeCorrect == Spec => []TypeOK
<1>1. IInv => TypeOK
  BY DEF IInv
<1> QED
  BY GateInvariant, <1>1, PTL

\* No command runs before the server is ready or after its startup failed.
THEOREM GateRunsOnlyWhenReady == Spec => []RunsOnlyWhenReady
<1>1. IInv => RunsOnlyWhenReady
  BY DEF IInv, Gated
<1> QED
  BY GateInvariant, <1>1, PTL

\* A command runs at most once, and its answer says whether it did.
THEOREM GateRunsOnce == Spec => []RunsOnce
<1>1. IInv => RunsOnce
  <2> SUFFICES ASSUME IInv, NEW c \in Callers
               PROVE  /\ ran[c] <= 1
                      /\ pc[c] = "answered" => ran[c] = 1 /\ c \notin running
                      /\ pc[c] = "refused" => ran[c] = 0 /\ c \notin running
    BY DEF RunsOnce
  <2> QED
    BY DEF IInv, Owned, TypeOK
<1> QED
  BY GateInvariant, <1>1, PTL

\* The queue keeps its bound and holds each waiting command once.
THEOREM GateQueueHoldsWaiting == Spec => []QueueHoldsWaiting
<1>1. IInv => QueueHoldsWaiting
  BY DEF IInv
<1> QED
  BY GateInvariant, <1>1, PTL
=============================================================================

-------------------- MODULE KeyedCoalescingWorkerProofs --------------------
(***************************************************************************)
(* Theorems about KeyedCoalescingWorker, for every set of keys and any     *)
(* number of values.                                                       *)
(***************************************************************************)
EXTENDS KeyedCoalescingWorker, TLAPS

\* Every value is in exactly one place: waiting for its key, in the worker's
\* hands, processed, or failed.
Accounted ==
    /\ \A k \in Keys : \A i \in latest[k] : i \in Values /\ sent[i] = k
    /\ value # {} => pc = "process"
    /\ \A i \in value : i \in Values /\ sent[i] = key
    /\ done \subseteq Values /\ failed \subseteq Values
    /\ \A i \in Values : \/ i \in latest[sent[i]] \/ i \in value
                         \/ i \in done \/ i \in failed
    /\ \A k \in Keys : latest[k] \cap (value \cup done \cup failed) = {}
    /\ value \cap (done \cup failed) = {}
    /\ done \cap failed = {}

\* The inductive invariant.
IInv == TypeOK /\ NothingStranded /\ Accounted

LEMMA AppendKey ==
    ASSUME NEW q \in Seq(Keys), NEW k \in Keys, IsInjective(q), k \notin Range(q)
    PROVE  /\ Append(q, k) \in Seq(Keys)
           /\ IsInjective(Append(q, k))
           /\ Range(Append(q, k)) = Range(q) \cup {k}
<1> DEFINE r == Append(q, k)
<1>1. /\ r \in Seq(Keys) /\ DOMAIN r = 1..(Len(q) + 1) /\ DOMAIN q = 1..Len(q)
      /\ Len(q) \in Nat
      /\ \A i \in 1..Len(q) : r[i] = q[i]
      /\ r[Len(q) + 1] = k
  OBVIOUS
<1> HIDE DEF r
<1>2. \A i \in DOMAIN r : i \in DOMAIN q \/ i = Len(q) + 1
  BY <1>1
<1>3. IsInjective(r)
  <2>1. \A i, j \in DOMAIN q : q[i] = q[j] => i = j
    BY DEF IsInjective
  <2>2. \A i \in DOMAIN q : q[i] # k
    BY DEF Range
  <2>3. \A i, j \in DOMAIN r : r[i] = r[j] => i = j
    BY <1>1, <1>2, <2>1, <2>2
  <2> QED
    BY <2>3 DEF IsInjective
<1>4. Range(r) = Range(q) \cup {k}
  <2>1. \A x \in Range(r) : x \in Range(q) \cup {k}
    BY <1>1, <1>2 DEF Range
  <2>2. \A i \in DOMAIN q : i \in DOMAIN r /\ q[i] = r[i]
    BY <1>1
  <2>3. Len(q) + 1 \in DOMAIN r
    BY <1>1
  <2>4. \A x \in Range(q) \cup {k} : x \in Range(r)
    BY <1>1, <2>2, <2>3 DEF Range
  <2> QED
    BY <2>1, <2>4
<1> QED
  BY <1>1, <1>3, <1>4 DEF r

LEMMA TailKeys ==
    ASSUME NEW q \in Seq(Keys), q # <<>>, IsInjective(q)
    PROVE  /\ Tail(q) \in Seq(Keys) /\ Head(q) \in Keys
           /\ IsInjective(Tail(q))
           /\ Head(q) \notin Range(Tail(q))
           /\ Range(q) = Range(Tail(q)) \cup {Head(q)}
<1> DEFINE r == Tail(q)
<1>1. /\ r \in Seq(Keys) /\ Head(q) = q[1] /\ 1 \in DOMAIN q /\ Head(q) \in Keys
      /\ DOMAIN q = 1..Len(q) /\ DOMAIN r = 1..(Len(q) - 1) /\ Len(q) \in Nat
      /\ \A i \in DOMAIN r : r[i] = q[i + 1] /\ i + 1 \in DOMAIN q
  OBVIOUS
<1> HIDE DEF r
<1>2. \A i, j \in DOMAIN q : q[i] = q[j] => i = j
  BY DEF IsInjective
<1>3. IsInjective(r)
  <2>1. \A i, j \in DOMAIN r : r[i] = r[j] => i = j
    BY <1>1, <1>2
  <2> QED
    BY <2>1 DEF IsInjective
<1>4. Head(q) \notin Range(r)
  <2>1. \A i \in DOMAIN r : r[i] # Head(q)
    BY <1>1, <1>2
  <2> QED
    BY <2>1 DEF Range
<1>5. Range(q) = Range(r) \cup {Head(q)}
  <2>1. \A i \in DOMAIN q : i = 1 \/ (i - 1 \in DOMAIN r /\ r[i - 1] = q[i])
    BY <1>1
  <2>2. \A x \in Range(q) : x \in Range(r) \cup {Head(q)}
    BY <1>1, <2>1 DEF Range
  <2>3. \A x \in Range(r) \cup {Head(q)} : x \in Range(q)
    BY <1>1 DEF Range
  <2> QED
    BY <2>2, <2>3
<1> QED
  BY <1>1, <1>3, <1>4, <1>5 DEF r

LEMMA InitIInv == Init => IInv
BY DEF Init, IInv, TypeOK, NothingStranded, Accounted, Values, Range, IsInjective
-----------------------------------------------------------------------------
\* What enqueueing does, in the cases of a key that is known and one that is not.
LEMMA EnqueueStep ==
    ASSUME TypeOK, NothingStranded, NEW k \in Keys, Enqueue(k)
    PROVE  /\ queue' \in Seq(Keys) /\ queued' \subseteq Keys /\ sent' \in Seq(Keys)
           /\ k \in queued' \cup active
           /\ queued \subseteq queued'
           /\ IsInjective(queue')
           /\ queued' = Range(queue') \cup IF pc \in {"taken", "requeue"} THEN {key} ELSE {}
           /\ pc \in {"taken", "requeue"} => key \notin Range(queue')
<1> USE DEF TypeOK, NothingStranded
<1>1. sent' \in Seq(Keys)
  BY DEF Enqueue
<1>2. CASE k \in queued \cup active
  BY <1>1, <1>2 DEF Enqueue
<1>3. CASE k \notin queued \cup active
  <2>1. queue' = Append(queue, k) /\ queued' = queued \cup {k}
    BY <1>3 DEF Enqueue
  <2>2. k \notin Range(queue)
    BY <1>3
  <2>3. /\ queue' \in Seq(Keys) /\ IsInjective(queue')
        /\ Range(queue') = Range(queue) \cup {k}
    BY <2>1, <2>2, AppendKey
  <2> QED
    BY <1>1, <1>3, <2>1, <2>3
<1> QED
  BY <1>2, <1>3

LEMMA NextTypeOK == IInv /\ [Next]_vars => TypeOK'
<1> SUFFICES ASSUME IInv, [Next]_vars PROVE TypeOK'
  OBVIOUS
<1> USE DEF IInv
<1>1. CASE \E k \in Keys : Enqueue(k)
  <2>1. PICK k \in Keys : Enqueue(k)
    BY <1>1
  <2>2. sent' \in Seq(Keys) /\ queue' \in Seq(Keys) /\ queued' \subseteq Keys
    BY <2>1, EnqueueStep
  <2>3. Len(sent) \in Nat
    BY DEF TypeOK
  <2>4. latest' \in [Keys -> SUBSET Nat]
    BY <2>1, <2>3 DEF Enqueue, TypeOK
  <2>5. UNCHANGED <<active, pc, key, value, done, failed, draining>>
    BY <2>1 DEF Enqueue, worker
  <2> QED
    BY <2>2, <2>4, <2>5 DEF TypeOK
<1>2. CASE \E k \in Keys : DrainCall(k) \/ DrainReturn(k)
  BY <1>2 DEF DrainCall, DrainReturn, state, worker, TypeOK
<1>3. CASE Take
  <2>1. queue \in Seq(Keys) /\ queue # <<>> /\ IsInjective(queue)
    BY <1>3 DEF Take, TypeOK, NothingStranded
  <2>2. Tail(queue) \in Seq(Keys) /\ Head(queue) \in Keys
    BY <2>1, TailKeys
  <2> QED
    BY <1>3, <2>2 DEF Take, state, TypeOK
<1>4. CASE Begin
  <2>1. key \in Keys /\ latest[key] \subseteq Nat
    BY <1>4 DEF Begin, TypeOK
  <2>2. latest' \in [Keys -> SUBSET Nat] /\ active' \subseteq Keys /\ value' \subseteq Nat
    BY <1>4, <2>1 DEF Begin, TypeOK
  <2>3. pc' \in {"take", "process"} /\ key' = IF pc' = "take" THEN NoKey ELSE key
    BY <1>4 DEF Begin
  <2>4. queued' \subseteq Keys /\ UNCHANGED <<sent, queue, done, failed, draining>>
    BY <1>4 DEF Begin, TypeOK
  <2> QED
    BY <2>1, <2>2, <2>3, <2>4 DEF TypeOK
<1>5. CASE ProcessSucceeds
  BY <1>5 DEF ProcessSucceeds, state, TypeOK
<1>6. CASE ProcessFails
  BY <1>6 DEF ProcessFails, state, TypeOK
<1>7. CASE Finish
  <2>1. key \in Keys /\ latest[key] \subseteq Nat
    BY <1>7 DEF Finish, TypeOK
  <2>2. latest' \in [Keys -> SUBSET Nat] /\ active' \subseteq Keys /\ value' \subseteq Nat
    BY <1>7, <2>1 DEF Finish, TypeOK
  <2>3. pc' \in {"take", "process"} /\ key' = IF pc' = "take" THEN NoKey ELSE key
    BY <1>7 DEF Finish
  <2>4. UNCHANGED <<sent, queue, queued, done, failed, draining>>
    BY <1>7 DEF Finish
  <2> QED
    BY <2>1, <2>2, <2>3, <2>4 DEF TypeOK
<1>8. CASE Cleanup
  BY <1>8 DEF Cleanup, TypeOK
<1>9. CASE Requeue
  <2>1. /\ key \in Keys /\ queue \in Seq(Keys) /\ IsInjective(queue)
        /\ key \notin Range(queue)
    BY <1>9 DEF Requeue, TypeOK, NothingStranded
  <2>2. queue' \in Seq(Keys)
    BY <1>9, <2>1, AppendKey DEF Requeue
  <2> QED
    BY <1>9, <2>2 DEF Requeue, state, TypeOK
<1>10. CASE UNCHANGED vars
  BY <1>10 DEF vars, state, worker, TypeOK
<1> QED
  BY <1>1, <1>2, <1>3, <1>4, <1>5, <1>6, <1>7, <1>8, <1>9, <1>10 DEF Next, Work

LEMMA NextNothingStranded == IInv /\ [Next]_vars => NothingStranded'
<1> SUFFICES ASSUME IInv, [Next]_vars PROVE NothingStranded'
  OBVIOUS
<1> USE DEF IInv
<1>1. CASE \E k \in Keys : Enqueue(k)
  <2>1. PICK k \in Keys : Enqueue(k)
    BY <1>1
  <2>2. /\ active' = active /\ pc' = pc /\ key' = key
        /\ \A l \in Keys : l # k => latest'[l] = latest[l]
    BY <2>1 DEF Enqueue, worker, TypeOK
  <2>3. /\ k \in queued' \cup active /\ queued \subseteq queued' /\ IsInjective(queue')
        /\ queued' = Range(queue') \cup IF pc \in {"taken", "requeue"} THEN {key} ELSE {}
        /\ pc \in {"taken", "requeue"} => key \notin Range(queue')
    BY <2>1, EnqueueStep
  <2>4. \A l \in Keys : latest'[l] # {} => l \in queued' \cup active'
    BY <2>2, <2>3 DEF NothingStranded
  <2> QED
    BY <2>2, <2>3, <2>4 DEF NothingStranded
<1>2. CASE \E k \in Keys : DrainCall(k) \/ DrainReturn(k)
  BY <1>2 DEF DrainCall, DrainReturn, state, worker, NothingStranded
<1>3. CASE Take
  <2>1. /\ pc = "take" /\ queue # <<>> /\ queue' = Tail(queue) /\ key' = Head(queue)
        /\ pc' = "taken" /\ latest' = latest /\ queued' = queued /\ active' = active
    BY <1>3 DEF Take, state
  <2>2. /\ IsInjective(queue') /\ key' \notin Range(queue')
        /\ Range(queue) = Range(queue') \cup {key'}
    BY <2>1, TailKeys DEF NothingStranded, TypeOK
  <2> QED
    BY <2>1, <2>2 DEF NothingStranded
<1>4. CASE Begin
  BY <1>4 DEF Begin, NothingStranded, TypeOK
<1>5. CASE ProcessSucceeds
  BY <1>5 DEF ProcessSucceeds, state, NothingStranded
<1>6. CASE ProcessFails
  BY <1>6 DEF ProcessFails, state, NothingStranded
<1>7. CASE Finish
  BY <1>7 DEF Finish, NothingStranded, TypeOK
<1>8. CASE Cleanup
  BY <1>8 DEF Cleanup, NothingStranded, TypeOK
<1>9. CASE Requeue
  <2>1. /\ pc = "requeue" /\ pc' = "take" /\ queue' = Append(queue, key) /\ latest' = latest
        /\ queued' = queued /\ active' = active
    BY <1>9 DEF Requeue, state
  <2>2. /\ IsInjective(queue') /\ Range(queue') = Range(queue) \cup {key}
    BY <2>1, AppendKey DEF NothingStranded, TypeOK
  <2> QED
    BY <2>1, <2>2 DEF NothingStranded
<1>10. CASE UNCHANGED vars
  BY <1>10 DEF vars, state, worker, NothingStranded
<1> QED
  BY <1>1, <1>2, <1>3, <1>4, <1>5, <1>6, <1>7, <1>8, <1>9, <1>10 DEF Next, Work
-----------------------------------------------------------------------------
LEMMA EnqueueAccounted ==
    ASSUME TypeOK, Accounted, NEW k \in Keys, Enqueue(k) PROVE Accounted'
<1> DEFINE n == Len(sent) + 1
<1>1. /\ n \in Nat /\ Values = 1..Len(sent) /\ n \notin Values
      /\ Values' = Values \cup {n}
      /\ sent'[n] = k /\ \A i \in Values : sent'[i] = sent[i] /\ sent[i] \in Keys
  BY DEF TypeOK, Enqueue, Values
<1>2. /\ \A l \in Keys : latest'[l] = latest[l] \cup IF l = k THEN {n} ELSE {}
      /\ UNCHANGED <<key, value, pc, done, failed>>
  BY DEF TypeOK, Enqueue, worker
<1> HIDE DEF n
<1> USE DEF Accounted
<1>3. (\A l \in Keys : \A i \in latest[l] : i \in Values /\ sent[i] = l)'
  BY <1>1, <1>2
<1>4. (\A i \in value : i \in Values /\ sent[i] = key)'
  BY <1>1, <1>2
<1>5. (\A i \in Values : \/ i \in latest[sent[i]] \/ i \in value
                         \/ i \in done \/ i \in failed)'
  BY <1>1, <1>2
<1>6. (\A l \in Keys : latest[l] \cap (value \cup done \cup failed) = {})'
  <2>1. n \notin value \cup done \cup failed
    BY <1>1
  <2> QED
    BY <1>2, <2>1
<1> QED
  BY <1>1, <1>2, <1>3, <1>4, <1>5, <1>6

\* Beginning a key and finishing it take all its values, when it has any.
LEMMA TakeAccounted ==
    ASSUME TypeOK, Accounted, value = {}, key \in Keys,
           value' = latest[key], latest' = [latest EXCEPT ![key] = {}],
           pc' = "process", UNCHANGED <<key, sent, done, failed>>
    PROVE  Accounted'
<1>1. Values' = Values /\ sent' = sent
  BY DEF Values
<1>2. /\ latest'[key] = {}
      /\ \A l \in Keys : l # key => latest'[l] = latest[l]
      /\ \A i \in Values : sent[i] \in Keys
  BY DEF TypeOK, Values
<1> USE DEF Accounted
<1>3. (\A i \in Values : \/ i \in latest[sent[i]] \/ i \in value
                         \/ i \in done \/ i \in failed)'
  <2>1. ASSUME NEW i \in Values
        PROVE i \in latest'[sent[i]] \/ i \in latest[key] \/ i \in done \/ i \in failed
    BY <1>2, value = {}
  <2> QED
    BY <1>1, <2>1
<1>4. (\A l \in Keys : latest[l] \cap (value \cup done \cup failed) = {})'
  BY <1>1, <1>2
<1>5. (\A i \in value : i \in Values /\ sent[i] = key)'
  BY <1>1
<1>6. (\A l \in Keys : \A i \in latest[l] : i \in Values /\ sent[i] = l)'
  BY <1>1, <1>2
<1> QED
  BY <1>1, <1>3, <1>4, <1>5, <1>6

LEMMA NextAccounted == IInv /\ [Next]_vars => Accounted'
<1> SUFFICES ASSUME IInv, [Next]_vars PROVE Accounted'
  OBVIOUS
<1> USE DEF IInv
<1>1. CASE \E k \in Keys : Enqueue(k)
  BY <1>1, EnqueueAccounted
<1>2. CASE \E k \in Keys : DrainCall(k) \/ DrainReturn(k)
  BY <1>2 DEF DrainCall, DrainReturn, state, worker, Accounted, Values
<1>3. CASE Take
  BY <1>3 DEF Take, state, Accounted, Values
<1>4. CASE Begin
  <2>1. CASE latest[key] = {}
    BY <1>4, <2>1 DEF Begin, Accounted, Values
  <2>2. CASE latest[key] # {}
    <3>1. value = {} /\ key \in Keys
      BY <1>4 DEF Begin, TypeOK, Accounted
    <3>2. /\ value' = latest[key] /\ latest' = [latest EXCEPT ![key] = {}]
          /\ pc' = "process" /\ UNCHANGED <<key, sent, done, failed>>
      BY <1>4, <2>2 DEF Begin
    <3> QED
      BY <3>1, <3>2, TakeAccounted
  <2> QED
    BY <2>1, <2>2
<1>5. CASE ProcessSucceeds
  BY <1>5 DEF ProcessSucceeds, state, Accounted, Values
<1>6. CASE ProcessFails
  BY <1>6 DEF ProcessFails, state, Accounted, Values
<1>7. CASE Finish
  <2>1. CASE latest[key] = {}
    BY <1>7, <2>1 DEF Finish, Accounted, Values
  <2>2. CASE latest[key] # {}
    <3>1. value = {} /\ key \in Keys
      BY <1>7 DEF Finish, TypeOK, Accounted
    <3>2. /\ value' = latest[key] /\ latest' = [latest EXCEPT ![key] = {}]
          /\ pc' = "process" /\ UNCHANGED <<key, sent, done, failed>>
      BY <1>7, <2>2 DEF Finish
    <3> QED
      BY <3>1, <3>2, TakeAccounted
  <2> QED
    BY <2>1, <2>2
<1>8. CASE Cleanup
  BY <1>8 DEF Cleanup, Accounted, Values
<1>9. CASE Requeue
  BY <1>9 DEF Requeue, state, Accounted, Values
<1>10. CASE UNCHANGED vars
  BY <1>10 DEF vars, state, worker, Accounted, Values
<1> QED
  BY <1>1, <1>2, <1>3, <1>4, <1>5, <1>6, <1>7, <1>8, <1>9, <1>10 DEF Next, Work
\* Of the values enqueued for a key, those that wait are the newest ones.
LatestLast ==
    \A i, j \in Values :
        i < j /\ sent[i] = sent[j] /\ i \in latest[sent[i]] => j \in latest[sent[i]]

-----------------------------------------------------------------------------
\* The invariant is one of the specification.
THEOREM WorkerInvariant == Spec => []IInv
<1>1. IInv /\ [Next]_vars => IInv'
  BY NextTypeOK, NextNothingStranded, NextAccounted DEF IInv
<1> QED
  BY InitIInv, <1>1, PTL DEF Spec

\* Every variable keeps its type.
THEOREM WorkerTypeCorrect == Spec => []TypeOK
<1>1. IInv => TypeOK
  BY DEF IInv
<1> QED
  BY WorkerInvariant, <1>1, PTL

\* A key with a value waiting is queued or active, and a queued key is in the
\* queue exactly once or in the worker's hands, also through failures.
THEOREM WorkerNothingStranded == Spec => []NothingStranded
<1>1. IInv => NothingStranded
  BY DEF IInv
<1> QED
  BY WorkerInvariant, <1>1, PTL

\* A key that may be let go of by drainKey has no value that did not end.
LEMMA IdleIsDone == IInv => DrainMeansDone
<1> SUFFICES ASSUME IInv PROVE DrainMeansDone
  OBVIOUS
<1>1. ASSUME NEW k \in Keys, Idle(k), NEW i \in Values, sent[i] = k
      PROVE i \in done \cup failed
  <2>1. latest[k] = {} /\ k \notin active
    BY <1>1 DEF Idle
  <2>2. i \notin value
    BY <1>1, <2>1 DEF IInv, Accounted, NothingStranded
  <2> QED
    BY <1>1, <2>1, <2>2 DEF IInv, Accounted
<1> QED
  BY <1>1 DEF IInv, Accounted, DrainMeansDone

\* When drainKey may return, every value enqueued for the key was processed,
\* once, with success or not.
THEOREM WorkerDrainMeansDone == Spec => []DrainMeansDone
BY WorkerInvariant, IdleIsDone, PTL

\* No value is processed before an older one of its key.
THEOREM WorkerLatestLast == Spec => []LatestLast
<1>1. Init => LatestLast
  BY DEF Init, LatestLast, Values
<1>2. IInv /\ LatestLast /\ [Next]_vars => LatestLast'
  <2> SUFFICES ASSUME IInv, LatestLast, [Next]_vars PROVE LatestLast'
    OBVIOUS
  <2>1. CASE \E k \in Keys : Enqueue(k)
    <3>1. PICK k \in Keys : Enqueue(k)
      BY <2>1
    <3> DEFINE n == Len(sent) + 1
    <3>2. /\ Len(sent) \in Nat /\ n = Len(sent) + 1
          /\ Values = 1..Len(sent) /\ Values' = 1..n
          /\ sent'[n] = k /\ \A i \in Values : sent'[i] = sent[i] /\ sent[i] \in Keys
      BY <3>1 DEF IInv, TypeOK, Enqueue, Values
    <3>3. \A l \in Keys : latest'[l] = latest[l] \cup IF l = k THEN {n} ELSE {}
      BY <3>1 DEF IInv, TypeOK, Enqueue
    <3> HIDE DEF n
    <3>4. ASSUME NEW i \in Values', NEW j \in Values', i < j, sent'[i] = sent'[j],
                 i \in latest'[sent'[i]]
          PROVE  j \in latest'[sent'[i]]
      <4>1. i \in Values
        BY <3>2, <3>4
      <4>2. i \in latest[sent[i]]
        BY <3>2, <3>3, <3>4, <4>1
      <4>3. CASE j = n
        BY <3>2, <3>3, <3>4, <4>1, <4>3
      <4>4. CASE j # n
        <5>1. j \in Values
          BY <3>2, <4>4
        <5>2. j \in latest[sent[i]]
          BY <3>2, <3>4, <4>1, <4>2, <5>1 DEF LatestLast
        <5> QED
          BY <3>2, <3>3, <4>1, <5>2
      <4> QED
        BY <4>3, <4>4
    <3> QED
      BY <3>4 DEF LatestLast
  <2>2. CASE /\ sent' = sent
             /\ \/ latest' = latest
                \/ key \in Keys /\ latest' = [latest EXCEPT ![key] = {}]
    <3>1. Values' = Values /\ \A i \in Values : sent[i] \in Keys
      BY <2>2 DEF IInv, TypeOK, Values
    <3>2. \A l \in Keys : latest'[l] = latest[l] \/ latest'[l] = {}
      BY <2>2 DEF IInv, TypeOK
    <3> QED
      BY <2>2, <3>1, <3>2 DEF LatestLast
  <2>3. CASE ~(\E k \in Keys : Enqueue(k))
    <3>1. sent' = sent
      BY <2>3 DEF Next, Work, vars, DrainCall, DrainReturn, Take, Begin, ProcessSucceeds,
                  ProcessFails, Finish, Cleanup, Requeue
    <3>2. \/ latest' = latest
          \/ key \in Keys /\ latest' = [latest EXCEPT ![key] = {}]
      BY <2>3 DEF Next, Work, vars, state, DrainCall, DrainReturn, Take, Begin,
                  ProcessSucceeds, ProcessFails, Finish, Cleanup, Requeue, IInv, TypeOK
    <3> QED
      BY <2>2, <3>1, <3>2
  <2> QED
    BY <2>1, <2>3
<1> QED
  BY <1>1, <1>2, WorkerInvariant, PTL DEF Spec
-----------------------------------------------------------------------------
(* The worker implements CoalescingQueue.                                   *)

LEMMA InitRefines == Init => CQ!Init
BY DEF Init, CQ!Init

\* What the worker takes, at first or again, it takes whole and with free hands.
LEMMA TakeRefines ==
    ASSUME TypeOK, Accounted, pc # "process", key \in Keys, latest[key] # {},
           value' = latest[key], latest' = [latest EXCEPT ![key] = {}],
           UNCHANGED <<sent, done, failed, draining>>
    PROVE  CQ!Begin(key)
BY DEF CQ!Begin, Accounted

LEMMA DrainRefines ==
    ASSUME IInv, NEW k \in Keys, DrainReturn(k) PROVE CQ!DrainReturn(k)
<1>1. DrainMeansDone
  BY IdleIsDone
<1> QED
  BY <1>1 DEF DrainReturn, state, worker, CQ!DrainReturn, DrainMeansDone, Values

LEMMA StepRefines == IInv /\ [Next]_vars => [CQ!Next]_CQ!vars
<1> SUFFICES ASSUME IInv, [Next]_vars PROVE [CQ!Next]_CQ!vars
  OBVIOUS
<1> USE DEF IInv
<1>1. ASSUME NEW k \in Keys, Enqueue(k) PROVE CQ!Enqueue(k)
  BY <1>1 DEF Enqueue, worker, CQ!Enqueue
<1>2. ASSUME NEW k \in Keys, DrainCall(k) PROVE CQ!DrainCall(k)
  BY <1>2 DEF DrainCall, state, worker, CQ!DrainCall
<1>3. ASSUME NEW k \in Keys, DrainReturn(k) PROVE CQ!DrainReturn(k)
  BY <1>3, DrainRefines
<1>4. CASE Begin
  <2>1. CASE latest[key] = {}
    BY <1>4, <2>1 DEF Begin, CQ!vars
  <2>2. CASE latest[key] # {}
    <3>1. CQ!Begin(key) /\ key \in Keys
      BY <1>4, <2>2, TakeRefines DEF Begin, TypeOK
    <3> QED
      BY <3>1 DEF CQ!Next
  <2> QED
    BY <2>1, <2>2
<1>5. CASE Finish
  <2>1. CASE latest[key] = {}
    BY <1>5, <2>1 DEF Finish, CQ!vars
  <2>2. CASE latest[key] # {}
    <3>1. CQ!Begin(key) /\ key \in Keys
      BY <1>5, <2>2, TakeRefines DEF Finish, TypeOK
    <3> QED
      BY <3>1 DEF CQ!Next
  <2> QED
    BY <2>1, <2>2
<1>6. CASE ProcessSucceeds \/ ProcessFails
  <2>1. /\ value' = {} /\ done' \cup failed' = (done \cup failed) \cup value
        /\ UNCHANGED <<sent, latest, draining>>
    BY <1>6 DEF ProcessSucceeds, ProcessFails, state
  <2>2. CASE value = {}
    BY <2>1, <2>2 DEF CQ!vars
  <2>3. CASE value # {}
    BY <2>1, <2>3 DEF CQ!End, CQ!Next
  <2> QED
    BY <2>2, <2>3
<1>7. CASE Take \/ Cleanup \/ Requeue \/ UNCHANGED vars
  BY <1>7 DEF Take, Cleanup, Requeue, vars, state, worker, CQ!vars
<1> QED
  BY <1>1, <1>2, <1>3, <1>4, <1>5, <1>6, <1>7 DEF Next, Work, CQ!Next

\* Every step of the worker is a step of CoalescingQueue or leaves it alone.
THEOREM WorkerImplementsCoalescingQueue == Spec => ImplementsCoalescingQueue
BY InitRefines, StepRefines, WorkerInvariant, PTL
   DEF Spec, ImplementsCoalescingQueue, CQ!Spec
=============================================================================

------------------------ MODULE TurnDispatchProofs ------------------------
(***************************************************************************)
(* Theorems about TurnDispatch, for any number of messages, turns and      *)
(* faults: the types, that a life of the server sends a message at most    *)
(* once, that an unsent start keeps its row, and that a turn takes the row *)
(* of its own message.                                                     *)
(***************************************************************************)
EXTENDS TurnDispatch, TLAPS

\* Where a message may be on its way to the provider.
Places == {"inbox", "deferred", "todo", "worker", "boot", "sent"}

Starts(queue) == {queue[i].msg : i \in {k \in DOMAIN queue : queue[k].kind = "start"}}
Sending(j) == IF j.pc \in {"ensure", "send"} THEN {j.msg} ELSE {}

Spot(p) ==
    CASE p = "inbox" -> Starts(inbox)
      [] p = "deferred" -> Members(deferred)
      [] p = "todo" -> Members(boot.todo)
      [] p = "worker" -> Sending(job["worker"])
      [] p = "boot" -> Sending(job["boot"])
      [] p = "sent" -> {accepted[t] : t \in Sent}

Distinct(seq, E) == \A i, j \in DOMAIN seq : seq[i] = seq[j] /\ seq[i] \notin E => i = j

DistinctStarts(queue, E) ==
    \A i, j \in DOMAIN queue :
        /\ queue[i].kind = "start" /\ queue[j].kind = "start"
        /\ queue[i].msg = queue[j].msg /\ queue[i].msg \notin E
        => i = j

Ascending(seq) == \A i, j \in DOMAIN seq : i < j => seq[i] < seq[j]

\* What refers to a turn refers to one that this life of the server had accepted, and
\* what starts a turn has a message.
SessionOK(s) == s.active \in Sent \cup {None} /\ (s.status = "running" <=> s.active # None)
InboxOK(queue) == \A i \in DOMAIN queue : queue[i].kind = "start" => queue[i].msg # None
RuntimeOK(queue) == \A i \in DOMAIN queue : queue[i].kind # "exited" => queue[i].turn \in Sent
JobOK(j) == /\ j.pc \in {"reread", "set"} => j.turn \in Sent
            /\ j.pc # "idle" => j.msg # None

Typed ==
    /\ Len(accepted) <= MaxTurns /\ life <= Len(accepted)
    /\ InboxOK(inbox) /\ RuntimeOK(runtime)
    /\ SessionOK(session) /\ SessionOK(ingest)
    /\ provider.turn \in Sent \cup {None}
    /\ \A f \in Fibers : JobOK(job[f])

Bounded ==
    /\ \A i \in DOMAIN rows : rows[i] <= requested
    /\ \A t \in DOMAIN accepted : accepted[t] <= requested
    /\ \A p \in Places : \A m \in Spot(p) : m <= requested
    /\ \A m \in failed : m <= requested
    /\ \A f \in Fibers : job[f].msg <= requested

\* A message is in one place, and there once, unless it was requested early.
Apart == \A p, q \in Places : \A m \in Spot(p) \cap Spot(q) : p = q \/ m \in early

Single ==
    /\ Distinct(deferred, early) /\ Distinct(boot.todo, early) /\ DistinctStarts(inbox, early)
    /\ SentOnce

\* Before the reconcile listed the rows nothing else is on its way.
Resting ==
    /\ boot.phase # "driving" => boot.todo = <<>>
    /\ boot.phase = "rows" => \A p \in Places : Spot(p) \subseteq early

Once == Apart /\ Single /\ Resting

Paired ==
    /\ \A t \in Turns : turns[t].msg # None =>
          t \in DOMAIN accepted /\ turns[t].msg = accepted[t] /\ turns[t].msg \notin Members(rows)
    /\ failed \cap Members(rows) = {}
    /\ \A m \in 1..requested : Taken(m) \/ m \in failed \/ m \in Members(rows)
    /\ \A t \in Sent : turns[t].msg = None =>
          t = Len(accepted) /\ rows # <<>> /\ Head(rows) = accepted[t]
    /\ \A p \in Places : \A m \in Spot(p) :
          m \in Members(rows) \/ m \in failed \/ m \in Spot("sent")

IInv == TypeOK /\ Typed /\ Ascending(rows) /\ Bounded /\ Once /\ (~disturbed => Paired)
-----------------------------------------------------------------------------
(* Sequences.                                                              *)

LEMMA TailLemma ==
    ASSUME NEW S, NEW seq \in Seq(S), seq # <<>>
    PROVE  /\ Tail(seq) \in Seq(S) /\ Head(seq) \in S /\ Head(seq) = seq[1]
           /\ Len(seq) \in Nat /\ Len(seq) >= 1 /\ Len(Tail(seq)) = Len(seq) - 1
           /\ \A i \in DOMAIN Tail(seq) : i \in Nat /\ i + 1 \in DOMAIN seq /\ Tail(seq)[i] = seq[i + 1]
           /\ 1 \in DOMAIN seq
           /\ \A i \in DOMAIN seq : i = 1 \/ (i - 1 \in DOMAIN Tail(seq) /\ Tail(seq)[i - 1] = seq[i])
<1>1. /\ Tail(seq) \in Seq(S) /\ Head(seq) = seq[1] /\ Len(seq) \in Nat /\ Len(seq) >= 1
      /\ Len(Tail(seq)) = Len(seq) - 1
      /\ DOMAIN seq = 1..Len(seq) /\ DOMAIN Tail(seq) = 1..Len(seq) - 1
  OBVIOUS
<1>2. \A i \in 1..Len(seq) - 1 : Tail(seq)[i] = seq[i + 1]
  OBVIOUS
<1>3. seq[1] \in S
  BY <1>1
<1> QED
  BY <1>1, <1>2, <1>3

LEMMA AppendLemma ==
    ASSUME NEW S, NEW seq \in Seq(S), NEW e \in S
    PROVE  /\ Append(seq, e) \in Seq(S) /\ Append(seq, e) # <<>>
           /\ Len(seq) \in Nat /\ Len(Append(seq, e)) = Len(seq) + 1
           /\ DOMAIN seq = 1..Len(seq) /\ DOMAIN Append(seq, e) = 1..Len(seq) + 1
           /\ \A i \in DOMAIN seq : Append(seq, e)[i] = seq[i]
           /\ Append(seq, e)[Len(seq) + 1] = e
           /\ seq # <<>> => Head(Append(seq, e)) = Head(seq)
OBVIOUS

LEMMA MembersAppend ==
    ASSUME NEW S, NEW seq \in Seq(S), NEW e \in S
    PROVE  Members(Append(seq, e)) = Members(seq) \cup {e}
BY AppendLemma DEF Members

LEMMA MembersTail ==
    ASSUME NEW S, NEW seq \in Seq(S), seq # <<>>
    PROVE  Members(seq) = {Head(seq)} \cup Members(Tail(seq))
<1> DEFINE t == Tail(seq)
<1>1. \A i \in DOMAIN t : i + 1 \in DOMAIN seq /\ t[i] = seq[i + 1]
  BY TailLemma
<1>2. 1 \in DOMAIN seq /\ seq[1] = Head(seq)
  BY TailLemma
<1>3. \A i \in DOMAIN seq : i = 1 \/ (i - 1 \in DOMAIN t /\ t[i - 1] = seq[i])
  BY TailLemma
<1> HIDE DEF t
<1>4. Members(t) \subseteq Members(seq) /\ Head(seq) \in Members(seq)
  BY <1>1, <1>2 DEF Members
<1>5. Members(seq) \subseteq {Head(seq)} \cup Members(t)
  BY <1>2, <1>3 DEF Members
<1> QED
  BY <1>4, <1>5 DEF t

LEMMA DistinctTail ==
    ASSUME NEW S, NEW seq \in Seq(S), seq # <<>>, NEW E, Distinct(seq, E)
    PROVE  /\ Distinct(Tail(seq), E)
           /\ Head(seq) \in Members(Tail(seq)) => Head(seq) \in E
<1>1. Distinct(Tail(seq), E)
  <2> SUFFICES ASSUME NEW i \in DOMAIN Tail(seq), NEW j \in DOMAIN Tail(seq),
                      Tail(seq)[i] = Tail(seq)[j], Tail(seq)[i] \notin E
               PROVE  i = j
    BY DEF Distinct
  <2>1. i + 1 = j + 1 /\ i \in Nat /\ j \in Nat
    BY TailLemma DEF Distinct
  <2> QED
    BY <2>1
<1>2. Head(seq) \in Members(Tail(seq)) => Head(seq) \in E
  <2> SUFFICES ASSUME NEW i \in DOMAIN Tail(seq), Tail(seq)[i] = Head(seq), Head(seq) \notin E
               PROVE  FALSE
    BY DEF Members
  <2>1. i + 1 = 1 /\ i \in Nat /\ i >= 1
    <3>1. i + 1 \in DOMAIN seq /\ 1 \in DOMAIN seq /\ seq[i + 1] = seq[1] /\ seq[1] \notin E
      BY TailLemma
    <3>2. i >= 1 /\ i \in Nat
      BY TailLemma
    <3> QED
      BY <3>1, <3>2 DEF Distinct
  <2> QED
    BY <2>1
<1> QED
  BY <1>1, <1>2

LEMMA DistinctAppend ==
    ASSUME NEW S, NEW seq \in Seq(S), NEW e \in S, NEW E, Distinct(seq, E),
           e \notin Members(seq)
    PROVE  Distinct(Append(seq, e), E)
<1> DEFINE a == Append(seq, e)
<1>1. \A i \in DOMAIN seq : seq[i] # e
  BY DEF Members
<1>2. \A i \in DOMAIN a : \/ i \in DOMAIN seq /\ a[i] = seq[i]
                          \/ i = Len(seq) + 1 /\ a[i] = e
  <2>1. Len(seq) \in Nat /\ DOMAIN a = 1..Len(seq) + 1 /\ DOMAIN seq = 1..Len(seq)
    BY AppendLemma
  <2>2. \A i \in 1..Len(seq) + 1 : i \in 1..Len(seq) \/ i = Len(seq) + 1
    BY <2>1
  <2> QED
    BY <2>1, <2>2, AppendLemma
<1> HIDE DEF a
<1> QED
  BY <1>1, <1>2 DEF Distinct, a

LEMMA DistinctGrows ==
    ASSUME NEW seq, NEW E, NEW F, E \subseteq F, Distinct(seq, E)
    PROVE  Distinct(seq, F)
BY DEF Distinct

LEMMA EnqueueLemma ==
    ASSUME NEW S, NEW seq \in Seq(S), NEW m \in S
    PROVE  /\ Enqueue(seq, m) \in Seq(S)
           /\ Members(Enqueue(seq, m)) = Members(seq) \cup {m}
           /\ \A E : Distinct(seq, E) => Distinct(Enqueue(seq, m), E)
<1>1. CASE m \in Members(seq)
  BY <1>1 DEF Enqueue
<1>2. CASE m \notin Members(seq)
  <2>1. Enqueue(seq, m) = Append(seq, m)
    BY <1>2 DEF Enqueue
  <2> QED
    BY <1>2, <2>1, AppendLemma, MembersAppend, DistinctAppend
<1> QED
  BY <1>1, <1>2

\* A start at the end, or another event.
LEMMA StartsAppend ==
    ASSUME NEW queue \in Seq(DomainEvents), NEW e \in DomainEvents
    PROVE  /\ e.kind # "start" => Starts(Append(queue, e)) = Starts(queue)
           /\ e.kind = "start" => Starts(Append(queue, e)) = Starts(queue) \cup {e.msg}
           /\ \A E : DistinctStarts(queue, E) /\ (e.kind = "start" => e.msg \notin Starts(queue))
                       => DistinctStarts(Append(queue, e), E)
<1> DEFINE a == Append(queue, e)
<1>1. Len(queue) \in Nat /\ DOMAIN a = 1..Len(queue) + 1 /\ DOMAIN queue = 1..Len(queue)
  BY AppendLemma
<1>2. \A i \in DOMAIN a : \/ i \in DOMAIN queue /\ a[i] = queue[i]
                          \/ i = Len(queue) + 1 /\ a[i] = e
  <2>1. \A i \in 1..Len(queue) + 1 : i \in 1..Len(queue) \/ i = Len(queue) + 1
    BY <1>1
  <2> QED
    BY <1>1, <2>1, AppendLemma
<1>3. \A i \in DOMAIN queue : i \in DOMAIN a /\ a[i] = queue[i]
  BY <1>1, AppendLemma
<1>4. Len(queue) + 1 \in DOMAIN a /\ a[Len(queue) + 1] = e
  BY <1>1, AppendLemma
<1> HIDE DEF a
<1>5. e.kind # "start" => Starts(a) = Starts(queue)
  BY <1>2, <1>3 DEF Starts
<1>6. e.kind = "start" => Starts(a) = Starts(queue) \cup {e.msg}
  BY <1>2, <1>3, <1>4 DEF Starts
<1>7. ASSUME NEW E, DistinctStarts(queue, E), e.kind = "start" => e.msg \notin Starts(queue)
      PROVE  DistinctStarts(a, E)
  <2>1. \A i \in DOMAIN queue : queue[i].kind = "start" => queue[i].msg \in Starts(queue)
    BY DEF Starts
  <2> QED
    BY <1>2, <1>7, <2>1 DEF DistinctStarts
<1> QED
  BY <1>5, <1>6, <1>7 DEF a

LEMMA StartsTail ==
    ASSUME NEW queue \in Seq(DomainEvents), queue # <<>>
    PROVE  /\ Starts(Tail(queue)) \subseteq Starts(queue)
           /\ Head(queue).kind = "start" => Head(queue).msg \in Starts(queue)
           /\ \A E : DistinctStarts(queue, E) =>
                /\ DistinctStarts(Tail(queue), E)
                /\ Head(queue).kind = "start" /\ Head(queue).msg \in Starts(Tail(queue))
                     => Head(queue).msg \in E
<1> DEFINE t == Tail(queue)
<1>1. \A i \in DOMAIN t : i \in Nat /\ i + 1 \in DOMAIN queue /\ t[i] = queue[i + 1]
  BY TailLemma
<1>2. 1 \in DOMAIN queue /\ Head(queue) = queue[1]
  BY TailLemma
<1>3. \A i \in DOMAIN t : i >= 1
  BY TailLemma
<1> HIDE DEF t
<1>4. Starts(t) \subseteq Starts(queue)
  BY <1>1 DEF Starts
<1>5. Head(queue).kind = "start" => Head(queue).msg \in Starts(queue)
  BY <1>2 DEF Starts
<1>6. ASSUME NEW E, DistinctStarts(queue, E)
      PROVE  /\ DistinctStarts(t, E)
             /\ Head(queue).kind = "start" /\ Head(queue).msg \in Starts(t)
                  => Head(queue).msg \in E
  <2>1. DistinctStarts(t, E)
    <3> SUFFICES ASSUME NEW i \in DOMAIN t, NEW j \in DOMAIN t,
                        t[i].kind = "start", t[j].kind = "start",
                        t[i].msg = t[j].msg, t[i].msg \notin E
                 PROVE  i = j
      BY DEF DistinctStarts
    <3>1. i + 1 = j + 1
      BY <1>1, <1>6 DEF DistinctStarts
    <3> QED
      BY <1>1, <3>1
  <2>2. ASSUME Head(queue).kind = "start", Head(queue).msg \in Starts(t),
               Head(queue).msg \notin E
        PROVE  FALSE
    <3>1. PICK i \in DOMAIN t : t[i].kind = "start" /\ t[i].msg = Head(queue).msg
      BY <2>2 DEF Starts
    <3>2. i + 1 = 1
      BY <1>1, <1>2, <1>6, <2>2, <3>1 DEF DistinctStarts
    <3> QED
      BY <1>1, <1>3, <3>2
  <2> QED
    BY <2>1, <2>2
<1> QED
  BY <1>4, <1>5, <1>6 DEF t
-----------------------------------------------------------------------------
(* Rows: ascending sequences of messages.                                  *)

LEMMA AscendingTail ==
    ASSUME NEW seq \in Seq(Messages), seq # <<>>, Ascending(seq)
    PROVE  /\ Ascending(Tail(seq)) /\ Members(Tail(seq)) = Members(seq) \ {Head(seq)}
           /\ \A m \in Members(seq) : m >= Head(seq)
<1>1. \A i \in DOMAIN Tail(seq) : i \in Nat /\ i >= 1 /\ i + 1 \in DOMAIN seq /\ Tail(seq)[i] = seq[i + 1]
  BY TailLemma
<1>2. 1 \in DOMAIN seq /\ Head(seq) = seq[1] /\ \A i \in DOMAIN seq : seq[i] \in Messages
  BY TailLemma
<1>3. Ascending(Tail(seq))
  <2> SUFFICES ASSUME NEW i \in DOMAIN Tail(seq), NEW j \in DOMAIN Tail(seq), i < j
               PROVE  Tail(seq)[i] < Tail(seq)[j]
    BY DEF Ascending
  <2>1. i + 1 < j + 1
    BY <1>1
  <2> QED
    BY <1>1, <2>1 DEF Ascending
<1>4. \A i \in DOMAIN Tail(seq) : Tail(seq)[i] > Head(seq)
  <2> SUFFICES ASSUME NEW i \in DOMAIN Tail(seq) PROVE Tail(seq)[i] > Head(seq)
    OBVIOUS
  <2>1. 1 < i + 1
    BY <1>1
  <2>2. seq[1] < seq[i + 1]
    BY <1>1, <1>2, <2>1 DEF Ascending
  <2>3. seq[1] \in Int /\ seq[i + 1] \in Int
    BY <1>1, <1>2 DEF Messages
  <2> QED
    BY <1>1, <1>2, <2>2, <2>3
<1>5. Members(seq) = {Head(seq)} \cup Members(Tail(seq))
  BY MembersTail
<1>6. \A m \in Members(Tail(seq)) : m > Head(seq) /\ m # Head(seq)
  <2>1. Head(seq) \in Int
    BY <1>2 DEF Messages
  <2>2. \A i \in DOMAIN Tail(seq) : Tail(seq)[i] \in Int
    BY <1>1, <1>2 DEF Messages
  <2> QED
    BY <1>4, <2>1, <2>2 DEF Members
<1>7. Head(seq) >= Head(seq)
  BY <1>2 DEF Messages
<1> DEFINE t == Tail(seq)
           h == Head(seq)
<1>8. Members(t) = Members(seq) \ {h}
  <2> HIDE DEF t, h
  <2> QED
    BY <1>5, <1>6 DEF t, h
<1>9. \A m \in Members(seq) : m >= h
  <2> SUFFICES ASSUME NEW m \in Members(seq), m # h PROVE m >= h
    BY <1>7
  <2>1. m \in Members(t)
    BY <1>8
  <2>2. m > h
    BY <1>6, <2>1
  <2>3. m \in Int /\ h \in Int
    <3>1. PICK i \in DOMAIN t : m = t[i]
      BY <2>1 DEF Members
    <3>2. m \in Messages /\ h \in Messages
      BY <1>1, <1>2, <3>1
    <3> QED
      BY <3>2 DEF Messages
  <2> QED
    BY <2>2, <2>3
<1> QED
  BY <1>3, <1>8, <1>9

LEMMA AscendingAppend ==
    ASSUME NEW seq \in Seq(Messages), Ascending(seq), NEW e \in Messages,
           \A i \in DOMAIN seq : seq[i] < e
    PROVE  Ascending(Append(seq, e))
<1> DEFINE a == Append(seq, e)
<1>1. Len(seq) \in Nat /\ DOMAIN a = 1..Len(seq) + 1 /\ DOMAIN seq = 1..Len(seq)
  BY AppendLemma
<1>2. \A i \in DOMAIN a : \/ i \in DOMAIN seq /\ a[i] = seq[i]
                          \/ i = Len(seq) + 1 /\ a[i] = e
  <2>1. \A i \in 1..Len(seq) + 1 : i \in 1..Len(seq) \/ i = Len(seq) + 1
    BY <1>1
  <2> QED
    BY <1>1, <2>1, AppendLemma
<1> HIDE DEF a
<1>3. Ascending(a)
  BY <1>1, <1>2 DEF Ascending
<1> QED
  BY <1>3 DEF a

LEMMA AscendingDistinct ==
    ASSUME NEW seq \in Seq(Messages), Ascending(seq), NEW E
    PROVE  Distinct(seq, E)
<1> SUFFICES ASSUME NEW i \in DOMAIN seq, NEW j \in DOMAIN seq, seq[i] = seq[j]
             PROVE  i = j
  BY DEF Distinct
<1>1. DOMAIN seq = 1..Len(seq) /\ Len(seq) \in Nat
  OBVIOUS
<1>2. i \in Int /\ j \in Int
  BY <1>1
<1>3. seq[i] \in Int
  <2>1. seq[i] \in Messages
    BY <1>1
  <2> QED
    BY <2>1 DEF Messages
<1>4. ~(i < j) /\ ~(j < i)
  BY <1>3 DEF Ascending
<1> QED
  BY <1>2, <1>4

LEMMA WithoutLemma ==
    ASSUME NEW seq \in Seq(Messages), Ascending(seq), NEW m
    PROVE  /\ Without(seq, m) \in Seq(Messages) /\ Ascending(Without(seq, m))
           /\ Members(Without(seq, m)) = Members(seq) \ {m}
           /\ seq # <<>> /\ Head(seq) # m =>
                Without(seq, m) # <<>> /\ Head(Without(seq, m)) = Head(seq)
<1>1. CASE m \notin Members(seq)
  BY <1>1 DEF Without
<1>2. CASE m \in Members(seq)
  <2> DEFINE k == CHOOSE i \in DOMAIN seq : seq[i] = m
             w == [j \in 1..Len(seq) - 1 |-> IF j < k THEN seq[j] ELSE seq[j + 1]]
  <2>1. k \in DOMAIN seq /\ seq[k] = m
    BY <1>2 DEF Members
  <2>2. Without(seq, m) = w
    BY <1>2 DEF Without
  <2>3. Len(seq) \in Nat /\ DOMAIN seq = 1..Len(seq) /\ k \in 1..Len(seq)
    BY <2>1
  <2> HIDE DEF k
  <2>4. /\ DOMAIN w = 1..Len(seq) - 1 /\ Len(seq) - 1 \in Nat
        /\ \A j \in 1..Len(seq) - 1 :
             w[j] = (IF j < k THEN seq[j] ELSE seq[j + 1]) /\ w[j] \in Messages
    BY <2>3
  <2>5. w \in Seq(Messages) /\ Len(w) = Len(seq) - 1
    <3>1. w \in [1..Len(seq) - 1 -> Messages]
      BY <2>4
    <3> HIDE DEF w
    <3> QED
      BY <2>4, <3>1
  <2> HIDE DEF w
  <2>6. Ascending(w)
    <3> SUFFICES ASSUME NEW i \in 1..Len(seq) - 1, NEW j \in 1..Len(seq) - 1, i < j
                 PROVE  w[i] < w[j]
      BY <2>4 DEF Ascending
    <3>1. /\ i \in 1..Len(seq) /\ j \in 1..Len(seq) /\ i + 1 \in 1..Len(seq) /\ j + 1 \in 1..Len(seq)
          /\ i < j + 1 /\ i + 1 < j + 1
      BY <2>3
    <3>2. seq[i] < seq[j] /\ seq[i] < seq[j + 1] /\ seq[i + 1] < seq[j + 1]
      BY <2>3, <3>1 DEF Ascending
    <3>3. j < k => i < k
      BY <2>3
    <3> QED
      BY <2>4, <3>2, <3>3
  <2>7. Members(w) \subseteq Members(seq) \ {m}
    <3> SUFFICES ASSUME NEW j \in 1..Len(seq) - 1
                 PROVE  w[j] \in Members(seq) /\ w[j] # m
      BY <2>4 DEF Members
    <3> DEFINE n == IF j < k THEN j ELSE j + 1
    <3>1. n \in DOMAIN seq /\ n # k /\ w[j] = seq[n]
      BY <2>3, <2>4
    <3> HIDE DEF n
    <3>2. Distinct(seq, {})
      BY AscendingDistinct
    <3> QED
      BY <2>1, <3>1, <3>2 DEF Members, Distinct
  <2>8. Members(seq) \ {m} \subseteq Members(w)
    <3> SUFFICES ASSUME NEW n \in DOMAIN seq, seq[n] # m
                 PROVE  seq[n] \in Members(w)
      BY DEF Members
    <3> DEFINE j == IF n < k THEN n ELSE n - 1
    <3>1. n # k
      BY <2>1
    <3>2. j \in 1..Len(seq) - 1 /\ (j < k <=> n < k) /\ (~(n < k) => j + 1 = n)
      BY <2>3, <3>1
    <3>3. w[j] = seq[n]
      BY <2>4, <3>2
    <3> HIDE DEF j
    <3> QED
      BY <2>4, <3>2, <3>3 DEF Members
  <2>9. seq # <<>> /\ Head(seq) # m => w # <<>> /\ Head(w) = Head(seq)
    <3> SUFFICES ASSUME seq # <<>>, Head(seq) # m PROVE w # <<>> /\ Head(w) = Head(seq)
      OBVIOUS
    <3>1. seq[1] = Head(seq) /\ k # 1
      BY <2>1
    <3>2. 1 < k /\ 1 \in 1..Len(seq) - 1
      BY <2>3, <3>1
    <3>3. w[1] = seq[1]
      BY <2>4, <3>2
    <3>4. w # <<>>
      BY <2>4, <3>2
    <3> QED
      BY <2>5, <3>1, <3>3, <3>4
  <2> QED
    BY <2>2, <2>5, <2>6, <2>7, <2>8, <2>9
<1> QED
  BY <1>1, <1>2
-----------------------------------------------------------------------------
(* Types.                                                                  *)

LEMMA Constant ==
    /\ MaxMessages \in Nat /\ MaxTurns \in Nat /\ MaxFaults \in Nat /\ None \notin Turns
    /\ None \notin Messages /\ Messages \subseteq Nat /\ Turns \subseteq Nat
BY TurnConstants DEF Turns, Messages, None

LEMMA SentLemma ==
    ASSUME TypeOK, Typed
    PROVE  /\ Len(accepted) \in Nat /\ DOMAIN accepted = 1..Len(accepted)
           /\ Sent \subseteq Turns /\ Sent \subseteq DOMAIN accepted
           /\ DOMAIN accepted \subseteq Turns
           /\ \A t \in DOMAIN accepted : accepted[t] \in Messages
BY TurnConstants DEF TypeOK, Typed, Sent, Turns

LEMMA EventTypes ==
    /\ \A m \in Messages : [kind |-> "start", msg |-> m, status |-> "none"] \in DomainEvents
    /\ [kind |-> "stop", msg |-> None, status |-> "none"] \in DomainEvents
    /\ \A s \in Sessions : [kind |-> "set", msg |-> None, status |-> s.status] \in DomainEvents
    /\ \A kind \in {"started", "completed", "failed", "exited"}, t \in Turns \cup {None} :
          /\ RuntimeEvent(kind, t) \in RuntimeEvents
          /\ RuntimeEvent(kind, t).kind = kind /\ RuntimeEvent(kind, t).turn = t
BY DEF DomainEvents, RuntimeEvents, RuntimeEvent, Sessions

LEMMA IdleType == Idle \in Jobs /\ Idle.pc = "idle" /\ Idle.msg = None /\ Idle.turn = None
BY DEF Idle, Jobs, None

LEMMA StartedType ==
    ASSUME NEW m \in Messages
    PROVE  LET w == [Idle EXCEPT !.pc = "ensure", !.msg = m] IN
           w \in Jobs /\ w.pc = "ensure" /\ w.msg = m
BY DEF Idle, Jobs, None

LEMMA InboxAppend ==
    ASSUME NEW queue \in Seq(DomainEvents), InboxOK(queue), NEW e \in DomainEvents,
           e.kind = "start" => e.msg # None
    PROVE  Append(queue, e) \in Seq(DomainEvents) /\ InboxOK(Append(queue, e))
<1> DEFINE a == Append(queue, e)
<1>1. a \in Seq(DomainEvents) /\ \A i \in DOMAIN a : \/ i \in DOMAIN queue /\ a[i] = queue[i]
                                                   \/ a[i] = e
  <2>1. Len(queue) \in Nat /\ DOMAIN a = 1..Len(queue) + 1 /\ DOMAIN queue = 1..Len(queue)
    BY AppendLemma
  <2>2. \A i \in 1..Len(queue) + 1 : i \in 1..Len(queue) \/ i = Len(queue) + 1
    BY <2>1
  <2> QED
    BY <2>1, <2>2, AppendLemma
<1> HIDE DEF a
<1>2. InboxOK(a)
  BY <1>1 DEF InboxOK
<1> QED
  BY <1>1, <1>2 DEF a

LEMMA InboxTail ==
    ASSUME NEW queue \in Seq(DomainEvents), InboxOK(queue), queue # <<>>
    PROVE  /\ Tail(queue) \in Seq(DomainEvents) /\ InboxOK(Tail(queue))
           /\ Head(queue) \in DomainEvents
           /\ Head(queue).kind = "start" => Head(queue).msg \in Messages
<1> DEFINE t == Tail(queue)
<1>1. /\ t \in Seq(DomainEvents) /\ Head(queue) \in DomainEvents /\ Head(queue) = queue[1]
      /\ 1 \in DOMAIN queue
      /\ \A i \in DOMAIN t : i + 1 \in DOMAIN queue /\ t[i] = queue[i + 1]
  BY TailLemma
<1> HIDE DEF t
<1>2. InboxOK(t)
  BY <1>1 DEF InboxOK
<1>3. Head(queue).kind = "start" => Head(queue).msg \in Messages
  BY <1>1 DEF InboxOK, DomainEvents
<1> QED
  BY <1>1, <1>2, <1>3 DEF t

LEMMA RuntimeAppend ==
    ASSUME NEW queue \in Seq(RuntimeEvents), RuntimeOK(queue), NEW e \in RuntimeEvents,
           e.kind = "exited" \/ e.turn \in Sent
    PROVE  Append(queue, e) \in Seq(RuntimeEvents) /\ RuntimeOK(Append(queue, e))
<1> DEFINE a == Append(queue, e)
<1>1. a \in Seq(RuntimeEvents) /\ \A i \in DOMAIN a : \/ i \in DOMAIN queue /\ a[i] = queue[i]
                                                    \/ a[i] = e
  <2>1. Len(queue) \in Nat /\ DOMAIN a = 1..Len(queue) + 1 /\ DOMAIN queue = 1..Len(queue)
    BY AppendLemma
  <2>2. \A i \in 1..Len(queue) + 1 : i \in 1..Len(queue) \/ i = Len(queue) + 1
    BY <2>1
  <2> QED
    BY <2>1, <2>2, AppendLemma
<1> HIDE DEF a
<1>2. RuntimeOK(a)
  BY <1>1 DEF RuntimeOK
<1> QED
  BY <1>1, <1>2 DEF a

\* The same when the turn was accepted just now.
LEMMA RuntimeGrows ==
    ASSUME NEW queue \in Seq(RuntimeEvents), RuntimeOK(queue), NEW e \in RuntimeEvents,
           Sent \subseteq Sent', e.turn \in Sent', runtime' = Append(queue, e)
    PROVE  runtime' \in Seq(RuntimeEvents) /\ RuntimeOK(runtime)'
<1>1. runtime' \in Seq(RuntimeEvents)
      /\ \A i \in DOMAIN runtime' : \/ i \in DOMAIN queue /\ runtime'[i] = queue[i]
                                    \/ runtime'[i] = e
  <2>1. Len(queue) \in Nat /\ DOMAIN runtime' = 1..Len(queue) + 1 /\ DOMAIN queue = 1..Len(queue)
    BY AppendLemma
  <2>2. \A i \in 1..Len(queue) + 1 : i \in 1..Len(queue) \/ i = Len(queue) + 1
    BY <2>1
  <2> QED
    BY <2>1, <2>2, AppendLemma
<1> QED
  BY <1>1 DEF RuntimeOK

LEMMA RuntimeTail ==
    ASSUME NEW queue \in Seq(RuntimeEvents), RuntimeOK(queue), queue # <<>>
    PROVE  /\ Tail(queue) \in Seq(RuntimeEvents) /\ RuntimeOK(Tail(queue))
           /\ Head(queue) \in RuntimeEvents
           /\ Head(queue).kind # "exited" => Head(queue).turn \in Sent
<1> DEFINE t == Tail(queue)
<1>1. /\ t \in Seq(RuntimeEvents) /\ Head(queue) \in RuntimeEvents /\ Head(queue) = queue[1]
      /\ 1 \in DOMAIN queue
      /\ \A i \in DOMAIN t : i + 1 \in DOMAIN queue /\ t[i] = queue[i + 1]
  BY TailLemma
<1> HIDE DEF t
<1>2. RuntimeOK(t)
  BY <1>1 DEF RuntimeOK
<1>3. Head(queue).kind # "exited" => Head(queue).turn \in Sent
  BY <1>1 DEF RuntimeOK
<1> QED
  BY <1>1, <1>2, <1>3 DEF t

LEMMA StampLemma ==
    ASSUME NEW queue \in Seq(RuntimeEvents), RuntimeOK(queue), NEW late \in BOOLEAN
    PROVE  Stamp(queue, late) \in Seq(RuntimeEvents) /\ RuntimeOK(Stamp(queue, late))
<1> DEFINE s == Stamp(queue, late)
<1>1. Len(queue) \in Nat /\ DOMAIN queue = 1..Len(queue)
  OBVIOUS
<1>2. DOMAIN s = 1..Len(queue)
  BY <1>1 DEF Stamp
<1>3. \A i \in 1..Len(queue) :
         s[i] \in RuntimeEvents /\ s[i].kind = queue[i].kind /\ s[i].turn = queue[i].turn
  <2> SUFFICES ASSUME NEW i \in 1..Len(queue)
               PROVE  s[i] \in RuntimeEvents /\ s[i].kind = queue[i].kind
                        /\ s[i].turn = queue[i].turn
    OBVIOUS
  <2>1. queue[i] \in RuntimeEvents
    BY <1>1
  <2>2. s[i] = [queue[i] EXCEPT !.late = late /\ queue[i].kind = "exited"]
    BY <1>1 DEF Stamp
  <2>3. (late /\ queue[i].kind = "exited") \in BOOLEAN
    OBVIOUS
  <2> HIDE DEF s
  <2> QED
    BY <2>1, <2>2, <2>3 DEF RuntimeEvents
<1>4. s = [i \in 1..Len(queue) |-> s[i]]
  BY <1>1 DEF Stamp
<1> HIDE DEF s
<1>5. s \in Seq(RuntimeEvents)
  BY <1>1, <1>3, <1>4
<1>6. RuntimeOK(s)
  BY <1>1, <1>2, <1>3 DEF RuntimeOK
<1> QED
  BY <1>5, <1>6 DEF s

LEMMA MovedLemma ==
    ASSUME NEW j \in [Fibers -> Jobs]
    PROVE  /\ Moved(j) \in [Fibers -> Jobs]
           /\ \A f \in Fibers : /\ Moved(j)[f].pc = j[f].pc /\ Moved(j)[f].msg = j[f].msg
                                /\ Moved(j)[f].turn = j[f].turn
BY DEF Moved, Jobs

LEMMA ProjectLemma ==
    ASSUME TypeOK, NEW s \in Sessions, s.status = "running" => s.active # None
    PROVE  /\ ProjectTurns(s) \in [Turns -> TurnRows] /\ ProjectRows(s) \in Seq(Messages)
           /\ rows # <<>> => Head(rows) \in Messages
           /\ \A t \in Turns : ProjectTurns(s)[t].msg =
                IF Consumes(s) /\ t = s.active THEN Head(rows) ELSE turns[t].msg
<1>1. rows # <<>> => Head(rows) \in Messages /\ Tail(rows) \in Seq(Messages)
  BY TailLemma DEF TypeOK
<1>2. Consumes(s) => rows # <<>> /\ s.active \in Turns /\ s.status = "running"
  BY DEF Consumes, Sessions
<1>3. ProjectRows(s) \in Seq(Messages)
  BY <1>1, <1>2 DEF ProjectRows, TypeOK
<1>4. Ended(s.status) \in {"completed", "error", "interrupted"}
  BY DEF Ended
<1>5. ASSUME NEW t \in Turns
      PROVE  /\ ProjectTurns(s)[t] \in TurnRows
             /\ ProjectTurns(s)[t].msg =
                IF Consumes(s) /\ t = s.active THEN Head(rows) ELSE turns[t].msg
  <2>1. turns[t] \in TurnRows
    BY DEF TypeOK
  <2>2. CASE s.status # "running"
    BY <1>2, <1>4, <2>1, <2>2 DEF ProjectTurns, TurnRows
  <2>3. CASE s.status = "running" /\ t # s.active
    BY <1>2, <2>1, <2>3 DEF ProjectTurns, TurnRows
  <2>4. CASE s.status = "running" /\ t = s.active
    BY <1>1, <1>2, <2>1, <2>4 DEF ProjectTurns, TurnRows
  <2> QED
    BY <2>2, <2>3, <2>4
<1>6. ProjectTurns(s) = [t \in Turns |-> ProjectTurns(s)[t]]
  BY DEF ProjectTurns
<1>7. ProjectTurns(s) \in [Turns -> TurnRows]
  BY <1>5, <1>6
<1> QED
  BY <1>1, <1>3, <1>5, <1>7

LEMMA SetSessionTypes ==
    ASSUME TypeOK, Typed, NEW s \in Sessions, SessionOK(s), SetSession(s)
    PROVE  /\ session' \in Sessions /\ session' = s /\ rows' \in Seq(Messages)
           /\ turns' \in [Turns -> TurnRows]
           /\ inbox' \in Seq(DomainEvents) /\ InboxOK(inbox')
<1>1. s.status = "running" => s.active # None
  BY DEF SessionOK
<1>2. [kind |-> "set", msg |-> None, status |-> s.status] \in DomainEvents
  BY EventTypes
<1>3. inbox' = Append(inbox, [kind |-> "set", msg |-> None, status |-> s.status])
  BY DEF SetSession
<1>4. inbox' \in Seq(DomainEvents) /\ InboxOK(inbox')
  BY <1>2, <1>3, InboxAppend DEF TypeOK, Typed
<1> QED
  BY <1>1, <1>4, ProjectLemma DEF SetSession

\* A step that leaves the provider's turns as they are.
LEMMA TypedStep ==
    ASSUME Typed, UNCHANGED <<accepted, life>>, InboxOK(inbox'), RuntimeOK(runtime'),
           SessionOK(session'), SessionOK(ingest'), provider'.turn \in Sent \cup {None},
           \A f \in Fibers : JobOK(job'[f])
    PROVE  Typed'
<1>1. Sent' = Sent
  BY DEF Sent
<1> QED
  BY <1>1 DEF Typed, InboxOK, RuntimeOK, SessionOK, JobOK

\* A fiber that becomes idle or begins a send.
LEMMA JobStep ==
    ASSUME TypeOK, Typed, NEW f \in Fibers, NEW w \in Jobs, JobOK(w),
           job' = [job EXCEPT ![f] = w]
    PROVE  /\ job' \in [Fibers -> Jobs] /\ job'[f] = w
           /\ \A g \in Fibers : JobOK(job'[g])
           /\ \A g \in Fibers : g # f => job'[g] = job[g]
<1>1. job \in [Fibers -> Jobs] /\ \A g \in Fibers : JobOK(job[g])
  BY DEF TypeOK, Typed
<1>2. \A g \in Fibers : job'[g] = IF g = f THEN w ELSE job[g]
  BY <1>1
<1> QED
  BY <1>1, <1>2

\* A start that is taken is put behind the latch, or its fiber sends it.
LEMMA StartLemma ==
    ASSUME TypeOK, Typed, NEW f \in Fibers, NEW m \in Messages, NEW l \in Latches,
           NEW queue \in Seq(Messages), Start(f, m, l, queue)
    PROVE  /\ latch' \in Latches /\ deferred' \in Seq(Messages) /\ job' \in [Fibers -> Jobs]
           /\ \A g \in Fibers : JobOK(job'[g])
           /\ \A g \in Fibers : g # f => job'[g] = job[g]
           /\ \/ deferred' = Enqueue(queue, m) /\ job'[f].pc = "idle" /\ job'[f].msg = None
              \/ deferred' = queue /\ job'[f].pc = "ensure" /\ job'[f].msg = m
<1>1. CASE l # NoLatch
  <2>1. latch' = l /\ deferred' = Enqueue(queue, m) /\ job' = [job EXCEPT ![f] = Idle]
    BY <1>1 DEF Start
  <2>2. JobOK(Idle) /\ Idle \in Jobs
    BY IdleType DEF JobOK
  <2> QED
    BY <2>1, <2>2, JobStep, IdleType, EnqueueLemma
<1>2. CASE l = NoLatch
  <2> DEFINE w == [Idle EXCEPT !.pc = "ensure", !.msg = m]
  <2>1. latch' = [fiber |-> f, msg |-> m] /\ deferred' = queue /\ job' = [job EXCEPT ![f] = w]
    BY <1>2 DEF Start
  <2>2. w \in Jobs /\ w.pc = "ensure" /\ w.msg = m
    BY StartedType
  <2> HIDE DEF w
  <2>3. JobOK(w)
    BY <2>2, Constant DEF JobOK
  <2>4. latch' \in Latches
    BY <2>1 DEF Latches
  <2> QED
    BY <2>1, <2>2, <2>3, <2>4, JobStep
<1> QED
  BY <1>1, <1>2

LEMMA StartNextLemma ==
    ASSUME TypeOK, Typed, NEW f \in Fibers, NEW l \in Latches, StartNext(f, l, deferred)
    PROVE  /\ latch' \in Latches /\ deferred' \in Seq(Messages) /\ job' \in [Fibers -> Jobs]
           /\ \A g \in Fibers : JobOK(job'[g])
           /\ \A g \in Fibers : g # f => job'[g] = job[g]
           /\ deferred # <<>> => Head(deferred) \in Messages /\ Tail(deferred) \in Seq(Messages)
           /\ \/ deferred = <<>> /\ deferred' = <<>> /\ job'[f].pc = "idle" /\ job'[f].msg = None
              \/ /\ deferred # <<>> /\ deferred' = Enqueue(Tail(deferred), Head(deferred))
                 /\ job'[f].pc = "idle" /\ job'[f].msg = None
              \/ /\ deferred # <<>> /\ deferred' = Tail(deferred)
                 /\ job'[f].pc = "ensure" /\ job'[f].msg = Head(deferred)
<1>0. deferred \in Seq(Messages)
  BY DEF TypeOK
<1>1. CASE deferred = <<>>
  <2>1. latch' = l /\ deferred' = deferred /\ job' = [job EXCEPT ![f] = Idle]
    BY <1>1 DEF StartNext
  <2>2. JobOK(Idle) /\ Idle \in Jobs
    BY IdleType DEF JobOK
  <2> QED
    BY <1>0, <1>1, <2>1, <2>2, JobStep, IdleType
<1>2. CASE deferred # <<>>
  <2>1. Head(deferred) \in Messages /\ Tail(deferred) \in Seq(Messages)
    BY <1>0, <1>2, TailLemma
  <2> DEFINE m == Head(deferred)
             q == Tail(deferred)
  <2>2. Start(f, m, l, q)
    BY <1>2 DEF StartNext
  <2>3. m \in Messages /\ q \in Seq(Messages)
    BY <2>1
  <2> HIDE DEF m, q
  <2>4. /\ latch' \in Latches /\ deferred' \in Seq(Messages) /\ job' \in [Fibers -> Jobs]
        /\ \A g \in Fibers : JobOK(job'[g])
        /\ \A g \in Fibers : g # f => job'[g] = job[g]
        /\ \/ deferred' = Enqueue(q, m) /\ job'[f].pc = "idle" /\ job'[f].msg = None
           \/ deferred' = q /\ job'[f].pc = "ensure" /\ job'[f].msg = m
    BY <2>2, <2>3, StartLemma
  <2> QED
    BY <1>2, <2>1, <2>4 DEF m, q
<1> QED
  BY <1>1, <1>2

\* Every step keeps the types.
LEMMA NextTypes ==
    ASSUME TypeOK, Typed, Ascending(rows), [Next]_vars
    PROVE  TypeOK' /\ Typed'
<1> USE DEF tables, reactor, outside, history
<1>0. /\ InboxOK(inbox) /\ RuntimeOK(runtime) /\ SessionOK(session) /\ SessionOK(ingest)
      /\ provider.turn \in Sent \cup {None} /\ \A f \in Fibers : JobOK(job[f])
      /\ inbox \in Seq(DomainEvents) /\ runtime \in Seq(RuntimeEvents)
      /\ job \in [Fibers -> Jobs] /\ deferred \in Seq(Messages) /\ rows \in Seq(Messages)
  BY DEF TypeOK, Typed
<1>a. ASSUME faults < MaxFaults, faults' = faults + 1 PROVE faults' \in 0..MaxFaults
  BY <1>a, Constant DEF TypeOK
<1>b. \A s \in Seq(Messages) : s # <<>> => Head(s) \in Messages /\ Tail(s) \in Seq(Messages)
  BY TailLemma
<1>c. NoLatch \in Latches /\ NoBoot \in Boots
  BY DEF NoLatch, Latches, NoBoot, Boots
<1>d. Sent \subseteq Turns
  BY SentLemma
<1>1. CASE RequestTurn
  <2>1. requested' \in Messages /\ requested' \in 0..MaxMessages
    BY <1>1, Constant DEF RequestTurn, TypeOK, Messages
  <2>2. rows' \in Seq(Messages)
    BY <1>0, <1>1, <2>1, AppendLemma DEF RequestTurn
  <2>3. inbox' \in Seq(DomainEvents) /\ InboxOK(inbox')
    <3> DEFINE e == [kind |-> "start", msg |-> requested', status |-> "none"]
    <3>1. e \in DomainEvents /\ e.msg # None
      BY <2>1, EventTypes, Constant
    <3>2. inbox' = Append(inbox, e)
      BY <1>1 DEF RequestTurn
    <3> HIDE DEF e
    <3> QED
      BY <1>0, <3>1, <3>2, InboxAppend
  <2>4. Typed'
    BY <1>0, <1>1, <2>3, TypedStep DEF RequestTurn
  <2> QED
    BY <1>1, <2>1, <2>2, <2>3, <2>4 DEF RequestTurn, TypeOK
<1>2. CASE RequestStop
  <2>1. inbox' \in Seq(DomainEvents) /\ InboxOK(inbox')
    <3> DEFINE e == [kind |-> "stop", msg |-> None, status |-> "none"]
    <3>1. e \in DomainEvents /\ e.kind # "start" /\ inbox' = Append(inbox, e)
      BY <1>2, EventTypes DEF RequestStop
    <3> HIDE DEF e
    <3> QED
      BY <1>0, <3>1, InboxAppend
  <2>2. Typed'
    BY <1>0, <1>2, <2>1, TypedStep DEF RequestStop
  <2> QED
    BY <1>2, <1>a, <2>1, <2>2 DEF RequestStop, TypeOK
<1>3. CASE TakeStart
  <2>1. /\ Start("worker", Head(inbox).msg, latch, deferred) /\ Head(inbox).msg \in Messages
        /\ inbox' = Tail(inbox) /\ inbox' \in Seq(DomainEvents) /\ InboxOK(inbox')
    BY <1>0, <1>3, InboxTail DEF TakeStart, TakeEvent
  <2>2. /\ latch' \in Latches /\ deferred' \in Seq(Messages) /\ job' \in [Fibers -> Jobs]
        /\ \A g \in Fibers : JobOK(job'[g])
    BY <2>1, StartLemma DEF TypeOK, Fibers
  <2>3. Typed'
    BY <1>0, <1>3, <2>1, <2>2, TypedStep DEF TakeStart
  <2> QED
    BY <1>3, <2>1, <2>2, <2>3 DEF TakeStart, TypeOK
<1>4. CASE TakeSet
  <2>1. inbox' = Tail(inbox) /\ inbox' \in Seq(DomainEvents) /\ InboxOK(inbox')
    BY <1>0, <1>4, InboxTail DEF TakeSet, TakeEvent
  <2>2. /\ latch' \in Latches /\ deferred' \in Seq(Messages) /\ job' \in [Fibers -> Jobs]
        /\ \A g \in Fibers : JobOK(job'[g])
        /\ observed' \in BOOLEAN
    <3>1. CASE StartNext("worker", NoLatch, deferred) /\ observed' = FALSE
      BY <1>c, <3>1, StartNextLemma DEF Fibers
    <3>2. CASE UNCHANGED <<deferred, job>> /\ latch' \in {NoLatch, latch}
                 /\ observed' \in {TRUE, observed}
      BY <1>0, <1>c, <3>2 DEF TypeOK
    <3> QED
      BY <1>4, <3>1, <3>2 DEF TakeSet
  <2>3. Typed'
    BY <1>0, <1>4, <2>1, <2>2, TypedStep DEF TakeSet
  <2> QED
    BY <1>4, <2>1, <2>2, <2>3 DEF TakeSet, TypeOK
<1>5. CASE TakeStop
  <2> DEFINE stopped == [status |-> "stopped", active |-> None]
             e == [kind |-> "set", msg |-> None, status |-> "stopped"]
             exits == session.status # "stopped" /\ provider.alive
  <2>1. stopped \in Sessions /\ stopped.status = "stopped" /\ SessionOK(stopped)
    BY DEF Sessions, SessionOK
  <2>2. session' = stopped /\ turns' = ProjectTurns(stopped) /\ rows' = ProjectRows(stopped)
    BY <1>5 DEF TakeStop
  <2>3. inbox' = Append(Tail(inbox), e) /\ e \in DomainEvents /\ e.kind = "set"
    <3>1. e = [kind |-> "set", msg |-> None, status |-> stopped.status]
      OBVIOUS
    <3>2. e \in DomainEvents
      BY <2>1, <3>1, EventTypes
    <3> QED
      BY <1>5, <3>2 DEF TakeStop
  <2>4. Tail(inbox) \in Seq(DomainEvents) /\ InboxOK(Tail(inbox))
    BY <1>0, <1>5, InboxTail DEF TakeStop, TakeEvent
  <2>5. provider' \in [alive : BOOLEAN, turn : Turns \cup {None}]
        /\ provider'.turn \in Sent \cup {None}
    BY <1>0, <1>5 DEF TakeStop, TypeOK
  <2>6. runtime' \in Seq(RuntimeEvents) /\ RuntimeOK(runtime')
    <3> DEFINE q == IF exits THEN Append(runtime, RuntimeEvent("exited", None)) ELSE runtime
    <3>1. q \in Seq(RuntimeEvents) /\ RuntimeOK(q)
      BY <1>0, EventTypes, RuntimeAppend
    <3>2. runtime' = Stamp(q, TRUE)
      BY <1>5 DEF TakeStop
    <3> HIDE DEF q
    <3> QED
      BY <3>1, <3>2, StampLemma
  <2>7. job' \in [Fibers -> Jobs] /\ \A f \in Fibers : JobOK(job'[f])
    BY <1>0, <1>5, MovedLemma DEF TakeStop, JobOK
  <2>8. dropped' \subseteq Messages
    BY <1>0, <1>5 DEF TakeStop, TypeOK, Members
  <2> HIDE DEF stopped, e, exits
  <2>9. turns' \in [Turns -> TurnRows] /\ rows' \in Seq(Messages)
    BY <2>1, <2>2, ProjectLemma
  <2>10. inbox' \in Seq(DomainEvents) /\ InboxOK(inbox')
    BY <2>3, <2>4, InboxAppend
  <2>11. SessionOK(session') /\ session' \in Sessions
    BY <2>1, <2>2
  <2>12. Typed'
    BY <1>0, <1>5, <2>5, <2>6, <2>7, <2>10, <2>11, TypedStep DEF TakeStop
  <2>13. /\ UNCHANGED <<requested, boot, ingest, accepted, life, failed, disturbed, early, faults>>
         /\ latch' = NoLatch /\ deferred' = <<>> /\ observed' = FALSE
    BY <1>5 DEF TakeStop
  <2>14. deferred' \in Seq(Messages)
    BY <2>13
  <2> QED
    BY <1>c, <2>5, <2>6, <2>7, <2>8, <2>9, <2>10, <2>11, <2>12, <2>13, <2>14 DEF TypeOK
<1>6. CASE LatchExpires
  <2>1. Typed'
    BY <1>0, <1>6, TypedStep DEF LatchExpires
  <2> QED
    BY <1>6, <1>a, <1>c, <2>1 DEF LatchExpires, TypeOK
<1>7. ASSUME NEW f \in Fibers, UseSession(f) PROVE TypeOK' /\ Typed'
  <2> DEFINE w == [job[f] EXCEPT !.pc = "send"]
  <2>1. w \in Jobs /\ JobOK(w) /\ job' = [job EXCEPT ![f] = w]
    BY <1>0, <1>7 DEF UseSession, Jobs, JobOK
  <2> HIDE DEF w
  <2>2. job' \in [Fibers -> Jobs] /\ \A g \in Fibers : JobOK(job'[g])
    BY <2>1, JobStep
  <2>3. Typed'
    BY <1>0, <1>7, <2>2, TypedStep DEF UseSession
  <2> QED
    BY <1>7, <2>2, <2>3 DEF UseSession, TypeOK
<1>8. ASSUME NEW f \in Fibers, BindSession(f) PROVE TypeOK' /\ Typed'
  <2> DEFINE s == [status |-> "ready", active |-> None]
  <2>1. s \in Sessions /\ SessionOK(s) /\ SetSession(s)
    BY <1>8 DEF Sessions, SessionOK, BindSession
  <2> HIDE DEF s
  <2>2. /\ session' \in Sessions /\ session' = s /\ rows' \in Seq(Messages)
        /\ turns' \in [Turns -> TurnRows]
        /\ inbox' \in Seq(DomainEvents) /\ InboxOK(inbox')
    BY <2>1, SetSessionTypes
  <2>3. job' \in [Fibers -> Jobs] /\ \A g \in Fibers : JobOK(job'[g])
    <3> DEFINE mv == Moved(job)
    <3>1. mv \in [Fibers -> Jobs] /\ \A g \in Fibers : JobOK(mv[g])
      BY <1>0, MovedLemma DEF JobOK
    <3>2. job' = [mv EXCEPT ![f].pc = "send"] /\ mv[f].msg = job[f].msg /\ job[f].pc = "ensure"
      BY <1>0, <1>8, MovedLemma DEF BindSession
    <3>3. job[f].msg # None
      BY <1>0, <3>2 DEF JobOK
    <3> HIDE DEF mv
    <3>4. \A g \in Fibers : job'[g] = IF g = f THEN [mv[f] EXCEPT !.pc = "send"] ELSE mv[g]
      BY <3>1, <3>2
    <3>5. job' \in [Fibers -> Jobs]
      BY <3>1, <3>2 DEF Jobs
    <3>6. JobOK([mv[f] EXCEPT !.pc = "send"])
      BY <3>1, <3>2, <3>3 DEF JobOK, Jobs
    <3> QED
      BY <3>1, <3>4, <3>5, <3>6
  <2>4. runtime' \in Seq(RuntimeEvents) /\ RuntimeOK(runtime')
    BY <1>0, <1>8, StampLemma DEF BindSession
  <2>5. provider' \in [alive : BOOLEAN, turn : Turns \cup {None}] /\ provider'.turn = None
    BY <1>8 DEF BindSession
  <2>6. Typed'
    BY <1>0, <1>8, <2>1, <2>2, <2>3, <2>4, <2>5, TypedStep DEF BindSession
  <2> QED
    BY <1>8, <2>2, <2>3, <2>4, <2>5, <2>6 DEF BindSession, TypeOK
<1>9. ASSUME NEW f \in Fibers, Accept(f) PROVE TypeOK' /\ Typed'
  <2> DEFINE t == Len(accepted) + 1
             closing == IF provider.turn = None THEN <<>>
                        ELSE <<RuntimeEvent("completed", provider.turn)>>
  <2>1. /\ accepted \in Seq(Messages) /\ Len(accepted) \in Nat /\ life \in Nat
        /\ life <= Len(accepted) /\ Len(accepted) < MaxTurns
    BY <1>9 DEF Accept, TypeOK, Typed
  <2>2. job[f].msg \in Messages /\ job[f].pc = "send"
    BY <1>0, <1>9 DEF Accept, JobOK, Jobs
  <2>3. /\ accepted' = Append(accepted, job[f].msg) /\ accepted' \in Seq(Messages)
        /\ Len(accepted') = t /\ life' = life
    BY <1>9, <2>1, <2>2, AppendLemma DEF Accept
  <2>4. t \in Turns /\ Sent \subseteq Sent' /\ t \in Sent'
    BY <2>1, <2>3, Constant DEF Turns, Sent
  <2>5. job' = [job EXCEPT ![f] = [@ EXCEPT !.pc = "reread", !.turn = t]]
    BY <1>0, <1>9 DEF Accept
  <2>6. provider' = [alive |-> TRUE, turn |-> t]
        /\ runtime' = runtime \o closing \o <<RuntimeEvent("started", t)>>
    BY <1>9 DEF Accept
  <2>7. runtime' \in Seq(RuntimeEvents) /\ RuntimeOK(runtime)'
    <3>1. RuntimeEvent("started", t) \in RuntimeEvents
      BY <2>4, EventTypes
    <3>2. CASE provider.turn = None
      <4>1. runtime' = Append(runtime, RuntimeEvent("started", t))
        BY <1>0, <2>6, <3>1, <3>2
      <4> DEFINE e == RuntimeEvent("started", t)
      <4>2. e \in RuntimeEvents /\ e.turn \in Sent' /\ runtime' = Append(runtime, e)
        BY <2>4, <4>1, EventTypes
      <4> HIDE DEF e, t
      <4> QED
        BY <1>0, <2>4, <4>2, RuntimeGrows
    <3>3. CASE provider.turn # None
      <4> DEFINE e == RuntimeEvent("completed", provider.turn)
                 r == Append(runtime, e)
      <4>1. e \in RuntimeEvents /\ e.turn \in Sent
        BY <1>0, <1>d, <3>3, EventTypes
      <4>2. r \in Seq(RuntimeEvents) /\ RuntimeOK(r)
        BY <1>0, <4>1, RuntimeAppend
      <4>3. runtime' = Append(r, RuntimeEvent("started", t))
        BY <1>0, <2>6, <3>1, <3>3, <4>1
      <4> HIDE DEF r
      <4> QED
        BY <2>4, <3>1, <4>2, <4>3, RuntimeGrows, EventTypes
    <3> QED
      BY <3>2, <3>3
  <2>11. Len(accepted') <= MaxTurns /\ life' <= Len(accepted')
    BY <2>1, <2>3, Constant
  <2> HIDE DEF t, closing
  <2>8. job' \in [Fibers -> Jobs] /\ \A g \in Fibers : JobOK(job[g])'
    <3>1. \A g \in Fibers : job'[g] = IF g = f THEN [job[f] EXCEPT !.pc = "reread", !.turn = t]
                                      ELSE job[g]
      BY <1>0, <2>5
    <3>2. job' \in [Fibers -> Jobs]
      BY <1>0, <2>4, <2>5 DEF Jobs
    <3>3. job'[f].turn = t /\ job'[f].msg = job[f].msg
      BY <1>0, <3>1 DEF Jobs
    <3> QED
      BY <1>0, <2>2, <2>4, <3>1, <3>2, <3>3, Constant DEF JobOK
  <2>9. UNCHANGED <<tables, requested, inbox, latch, deferred, observed, boot, ingest,
                    life, failed, dropped, early, faults>>
        /\ disturbed' \in BOOLEAN
    BY <1>9 DEF Accept, TypeOK
  <2>12. SessionOK(session)' /\ SessionOK(ingest)' /\ InboxOK(inbox)'
    BY <1>0, <2>4, <2>9 DEF SessionOK, InboxOK
  <2>13. provider'.turn \in Sent' \cup {None}
    BY <2>4, <2>6
  <2>10. Typed'
    BY <2>7, <2>8, <2>11, <2>12, <2>13 DEF Typed
  <2> QED
    BY <2>3, <2>4, <2>6, <2>7, <2>8, <2>9, <2>10 DEF TypeOK
<1>10. ASSUME NEW f \in Fibers, SendFails(f) PROVE TypeOK' /\ Typed'
  <2> DEFINE w == [job[f] EXCEPT !.pc = "fail"]
  <2>1. w \in Jobs /\ JobOK(w) /\ job' = [job EXCEPT ![f] = w]
    BY <1>0, <1>10 DEF SendFails, Jobs, JobOK
  <2> HIDE DEF w
  <2>2. job' \in [Fibers -> Jobs] /\ \A g \in Fibers : JobOK(job'[g])
    BY <2>1, JobStep
  <2>3. Typed'
    BY <1>0, <1>10, <2>2, TypedStep DEF SendFails
  <2> QED
    BY <1>10, <1>a, <2>2, <2>3 DEF SendFails, TypeOK
<1>11. ASSUME NEW f \in Fibers, Fail(f) PROVE TypeOK' /\ Typed'
  <2>1. job[f].msg \in Messages
    BY <1>0, <1>11 DEF Fail, JobOK, Jobs
  <2>2. rows' \in Seq(Messages)
    BY <1>0, <1>11, WithoutLemma DEF Fail
  <2>3. /\ latch' \in Latches /\ deferred' \in Seq(Messages) /\ job' \in [Fibers -> Jobs]
        /\ \A g \in Fibers : JobOK(job'[g])
    <3> DEFINE l == IF latch = [fiber |-> f, msg |-> job[f].msg] THEN NoLatch ELSE latch
    <3>1. l \in Latches /\ StartNext(f, l, deferred)
      BY <1>11, <1>c DEF Fail, TypeOK
    <3> HIDE DEF l
    <3> QED
      BY <3>1, StartNextLemma
  <2>4. Typed'
    BY <1>0, <1>11, <2>3, TypedStep DEF Fail
  <2> QED
    BY <1>11, <2>1, <2>2, <2>3, <2>4 DEF Fail, TypeOK
<1>12. ASSUME NEW f \in Fibers, Reread(f) PROVE TypeOK' /\ Typed'
  <2> DEFINE w == IF Superseded(f) THEN Idle ELSE [job[f] EXCEPT !.pc = "set", !.moved = FALSE]
  <2>1. w \in Jobs /\ JobOK(w)
    BY <1>0, <1>12, IdleType DEF Reread, Jobs, JobOK
  <2>2. job' = [job EXCEPT ![f] = w]
    BY <1>0, <1>12 DEF Reread
  <2> HIDE DEF w
  <2>3. job' \in [Fibers -> Jobs] /\ \A g \in Fibers : JobOK(job'[g])
    BY <2>1, <2>2, JobStep
  <2>4. Typed'
    BY <1>0, <1>12, <2>3, TypedStep DEF Reread
  <2> QED
    BY <1>12, <2>3, <2>4 DEF Reread, TypeOK
<1>13. ASSUME NEW f \in Fibers, SetRunning(f) PROVE TypeOK' /\ Typed'
  <2> DEFINE s == [status |-> "running", active |-> job[f].turn]
  <2>0. job[f].turn \in Sent
    BY <1>0, <1>13 DEF SetRunning, JobOK
  <2>1. s \in Sessions /\ SessionOK(s) /\ SetSession(s)
    BY <1>13, <1>d, <2>0, Constant DEF Sessions, SessionOK, SetRunning
  <2> HIDE DEF s
  <2>2. /\ session' \in Sessions /\ session' = s /\ rows' \in Seq(Messages)
        /\ turns' \in [Turns -> TurnRows]
        /\ inbox' \in Seq(DomainEvents) /\ InboxOK(inbox')
    BY <2>1, SetSessionTypes
  <2>3. job' \in [Fibers -> Jobs] /\ \A g \in Fibers : JobOK(job'[g])
    <3> DEFINE mv == Moved(job)
    <3>1. mv \in [Fibers -> Jobs] /\ \A g \in Fibers : JobOK(mv[g])
      BY <1>0, MovedLemma DEF JobOK
    <3>2. job' = [mv EXCEPT ![f] = Idle]
      BY <1>13 DEF SetRunning
    <3> HIDE DEF mv
    <3>3. \A g \in Fibers : job'[g] = IF g = f THEN Idle ELSE mv[g]
      BY <3>1, <3>2
    <3> QED
      BY <3>1, <3>2, <3>3, IdleType DEF JobOK
  <2>4. runtime' \in Seq(RuntimeEvents) /\ RuntimeOK(runtime')
    BY <1>0, <1>13, StampLemma DEF SetRunning
  <2>5. Typed'
    BY <1>0, <1>13, <2>1, <2>2, <2>3, <2>4, TypedStep DEF SetRunning
  <2> QED
    BY <1>13, <2>2, <2>3, <2>4, <2>5 DEF SetRunning, TypeOK
<1>14. CASE BeginReconcile
  <2>1. boot' \in Boots
    BY <1>0, <1>14 DEF BeginReconcile, Boots
  <2>2. Typed'
    BY <1>0, <1>14, TypedStep DEF BeginReconcile
  <2> QED
    BY <1>14, <2>1, <2>2 DEF BeginReconcile, TypeOK
<1>15. CASE Redrive
  <2>1. boot.todo \in Seq(Messages) /\ boot.todo # <<>> /\ boot \in Boots
    BY <1>15 DEF Redrive, TypeOK, Boots
  <2>2. Head(boot.todo) \in Messages /\ boot' \in Boots
    BY <1>15, <1>b, <2>1 DEF Redrive, Boots
  <2>3. /\ latch' \in Latches /\ deferred' \in Seq(Messages) /\ job' \in [Fibers -> Jobs]
        /\ \A g \in Fibers : JobOK(job'[g])
    <3>1. CASE boot.busy
      <4>1. deferred' = Enqueue(deferred, Head(boot.todo)) /\ UNCHANGED <<latch, job>>
        BY <1>15, <3>1 DEF Redrive
      <4>2. deferred' \in Seq(Messages)
        BY <1>0, <2>2, <4>1, EnqueueLemma
      <4> QED
        BY <1>0, <4>1, <4>2 DEF TypeOK
    <3>2. CASE ~boot.busy
      <4>1. Start("boot", Head(boot.todo), latch, deferred)
        BY <1>15, <3>2 DEF Redrive
      <4>2. latch \in Latches /\ "boot" \in Fibers
        BY DEF TypeOK, Fibers
      <4> QED
        BY <1>0, <2>2, <4>1, <4>2, StartLemma
    <3> QED
      BY <3>1, <3>2
  <2>4. Typed'
    BY <1>0, <1>15, <2>3, TypedStep DEF Redrive
  <2> QED
    BY <1>15, <2>2, <2>3, <2>4 DEF Redrive, TypeOK
<1>16. CASE EndReconcile
  <2>1. Typed'
    BY <1>0, <1>16, TypedStep DEF EndReconcile
  <2> QED
    BY <1>16, <1>c, <2>1 DEF EndReconcile, TypeOK
<1>17. CASE EndTurn
  <2>1. provider \in [alive : BOOLEAN, turn : Turns \cup {None}] /\ provider.turn \in Sent
    BY <1>0, <1>17 DEF EndTurn, TypeOK
  <2>2. provider' \in [alive : BOOLEAN, turn : Turns \cup {None}] /\ provider'.turn = None
    BY <1>17, <2>1 DEF EndTurn
  <2>3. PICK kind \in {"completed", "failed"} :
             runtime' = Append(runtime, RuntimeEvent(kind, provider.turn))
    BY <1>17 DEF EndTurn
  <2>4. RuntimeEvent(kind, provider.turn) \in RuntimeEvents
        /\ RuntimeEvent(kind, provider.turn).turn \in Sent
    BY <1>d, <2>1, EventTypes
  <2>5. runtime' \in Seq(RuntimeEvents) /\ RuntimeOK(runtime')
    BY <1>0, <2>3, <2>4, RuntimeAppend
  <2>6. faults' \in 0..MaxFaults
    BY <1>17, <1>a DEF EndTurn, TypeOK
  <2>7. Typed'
    BY <1>0, <1>17, <2>2, <2>5, TypedStep DEF EndTurn
  <2> QED
    BY <1>17, <2>2, <2>5, <2>6, <2>7 DEF EndTurn, TypeOK
<1>18. CASE AgentDies
  <2>1. provider' \in [alive : BOOLEAN, turn : Turns \cup {None}] /\ provider'.turn = None
    BY <1>18 DEF AgentDies
  <2>2. RuntimeEvent("exited", None) \in RuntimeEvents /\ RuntimeEvent("exited", None).kind = "exited"
    BY EventTypes
  <2>3. runtime' \in Seq(RuntimeEvents) /\ RuntimeOK(runtime')
    BY <1>0, <1>18, <2>2, RuntimeAppend DEF AgentDies
  <2>4. Typed'
    BY <1>0, <1>18, <2>1, <2>3, TypedStep DEF AgentDies
  <2> QED
    BY <1>18, <1>a, <2>1, <2>3, <2>4 DEF AgentDies, TypeOK
<1>19. CASE Ingest
  <2> DEFINE e == Head(runtime)
  <2>1. /\ runtime' = Tail(runtime) /\ runtime' \in Seq(RuntimeEvents) /\ RuntimeOK(runtime')
        /\ e \in RuntimeEvents /\ (e.kind # "exited" => e.turn \in Sent)
    BY <1>0, <1>19, RuntimeTail DEF Ingest
  <2>2. ingest' \in {NextSession(e), NoSet}
    BY <1>19 DEF Ingest
  <2> HIDE DEF e
  <2>3. NextSession(e) \in Sessions /\ SessionOK(NextSession(e))
    <3>1. CASE e.kind = "started"
      BY <1>d, <2>1, <3>1, Constant DEF NextSession, Sessions, SessionOK
    <3>2. CASE e.kind = "completed"
      BY <3>2 DEF NextSession, Sessions, SessionOK
    <3>3. CASE e.kind = "failed"
      BY <3>3 DEF NextSession, Sessions, SessionOK
    <3>4. CASE e.kind = "exited"
      BY <3>4 DEF NextSession, Sessions, SessionOK
    <3> QED
      BY <2>1, <3>1, <3>2, <3>3, <3>4 DEF RuntimeEvents
  <2>4. NoSet \in Sessions /\ SessionOK(NoSet)
    BY DEF NoSet, Sessions, SessionOK
  <2>5. ingest' \in Sessions /\ SessionOK(ingest')
    BY <2>2, <2>3, <2>4
  <2>6. Typed'
    BY <1>0, <1>19, <2>1, <2>5, TypedStep DEF Ingest
  <2> QED
    BY <1>19, <2>1, <2>5, <2>6 DEF Ingest, TypeOK
<1>20. CASE IngestSets
  <2>1. ingest \in Sessions /\ SetSession(ingest)
    BY <1>20 DEF IngestSets, TypeOK
  <2>2. /\ session' \in Sessions /\ session' = ingest /\ rows' \in Seq(Messages)
        /\ turns' \in [Turns -> TurnRows]
        /\ inbox' \in Seq(DomainEvents) /\ InboxOK(inbox')
    BY <1>0, <2>1, SetSessionTypes
  <2>3. job' \in [Fibers -> Jobs] /\ \A g \in Fibers : JobOK(job'[g])
    BY <1>0, <1>20, MovedLemma DEF IngestSets, JobOK
  <2>4. runtime' \in Seq(RuntimeEvents) /\ RuntimeOK(runtime')
    BY <1>0, <1>20, StampLemma DEF IngestSets
  <2>5. ingest' \in Sessions /\ SessionOK(ingest')
    BY <1>20 DEF IngestSets, NoSet, Sessions, SessionOK
  <2>6. Typed'
    BY <1>0, <1>20, <2>2, <2>3, <2>4, <2>5, TypedStep DEF IngestSets
  <2> QED
    BY <1>20, <2>2, <2>3, <2>4, <2>5, <2>6 DEF IngestSets, TypeOK
<1>21. CASE Restart
  <2> DEFINE stopped == [status |-> "stopped", active |-> None]
  <2>1. stopped \in Sessions /\ stopped.status = "stopped" /\ stopped.active = None
    BY DEF Sessions
  <2>2. \/ session.status = "none" /\ UNCHANGED tables
        \/ session' = stopped /\ turns' = ProjectTurns(stopped) /\ rows' = ProjectRows(stopped)
    BY <1>21 DEF Restart
  <2> HIDE DEF stopped
  <2>3. session' \in Sessions /\ session'.active = None /\ session'.status # "running"
    BY <1>0, <2>1, <2>2 DEF TypeOK, SessionOK
  <2>4. turns' \in [Turns -> TurnRows] /\ rows' \in Seq(Messages)
    BY <2>1, <2>2, ProjectLemma DEF TypeOK
  <2>5. /\ inbox' = <<>> /\ latch' = NoLatch /\ deferred' = <<>> /\ observed' = FALSE
        /\ job' = [f \in Fibers |-> Idle] /\ boot' = [NoBoot EXCEPT !.phase = "rows"]
        /\ provider' = [alive |-> FALSE, turn |-> None]
        /\ runtime' = <<>> /\ ingest' = NoSet /\ life' = Len(accepted)
        /\ UNCHANGED <<requested, accepted, failed, dropped, disturbed, early>>
    BY <1>21 DEF Restart
  <2>6. boot' \in Boots
    <3>1. boot' = [phase |-> "rows", todo |-> <<>>, busy |-> FALSE]
      BY <2>5 DEF NoBoot
    <3>2. <<>> \in Seq(Messages)
      OBVIOUS
    <3> QED
      BY <3>1, <3>2 DEF Boots
  <2>7. Typed'
    BY <2>3, <2>5, IdleType DEF Typed, TypeOK, InboxOK, RuntimeOK, SessionOK, JobOK, NoSet
  <2>8. faults' \in 0..MaxFaults
    BY <1>21, <1>a DEF Restart
  <2>9. life' \in Nat /\ ingest' \in Sessions
    BY <2>5 DEF TypeOK, NoSet, Sessions
  <2>10. /\ provider' \in [alive : BOOLEAN, turn : Turns \cup {None}]
         /\ latch' \in Latches /\ observed' \in BOOLEAN
    BY <1>c, <2>5
  <2>12. /\ inbox' \in Seq(DomainEvents) /\ deferred' \in Seq(Messages)
         /\ runtime' \in Seq(RuntimeEvents)
    BY <2>5
  <2>11. job' \in [Fibers -> Jobs]
    BY <2>5, IdleType
  <2> QED
    BY <2>3, <2>4, <2>5, <2>6, <2>7, <2>8, <2>9, <2>10, <2>11, <2>12 DEF TypeOK
<1>22. CASE UNCHANGED vars
  <2>1. Typed'
    BY <1>0, <1>22, TypedStep DEF vars
  <2> QED
    BY <1>22, <2>1 DEF vars, TypeOK
<1>23. \A f \in Fibers : Send(f) => TypeOK' /\ Typed'
  BY <1>7, <1>8, <1>9, <1>10, <1>11, <1>12, <1>13 DEF Send
<1> QED
  BY <1>1, <1>2, <1>3, <1>4, <1>5, <1>6, <1>14, <1>15, <1>16, <1>17, <1>18, <1>19, <1>20,
     <1>21, <1>22, <1>23 DEF Next
-----------------------------------------------------------------------------
(* Where messages are.                                                     *)

LEMMA SpotDefs ==
    /\ Spot("inbox") = Starts(inbox) /\ Spot("inbox")' = Starts(inbox')
    /\ Spot("deferred") = Members(deferred) /\ Spot("deferred")' = Members(deferred')
    /\ Spot("todo") = Members(boot.todo) /\ Spot("todo")' = Members(boot'.todo)
    /\ Spot("worker") = Sending(job["worker"]) /\ Spot("worker")' = Sending(job'["worker"])
    /\ Spot("boot") = Sending(job["boot"]) /\ Spot("boot")' = Sending(job'["boot"])
    /\ Spot("sent") = {accepted[t] : t \in Sent}
    /\ Spot("sent")' = {accepted'[t] : t \in Sent'}
BY DEF Spot

\* Message x arrives at a place; what is anywhere else was there before.
Arrives(x, to) ==
    \A p \in Places : \A m \in Spot(p)' : m \in Spot(p) \/ (p = to /\ m = x)

LEMMA ArrivesLemma ==
    ASSUME NEW x, NEW to, UNCHANGED <<accepted, life>>,
           \A m \in Starts(inbox') : m \in Starts(inbox) \/ (to = "inbox" /\ m = x),
           \A m \in Members(deferred') : m \in Members(deferred) \/ (to = "deferred" /\ m = x),
           \A m \in Members(boot'.todo) : m \in Members(boot.todo) \/ (to = "todo" /\ m = x),
           \A f \in Fibers : \A m \in Sending(job'[f]) : m \in Sending(job[f]) \/ (to = f /\ m = x)
    PROVE  Arrives(x, to)
<1>1. Sent' = Sent
  BY DEF Sent
<1>2. Spot("sent")' = Spot("sent")
  BY <1>1, SpotDefs
<1> QED
  BY <1>2, SpotDefs DEF Arrives, Places, Fibers

\* It leaves the place it comes from, unless it was requested early.
LEMMA ArrivesApart ==
    ASSUME NEW x, NEW to \in Places, NEW from \in Places, Arrives(x, to), Apart,
           early \subseteq early',
           x \in Spot(from) \/ \A p \in Places : x \notin Spot(p),
           from # to => x \notin Spot(from)' \/ x \in early
    PROVE  Apart'
<1> SUFFICES ASSUME NEW p \in Places, NEW q \in Places, p # q,
                    NEW m, m \in Spot(p)', m \in Spot(q)', m \notin early'
             PROVE  FALSE
  BY DEF Apart
<1>1. (m \in Spot(p) \/ (p = to /\ m = x)) /\ (m \in Spot(q) \/ (q = to /\ m = x))
  BY DEF Arrives
<1>2. ~(m \in Spot(p) /\ m \in Spot(q))
  BY DEF Apart
<1>3. m = x /\ to \in {p, q}
  BY <1>1, <1>2
<1>4. PICK o \in {p, q} : o # to
  BY <1>3
<1>5. x \in Spot(o) /\ x \in Spot(o)'
  BY <1>1, <1>3, <1>4
<1>6. x \in Spot(from)
  BY <1>5
<1>7. from = o
  BY <1>3, <1>5, <1>6 DEF Apart
<1> QED
  BY <1>3, <1>4, <1>5, <1>7

\* What is at a place was at one before.
FromSpots == \A p \in Places : \A m \in Spot(p)' : \E q \in Places : m \in Spot(q)

LEMMA ArrivesFrom ==
    ASSUME NEW x, NEW to, NEW from \in Places, x \in Spot(from), Arrives(x, to)
    PROVE  FromSpots
BY DEF Arrives, FromSpots

\* Nothing arrives.
Quiet ==
    /\ UNCHANGED <<accepted, life, deferred>> /\ early \subseteq early'
    /\ boot'.todo = boot.todo \/ boot'.todo = <<>>
    /\ Starts(inbox') \subseteq Starts(inbox)
    /\ DistinctStarts(inbox, early) => DistinctStarts(inbox', early)
    /\ \A f \in Fibers : Sending(job'[f]) \subseteq Sending(job[f])

LEMMA QuietLemma ==
    ASSUME Quiet, Apart, Single
    PROVE  Apart' /\ Single' /\ FromSpots
<1>1. Sent' = Sent
  BY DEF Quiet, Sent
<1>2. \A p \in Places : \A m \in Spot(p)' : m \in Spot(p)
  <2>1. Spot("sent")' = Spot("sent")
    BY <1>1, SpotDefs DEF Quiet
  <2>2. Members(boot'.todo) \subseteq Members(boot.todo)
    BY DEF Quiet, Members
  <2> QED
    BY <2>1, <2>2, SpotDefs DEF Quiet, Places, Fibers
<1>3. Apart' /\ FromSpots
  BY <1>2 DEF Apart, FromSpots, Quiet
<1>4. Distinct(boot'.todo, early)
  BY DEF Quiet, Distinct, Single
<1>5. Single'
  BY <1>1, <1>4 DEF Quiet, Single, Distinct, DistinctStarts, SentOnce
<1> QED
  BY <1>3, <1>5

LEMMA SetSessionStarts ==
    ASSUME TypeOK, NEW s \in Sessions, SetSession(s)
    PROVE  /\ Starts(inbox') \subseteq Starts(inbox)
           /\ \A E : DistinctStarts(inbox, E) => DistinctStarts(inbox', E)
<1> DEFINE e == [kind |-> "set", msg |-> None, status |-> s.status]
<1>1. e \in DomainEvents /\ e.kind # "start" /\ inbox' = Append(inbox, e)
  BY EventTypes DEF SetSession
<1> HIDE DEF e
<1> QED
  BY <1>1, StartsAppend DEF TypeOK

\* A deferred start that is taken leaves the queue, and its fiber sends it.
LEMMA StartNextSpots ==
    ASSUME TypeOK, Typed, NEW f \in Fibers, NEW l \in Latches, StartNext(f, l, deferred),
           Distinct(deferred, early)
    PROVE  /\ Distinct(deferred', early) /\ \A m \in Members(deferred') : m \in Members(deferred)
           /\ \/ Sending(job'[f]) = {}
              \/ \E x \in Members(deferred) :
                   Sending(job'[f]) = {x} /\ (x \in Members(deferred') => x \in early)
           /\ \A g \in Fibers : g # f => job'[g] = job[g]
<1>0. deferred \in Seq(Messages)
  BY DEF TypeOK
<1> DEFINE x == Head(deferred)
           q == Tail(deferred)
<1>1. /\ deferred # <<>> => x \in Messages /\ q \in Seq(Messages)
      /\ \/ deferred = <<>> /\ deferred' = <<>> /\ job'[f].pc = "idle" /\ job'[f].msg = None
         \/ /\ deferred # <<>> /\ deferred' = Enqueue(q, x)
            /\ job'[f].pc = "idle" /\ job'[f].msg = None
         \/ /\ deferred # <<>> /\ deferred' = q
            /\ job'[f].pc = "ensure" /\ job'[f].msg = x
      /\ \A g \in Fibers : g # f => job'[g] = job[g]
  BY StartNextLemma
<1>2. deferred # <<>> =>
        /\ Members(deferred) = {x} \cup Members(q) /\ Distinct(q, early)
        /\ x \in Members(q) => x \in early
  BY <1>0, MembersTail, DistinctTail
<1> HIDE DEF x, q
<1>3. CASE deferred = <<>>
  BY <1>1, <1>3 DEF Sending
<1>4. CASE deferred # <<>> /\ deferred' = Enqueue(q, x) /\ job'[f].pc = "idle"
  BY <1>1, <1>2, <1>4, EnqueueLemma DEF Sending
<1>5. CASE deferred # <<>> /\ deferred' = q /\ job'[f].pc = "ensure" /\ job'[f].msg = x
  <2>1. Sending(job'[f]) = {x}
    BY <1>5 DEF Sending
  <2> QED
    BY <1>1, <1>2, <1>5, <2>1
<1> QED
  BY <1>1, <1>3, <1>4, <1>5

LEMMA TakesNext ==
    ASSUME TypeOK, Typed, NEW f \in Fibers, NEW l \in Latches, StartNext(f, l, deferred),
           Apart, Single, UNCHANGED <<accepted, life, boot, early>>,
           Starts(inbox') \subseteq Starts(inbox), DistinctStarts(inbox', early)
    PROVE  Apart' /\ Single' /\ FromSpots
<1>1. /\ Distinct(deferred', early) /\ \A m \in Members(deferred') : m \in Members(deferred)
      /\ \/ Sending(job'[f]) = {}
         \/ \E x \in Members(deferred) :
              Sending(job'[f]) = {x} /\ (x \in Members(deferred') => x \in early)
      /\ \A g \in Fibers : g # f => job'[g] = job[g]
  BY StartNextSpots DEF Single
<1>2. Sent' = Sent
  BY DEF Sent
<1>3. Single'
  BY <1>1, <1>2 DEF Single, SentOnce
<1>4. CASE Sending(job'[f]) = {}
  <2>1. Spot("sent")' = Spot("sent")
    BY <1>2, SpotDefs
  <2>2. \A p \in Places : \A m \in Spot(p)' : m \in Spot(p)
    <3>1. \A g \in Fibers : Sending(job'[g]) \subseteq Sending(job[g])
      BY <1>1, <1>4
    <3> QED
      BY <1>1, <2>1, <3>1, SpotDefs DEF Places, Fibers
  <2> QED
    BY <1>3, <2>2 DEF Apart, FromSpots
<1>5. ASSUME NEW x \in Members(deferred), Sending(job'[f]) = {x},
             x \in Members(deferred') => x \in early
      PROVE  Apart' /\ FromSpots
  <2>1. Arrives(x, f)
    <3>1. \A g \in Fibers : \A m \in Sending(job'[g]) : m \in Sending(job[g]) \/ (f = g /\ m = x)
      BY <1>1, <1>5
    <3> QED
      BY <1>1, <3>1, ArrivesLemma
  <2>2. f \in Places /\ "deferred" \in Places /\ x \in Spot("deferred")
        /\ (x \in Spot("deferred")' => x \in early)
    BY <1>5, SpotDefs DEF Fibers, Places
  <2> QED
    BY <2>1, <2>2, ArrivesApart, ArrivesFrom
<1> QED
  BY <1>1, <1>3, <1>4, <1>5

\* A restart forgets what was on its way.
LEMMA RestartSpots ==
    ASSUME TypeOK, Restart
    PROVE  Sent' = {} /\ Single' /\ \A p \in Places : Spot(p)' = {}
<1>1. /\ inbox' = <<>> /\ deferred' = <<>> /\ boot'.todo = <<>>
      /\ job' = [f \in Fibers |-> Idle] /\ life' = Len(accepted) /\ accepted' = accepted
  BY DEF Restart, NoBoot
<1>2. Sent' = {}
  BY <1>1 DEF Sent, TypeOK
<1>3. Single'
  BY <1>1, <1>2 DEF Single, Distinct, DistinctStarts, SentOnce
<1> QED
  BY <1>1, <1>2, <1>3, IdleType, SpotDefs DEF Places, Starts, Members, Sending, Fibers

\* Every step but a request, the listing of the rows and a restart takes messages from
\* place to place, and none twice.
LEMMA NextSpots ==
    ASSUME TypeOK, Typed, Ascending(rows), Bounded, Once, [Next]_vars
    PROVE  /\ Apart' /\ Single'
           /\ \/ FromSpots
              \/ RequestTurn /\ \A p \in Places : \A m \in Spot(p)' :
                    m = requested' \/ \E q \in Places : m \in Spot(q)
              \/ BeginReconcile /\ \A p \in Places : \A m \in Spot(p)' :
                    m \in Members(rows) \/ \E q \in Places : m \in Spot(q)
<1> DEFINE Goal == Apart' /\ Single' /\ FromSpots
<1> USE DEF tables, reactor, outside, history
<1>0. /\ inbox \in Seq(DomainEvents) /\ job \in [Fibers -> Jobs] /\ deferred \in Seq(Messages)
      /\ rows \in Seq(Messages) /\ boot.todo \in Seq(Messages) /\ InboxOK(inbox)
      /\ \A f \in Fibers : JobOK(job[f])
  BY DEF TypeOK, Typed, Boots
<1>a. Apart /\ Single /\ Resting
  BY DEF Once
<1>b. ASSUME Quiet PROVE Goal
  BY <1>a, <1>b, QuietLemma
<1>c. \A j \in [Fibers -> Jobs] : \A f \in Fibers : Sending(Moved(j)[f]) = Sending(j[f])
  BY MovedLemma DEF Sending
<1>d. "inbox" \in Places /\ "deferred" \in Places /\ "todo" \in Places /\ "sent" \in Places
      /\ Fibers \subseteq Places
  BY DEF Places, Fibers
<1>e. ASSUME UNCHANGED <<accepted, life>> PROVE Sent' = Sent /\ (early' = early => SentOnce')
  <2>1. Sent' = Sent
    BY <1>e DEF Sent
  <2> QED
    BY <1>a, <1>e, <2>1 DEF Single, SentOnce
<1>1. CASE RequestTurn
  <2> DEFINE x == requested'
             e == [kind |-> "start", msg |-> x, status |-> "none"]
  <2>1. x \in Messages /\ x = requested + 1 /\ requested \in Nat
    BY <1>1, Constant DEF RequestTurn, TypeOK, Messages
  <2>2. e \in DomainEvents /\ e.kind = "start" /\ e.msg = x /\ inbox' = Append(inbox, e)
    BY <1>1, <2>1, EventTypes DEF RequestTurn
  <2>3. early \subseteq early' /\ UNCHANGED <<accepted, life, deferred, job, boot>>
    BY <1>1 DEF RequestTurn
  <2> HIDE DEF x, e
  <2>4. \A p \in Places : x \notin Spot(p)
    <3>1. ~(x <= requested)
      BY <2>1
    <3> QED
      BY <3>1 DEF Bounded
  <2>5. x \notin Starts(inbox)
    BY <1>d, <2>4, SpotDefs
  <2>6. Starts(inbox') = Starts(inbox) \cup {x} /\ DistinctStarts(inbox', early)
    BY <1>0, <1>a, <2>2, <2>5, StartsAppend DEF Single
  <2>7. Arrives(x, "inbox")
    BY <2>3, <2>6, ArrivesLemma
  <2>8. Apart'
    BY <1>a, <1>d, <2>3, <2>4, <2>7, ArrivesApart
  <2>9. Single'
    <3>1. Sent' = Sent
      BY <1>e, <2>3
    <3> QED
      BY <1>a, <2>3, <2>6, <3>1 DEF Single, Distinct, DistinctStarts, SentOnce
  <2>10. \A p \in Places : \A m \in Spot(p)' : m = x \/ \E q \in Places : m \in Spot(q)
    BY <2>7 DEF Arrives
  <2> QED
    BY <1>1, <2>8, <2>9, <2>10 DEF x
<1>2. CASE RequestStop
  <2> DEFINE e == [kind |-> "stop", msg |-> None, status |-> "none"]
  <2>1. e \in DomainEvents /\ e.kind # "start" /\ inbox' = Append(inbox, e)
    BY <1>2, EventTypes DEF RequestStop
  <2> HIDE DEF e
  <2>2. Quiet
    BY <1>0, <1>2, <2>1, StartsAppend DEF RequestStop, Quiet
  <2> QED
    BY <1>b, <2>2
<1>3. CASE TakeStart
  <2> DEFINE x == Head(inbox).msg
  <2>1. /\ inbox # <<>> /\ Head(inbox).kind = "start" /\ inbox' = Tail(inbox)
        /\ job["worker"].pc = "idle" /\ Start("worker", x, latch, deferred)
        /\ UNCHANGED <<accepted, life, boot, early>>
    BY <1>3 DEF TakeStart, TakeEvent
  <2>2. x \in Messages
    BY <1>0, <2>1, InboxTail
  <2>3. /\ Starts(inbox') \subseteq Starts(inbox) /\ x \in Starts(inbox)
        /\ DistinctStarts(inbox', early) /\ (x \in Starts(inbox') => x \in early)
    BY <1>0, <1>a, <2>1, StartsTail DEF Single
  <2> HIDE DEF x
  <2>4. "worker" \in Fibers /\ latch \in Latches
    BY DEF Fibers, TypeOK
  <2>5. /\ \A g \in Fibers : g # "worker" => job'[g] = job[g]
        /\ \/ deferred' = Enqueue(deferred, x) /\ job'["worker"].pc = "idle"
           \/ deferred' = deferred /\ job'["worker"].pc = "ensure" /\ job'["worker"].msg = x
    BY <1>0, <2>1, <2>2, <2>4, StartLemma
  <2>6. Distinct(deferred', early)
    BY <1>0, <1>a, <2>2, <2>5, EnqueueLemma DEF Single
  <2>7. PICK to \in {"deferred", "worker"} : Arrives(x, to)
    <3>1. CASE deferred' = Enqueue(deferred, x) /\ job'["worker"].pc = "idle"
      <4>1. Members(deferred') = Members(deferred) \cup {x}
        BY <1>0, <2>2, <3>1, EnqueueLemma
      <4>2. \A g \in Fibers : Sending(job'[g]) \subseteq Sending(job[g])
        BY <2>5, <3>1 DEF Sending
      <4>3. Arrives(x, "deferred")
        BY <2>1, <2>3, <4>1, <4>2, ArrivesLemma
      <4> QED
        BY <4>3
    <3>2. CASE deferred' = deferred /\ job'["worker"].pc = "ensure" /\ job'["worker"].msg = x
      <4>1. \A g \in Fibers : \A m \in Sending(job'[g]) :
               m \in Sending(job[g]) \/ (g = "worker" /\ m = x)
        BY <2>5, <3>2 DEF Sending
      <4>2. Arrives(x, "worker")
        BY <2>1, <2>3, <3>2, <4>1, ArrivesLemma
      <4> QED
        BY <4>2
    <3> QED
      BY <2>5, <3>1, <3>2
  <2>8. x \in Spot("inbox") /\ (x \in Spot("inbox")' => x \in early) /\ to \in Places /\ to # "inbox"
    BY <1>d, <2>3, <2>4, SpotDefs
  <2>9. Apart' /\ FromSpots
    BY <1>a, <1>d, <2>1, <2>7, <2>8, ArrivesApart, ArrivesFrom
  <2> QED
    BY <1>a, <1>e, <2>1, <2>3, <2>6, <2>9 DEF Single
<1>4. CASE TakeSet
  <2>1. /\ inbox # <<>> /\ inbox' = Tail(inbox) /\ job["worker"].pc = "idle"
        /\ UNCHANGED <<accepted, life, boot, early>>
    BY <1>4 DEF TakeSet, TakeEvent
  <2>2. Starts(inbox') \subseteq Starts(inbox) /\ DistinctStarts(inbox', early)
    BY <1>0, <1>a, <2>1, StartsTail DEF Single
  <2>3. CASE StartNext("worker", NoLatch, deferred)
    <3>1. "worker" \in Fibers /\ NoLatch \in Latches
      BY DEF Fibers, NoLatch, Latches
    <3> QED
      BY <1>a, <2>1, <2>2, <2>3, <3>1, TakesNext
  <2>4. CASE UNCHANGED <<deferred, job>>
    <3>1. Quiet
      BY <2>1, <2>2, <2>4 DEF Quiet
    <3> QED
      BY <1>b, <3>1
  <2> QED
    BY <1>4, <2>3, <2>4 DEF TakeSet
<1>5. CASE TakeStop
  <2> DEFINE e == [kind |-> "set", msg |-> None, status |-> "stopped"]
  <2>1. /\ inbox # <<>> /\ inbox' = Append(Tail(inbox), e) /\ e.kind # "start"
        /\ deferred' = <<>> /\ job' = Moved(job) /\ UNCHANGED <<accepted, life, boot, early>>
    BY <1>5 DEF TakeStop, TakeEvent
  <2>2. e \in DomainEvents
    <3>1. [status |-> "stopped", active |-> None] \in Sessions
      BY DEF Sessions
    <3>2. e = [kind |-> "set", msg |-> None,
               status |-> [status |-> "stopped", active |-> None].status]
      OBVIOUS
    <3> HIDE DEF e
    <3> QED
      BY <3>1, <3>2, EventTypes
  <2> HIDE DEF e
  <2>3. Starts(inbox') \subseteq Starts(inbox) /\ DistinctStarts(inbox', early)
    <3>1. /\ Tail(inbox) \in Seq(DomainEvents) /\ Starts(Tail(inbox)) \subseteq Starts(inbox)
          /\ DistinctStarts(Tail(inbox), early)
      BY <1>0, <1>a, <2>1, InboxTail, StartsTail DEF Single
    <3> QED
      BY <2>1, <2>2, <3>1, StartsAppend
  <2>4. Members(deferred') = {} /\ Distinct(deferred', early)
    BY <2>1 DEF Members, Distinct
  <2>5. \A f \in Fibers : Sending(job'[f]) = Sending(job[f])
    BY <1>0, <1>c, <2>1
  <2>6. Spot("sent")' = Spot("sent")
    BY <1>e, <2>1, SpotDefs
  <2>7. \A p \in Places : \A m \in Spot(p)' : m \in Spot(p)
    BY <2>1, <2>3, <2>4, <2>5, <2>6, SpotDefs DEF Places, Fibers
  <2> QED
    BY <1>a, <1>e, <2>1, <2>3, <2>4, <2>7 DEF Apart, FromSpots, Single
<1>6. CASE LatchExpires
  <2>1. Quiet
    BY <1>6 DEF LatchExpires, Quiet
  <2> QED
    BY <1>b, <2>1
<1>7. ASSUME NEW f \in Fibers, Send(f) PROVE Goal
  <2>1. CASE UseSession(f)
    <3>1. \A g \in Fibers : Sending(job'[g]) \subseteq Sending(job[g])
      <4>1. job' = [job EXCEPT ![f].pc = "send"] /\ job[f].pc = "ensure"
        BY <2>1 DEF UseSession
      <4> QED
        BY <1>0, <4>1 DEF Sending, Jobs
    <3>2. Quiet
      BY <2>1, <3>1 DEF UseSession, Quiet
    <3> QED
      BY <1>b, <3>2
  <2>2. CASE BindSession(f)
    <3>1. \A g \in Fibers : Sending(job'[g]) \subseteq Sending(job[g])
      <4> DEFINE mv == Moved(job)
      <4>1. job' = [mv EXCEPT ![f].pc = "send"] /\ job[f].pc = "ensure"
        BY <2>2 DEF BindSession
      <4>2. mv \in [Fibers -> Jobs] /\ mv[f].pc = "ensure"
            /\ \A g \in Fibers : Sending(mv[g]) = Sending(job[g])
        BY <1>0, <1>c, <4>1, MovedLemma
      <4> HIDE DEF mv
      <4>3. Sending(job'[f]) = Sending(mv[f]) /\ \A g \in Fibers : g # f => job'[g] = mv[g]
        BY <4>1, <4>2 DEF Sending, Jobs
      <4> QED
        BY <4>2, <4>3
    <3>2. Starts(inbox') \subseteq Starts(inbox) /\ DistinctStarts(inbox', early)
      <4>1. [status |-> "ready", active |-> None] \in Sessions
        BY DEF Sessions
      <4> QED
        BY <1>a, <2>2, <4>1, SetSessionStarts DEF BindSession, Single
    <3>3. Quiet
      BY <2>2, <3>1, <3>2 DEF BindSession, Quiet
    <3> QED
      BY <1>b, <3>3
  <2>3. CASE Accept(f)
    <3> DEFINE x == job[f].msg
               t == Len(accepted) + 1
    <3>1. /\ job[f].pc = "send" /\ accepted' = Append(accepted, x)
          /\ job' = [job EXCEPT ![f] = [@ EXCEPT !.pc = "reread", !.turn = t]]
          /\ UNCHANGED <<inbox, deferred, boot, life, early>>
      BY <1>0, <2>3 DEF Accept
    <3>2. x \in Messages /\ accepted \in Seq(Messages) /\ Len(accepted) \in Nat /\ life \in Nat
          /\ life <= Len(accepted)
      BY <1>0, <3>1 DEF TypeOK, Typed, JobOK, Jobs
    <3>3. /\ \A u \in Sent : accepted'[u] = accepted[u] /\ u # t
          /\ accepted'[t] = x /\ Sent' = Sent \cup {t}
      <4>1. Len(accepted') = t /\ Sent' = life + 1..t
        BY <3>1, <3>2, AppendLemma DEF Sent
      <4>2. life + 1..t = life + 1..Len(accepted) \cup {t}
        BY <3>2
      <4>3. Sent \subseteq DOMAIN accepted /\ t \notin Sent
        BY <3>2 DEF Sent
      <4> QED
        BY <3>1, <3>2, <4>1, <4>2, <4>3, AppendLemma DEF Sent
    <3>4. \A g \in Fibers : Sending(job'[g]) = IF g = f THEN {} ELSE Sending(job[g])
      <4>1. job'[f].pc = "reread" /\ \A g \in Fibers : g # f => job'[g] = job[g]
        BY <1>0, <3>1 DEF Jobs
      <4> QED
        BY <4>1 DEF Sending
    <3> HIDE DEF t
    <3>5. x \in Spot(f) /\ x \notin Spot(f)'
      <4>a. f \in Fibers
        BY <1>7
      <4>b. Sending(job[f]) = {x}
        BY <3>1 DEF Sending
      <4>c. Sending(job'[f]) = {}
        BY <3>4, <4>a
      <4>1. x \in Sending(job[f]) /\ x \notin Sending(job'[f])
        BY <4>b, <4>c
      <4> HIDE DEF x
      <4> QED
        BY <4>1, SpotDefs DEF Fibers
    <3> HIDE DEF x
    <3>6. Arrives(x, "sent")
      <4>1. Spot("sent")' = Spot("sent") \cup {x}
        BY <3>3, SpotDefs
      <4> QED
        BY <3>1, <3>4, <4>1, SpotDefs DEF Arrives, Places, Fibers
    <3>7. Apart' /\ FromSpots
      BY <1>a, <1>d, <3>1, <3>5, <3>6, ArrivesApart, ArrivesFrom
    <3>8. SentOnce'
      <4>1. x \in Spot("sent") => x \in early
        <5>1. f # "sent"
          BY DEF Fibers
        <5> QED
          BY <1>a, <1>d, <3>5, <5>1 DEF Apart
      <4>2. \A u \in Sent : accepted[u] = x => x \in early
        BY <4>1, SpotDefs
      <4>3. SUFFICES ASSUME NEW u \in Sent', NEW v \in Sent', accepted'[u] = accepted'[v],
                            accepted'[u] \notin early, u # v
                     PROVE  FALSE
        BY <3>1 DEF SentOnce
      <4>4. CASE u \in Sent /\ v \in Sent
        BY <1>a, <3>3, <4>3, <4>4 DEF SentOnce, Single
      <4>5. CASE u = t /\ v \in Sent
        BY <3>3, <4>2, <4>3, <4>5
      <4>6. CASE u \in Sent /\ v = t
        BY <3>3, <4>2, <4>3, <4>6
      <4> QED
        BY <3>3, <4>3, <4>4, <4>5, <4>6
    <3> QED
      BY <1>a, <3>1, <3>7, <3>8 DEF Single
  <2>4. CASE SendFails(f)
    <3>1. \A g \in Fibers : Sending(job'[g]) \subseteq Sending(job[g])
      <4>1. job' = [job EXCEPT ![f].pc = "fail"]
        BY <2>4 DEF SendFails
      <4> QED
        BY <1>0, <4>1 DEF Sending, Jobs
    <3>2. Quiet
      BY <2>4, <3>1 DEF SendFails, Quiet
    <3> QED
      BY <1>b, <3>2
  <2>5. CASE Fail(f)
    <3> DEFINE l == IF latch = [fiber |-> f, msg |-> job[f].msg] THEN NoLatch ELSE latch
    <3>1. StartNext(f, l, deferred) /\ job[f].pc = "fail"
          /\ UNCHANGED <<accepted, life, boot, inbox, early>>
      BY <2>5 DEF Fail
    <3>2. l \in Latches
      BY DEF TypeOK, NoLatch, Latches
    <3> HIDE DEF l
    <3> QED
      BY <1>a, <3>1, <3>2, TakesNext DEF Single
  <2>6. CASE Reread(f)
    <3>1. \A g \in Fibers : Sending(job'[g]) \subseteq Sending(job[g])
      <4>1. job[f].pc = "reread" /\ job'[f].pc \in {"idle", "set"}
            /\ \A g \in Fibers : g # f => job'[g] = job[g]
        BY <1>0, <2>6, IdleType DEF Reread, Jobs
      <4> QED
        BY <4>1 DEF Sending
    <3>2. Quiet
      BY <2>6, <3>1 DEF Reread, Quiet
    <3> QED
      BY <1>b, <3>2
  <2>7. CASE SetRunning(f)
    <3>1. \A g \in Fibers : Sending(job'[g]) \subseteq Sending(job[g])
      <4> DEFINE mv == Moved(job)
      <4>1. job' = [mv EXCEPT ![f] = Idle]
        BY <2>7 DEF SetRunning
      <4>2. mv \in [Fibers -> Jobs] /\ \A g \in Fibers : Sending(mv[g]) = Sending(job[g])
        BY <1>0, <1>c, MovedLemma
      <4> HIDE DEF mv
      <4>3. job'[f] = Idle /\ \A g \in Fibers : g # f => job'[g] = mv[g]
        BY <4>1, <4>2
      <4> QED
        BY <4>2, <4>3, IdleType DEF Sending
    <3>2. Starts(inbox') \subseteq Starts(inbox) /\ DistinctStarts(inbox', early)
      <4>1. [status |-> "running", active |-> job[f].turn] \in Sessions
        BY <1>0 DEF Sessions, Jobs
      <4> QED
        BY <1>a, <2>7, <4>1, SetSessionStarts DEF SetRunning, Single
    <3>3. Quiet
      BY <2>7, <3>1, <3>2 DEF SetRunning, Quiet
    <3> QED
      BY <1>b, <3>3
  <2> QED
    BY <1>7, <2>1, <2>2, <2>3, <2>4, <2>5, <2>6, <2>7 DEF Send
<1>8. CASE BeginReconcile
  <2>1. /\ boot.phase = "rows" /\ boot'.todo = rows
        /\ UNCHANGED <<inbox, deferred, job, accepted, life, early>>
    BY <1>8 DEF BeginReconcile
  <2>2. \A p \in Places : Spot(p) \subseteq early
    BY <1>a, <2>1 DEF Resting
  <2>3. Spot("todo")' = Members(rows) /\ \A p \in Places : p # "todo" => Spot(p)' = Spot(p)
    <3>1. Sent' = Sent
      BY <1>e, <2>1
    <3> QED
      BY <2>1, <3>1, SpotDefs DEF Places
  <2>4. Apart'
    BY <2>1, <2>2, <2>3 DEF Apart
  <2>5. Single'
    BY <1>0, <1>a, <1>e, <2>1, AscendingDistinct DEF Single
  <2>6. \A p \in Places : \A m \in Spot(p)' :
           m \in Members(rows) \/ \E q \in Places : m \in Spot(q)
    BY <2>3
  <2> QED
    BY <1>8, <2>4, <2>5, <2>6
<1>9. CASE Redrive
  <2> DEFINE x == Head(boot.todo)
  <2>1. /\ boot.todo # <<>> /\ boot'.todo = Tail(boot.todo) /\ job["boot"].pc = "idle"
        /\ UNCHANGED <<inbox, accepted, life, early>>
    BY <1>9 DEF Redrive, TypeOK, Boots
  <2>2. x \in Messages
    BY <1>0, <2>1, TailLemma
  <2>3. /\ Members(boot.todo) = {x} \cup Members(boot'.todo) /\ Distinct(boot'.todo, early)
        /\ (x \in Members(boot'.todo) => x \in early)
    BY <1>0, <1>a, <2>1, MembersTail, DistinctTail DEF Single
  <2>4. "boot" \in Fibers /\ latch \in Latches
    BY DEF Fibers, TypeOK
  <2>5. \/ deferred' = Enqueue(deferred, x) /\ \A g \in Fibers : Sending(job'[g]) \subseteq Sending(job[g])
        \/ deferred' = deferred /\ \A g \in Fibers : \A m \in Sending(job'[g]) :
              m \in Sending(job[g]) \/ (g = "boot" /\ m = x)
    <3>1. CASE boot.busy
      BY <1>9, <3>1 DEF Redrive
    <3>2. CASE ~boot.busy
      <4>1. Start("boot", x, latch, deferred)
        BY <1>9, <3>2 DEF Redrive
      <4> HIDE DEF x
      <4>2. /\ \A g \in Fibers : g # "boot" => job'[g] = job[g]
            /\ \/ deferred' = Enqueue(deferred, x) /\ job'["boot"].pc = "idle"
               \/ deferred' = deferred /\ job'["boot"].pc = "ensure" /\ job'["boot"].msg = x
        BY <1>0, <2>2, <2>4, <4>1, StartLemma
      <4> QED
        BY <4>2 DEF Sending
    <3> QED
      BY <3>1, <3>2
  <2> HIDE DEF x
  <2>6. Distinct(deferred', early)
    BY <1>0, <1>a, <2>2, <2>5, EnqueueLemma DEF Single
  <2>7. PICK to \in {"deferred", "boot"} : Arrives(x, to)
    <3>1. Members(Enqueue(deferred, x)) = Members(deferred) \cup {x}
      BY <1>0, <2>2, EnqueueLemma
    <3>2. CASE /\ deferred' = Enqueue(deferred, x)
               /\ \A g \in Fibers : Sending(job'[g]) \subseteq Sending(job[g])
      <4>1. Arrives(x, "deferred")
        BY <2>1, <2>3, <3>1, <3>2, ArrivesLemma
      <4> QED
        BY <4>1
    <3>3. CASE /\ deferred' = deferred
               /\ \A g \in Fibers : \A m \in Sending(job'[g]) :
                     m \in Sending(job[g]) \/ (g = "boot" /\ m = x)
      <4>1. Arrives(x, "boot")
        BY <2>1, <2>3, <3>3, ArrivesLemma
      <4> QED
        BY <4>1
    <3> QED
      BY <2>5, <3>2, <3>3
  <2>8. x \in Spot("todo") /\ (x \in Spot("todo")' => x \in early) /\ to \in Places /\ to # "todo"
    BY <1>d, <2>3, <2>4, SpotDefs
  <2>9. Apart' /\ FromSpots
    BY <1>a, <1>d, <2>1, <2>7, <2>8, ArrivesApart, ArrivesFrom
  <2> QED
    BY <1>a, <1>e, <2>1, <2>3, <2>6, <2>9 DEF Single
<1>10. CASE EndReconcile \/ EndTurn \/ AgentDies \/ Ingest \/ UNCHANGED vars
  <2>1. UNCHANGED <<accepted, life, deferred, early, inbox, job>>
        /\ (boot'.todo = boot.todo \/ boot'.todo = <<>>)
    BY <1>10 DEF EndReconcile, EndTurn, AgentDies, Ingest, vars, NoBoot
  <2>2. Quiet
    BY <2>1 DEF Quiet
  <2> QED
    BY <1>b, <2>2
<1>11. CASE IngestSets
  <2>1. Starts(inbox') \subseteq Starts(inbox) /\ DistinctStarts(inbox', early)
    BY <1>11, <1>a, SetSessionStarts DEF IngestSets, TypeOK, Single
  <2>2. \A g \in Fibers : Sending(job'[g]) = Sending(job[g])
    BY <1>0, <1>11, <1>c DEF IngestSets
  <2>3. Quiet
    BY <1>11, <2>1, <2>2 DEF IngestSets, Quiet
  <2> QED
    BY <1>b, <2>3
<1>12. CASE Restart
  BY <1>12, RestartSpots DEF Apart, FromSpots
<1> HIDE DEF Goal
<1>13. \A f \in Fibers : Send(f) => Goal
  BY <1>7
<1> QED
  BY <1>1, <1>2, <1>3, <1>4, <1>5, <1>6, <1>8, <1>9, <1>10, <1>11, <1>12, <1>13 DEF Next, Goal

\* The reconcile begins after a restart, lists the rows, takes them and ends.
LEMMA BootSteps ==
    ASSUME [Next]_vars
    PROVE  /\ \/ Restart
              \/ boot'.phase = boot.phase /\ boot'.todo = boot.todo
              \/ boot'.phase = "driving"
              \/ boot'.phase = "done" /\ boot'.todo = <<>>
           /\ early \subseteq early'
           /\ RequestTurn /\ boot.phase = "rows" => requested' \in early'
           /\ RequestTurn => boot' = boot
<1> USE DEF tables, reactor, outside, history
<1>1. CASE RequestTurn
  BY <1>1 DEF RequestTurn
<1>2. CASE UNCHANGED <<boot, early, requested>>
  <2>1. ~RequestTurn \/ requested' \in early' \/ boot.phase # "rows"
    BY <1>2 DEF RequestTurn
  <2> QED
    BY <1>2, <2>1
<1>3. CASE ~RequestTurn /\ Restart
  BY <1>3 DEF Restart
<1>4. CASE ~RequestTurn /\ BeginReconcile
  BY <1>4 DEF BeginReconcile
<1>5. CASE ~RequestTurn /\ Redrive
  <2>1. boot' = [boot EXCEPT !.todo = Tail(@)] /\ boot.phase = "driving" /\ early' = early
    BY <1>5 DEF Redrive
  <2>2. boot'.phase = boot.phase
    BY <2>1
  <2> QED
    BY <1>5, <2>1, <2>2
<1>6. CASE ~RequestTurn /\ EndReconcile
  BY <1>6 DEF EndReconcile, NoBoot
<1>7. ASSUME ~(RequestTurn \/ Restart \/ BeginReconcile \/ Redrive \/ EndReconcile)
      PROVE  UNCHANGED <<boot, early, requested>>
  BY <1>7 DEF Next, Send, RequestStop, TakeStart, TakeSet, TakeStop, LatchExpires, UseSession,
     BindSession, Accept, SendFails, Fail, Reread, SetRunning, EndTurn, AgentDies, Ingest,
     IngestSets, vars
<1> QED
  BY <1>1, <1>2, <1>3, <1>4, <1>5, <1>6, <1>7

LEMMA NextResting ==
    ASSUME TypeOK, Typed, Ascending(rows), Bounded, Once, [Next]_vars
    PROVE  Resting'
<1>1. Resting
  BY DEF Once
<1>2. CASE Restart
  BY <1>2, RestartSpots DEF Restart, NoBoot, Resting
<1>3. CASE boot'.phase = "driving"
  BY <1>3 DEF Resting
<1>4. CASE boot'.phase = "done" /\ boot'.todo = <<>>
  BY <1>4 DEF Resting
<1>5. CASE boot'.phase = boot.phase /\ boot'.todo = boot.todo /\ boot'.phase # "driving"
  <2>1. boot'.todo = <<>>
    BY <1>1, <1>5 DEF Resting
  <2>2. ASSUME boot.phase = "rows", NEW p \in Places, NEW m \in Spot(p)' PROVE m \in early'
    <3>1. ~BeginReconcile
      BY <1>5, <2>2 DEF BeginReconcile
    <3>2. (\E q \in Places : m \in Spot(q)) \/ (RequestTurn /\ m = requested')
      BY <2>2, <3>1, NextSpots DEF FromSpots
    <3> QED
      BY <1>1, <2>2, <3>2, BootSteps DEF Resting
  <2> QED
    BY <1>5, <2>1, <2>2 DEF Resting
<1> QED
  BY <1>2, <1>3, <1>4, <1>5, BootSteps
-----------------------------------------------------------------------------
(* Rows and bounds.                                                        *)

\* A row is added at the end, consumed at the head, or removed.
LEMMA ProjectRowsLemma ==
    ASSUME TypeOK, Ascending(rows), NEW s \in Sessions
    PROVE  /\ Ascending(ProjectRows(s))
           /\ Members(ProjectRows(s)) =
                IF Consumes(s) THEN Members(rows) \ {Head(rows)} ELSE Members(rows)
<1>1. Consumes(s) => rows # <<>>
  BY DEF Consumes
<1>2. rows \in Seq(Messages)
  BY DEF TypeOK
<1> QED
  BY <1>1, <1>2, AscendingTail DEF ProjectRows

LEMMA NextRows ==
    ASSUME TypeOK, Typed, Ascending(rows), Bounded, [Next]_vars
    PROVE  /\ Ascending(rows') /\ \A m \in Members(rows') : m <= requested'
           /\ requested \in Nat /\ requested' \in Nat /\ requested <= requested'
<1> USE DEF tables, reactor, outside, history
<1>0. rows \in Seq(Messages) /\ requested \in Nat /\ \A m \in Members(rows) : m <= requested
  BY DEF TypeOK, Bounded, Members
<1>1. CASE RequestTurn
  <2>1. requested' = requested + 1 /\ requested' \in Messages /\ rows' = Append(rows, requested')
    BY <1>1, Constant DEF RequestTurn, TypeOK, Messages
  <2>2. \A i \in DOMAIN rows : rows[i] < requested'
    <3>1. \A i \in DOMAIN rows : rows[i] <= requested /\ rows[i] \in Messages
      BY <1>0 DEF Bounded
    <3>2. requested \in Nat /\ requested' = requested + 1
      BY <1>0, <2>1
    <3>3. \A i \in DOMAIN rows : rows[i] \in Nat
      BY <3>1, Constant
    <3> QED
      BY <3>1, <3>2, <3>3
  <2>3. Ascending(rows')
    BY <1>0, <2>1, <2>2, AscendingAppend
  <2>4. Members(rows') = Members(rows) \cup {requested'}
    BY <1>0, <2>1, MembersAppend
  <2>5. \A m \in Members(rows) : m \in Nat
    <3>1. \A i \in DOMAIN rows : rows[i] \in Messages
      BY <1>0
    <3> QED
      BY <3>1, Constant DEF Members
  <2> QED
    BY <1>0, <2>1, <2>3, <2>4, <2>5
<1>2. ASSUME requested' = requested, Ascending(rows'), Members(rows') \subseteq Members(rows)
      PROVE  /\ Ascending(rows') /\ \A m \in Members(rows') : m <= requested'
             /\ requested \in Nat /\ requested' \in Nat /\ requested <= requested'
  BY <1>0, <1>2
<1>3. ASSUME NEW s \in Sessions, rows' = ProjectRows(s)
      PROVE  Ascending(rows') /\ Members(rows') \subseteq Members(rows)
  BY <1>3, ProjectRowsLemma
<1>4. CASE TakeStop \/ Restart
  <2> DEFINE stopped == [status |-> "stopped", active |-> None]
  <2>1. stopped \in Sessions
    BY DEF Sessions
  <2>2. requested' = requested /\ (rows' = rows \/ rows' = ProjectRows(stopped))
    BY <1>4 DEF TakeStop, Restart
  <2> HIDE DEF stopped
  <2> QED
    BY <1>2, <1>3, <2>1, <2>2
<1>5. ASSUME NEW f \in Fibers, BindSession(f) \/ SetRunning(f)
      PROVE  requested' = requested /\ Ascending(rows') /\ Members(rows') \subseteq Members(rows)
  <2> DEFINE ready == [status |-> "ready", active |-> None]
             running == [status |-> "running", active |-> job[f].turn]
  <2>1. ready \in Sessions /\ running \in Sessions
    BY DEF Sessions, TypeOK, Jobs
  <2>2. requested' = requested /\ (rows' = ProjectRows(ready) \/ rows' = ProjectRows(running))
    BY <1>5 DEF BindSession, SetRunning, SetSession
  <2> HIDE DEF ready, running
  <2> QED
    BY <1>3, <2>1, <2>2
<1>6. CASE IngestSets
  <2>1. requested' = requested /\ rows' = ProjectRows(ingest) /\ ingest \in Sessions
    BY <1>6 DEF IngestSets, SetSession, TypeOK
  <2> QED
    BY <1>2, <1>3, <2>1
<1>7. ASSUME NEW f \in Fibers, Fail(f)
      PROVE  requested' = requested /\ Ascending(rows') /\ Members(rows') \subseteq Members(rows)
  BY <1>0, <1>7, WithoutLemma DEF Fail
<1>8. ASSUME NEW f \in Fibers, UseSession(f) \/ Accept(f) \/ SendFails(f) \/ Reread(f)
      PROVE  UNCHANGED <<rows, requested>>
  BY <1>8 DEF UseSession, Accept, SendFails, Reread
<1>9. \A f \in Fibers : Send(f) =>
        requested' = requested /\ Ascending(rows') /\ Members(rows') \subseteq Members(rows)
  BY <1>5, <1>7, <1>8 DEF Send
<1>10. ASSUME \/ RequestStop \/ TakeStart \/ TakeSet \/ LatchExpires \/ BeginReconcile
              \/ Redrive \/ EndReconcile \/ EndTurn \/ AgentDies \/ Ingest \/ UNCHANGED vars
       PROVE  UNCHANGED <<rows, requested>>
  BY <1>10 DEF RequestStop, TakeStart, TakeSet, LatchExpires, BeginReconcile, Redrive,
     EndReconcile, EndTurn, AgentDies, Ingest, vars
<1> QED
  BY <1>1, <1>2, <1>4, <1>6, <1>9, <1>10 DEF Next

\* A fiber keeps its message, drops it, or begins to send one.
LEMMA NextJobs ==
    ASSUME TypeOK, Typed, [Next]_vars
    PROVE  \A f \in Fibers : job'[f].msg \in {None, job[f].msg} \cup Sending(job'[f])
<1> DEFINE Goal == \A f \in Fibers : job'[f].msg \in {None, job[f].msg} \cup Sending(job'[f])
<1> SUFFICES Goal
  OBVIOUS
<1> USE DEF tables, reactor, outside, history
<1>0. /\ inbox \in Seq(DomainEvents) /\ job \in [Fibers -> Jobs] /\ deferred \in Seq(Messages)
      /\ boot.todo \in Seq(Messages) /\ InboxOK(inbox) /\ latch \in Latches
      /\ NoLatch \in Latches /\ Idle.msg = None
  BY IdleType DEF TypeOK, Typed, Boots, Latches, NoLatch
<1>1. ASSUME NEW f \in Fibers, NEW m \in Messages, Start(f, m, latch, deferred)
      PROVE  Goal
  <2>1. /\ \A g \in Fibers : g # f => job'[g] = job[g]
        /\ job'[f].msg = None \/ (job'[f].pc = "ensure" /\ job'[f].msg = m)
    BY <1>0, <1>1, StartLemma
  <2> QED
    BY <2>1 DEF Sending
<1>2. ASSUME NEW f \in Fibers, NEW l \in Latches, StartNext(f, l, deferred) PROVE Goal
  <2>1. /\ \A g \in Fibers : g # f => job'[g] = job[g]
        /\ job'[f].msg = None \/ job'[f].pc = "ensure"
    BY <1>2, StartNextLemma
  <2> QED
    BY <2>1 DEF Sending
<1>3. CASE TakeStart
  <2>1. Start("worker", Head(inbox).msg, latch, deferred) /\ Head(inbox).msg \in Messages
    BY <1>0, <1>3, InboxTail DEF TakeStart, TakeEvent
  <2> DEFINE m == Head(inbox).msg
  <2>2. "worker" \in Fibers /\ m \in Messages /\ Start("worker", m, latch, deferred)
    BY <2>1 DEF Fibers
  <2> HIDE DEF m, Goal
  <2> QED
    BY <1>1, <2>2
<1>4. CASE TakeSet
  <2>1. StartNext("worker", NoLatch, deferred) \/ job' = job
    BY <1>4 DEF TakeSet
  <2>2. "worker" \in Fibers
    BY DEF Fibers
  <2> QED
    BY <1>0, <1>2, <2>1, <2>2
<1>5. CASE TakeStop \/ IngestSets
  BY <1>0, <1>5, MovedLemma DEF TakeStop, IngestSets
<1>6. CASE Redrive
  <2>1. job' = job \/ Start("boot", Head(boot.todo), latch, deferred)
    BY <1>6 DEF Redrive
  <2>2. "boot" \in Fibers /\ Head(boot.todo) \in Messages
    BY <1>0, <1>6, TailLemma DEF Fibers, Redrive
  <2> DEFINE m == Head(boot.todo)
  <2>3. m \in Messages /\ (job' = job \/ Start("boot", m, latch, deferred))
    BY <2>1, <2>2
  <2> HIDE DEF m
  <2>4. CASE job' = job
    BY <2>4
  <2>5. CASE Start("boot", m, latch, deferred)
    <3> HIDE DEF Goal
    <3> QED
      BY <1>1, <2>2, <2>3, <2>5
  <2> QED
    BY <2>3, <2>4, <2>5
<1>7. ASSUME NEW f \in Fibers, Fail(f) PROVE Goal
  <2> DEFINE l == IF latch = [fiber |-> f, msg |-> job[f].msg] THEN NoLatch ELSE latch
  <2>1. StartNext(f, l, deferred) /\ l \in Latches
    BY <1>0, <1>7 DEF Fail
  <2> HIDE DEF l, Goal
  <2> QED
    BY <1>2, <2>1
<1>8. ASSUME NEW f \in Fibers, UseSession(f) \/ Accept(f) \/ SendFails(f) PROVE Goal
  <2>1. CASE Accept(f)
    <3> DEFINE t == Len(accepted) + 1
    <3>1. job' = [job EXCEPT ![f] = [@ EXCEPT !.pc = "reread", !.turn = t]]
      BY <1>0, <2>1 DEF Accept
    <3> HIDE DEF t
    <3>2. \A g \in Fibers : job'[g].msg = job[g].msg
      BY <1>0, <3>1 DEF Jobs
    <3> QED
      BY <3>2
  <2>2. CASE UseSession(f) \/ SendFails(f)
    <3> DEFINE w(pc) == [job[f] EXCEPT !.pc = pc]
    <3>1. job' = [job EXCEPT ![f] = w("send")] \/ job' = [job EXCEPT ![f] = w("fail")]
      BY <2>2 DEF UseSession, SendFails
    <3>2. w("send").msg = job[f].msg /\ w("fail").msg = job[f].msg
      BY <1>0 DEF Jobs
    <3> HIDE DEF w
    <3>3. \A g \in Fibers : job'[g].msg = job[g].msg
      BY <1>0, <3>1, <3>2
    <3> QED
      BY <3>3
  <2> QED
    BY <1>8, <2>1, <2>2
<1>9. ASSUME NEW f \in Fibers, Reread(f) PROVE Goal
  <2>1. \A g \in Fibers : job'[g].msg \in {None, job[g].msg}
    BY <1>0, <1>9 DEF Reread, Jobs
  <2> QED
    BY <2>1
<1>10. ASSUME NEW f \in Fibers, BindSession(f) \/ SetRunning(f) PROVE Goal
  <2> DEFINE mv == Moved(job)
  <2>1. job' = [mv EXCEPT ![f].pc = "send"] \/ job' = [mv EXCEPT ![f] = Idle]
    BY <1>10 DEF BindSession, SetRunning
  <2>2. mv \in [Fibers -> Jobs] /\ \A g \in Fibers : mv[g].msg = job[g].msg
    BY <1>0, MovedLemma
  <2> HIDE DEF mv
  <2>3. \A g \in Fibers : job'[g].msg \in {None, mv[g].msg}
    BY <1>0, <2>1, <2>2 DEF Jobs
  <2> QED
    BY <2>2, <2>3
<1>11. CASE Restart
  BY <1>0, <1>11 DEF Restart
<1>12. ASSUME \/ RequestTurn \/ RequestStop \/ LatchExpires \/ BeginReconcile \/ EndReconcile
              \/ EndTurn \/ AgentDies \/ Ingest \/ UNCHANGED vars
       PROVE  Goal
  BY <1>12 DEF RequestTurn, RequestStop, LatchExpires, BeginReconcile, EndReconcile, EndTurn,
     AgentDies, Ingest, vars
<1> HIDE DEF Goal
<1>13. \A f \in Fibers : Send(f) => Goal
  BY <1>7, <1>8, <1>9, <1>10 DEF Send
<1> QED
  BY <1>3, <1>4, <1>5, <1>6, <1>11, <1>12, <1>13 DEF Next

\* What the provider takes, and what fails, was being sent.
LEMMA NextTaken ==
    ASSUME TypeOK, Typed, [Next]_vars
    PROVE  /\ \A t \in DOMAIN accepted' : \/ t \in DOMAIN accepted /\ accepted'[t] = accepted[t]
                                          \/ \E f \in Fibers : accepted'[t] = job[f].msg
           /\ \A m \in failed' : m \in failed \/ \E f \in Fibers : m = job[f].msg
<1> DEFINE Goal == /\ \A t \in DOMAIN accepted' :
                          \/ t \in DOMAIN accepted /\ accepted'[t] = accepted[t]
                          \/ \E f \in Fibers : accepted'[t] = job[f].msg
                   /\ \A m \in failed' : m \in failed \/ \E f \in Fibers : m = job[f].msg
<1> SUFFICES Goal
  OBVIOUS
<1> USE DEF tables, reactor, outside, history
<1>1. ASSUME NEW f \in Fibers, Accept(f) PROVE Goal
  <2> DEFINE x == job[f].msg
  <2>1. accepted' = Append(accepted, x) /\ failed' = failed
    BY <1>1 DEF Accept
  <2>2. accepted \in Seq(Messages) /\ x \in Messages
    BY <1>1 DEF TypeOK, Typed, JobOK, Jobs, Accept
  <2> HIDE DEF x
  <2>3. /\ Len(accepted) \in Nat /\ DOMAIN accepted = 1..Len(accepted)
        /\ DOMAIN accepted' = 1..Len(accepted) + 1
        /\ \A t \in DOMAIN accepted : accepted'[t] = accepted[t]
        /\ accepted'[Len(accepted) + 1] = x
    BY <2>1, <2>2, AppendLemma
  <2>4. \A t \in 1..Len(accepted) + 1 : t \in 1..Len(accepted) \/ t = Len(accepted) + 1
    BY <2>3
  <2>5. \A t \in DOMAIN accepted' :
           (t \in DOMAIN accepted /\ accepted'[t] = accepted[t]) \/ accepted'[t] = x
    BY <2>3, <2>4
  <2> QED
    BY <2>1, <2>5 DEF x
<1>2. ASSUME NEW f \in Fibers, Fail(f) PROVE Goal
  BY <1>2 DEF Fail
<1>3. ASSUME UNCHANGED <<accepted, failed>> PROVE Goal
  BY <1>3
<1>4. ASSUME NEW f \in Fibers,
             UseSession(f) \/ BindSession(f) \/ SendFails(f) \/ Reread(f) \/ SetRunning(f)
      PROVE  UNCHANGED <<accepted, failed>>
  BY <1>4 DEF UseSession, BindSession, SendFails, Reread, SetRunning
<1>5. ASSUME \/ RequestTurn \/ RequestStop \/ TakeStart \/ TakeSet \/ TakeStop \/ LatchExpires
             \/ BeginReconcile \/ Redrive \/ EndReconcile \/ EndTurn \/ AgentDies \/ Ingest
             \/ IngestSets \/ Restart \/ UNCHANGED vars
      PROVE  UNCHANGED <<accepted, failed>>
  BY <1>5 DEF RequestTurn, RequestStop, TakeStart, TakeSet, TakeStop, LatchExpires,
     BeginReconcile, Redrive, EndReconcile, EndTurn, AgentDies, Ingest, IngestSets, Restart, vars
<1> HIDE DEF Goal
<1>6. \A f \in Fibers : Send(f) => Goal
  BY <1>1, <1>2, <1>3, <1>4 DEF Send
<1> QED
  BY <1>3, <1>5, <1>6 DEF Next

LEMMA NextBounded ==
    ASSUME TypeOK, Typed, Ascending(rows), Bounded, Once, [Next]_vars
    PROVE  Bounded'
<1>1. /\ \A m \in Members(rows') : m <= requested'
      /\ requested \in Nat /\ requested' \in Nat /\ requested <= requested'
  BY NextRows
<1>2. \A m \in Messages \cup {None} : m <= requested => m <= requested'
  BY <1>1, Constant DEF None
<1>4. \A i \in DOMAIN rows' : rows'[i] <= requested'
  BY <1>1 DEF Members
<1>5. \A f \in Fibers : job[f].msg \in Messages \cup {None} /\ job[f].msg <= requested'
  BY <1>2 DEF TypeOK, Jobs, Bounded
<1>6. \A t \in DOMAIN accepted' : accepted'[t] <= requested'
  BY <1>2, <1>5, NextTaken, SentLemma DEF Bounded
<1>7. \A m \in failed' : m <= requested'
  BY <1>2, <1>5, NextTaken DEF Bounded, TypeOK
<1>8. \A p \in Places : \A m \in Spot(p)' : m <= requested'
  <2>1. \A m \in Members(rows) : m \in Messages /\ m <= requested
    BY DEF TypeOK, Members, Bounded
  <2>2. \A p \in Places : \A m \in Spot(p) : m \in Messages \cup {None}
    <3>1. Starts(inbox) \subseteq Messages \cup {None}
      <4>1. \A i \in DOMAIN inbox : inbox[i] \in DomainEvents
        BY DEF TypeOK
      <4> QED
        BY <4>1 DEF Starts, DomainEvents
    <3>2. Members(deferred) \subseteq Messages /\ Members(boot.todo) \subseteq Messages
      BY DEF Members, TypeOK, Boots
    <3>3. \A f \in Fibers : Sending(job[f]) \subseteq Messages \cup {None}
      BY DEF Sending, TypeOK, Jobs
    <3>4. {accepted[t] : t \in Sent} \subseteq Messages
      BY SentLemma
    <3> QED
      BY <3>1, <3>2, <3>3, <3>4, SpotDefs DEF Places, Fibers
  <2>3. \A p \in Places : \A m \in Spot(p) : m <= requested'
    BY <1>2, <2>2 DEF Bounded
  <2>4. requested' <= requested'
    BY <1>1
  <2> QED
    BY <1>2, <2>1, <2>3, <2>4, NextSpots DEF FromSpots
<1>9. \A f \in Fibers : job'[f].msg <= requested'
  <2> SUFFICES ASSUME NEW f \in Fibers PROVE job'[f].msg <= requested'
    OBVIOUS
  <2>1. f \in Places /\ Spot(f)' = Sending(job'[f])
    BY SpotDefs DEF Places, Fibers
  <2>2. None <= requested'
    BY <1>1 DEF None
  <2> QED
    BY <1>5, <1>8, <2>1, <2>2, NextJobs
<1> QED
  BY <1>4, <1>6, <1>7, <1>8, <1>9 DEF Bounded
-----------------------------------------------------------------------------
(* Turns and rows, as long as nothing disturbed them.                      *)

\* Steps that touch neither the rows nor the turns.
LEMMA PairedKept ==
    ASSUME Paired, UNCHANGED <<rows, turns, requested, accepted, life, failed>>,
           \A p \in Places : \A m \in Spot(p)' :
              m \in Members(rows) \/ \E q \in Places : m \in Spot(q)
    PROVE  Paired'
<1>1. Sent' = Sent
  BY DEF Sent
<1>2. Spot("sent")' = Spot("sent")
  BY <1>1, SpotDefs
<1>3. \A m : Taken(m)' <=> Taken(m)
  BY DEF Taken
<1>4. \A p \in Places : \A m \in Spot(p)' :
         m \in Members(rows) \/ m \in failed \/ m \in Spot("sent")'
  BY <1>2 DEF Paired
<1> QED
  BY <1>1, <1>3, <1>4 DEF Paired

LEMMA PairedRequest ==
    ASSUME TypeOK, Typed, Ascending(rows), Bounded, Paired, RequestTurn,
           \A p \in Places : \A m \in Spot(p)' : m = requested' \/ \E q \in Places : m \in Spot(q)
    PROVE  Paired'
<1> DEFINE x == requested'
<1>1. /\ x = requested + 1 /\ rows' = Append(rows, x) /\ requested \in Nat
      /\ x \in Messages
      /\ UNCHANGED <<turns, accepted, life, failed>>
  BY Constant DEF RequestTurn, tables, outside, history, TypeOK, Messages
<1>2. rows \in Seq(Messages)
  BY DEF TypeOK
<1>3. /\ Members(rows') = Members(rows) \cup {x} /\ rows' # <<>>
      /\ rows # <<>> => Head(rows') = Head(rows)
  BY <1>1, <1>2, AppendLemma, MembersAppend
<1>4. ~(x <= requested)
  BY <1>1
<1>5. \A t \in DOMAIN accepted : accepted[t] # x
  BY <1>4 DEF Bounded
<1>6. x \notin failed
  BY <1>4 DEF Bounded
<1>7. \A m \in 1..x : m \in 1..requested \/ m = x
  BY <1>1
<1> HIDE DEF x
<1>8. Sent' = Sent /\ Spot("sent")' = Spot("sent")
  BY <1>1, SpotDefs DEF Sent
<1>9. \A m : Taken(m)' <=> Taken(m)
  BY <1>1 DEF Taken
<1>10. \A t \in Turns : turns'[t].msg # None =>
          t \in DOMAIN accepted' /\ turns'[t].msg = accepted'[t] /\ turns'[t].msg \notin Members(rows')
  BY <1>1, <1>3, <1>5 DEF Paired
<1>11. failed' \cap Members(rows') = {}
  BY <1>1, <1>3, <1>6 DEF Paired
<1>12. \A m \in 1..requested' : Taken(m)' \/ m \in failed' \/ m \in Members(rows')
  BY <1>1, <1>3, <1>7, <1>9 DEF Paired, x
<1>13. \A t \in Sent' : turns'[t].msg = None =>
          t = Len(accepted') /\ rows' # <<>> /\ Head(rows') = accepted'[t]
  BY <1>1, <1>3, <1>8 DEF Paired
<1>14. \A p \in Places : \A m \in Spot(p)' :
          m \in Members(rows') \/ m \in failed' \/ m \in Spot("sent")'
  BY <1>1, <1>3, <1>8 DEF Paired, x
<1> QED
  BY <1>10, <1>11, <1>12, <1>13, <1>14 DEF Paired

\* A turn that begins to run takes the row of its message.
LEMMA PairedSet ==
    ASSUME TypeOK, Typed, Ascending(rows), Paired, NEW s \in Sessions, SessionOK(s),
           turns' = ProjectTurns(s), rows' = ProjectRows(s),
           UNCHANGED <<requested, accepted, life, failed>>, FromSpots
    PROVE  Paired'
<1>1. /\ \A t \in Turns : turns'[t].msg =
            IF Consumes(s) /\ t = s.active THEN Head(rows) ELSE turns[t].msg
      /\ rows # <<>> => Head(rows) \in Messages
  BY ProjectLemma DEF SessionOK
<1>2. Members(rows') = IF Consumes(s) THEN Members(rows) \ {Head(rows)} ELSE Members(rows)
  BY ProjectRowsLemma
<1>3. Sent' = Sent /\ Spot("sent")' = Spot("sent") /\ Sent \subseteq Turns
  BY SentLemma, SpotDefs DEF Sent
<1>4. \A m : Taken(m)' <=> Taken(m)
  BY DEF Taken
<1>5. \A p \in Places : \A m \in Spot(p)' :
         m \in Members(rows) \/ m \in failed \/ m \in Spot("sent")
  BY DEF FromSpots, Paired
<1>6. CASE ~Consumes(s)
  <2>1. rows' = rows
    BY <1>6 DEF ProjectRows
  <2> QED
    BY <1>1, <1>3, <1>4, <1>5, <1>6, <2>1 DEF Paired
<1>7. CASE Consumes(s)
  <2> DEFINE a == s.active
             h == Head(rows)
  <2>1. a \in Sent /\ rows # <<>> /\ turns[a].msg \in {None, h}
    BY <1>7 DEF Consumes, SessionOK
  <2>2. h \in Members(rows) /\ h # None
    <3>1. h \in Members(rows)
      BY <2>1, MembersTail DEF TypeOK
    <3> QED
      BY <1>1, <2>1, <3>1, Constant
  <2>3. turns[a].msg = None
    BY <1>3, <2>1, <2>2 DEF Paired
  <2>4. a = Len(accepted) /\ h = accepted[a] /\ a \in DOMAIN accepted
    BY <2>1, <2>3, SentLemma DEF Paired
  <2>5. Members(rows') = Members(rows) \ {h}
    BY <1>2, <1>7
  <2>6. \A t \in Turns : turns'[t].msg = IF t = a THEN h ELSE turns[t].msg
    BY <1>1, <1>7
  <2> HIDE DEF a, h
  <2>7. \A t \in Turns : turns'[t].msg # None =>
           t \in DOMAIN accepted' /\ turns'[t].msg = accepted'[t] /\ turns'[t].msg \notin Members(rows')
    BY <2>4, <2>5, <2>6 DEF Paired
  <2>8. \A m \in 1..requested' : Taken(m)' \/ m \in failed' \/ m \in Members(rows')
    <3>1. Taken(h)
      BY <2>4 DEF Taken
    <3> QED
      BY <1>4, <2>5, <3>1 DEF Paired
  <2>9. \A t \in Sent' : turns'[t].msg # None
    <3> SUFFICES ASSUME NEW t \in Sent, turns'[t].msg = None PROVE FALSE
      BY <1>3
    <3>1. t # a /\ turns[t].msg = None
      BY <1>3, <2>2, <2>6
    <3> QED
      BY <2>4, <3>1 DEF Paired
  <2>10. h \in Spot("sent")
    BY <2>1, <2>4, SpotDefs
  <2>11. \A p \in Places : \A m \in Spot(p)' :
            m \in Members(rows') \/ m \in failed' \/ m \in Spot("sent")'
    BY <1>3, <1>5, <2>5, <2>10
  <2>12. failed' \cap Members(rows') = {}
    BY <2>5 DEF Paired
  <2> QED
    BY <2>7, <2>8, <2>9, <2>11, <2>12 DEF Paired
<1> QED
  BY <1>6, <1>7

\* The provider takes the message of the first row.
LEMMA PairedAccept ==
    ASSUME TypeOK, Typed, Ascending(rows), Paired, NEW f \in Fibers, Accept(f), ~disturbed',
           FromSpots
    PROVE  Paired'
<1> DEFINE x == job[f].msg
           n == Len(accepted) + 1
<1>1. /\ job[f].pc = "send" /\ accepted' = Append(accepted, x) /\ InTurn(x)
      /\ UNCHANGED <<rows, turns, requested, life, failed>>
  BY DEF Accept, tables
<1>2. x \in Messages /\ accepted \in Seq(Messages) /\ life \in Nat
  BY <1>1 DEF TypeOK, Typed, JobOK, Jobs
<1>3. /\ Len(accepted) \in Nat /\ Len(accepted') = n /\ accepted'[n] = x
      /\ DOMAIN accepted' = 1..n /\ DOMAIN accepted \subseteq DOMAIN accepted'
      /\ \A t \in DOMAIN accepted : accepted'[t] = accepted[t]
  BY <1>1, <1>2, AppendLemma
<1>4. life' + 1..n \subseteq Sent \cup {n} /\ Sent \subseteq life' + 1..n
  BY <1>1, <1>2, <1>3 DEF Sent
<1>5. Sent' \subseteq Sent \cup {n} /\ Sent \subseteq Sent' /\ Sent \subseteq DOMAIN accepted
  BY <1>3, <1>4, SentLemma DEF Sent
<1>6. x \in Members(rows)
  <2>1. x \in Spot(f) /\ f \in Places
    <3>1. Sending(job[f]) = {x}
      BY <1>1 DEF Sending
    <3> HIDE DEF x
    <3> QED
      BY <3>1, SpotDefs DEF Places, Fibers
  <2> HIDE DEF x
  <2>2. x \notin failed /\ x \notin Spot("sent")
    BY <1>1, SpotDefs DEF InTurn
  <2> QED
    BY <2>1, <2>2 DEF Paired
<1> HIDE DEF x
<1>7. rows # <<>> /\ Head(rows) = x
  <2>1. rows # <<>> /\ rows \in Seq(Messages)
    BY <1>6 DEF Members, TypeOK
  <2>2. Head(rows) \in Messages /\ Head(rows) \in Members(rows) /\ Head(rows) <= x
    <3>1. x >= Head(rows) /\ Head(rows) \in Messages /\ Head(rows) \in Members(rows)
      BY <1>6, <2>1, AscendingTail, MembersTail, TailLemma
    <3> QED
      BY <1>2, <3>1, Constant
  <2> DEFINE h == Head(rows)
  <2>3. h \in Messages /\ h \in Members(rows) /\ h <= x
    BY <2>2
  <2> HIDE DEF h
  <2>4. ASSUME h # x PROVE FALSE
    <3>1. h \in 1..x - 1
      BY <1>2, <2>3, <2>4 DEF Messages
    <3>2. h \in failed \/ \E t \in Turns : turns[t].msg = h
      BY <1>1, <3>1 DEF InTurn
    <3>3. h # None
      BY <2>3, Constant
    <3> QED
      BY <2>3, <3>2, <3>3 DEF Paired
  <2> QED
    BY <2>1, <2>4 DEF h
<1>8. \A t \in Turns : turns'[t].msg # None =>
         t \in DOMAIN accepted' /\ turns'[t].msg = accepted'[t] /\ turns'[t].msg \notin Members(rows')
  BY <1>1, <1>3 DEF Paired
<1>9. \A m \in 1..requested' : Taken(m)' \/ m \in failed' \/ m \in Members(rows')
  <2>1. \A m : Taken(m) => Taken(m)'
    BY <1>1, <1>3 DEF Taken
  <2> QED
    BY <1>1, <2>1 DEF Paired
<1>10. \A t \in Sent' : turns'[t].msg = None =>
         t = Len(accepted') /\ rows' # <<>> /\ Head(rows') = accepted'[t]
  BY <1>1, <1>3, <1>5, <1>7 DEF InTurn
<1>11. \A p \in Places : \A m \in Spot(p)' :
          m \in Members(rows') \/ m \in failed' \/ m \in Spot("sent")'
  <2>1. Spot("sent") \subseteq Spot("sent")'
    BY <1>3, <1>5, SpotDefs
  <2> QED
    BY <1>1, <2>1 DEF FromSpots, Paired
<1> QED
  BY <1>1, <1>8, <1>9, <1>10, <1>11 DEF Paired

\* A send that fails takes its row along.
LEMMA PairedFail ==
    ASSUME TypeOK, Typed, Ascending(rows), Paired, NEW f \in Fibers, Fail(f), ~disturbed',
           FromSpots
    PROVE  Paired'
<1> DEFINE x == job[f].msg
<1>1. /\ rows' = Without(rows, x) /\ failed' = failed \cup {x}
      /\ \A t \in Sent : accepted[t] # x
      /\ UNCHANGED <<turns, requested, accepted, life>>
  BY DEF Fail, outside
<1> HIDE DEF x
<1>2. /\ Members(rows') = Members(rows) \ {x}
      /\ rows # <<>> /\ Head(rows) # x => rows' # <<>> /\ Head(rows') = Head(rows)
  BY <1>1, WithoutLemma DEF TypeOK
<1>3. Sent' = Sent /\ Spot("sent")' = Spot("sent")
  BY <1>1, SpotDefs DEF Sent
<1>4. \A t \in Turns : turns'[t].msg # None =>
         t \in DOMAIN accepted' /\ turns'[t].msg = accepted'[t] /\ turns'[t].msg \notin Members(rows')
  BY <1>1, <1>2 DEF Paired
<1>5. \A m \in 1..requested' : Taken(m)' \/ m \in failed' \/ m \in Members(rows')
  BY <1>1, <1>2 DEF Paired, Taken
<1>6. \A t \in Sent' : turns'[t].msg = None =>
         t = Len(accepted') /\ rows' # <<>> /\ Head(rows') = accepted'[t]
  BY <1>1, <1>2, <1>3 DEF Paired
<1>7. \A p \in Places : \A m \in Spot(p)' :
         m \in Members(rows') \/ m \in failed' \/ m \in Spot("sent")'
  BY <1>1, <1>2, <1>3 DEF FromSpots, Paired
<1>8. failed' \cap Members(rows') = {}
  BY <1>1, <1>2 DEF Paired
<1> QED
  BY <1>4, <1>5, <1>6, <1>7, <1>8 DEF Paired

\* After a restart nothing is on its way; the rows are as they were.
LEMMA PairedRestart ==
    ASSUME TypeOK, Paired, Restart
    PROVE  Paired'
<1> DEFINE stopped == [status |-> "stopped", active |-> None]
<1>1. stopped \in Sessions /\ stopped.status = "stopped"
  BY DEF Sessions
<1>2. /\ \/ UNCHANGED <<turns, rows>>
         \/ turns' = ProjectTurns(stopped) /\ rows' = ProjectRows(stopped)
      /\ UNCHANGED <<requested, accepted, failed>>
  BY DEF Restart, tables
<1> HIDE DEF stopped
<1>3. ~Consumes(stopped)
  BY <1>1 DEF Consumes
<1>4. rows' = rows /\ \A t \in Turns : turns'[t].msg = turns[t].msg
  BY <1>1, <1>2, <1>3, ProjectLemma DEF ProjectRows
<1>5. \A m : Taken(m)' <=> Taken(m)
  BY <1>2 DEF Taken
<1> QED
  BY <1>2, <1>4, <1>5, RestartSpots DEF Paired

LEMMA NextPaired ==
    ASSUME TypeOK, Typed, Ascending(rows), Bounded, Once, ~disturbed => Paired, [Next]_vars
    PROVE  ~disturbed' => Paired'
<1> DEFINE Goal == ~disturbed' => Paired'
           SetsSession ==
               \E s \in Sessions :
                   /\ SessionOK(s) /\ turns' = ProjectTurns(s) /\ rows' = ProjectRows(s)
                   /\ UNCHANGED <<requested, accepted, life, failed, disturbed>>
<1> SUFFICES Goal
  OBVIOUS
<1> USE DEF tables, reactor, outside, history
<1>1. CASE RequestTurn
  <2>1. disturbed' = disturbed /\ requested' = requested + 1 /\ requested \in Nat /\ ~BeginReconcile
    BY <1>1 DEF RequestTurn, TypeOK, BeginReconcile
  <2>2. \A p \in Places : \A m \in Spot(p)' : m = requested' \/ \E q \in Places : m \in Spot(q)
    BY <2>1, NextSpots DEF FromSpots
  <2> QED
    BY <1>1, <2>1, <2>2, PairedRequest
<1>2. CASE Restart
  BY <1>2, PairedRestart DEF Restart
<1>3. ASSUME ~RequestTurn, ~BeginReconcile PROVE FromSpots
  BY <1>3, NextSpots
<1>4. ASSUME UNCHANGED <<rows, turns, requested, accepted, life, failed, disturbed>>
      PROVE  Goal
  <2>1. ~RequestTurn
    BY <1>4 DEF RequestTurn, TypeOK
  <2>2. \A p \in Places : \A m \in Spot(p)' :
           m \in Members(rows) \/ \E q \in Places : m \in Spot(q)
    BY <2>1, NextSpots DEF FromSpots
  <2> QED
    BY <1>4, <2>2, PairedKept
<1>5. ASSUME SetsSession PROVE Goal
  <2>1. PICK s \in Sessions :
           /\ SessionOK(s) /\ turns' = ProjectTurns(s) /\ rows' = ProjectRows(s)
           /\ UNCHANGED <<requested, accepted, life, failed, disturbed>>
    BY <1>5
  <2>2. CASE FromSpots
    BY <2>1, <2>2, PairedSet
  <2>3. CASE BeginReconcile
    BY <1>4, <2>1, <2>3 DEF BeginReconcile
  <2>4. ~RequestTurn
    BY <2>1 DEF RequestTurn, TypeOK
  <2> QED
    BY <1>3, <2>2, <2>3, <2>4
<1>6. ASSUME NEW f \in Fibers, Send(f) PROVE Goal
  <2>1. CASE BindSession(f)
    <3> DEFINE s == [status |-> "ready", active |-> None]
    <3>1. s \in Sessions /\ SessionOK(s)
      BY DEF Sessions, SessionOK
    <3>2. /\ turns' = ProjectTurns(s) /\ rows' = ProjectRows(s)
          /\ UNCHANGED <<requested, accepted, life, failed, disturbed>>
      BY <2>1 DEF BindSession, SetSession
    <3> HIDE DEF s, Goal
    <3> QED
      BY <1>5, <3>1, <3>2
  <2>2. CASE SetRunning(f)
    <3> DEFINE s == [status |-> "running", active |-> job[f].turn]
    <3>1. job[f].turn \in Sent
      BY <2>2 DEF SetRunning, Typed, JobOK
    <3>2. s \in Sessions /\ SessionOK(s)
      BY <3>1, SentLemma, Constant DEF Sessions, SessionOK
    <3>3. /\ turns' = ProjectTurns(s) /\ rows' = ProjectRows(s)
          /\ UNCHANGED <<requested, accepted, life, failed, disturbed>>
      BY <2>2 DEF SetRunning, SetSession
    <3> HIDE DEF s, Goal
    <3> QED
      BY <1>5, <3>2, <3>3
  <2>3. CASE UseSession(f) \/ SendFails(f) \/ Reread(f)
    BY <1>4, <2>3 DEF UseSession, SendFails, Reread
  <2>4. CASE Accept(f) \/ Fail(f)
    <3>1. ~disturbed' => ~disturbed
      BY <2>4 DEF Accept, Fail, TypeOK
    <3>2. UNCHANGED boot
      BY <2>4 DEF Accept, Fail
    <3>3. requested' = requested
      BY <2>4 DEF Accept, Fail
    <3>4. ~RequestTurn /\ ~BeginReconcile
      BY <3>2, <3>3 DEF RequestTurn, BeginReconcile, TypeOK
    <3> QED
      BY <1>3, <2>4, <3>1, <3>4, PairedAccept, PairedFail
  <2> QED
    BY <1>6, <2>1, <2>2, <2>3, <2>4 DEF Send
<1>7. CASE TakeStop
  <2> DEFINE s == [status |-> "stopped", active |-> None]
  <2>1. s \in Sessions /\ SessionOK(s)
    BY DEF Sessions, SessionOK
  <2>2. /\ turns' = ProjectTurns(s) /\ rows' = ProjectRows(s)
        /\ UNCHANGED <<requested, accepted, life, failed, disturbed>>
    BY <1>7 DEF TakeStop
  <2> HIDE DEF s, Goal
  <2> QED
    BY <1>5, <2>1, <2>2
<1>8. CASE IngestSets
  <2>1. /\ ingest \in Sessions /\ SessionOK(ingest)
        /\ turns' = ProjectTurns(ingest) /\ rows' = ProjectRows(ingest)
        /\ UNCHANGED <<requested, accepted, life, failed, disturbed>>
    BY <1>8 DEF IngestSets, SetSession, TypeOK, Typed
  <2> HIDE DEF Goal
  <2> QED
    BY <1>5, <2>1
<1>9. ASSUME \/ RequestStop \/ TakeStart \/ TakeSet \/ LatchExpires \/ BeginReconcile \/ Redrive
             \/ EndReconcile \/ EndTurn \/ AgentDies \/ Ingest \/ UNCHANGED vars
      PROVE  Goal
  <2>1. UNCHANGED <<rows, turns, requested, accepted, life, failed, disturbed>>
    BY <1>9 DEF RequestStop, TakeStart, TakeSet, LatchExpires, BeginReconcile, Redrive,
       EndReconcile, EndTurn, AgentDies, Ingest, vars
  <2> HIDE DEF Goal
  <2> QED
    BY <1>4, <2>1
<1> HIDE DEF Goal
<1>10. \A f \in Fibers : Send(f) => Goal
  BY <1>6
<1> QED
  BY <1>1, <1>2, <1>7, <1>8, <1>9, <1>10 DEF Next
-----------------------------------------------------------------------------
(* The invariant.                                                          *)

LEMMA InitIInv == Init => IInv
<1> SUFFICES ASSUME Init PROVE IInv
  OBVIOUS
<1> USE DEF Init
<1>1. TypeOK
  <2>1. /\ NoSet \in Sessions /\ NoLatch \in Latches /\ NoBoot \in Boots /\ Idle \in Jobs
    <3>1. <<>> \in Seq(Messages)
      OBVIOUS
    <3> QED
      BY <3>1, IdleType DEF NoSet, Sessions, NoLatch, Latches, NoBoot, Boots
  <2>2. turns \in [Turns -> TurnRows]
    BY DEF TurnRows
  <2>3. rows \in Seq(Messages) /\ inbox \in Seq(DomainEvents) /\ deferred \in Seq(Messages)
        /\ runtime \in Seq(RuntimeEvents) /\ accepted \in Seq(Messages)
    OBVIOUS
  <2>4. job \in [Fibers -> Jobs]
    BY <2>1
  <2>5. requested \in 0..MaxMessages /\ faults \in 0..MaxFaults
    BY Constant
  <2>6. provider \in [alive : BOOLEAN, turn : Turns \cup {None}]
    OBVIOUS
  <2> QED
    BY <2>1, <2>2, <2>3, <2>4, <2>5, <2>6 DEF TypeOK
<1>2. Len(accepted) = 0 /\ DOMAIN accepted = {} /\ Sent = {}
  BY DEF Sent
<1>3. Typed
  BY <1>2, IdleType, Constant DEF Typed, InboxOK, RuntimeOK, SessionOK, JobOK, NoSet
<1>4. Ascending(rows)
  BY DEF Ascending
<1>5. \A p \in Places : Spot(p) = {}
  BY <1>2, IdleType, SpotDefs DEF Places, Starts, Members, Sending, Fibers, NoBoot
<1>6. Bounded
  <2>1. \A f \in Fibers : job[f].msg <= requested
    BY IdleType DEF None
  <2>2. DOMAIN rows = {}
    OBVIOUS
  <2> QED
    BY <1>2, <1>5, <2>1, <2>2 DEF Bounded
<1>7. Once
  BY <1>2, <1>5 DEF Once, Apart, Single, Resting, Distinct, DistinctStarts, SentOnce, NoBoot
<1>8. Paired
  <2>1. \A t \in Turns : turns[t].msg = None
    OBVIOUS
  <2>2. 1..requested = {}
    OBVIOUS
  <2> QED
    BY <1>2, <1>5, <2>1, <2>2 DEF Paired
<1> QED
  BY <1>1, <1>3, <1>4, <1>6, <1>7, <1>8 DEF IInv

LEMMA NextIInv == IInv /\ [Next]_vars => IInv'
<1> SUFFICES ASSUME IInv, [Next]_vars PROVE IInv'
  OBVIOUS
<1>1. TypeOK /\ Typed /\ Ascending(rows) /\ Bounded /\ Once /\ (~disturbed => Paired)
  BY DEF IInv
<1>2. TypeOK' /\ Typed'
  BY <1>1, NextTypes
<1>3. Ascending(rows)'
  BY <1>1, NextRows
<1>4. Bounded'
  BY <1>1, NextBounded
<1>5. Once'
  BY <1>1, NextSpots, NextResting DEF Once
<1>6. (~disturbed => Paired)'
  BY <1>1, NextPaired
<1> QED
  BY <1>2, <1>3, <1>4, <1>5, <1>6 DEF IInv

LEMMA Invariance == Spec => []IInv
BY InitIInv, NextIInv, PTL DEF Spec

\* Session, rows, queues, latch and fibers keep their types, through every interleaving
\* of user, reactor, provider and ingestion, and through restarts.
THEOREM TurnTypeCorrect == Spec => []TypeOK
<1>1. IInv => TypeOK
  BY DEF IInv
<1> QED
  BY <1>1, Invariance, PTL

\* One life of the server sends a message to the provider at most once, whether its start
\* comes from the hot stream, from the deferred starts or from the re-driven rows.
THEOREM MessagesAreSentOnce == Spec => []SentOnce
<1>1. IInv => SentOnce
  BY DEF IInv, Once, Single
<1> QED
  BY <1>1, Invariance, PTL

\* A requested turn that was neither sent nor refused has its pending row, also when a stop
\* forgot that it was deferred, unless a send was out of its turn.
THEOREM UnsentTurnsKeepTheirRow == Spec => []UnsentIsDurable
<1>1. IInv => UnsentIsDurable
  BY DEF IInv, Paired, UnsentIsDurable
<1> QED
  BY <1>1, Invariance, PTL

\* The row that a turn takes when it begins to run is the row of its message, unless a send
\* was out of its turn.
THEOREM TurnsTakeTheirRow == Spec => []TurnOwnsItsMessage
<1>1. IInv => TurnOwnsItsMessage
  BY DEF IInv, Paired, TurnOwnsItsMessage
<1> QED
  BY <1>1, Invariance, PTL
=============================================================================

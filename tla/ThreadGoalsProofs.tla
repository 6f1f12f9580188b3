------------------------- MODULE ThreadGoalsProofs -------------------------
(***************************************************************************)
(* Theorems about ThreadGoals, for any budget and any number of             *)
(* lifecycles, turns, changes and faults: the types, that a turn is never   *)
(* bound to a lifecycle newer than the one its start was requested for, and *)
(* that a token is charged to the lifecycle its turn was requested for.     *)
(***************************************************************************)
EXTENDS ThreadGoals, TLAPS

Asks(e) == e.kind = "requested"
Binds(e) == e.kind \in {"started", "set"}
Asked(q, m) == \E i \in DOMAIN q : Asks(q[i]) /\ q[i].msg = m

\* The start of m is in the ingestion's memory, or on its way there.
Alive(q, p, m) == m \in Members(p) \/ Asked(q, m)

\* m was requested after all that was sent.
Later(a, m) == \A t \in DOMAIN a : a[t].msg < m

Begun == {t \in Turns : HasRow(t)}
Setting == ingest.pc \in {"set", "notice"}
Starting == Setting /\ ingest.set.status = "running"
Ascending(seq) == \A i, j \in DOMAIN seq : i < j => seq[i] < seq[j]

\* Lifecycles are numbered in the order they are set, and requested in that order.
LivesOK ==
    /\ goal.status # "none" => goal.life = lives /\ goal.life \in Lives
    /\ \A i \in DOMAIN msgs : msgs[i] <= lives
    /\ \A i, j \in DOMAIN msgs : i < j => msgs[i] <= msgs[j]

Starts(in) == {in[i].msg : i \in {k \in DOMAIN in : in[k].kind = "continue"}}

\* The reactor takes starts in the order they were requested, each once.
InboxOK(in, a, n) ==
    /\ \A m \in Starts(in) : m \in 1..n /\ Later(a, m)
    /\ \A i, j \in DOMAIN in :
          i < j /\ in[i].kind = "continue" /\ in[j].kind = "continue" => in[i].msg < in[j].msg

\* The provider has the turn, and its session is not yet set to running.
Sent(j) == j.pc \in {"reread", "set"}

JobOK(j, in, a, ms) ==
    /\ j.pc # "idle" => j.msg \in 1..Len(ms)
    /\ j.pc \in {"ensure", "prebind", "send"} =>
          /\ Later(a, j.msg)
          /\ \A m \in Starts(in) : j.msg < m
    /\ j.pc \in {"send", "reread", "set"} => j.life \in {None, ms[j.msg]}
    /\ Sent(j) => j.turn \in DOMAIN a /\ j.turn = Len(a) /\ a[j.turn].msg = j.msg

SentInOrder(a) == \A t, u \in DOMAIN a : t < u => a[t].msg < a[u].msg

\* What the ingestion hears of: turns that were sent, bound turns that have a row.
HeardOK(q, a, begun, n) ==
    \A i \in DOMAIN q :
        /\ Asks(q[i]) => q[i].msg \in 1..n
        /\ ~Asks(q[i]) => q[i].turn \in DOMAIN a
        /\ q[i].kind = "set" => q[i].turn \in begun

\* Turns not yet known are heard of in the order they were sent.
BindersOK(q, k) ==
    \A i, j \in DOMAIN q : i < j /\ Binds(q[i]) /\ Binds(q[j]) /\ q[j].turn \notin k
                             => q[i].turn <= q[j].turn

\* Starts are heard of in the order they were requested.
AskersOK(q, p) ==
    /\ Ascending(p)
    /\ \A i \in DOMAIN p, j \in DOMAIN q : Asks(q[j]) => p[i] < q[j].msg
    /\ \A i, j \in DOMAIN q : i < j /\ Asks(q[i]) /\ Asks(q[j]) => q[i].msg < q[j].msg

\* The start of a turn is heard of before the turn, and remembered until then.
Remembers(q, p, k, a) ==
    \A j \in DOMAIN q : Binds(q[j]) /\ q[j].turn \notin k =>
        \/ a[q[j].turn].msg \in Members(p)
        \/ \E i \in DOMAIN q : i < j /\ Asks(q[i]) /\ q[i].msg = a[q[j].turn].msg

QueueOK(q, p, k, a, begun, n) ==
    HeardOK(q, a, begun, n) /\ BindersOK(q, k) /\ AskersOK(q, p) /\ Remembers(q, p, k, a)

\* A start that was not sent, or whose turn the ingestion will hear of, is remembered.
StartsOK ==
    /\ \A m \in Messages : Later(accepted, m) => Alive(queue, pending, m)
    /\ Sent(job) /\ job.turn \notin known => Alive(queue, pending, job.msg)

\* Turns were sent, and a turn that is known has a row or gets one next.
RowsOK ==
    /\ Begun \subseteq DOMAIN accepted /\ (provider # None => provider \in DOMAIN accepted)
    /\ \A t \in known : t \in Begun \/ (Starting /\ ingest.set.active = t)
    /\ Starting => ingest.set.active \in known /\ ingest.set.active \in DOMAIN accepted

\* A turn is bound to the lifecycle it was requested for, an earlier one, or none.
Behind(l, m) == l = None \/ l <= msgs[m]
NeverAhead ==
    /\ \A t \in Begun : Behind(turns[t].life, accepted[t].msg)
    /\ Starting => Behind(ingest.set.life, accepted[ingest.set.active].msg)

\* The session's turn has a row and is bound in time; a session that is set to idle has none.
Bound(s) == s.active # None => s.active \in Begun /\ Behind(s.life, accepted[s.active].msg)
SessionOK ==
    /\ Bound(session)
    /\ Setting /\ ~Starting => ingest.set.active = None

ChargesOK == \A c \in charged : c.turn \in DOMAIN accepted /\ msgs[accepted[c.turn].msg] = c.life

IInv ==
    /\ TypeOK /\ LivesOK
    /\ InboxOK(inbox, accepted, Len(msgs)) /\ JobOK(job, inbox, accepted, msgs)
    /\ SentInOrder(accepted)
    /\ QueueOK(queue, pending, known, accepted, Begun, Len(msgs))
    /\ StartsOK /\ RowsOK /\ NeverAhead /\ SessionOK /\ ChargesOK
-----------------------------------------------------------------------------
(* Sequences.                                                              *)

LEMMA TailLemma ==
    ASSUME NEW S, NEW seq \in Seq(S), seq # <<>>
    PROVE  /\ Tail(seq) \in Seq(S) /\ Head(seq) \in S /\ Head(seq) = seq[1]
           /\ 1 \in DOMAIN seq /\ DOMAIN seq \subseteq Nat \ {0}
           /\ DOMAIN Tail(seq) \subseteq Nat \ {0}
           /\ \A i \in DOMAIN Tail(seq) : i + 1 \in DOMAIN seq /\ Tail(seq)[i] = seq[i + 1]
           /\ \A i \in DOMAIN seq : i = 1 \/ (i - 1 \in DOMAIN Tail(seq) /\ Tail(seq)[i - 1] = seq[i])
<1>1. /\ Tail(seq) \in Seq(S) /\ Head(seq) = seq[1] /\ Len(seq) \in Nat /\ Len(seq) >= 1
      /\ Len(Tail(seq)) = Len(seq) - 1
      /\ DOMAIN seq = 1..Len(seq) /\ DOMAIN Tail(seq) = 1..Len(seq) - 1
  OBVIOUS
<1>2. \A i \in 1..Len(seq) - 1 : Tail(seq)[i] = seq[i + 1]
  OBVIOUS
<1>3. seq[1] \in S
  BY <1>1
<1> QED
  BY <1>1, <1>2, <1>3

LEMMA ElementLemma ==
    ASSUME NEW S, NEW seq \in Seq(S), NEW i \in DOMAIN seq
    PROVE  seq[i] \in S
OBVIOUS

\* An appended sequence holds the old one and one more.
LEMMA AppendLemma ==
    ASSUME NEW S, NEW seq \in Seq(S), NEW e \in S
    PROVE  LET a == Append(seq, e) IN
           /\ a \in Seq(S) /\ Len(seq) \in Nat /\ Len(a) = Len(seq) + 1
           /\ DOMAIN seq = 1..Len(seq) /\ DOMAIN a = 1..Len(a) /\ Len(a) \in DOMAIN a
           /\ \A i \in DOMAIN seq : i \in DOMAIN a /\ i < Len(a) /\ a[i] = seq[i]
           /\ a[Len(a)] = e
           /\ \A i \in DOMAIN a : i \in DOMAIN seq \/ i = Len(a)
OBVIOUS

LEMMA MembersAppend ==
    ASSUME NEW S, NEW seq \in Seq(S), NEW e \in S
    PROVE  Members(Append(seq, e)) = Members(seq) \cup {e}
BY AppendLemma DEF Members

\* Of an ascending sequence only the least is not in the rest.
LEMMA AscendingRest ==
    ASSUME NEW n \in Nat, NEW seq \in Seq(1..n), Ascending(seq)
    PROVE  /\ Rest(seq) \in Seq(1..n) /\ Ascending(Rest(seq)) /\ Members(Rest(seq)) \subseteq Members(seq)
           /\ seq # <<>> => \A m \in Members(seq) : Head(seq) <= m
           /\ seq # <<>> => Head(seq) \in Members(seq)
           /\ \A m \in Members(seq) : m = Head(seq) \/ m \in Members(Rest(seq))
<1>1. CASE seq = <<>>
  BY <1>1 DEF Rest, Members, Ascending
<1>2. CASE seq # <<>>
  <2> DEFINE r == Tail(seq)
  <2>1. /\ r \in Seq(1..n) /\ Head(seq) = seq[1] /\ 1 \in DOMAIN seq
        /\ DOMAIN seq \subseteq Nat /\ DOMAIN r \subseteq Nat
        /\ \A i \in DOMAIN r : i + 1 \in DOMAIN seq /\ r[i] = seq[i + 1]
        /\ \A i \in DOMAIN seq : i = 1 \/ (i - 1 \in DOMAIN r /\ r[i - 1] = seq[i])
    BY <1>2, TailLemma
  <2>2. Rest(seq) = r
    BY <1>2 DEF Rest
  <2> HIDE DEF r
  <2>3. \A i \in DOMAIN seq : seq[i] \in Int /\ i \in Nat
    OBVIOUS
  <2>4. Ascending(r)
    <3> SUFFICES ASSUME NEW i \in DOMAIN r, NEW j \in DOMAIN r, i < j PROVE r[i] < r[j]
      BY DEF Ascending
    <3>1. i + 1 < j + 1 /\ i + 1 \in DOMAIN seq /\ j + 1 \in DOMAIN seq
      BY <2>1
    <3> QED
      BY <2>1, <3>1 DEF Ascending
  <2>5. \A i \in DOMAIN seq : seq[1] <= seq[i]
    <3> SUFFICES ASSUME NEW i \in DOMAIN seq PROVE seq[1] <= seq[i]
      OBVIOUS
    <3>1. i = 1 \/ 1 < i
      OBVIOUS
    <3> QED
      BY <2>1, <2>3, <3>1 DEF Ascending
  <2>6. Members(r) \subseteq Members(seq) /\ Head(seq) \in Members(seq)
    BY <2>1 DEF Members
  <2>7. \A m \in Members(seq) : Head(seq) <= m /\ (m = Head(seq) \/ m \in Members(r))
    <3> SUFFICES ASSUME NEW i \in DOMAIN seq
                 PROVE  Head(seq) <= seq[i] /\ (seq[i] = Head(seq) \/ seq[i] \in Members(r))
      BY DEF Members
    <3>1. i = 1 \/ (i - 1 \in DOMAIN r /\ r[i - 1] = seq[i])
      BY <2>1
    <3>2. i # 1 => seq[i] \in Members(r)
      BY <3>1 DEF Members
    <3> QED
      BY <2>1, <2>5, <3>2
  <2> QED
    BY <1>2, <2>1, <2>2, <2>4, <2>6, <2>7
<1> QED
  BY <1>1, <1>2

LEMMA RestType == ASSUME NEW S, NEW seq \in Seq(S) PROVE Rest(seq) \in Seq(S)
<1>1. CASE seq = <<>>
  BY <1>1 DEF Rest
<1>2. CASE seq # <<>>
  BY <1>2, TailLemma DEF Rest
<1> QED
  BY <1>1, <1>2

LEMMA WithoutType ==
    ASSUME NEW S, NEW seq \in Seq(S), NEW m
    PROVE  Without(seq, m) \in Seq(S)
<1>1. CASE m \notin Members(seq)
  BY <1>1 DEF Without
<1>2. CASE m \in Members(seq)
  <2> DEFINE k == CHOOSE i \in DOMAIN seq : seq[i] = m
             w == [j \in 1..Len(seq) - 1 |-> IF j < k THEN seq[j] ELSE seq[j + 1]]
  <2>1. k \in DOMAIN seq
    BY <1>2 DEF Members
  <2>2. Without(seq, m) = w
    BY <1>2 DEF Without
  <2>3. Len(seq) \in Nat /\ DOMAIN seq = 1..Len(seq) /\ k \in 1..Len(seq)
    BY <2>1
  <2> HIDE DEF k
  <2>4. Len(seq) - 1 \in Nat /\ w \in [1..Len(seq) - 1 -> S]
    BY <2>3
  <2> HIDE DEF w
  <2> QED
    BY <2>2, <2>4
<1> QED
  BY <1>1, <1>2
-----------------------------------------------------------------------------
(* The ingestion's queue and its memory.                                   *)

\* An event that is new to the queue.
LEMMA QueueAppend ==
    ASSUME NEW S, NEW q \in Seq(S), NEW e \in S, NEW p, NEW k, NEW a, NEW begun, NEW n,
           QueueOK(q, p, k, a, begun, n),
           Asks(e) => /\ e.msg \in 1..n
                      /\ \A i \in DOMAIN p : p[i] < e.msg
                      /\ \A i \in DOMAIN q : Asks(q[i]) => q[i].msg < e.msg,
           ~Asks(e) => e.turn \in DOMAIN a,
           e.kind = "set" => e.turn \in begun,
           Binds(e) /\ e.turn \notin k =>
              /\ \A i \in DOMAIN q : Binds(q[i]) => q[i].turn <= e.turn
              /\ Alive(q, p, a[e.turn].msg)
    PROVE  QueueOK(Append(q, e), p, k, a, begun, n)
<1> DEFINE r == Append(q, e)
<1>1. /\ Len(r) \in DOMAIN r /\ r[Len(r)] = e
      /\ \A i \in DOMAIN q : i \in DOMAIN r /\ i < Len(r) /\ r[i] = q[i]
      /\ \A i \in DOMAIN r : i \in DOMAIN q \/ i = Len(r)
      /\ DOMAIN r = 1..Len(r) /\ Len(r) \in Nat
  BY AppendLemma
<1> HIDE DEF r
<1>2. \A i, j \in DOMAIN r : i < j => i \in DOMAIN q
  BY <1>1
<1>3. HeardOK(r, a, begun, n)
  BY <1>1 DEF QueueOK, HeardOK
<1>4. BindersOK(r, k)
  <2> SUFFICES ASSUME NEW i \in DOMAIN r, NEW j \in DOMAIN r, i < j, Binds(r[i]), Binds(r[j]),
                      r[j].turn \notin k
               PROVE  r[i].turn <= r[j].turn
    BY DEF BindersOK
  <2>1. i \in DOMAIN q /\ r[i] = q[i]
    BY <1>1, <1>2
  <2>2. CASE j \in DOMAIN q
    BY <1>1, <2>1, <2>2 DEF QueueOK, BindersOK
  <2>3. CASE j = Len(r)
    BY <1>1, <2>1, <2>3
  <2> QED
    BY <1>1, <2>2, <2>3
<1>5. AskersOK(r, p)
  <2>1. Ascending(p)
    BY DEF QueueOK, AskersOK
  <2>2. \A i \in DOMAIN p, j \in DOMAIN r : Asks(r[j]) => p[i] < r[j].msg
    BY <1>1 DEF QueueOK, AskersOK
  <2>3. ASSUME NEW i \in DOMAIN r, NEW j \in DOMAIN r, i < j, Asks(r[i]), Asks(r[j])
        PROVE  r[i].msg < r[j].msg
    <3>1. i \in DOMAIN q /\ r[i] = q[i]
      BY <1>1, <1>2, <2>3
    <3>2. CASE j \in DOMAIN q
      BY <1>1, <2>3, <3>1, <3>2 DEF QueueOK, AskersOK
    <3>3. CASE j = Len(r)
      BY <1>1, <2>3, <3>1, <3>3
    <3> QED
      BY <1>1, <3>2, <3>3
  <2> QED
    BY <2>1, <2>2, <2>3 DEF AskersOK
<1>6. Remembers(r, p, k, a)
  <2> SUFFICES ASSUME NEW j \in DOMAIN r, Binds(r[j]), r[j].turn \notin k,
                      a[r[j].turn].msg \notin Members(p)
               PROVE  \E i \in DOMAIN r : i < j /\ Asks(r[i]) /\ r[i].msg = a[r[j].turn].msg
    BY DEF Remembers
  <2>1. CASE j \in DOMAIN q
    <3>1. \E i \in DOMAIN q : i < j /\ Asks(q[i]) /\ q[i].msg = a[q[j].turn].msg
      BY <1>1, <2>1 DEF QueueOK, Remembers
    <3> QED
      BY <1>1, <2>1, <3>1
  <2>2. CASE j = Len(r)
    <3>1. \E i \in DOMAIN q : Asks(q[i]) /\ q[i].msg = a[e.turn].msg
      BY <1>1, <2>2 DEF Alive, Asked
    <3> QED
      BY <1>1, <2>2, <3>1
  <2> QED
    BY <1>1, <2>1, <2>2
<1> QED
  BY <1>3, <1>4, <1>5, <1>6 DEF QueueOK, r

\* More turns, rows, starts and more that is known.
LEMMA QueueGrows ==
    ASSUME NEW q, NEW p, NEW k, NEW a, NEW begun, NEW n \in Nat, QueueOK(q, p, k, a, begun, n),
           NEW kk, k \subseteq kk, NEW aa, DOMAIN a \subseteq DOMAIN aa,
           \A t \in DOMAIN a : aa[t].msg = a[t].msg,
           NEW begunn, begun \subseteq begunn, NEW nn \in Nat, n <= nn
    PROVE  QueueOK(q, p, kk, aa, begunn, nn)
<1>1. HeardOK(q, aa, begunn, nn)
  BY DEF QueueOK, HeardOK
<1>2. BindersOK(q, kk)
  BY DEF QueueOK, BindersOK
<1>3. Remembers(q, p, kk, aa)
  <2> SUFFICES ASSUME NEW j \in DOMAIN q, Binds(q[j]), q[j].turn \notin kk,
                      aa[q[j].turn].msg \notin Members(p)
               PROVE  \E i \in DOMAIN q : i < j /\ Asks(q[i]) /\ q[i].msg = aa[q[j].turn].msg
    BY DEF Remembers
  <2>1. q[j].turn \in DOMAIN a /\ q[j].turn \notin k
    BY DEF QueueOK, HeardOK, Asks, Binds
  <2>2. aa[q[j].turn].msg = a[q[j].turn].msg
    BY <2>1
  <2> QED
    BY <2>1, <2>2 DEF QueueOK, Remembers
<1> QED
  BY <1>1, <1>2, <1>3 DEF QueueOK

\* The first event is taken: a start is remembered, nothing else is.
LEMMA QueueTail ==
    ASSUME NEW m \in Nat, NEW q \in Seq(HeardEvents(m)), q # <<>>,
           NEW p, NEW k, NEW a, NEW begun, NEW n,
           QueueOK(q, p, k, a, begun, n), ~Asks(Head(q))
    PROVE  QueueOK(Tail(q), p, k, a, begun, n)
<1> DEFINE r == Tail(q)
<1>1. /\ Head(q) = q[1] /\ 1 \in DOMAIN q /\ DOMAIN q \subseteq Nat /\ DOMAIN r \subseteq Nat
      /\ \A i \in DOMAIN r : i + 1 \in DOMAIN q /\ r[i] = q[i + 1]
      /\ \A i \in DOMAIN q : i = 1 \/ (i - 1 \in DOMAIN r /\ r[i - 1] = q[i])
  BY TailLemma
<1> HIDE DEF r
<1>2. HeardOK(r, a, begun, n)
  BY <1>1 DEF QueueOK, HeardOK
<1>3. \A i, j \in DOMAIN r : i < j => i + 1 \in DOMAIN q /\ j + 1 \in DOMAIN q /\ i + 1 < j + 1
  BY <1>1
<1>4. BindersOK(r, k)
  BY <1>1, <1>3 DEF QueueOK, BindersOK
<1>5. AskersOK(r, p)
  BY <1>1, <1>3 DEF QueueOK, AskersOK
<1>6. Remembers(r, p, k, a)
  <2> SUFFICES ASSUME NEW j \in DOMAIN r, Binds(r[j]), r[j].turn \notin k,
                      a[r[j].turn].msg \notin Members(p)
               PROVE  \E i \in DOMAIN r : i < j /\ Asks(r[i]) /\ r[i].msg = a[r[j].turn].msg
    BY DEF Remembers
  <2>1. j + 1 \in DOMAIN q /\ r[j] = q[j + 1]
    BY <1>1
  <2>2. PICK i \in DOMAIN q : i < j + 1 /\ Asks(q[i]) /\ q[i].msg = a[q[j + 1].turn].msg
    BY <2>1 DEF QueueOK, Remembers
  <2>3. i # 1 /\ i - 1 \in DOMAIN r /\ r[i - 1] = q[i]
    BY <1>1, <2>2
  <2>4. i - 1 < j
    BY <1>1, <2>2
  <2> QED
    BY <2>1, <2>2, <2>3, <2>4
<1> QED
  BY <1>2, <1>4, <1>5, <1>6 DEF QueueOK, r

LEMMA AliveTail ==
    ASSUME NEW m \in Nat, NEW q \in Seq(HeardEvents(m)), q # <<>>, NEW p, NEW x, Alive(q, p, x)
    PROVE  Alive(Tail(q), p, x) \/ (Asks(Head(q)) /\ Head(q).msg = x)
<1>1. CASE x \in Members(p)
  BY <1>1 DEF Alive
<1>2. ASSUME NEW i \in DOMAIN q, Asks(q[i]), q[i].msg = x
      PROVE  Alive(Tail(q), p, x) \/ (Asks(Head(q)) /\ Head(q).msg = x)
  <2>1. i = 1 \/ (i - 1 \in DOMAIN Tail(q) /\ Tail(q)[i - 1] = q[i])
    BY TailLemma
  <2>2. CASE i = 1
    BY <1>2, <2>2
  <2>3. CASE i - 1 \in DOMAIN Tail(q) /\ Tail(q)[i - 1] = q[i]
    BY <1>2, <2>3 DEF Alive, Asked
  <2> QED
    BY <2>1, <2>2, <2>3
<1> QED
  BY <1>1, <1>2 DEF Alive, Asked

LEMMA AliveAppend ==
    ASSUME NEW S, NEW q \in Seq(S), NEW e \in S, NEW p, NEW x
    PROVE  /\ Alive(q, p, x) => Alive(Append(q, e), p, x)
           /\ Asks(e) => Alive(Append(q, e), p, e.msg)
BY AppendLemma DEF Alive, Asked

\* A start that was requested is heard of: it is the newest the memory holds.
LEMMA QueueAsk ==
    ASSUME NEW n \in Nat, NEW q \in Seq(HeardEvents(n)), q # <<>>, NEW p \in Seq(1..n),
           NEW k, NEW a, NEW begun,
           QueueOK(q, p, k, a, begun, n), Asks(Head(q))
    PROVE  LET m == Head(q).msg IN
           /\ Enqueued(p, m) = Append(p, m) /\ m \in 1..n /\ Append(p, m) \in Seq(1..n)
           /\ QueueOK(Tail(q), Append(p, m), k, a, begun, n)
           /\ \A x : Alive(q, p, x) => Alive(Tail(q), Append(p, m), x)
<1> DEFINE r == Tail(q)
           m == Head(q).msg
           pp == Append(p, m)
<1>1. /\ Head(q) = q[1] /\ 1 \in DOMAIN q /\ DOMAIN q \subseteq Nat /\ DOMAIN r \subseteq Nat
      /\ \A i \in DOMAIN r : i + 1 \in DOMAIN q /\ r[i] = q[i + 1]
      /\ \A i \in DOMAIN q : i = 1 \/ (i - 1 \in DOMAIN r /\ r[i - 1] = q[i])
  BY TailLemma
<1>2. m \in 1..n /\ \A i \in DOMAIN p : p[i] < m
  BY <1>1 DEF QueueOK, HeardOK, AskersOK
<1>3. m \notin Members(p)
  BY <1>2 DEF Members
<1>4. Enqueued(p, m) = Append(p, m)
  BY <1>3 DEF Enqueued
<1> HIDE DEF r, m
<1>5. /\ pp \in Seq(1..n) /\ Members(pp) = Members(p) \cup {m}
      /\ \A i \in DOMAIN p : i \in DOMAIN pp /\ i < Len(pp) /\ pp[i] = p[i]
      /\ pp[Len(pp)] = m /\ Len(pp) \in Nat
      /\ \A i \in DOMAIN pp : i \in DOMAIN p \/ i = Len(pp)
      /\ DOMAIN pp = 1..Len(pp)
  <2>1. m \in 1..n
    BY <1>2
  <2>2. Members(pp) = Members(p) \cup {m}
    BY <2>1, MembersAppend
  <2>3. /\ pp \in Seq(1..n) /\ Len(pp) = Len(p) + 1 /\ Len(p) \in Nat
        /\ DOMAIN pp = 1..Len(pp)
        /\ \A i \in DOMAIN p : i \in DOMAIN pp /\ i < Len(pp) /\ pp[i] = p[i]
        /\ pp[Len(pp)] = m
        /\ \A i \in DOMAIN pp : i \in DOMAIN p \/ i = Len(pp)
    BY <2>1, AppendLemma
  <2> HIDE DEF pp
  <2> QED
    BY <2>2, <2>3
<1>6. \A x : Alive(q, p, x) => Alive(r, pp, x)
  BY <1>5, AliveTail DEF Alive, r, m
<1> HIDE DEF pp
<1>7. HeardOK(r, a, begun, n)
  BY <1>1 DEF QueueOK, HeardOK
<1>8. \A i, j \in DOMAIN r : i < j => i + 1 \in DOMAIN q /\ j + 1 \in DOMAIN q /\ i + 1 < j + 1
  BY <1>1
<1>9. BindersOK(r, k)
  BY <1>1, <1>8 DEF QueueOK, BindersOK
<1>10. \A j \in DOMAIN r : Asks(r[j]) => m < r[j].msg
  <2> SUFFICES ASSUME NEW j \in DOMAIN r, Asks(r[j]) PROVE m < r[j].msg
    OBVIOUS
  <2>1. 1 < j + 1 /\ j + 1 \in DOMAIN q /\ r[j] = q[j + 1] /\ 1 \in DOMAIN q
    BY <1>1 DEF r
  <2>2. q[1].msg < q[j + 1].msg
    BY <1>1, <2>1 DEF QueueOK, AskersOK
  <2> QED
    BY <1>1, <2>1, <2>2 DEF m
<1>11. AskersOK(r, pp)
  <2>1. Ascending(pp)
    <3> SUFFICES ASSUME NEW i \in DOMAIN pp, NEW j \in DOMAIN pp, i < j PROVE pp[i] < pp[j]
      BY DEF Ascending
    <3>1. i \in DOMAIN p
      BY <1>5
    <3>2. CASE j \in DOMAIN p
      BY <1>5, <3>1, <3>2 DEF QueueOK, AskersOK, Ascending
    <3>3. CASE j = Len(pp)
      BY <1>2, <1>5, <3>1, <3>3
    <3> QED
      BY <1>5, <3>2, <3>3
  <2>2. \A i \in DOMAIN pp, j \in DOMAIN r : Asks(r[j]) => pp[i] < r[j].msg
    BY <1>1, <1>5, <1>10 DEF QueueOK, AskersOK
  <2>3. \A i, j \in DOMAIN r : i < j /\ Asks(r[i]) /\ Asks(r[j]) => r[i].msg < r[j].msg
    BY <1>1, <1>8 DEF QueueOK, AskersOK
  <2> QED
    BY <2>1, <2>2, <2>3 DEF AskersOK
<1>12. Remembers(r, pp, k, a)
  <2> SUFFICES ASSUME NEW j \in DOMAIN r, Binds(r[j]), r[j].turn \notin k,
                      a[r[j].turn].msg \notin Members(pp)
               PROVE  \E i \in DOMAIN r : i < j /\ Asks(r[i]) /\ r[i].msg = a[r[j].turn].msg
    BY DEF Remembers
  <2>1. j + 1 \in DOMAIN q /\ r[j] = q[j + 1]
    BY <1>1
  <2>2. PICK i \in DOMAIN q : i < j + 1 /\ Asks(q[i]) /\ q[i].msg = a[q[j + 1].turn].msg
    BY <1>5, <2>1 DEF QueueOK, Remembers
  <2>3. i # 1
    BY <1>1, <1>5, <2>1, <2>2 DEF m
  <2>4. i - 1 \in DOMAIN r /\ r[i - 1] = q[i]
    BY <1>1, <2>2, <2>3 DEF r
  <2>5. i - 1 < j
    <3>1. i \in Nat /\ j \in Nat /\ i < j + 1
      BY <1>1, <2>2 DEF r
    <3> QED
      BY <3>1
  <2> QED
    BY <2>1, <2>2, <2>4, <2>5
<1>13. QueueOK(r, pp, k, a, begun, n)
  BY <1>7, <1>9, <1>11, <1>12 DEF QueueOK
<1> QED
  BY <1>2, <1>4, <1>5, <1>6, <1>13 DEF r, m, pp

LEMMA LaterLemma ==
    ASSUME NEW n \in Nat, NEW h \in 1..n, NEW v \in 1..n, NEW x \in 1..n, h <= v, v < x
    PROVE  x # h
OBVIOUS

\* A turn is heard of for the first time: its start is remembered, and the oldest
\* start, which is its own or one requested before, is forgotten.
LEMMA QueuePop ==
    ASSUME NEW n \in Nat, NEW q \in Seq(HeardEvents(n)), q # <<>>, NEW p \in Seq(1..n),
           NEW k, NEW a \in Seq([msg : 1..n, life : LifeOrNone]), NEW begun,
           QueueOK(q, p, k, a, begun, n), SentInOrder(a),
           Binds(Head(q)), Head(q).turn \notin k
    PROVE  LET u == Head(q).turn IN
           /\ u \in DOMAIN a /\ p # <<>> /\ Head(p) \in 1..n /\ Head(p) <= a[u].msg
           /\ Rest(p) \in Seq(1..n)
           /\ QueueOK(Tail(q), Rest(p), k \cup {u}, a, begun, n)
           /\ \A x \in 1..n : x > a[u].msg /\ Alive(q, p, x) => Alive(Tail(q), Rest(p), x)
<1> DEFINE r == Tail(q)
           u == Head(q).turn
           pp == Rest(p)
<1>1. /\ Head(q) = q[1] /\ 1 \in DOMAIN q /\ DOMAIN q \subseteq Nat /\ DOMAIN r \subseteq Nat
      /\ \A i \in DOMAIN r : i + 1 \in DOMAIN q /\ r[i] = q[i + 1]
      /\ \A i \in DOMAIN q : i = 1 \/ (i - 1 \in DOMAIN r /\ r[i - 1] = q[i])
  BY TailLemma
<1>2. ~Asks(Head(q)) /\ u \in DOMAIN a
  BY <1>1 DEF QueueOK, HeardOK, Asks, Binds
<1> HIDE DEF u, pp
<1>3. a[u].msg \in Members(p)
  <2>1. ~\E i \in DOMAIN q : i < 1
    BY <1>1
  <2> QED
    BY <1>1, <2>1 DEF QueueOK, Remembers, u
<1>4. p # <<>>
  BY <1>3 DEF Members
<1>5. Ascending(p)
  BY DEF QueueOK, AskersOK
<1>6. /\ pp \in Seq(1..n) /\ Ascending(pp) /\ Members(pp) \subseteq Members(p)
      /\ Head(p) <= a[u].msg /\ Head(p) \in Members(p)
      /\ \A m \in Members(p) : m = Head(p) \/ m \in Members(pp)
  BY <1>3, <1>4, <1>5, AscendingRest DEF pp
<1>7. Head(p) \in 1..n /\ a[u].msg \in 1..n
  <2>1. a[u] \in [msg : 1..n, life : LifeOrNone]
    BY <1>2, ElementLemma
  <2> QED
    BY <1>4, <2>1
<1>8. QueueOK(r, p, k, a, begun, n)
  BY <1>2, QueueTail
<1>9. \A x \in 1..n : x > a[u].msg /\ Alive(q, p, x) => Alive(r, pp, x)
  <2> SUFFICES ASSUME NEW x \in 1..n, x > a[u].msg, Alive(q, p, x) PROVE Alive(r, pp, x)
    OBVIOUS
  <2>1. Alive(r, p, x)
    BY <1>2, AliveTail
  <2>2. x # Head(p)
    <3>1. Head(p) <= a[u].msg /\ Head(p) \in 1..n /\ a[u].msg \in 1..n
      BY <1>6, <1>7
    <3> QED
      BY <3>1, LaterLemma
  <2> QED
    BY <1>6, <2>1, <2>2 DEF Alive
<1>10. \A j \in DOMAIN r : Binds(r[j]) /\ r[j].turn \notin k \cup {u} => u < r[j].turn
  <2> SUFFICES ASSUME NEW j \in DOMAIN r, Binds(r[j]), r[j].turn \notin k \cup {u}
               PROVE  u < r[j].turn
    OBVIOUS
  <2>1. 1 < j + 1 /\ j + 1 \in DOMAIN q /\ r[j] = q[j + 1] /\ 1 \in DOMAIN q
    BY <1>1
  <2>2. u <= r[j].turn /\ u # r[j].turn
    BY <1>1, <2>1 DEF QueueOK, BindersOK, u
  <2>3. r[j].turn \in DOMAIN a
    BY <1>8 DEF QueueOK, HeardOK, Asks, Binds
  <2>4. DOMAIN a \subseteq Nat
    OBVIOUS
  <2> QED
    BY <1>2, <2>2, <2>3, <2>4
<1> HIDE DEF r
<1>11. Remembers(r, pp, k \cup {u}, a)
  <2> SUFFICES ASSUME NEW j \in DOMAIN r, Binds(r[j]), r[j].turn \notin k \cup {u},
                      a[r[j].turn].msg \notin Members(pp)
               PROVE  \E i \in DOMAIN r : i < j /\ Asks(r[i]) /\ r[i].msg = a[r[j].turn].msg
    BY DEF Remembers
  <2>1. r[j].turn \in DOMAIN a
    BY <1>8 DEF QueueOK, HeardOK, Asks, Binds
  <2>2. a[u].msg < a[r[j].turn].msg /\ a[r[j].turn].msg \in 1..n
    <3>1. u < r[j].turn
      BY <1>10
    <3>2. a[r[j].turn] \in [msg : 1..n, life : LifeOrNone]
      BY <2>1, ElementLemma
    <3> QED
      BY <1>2, <2>1, <3>1, <3>2 DEF SentInOrder
  <2>3. a[r[j].turn].msg # Head(p)
    <3>1. Head(p) <= a[u].msg /\ Head(p) \in 1..n /\ a[u].msg \in 1..n
      BY <1>6, <1>7
    <3> QED
      BY <2>2, <3>1, LaterLemma
  <2>4. a[r[j].turn].msg \notin Members(p)
    BY <1>6, <2>3
  <2> QED
    BY <1>8, <2>4 DEF QueueOK, Remembers
<1>12. AskersOK(r, pp)
  <2>1. \A i \in DOMAIN pp, j \in DOMAIN r : Asks(r[j]) => pp[i] < r[j].msg
    <3> SUFFICES ASSUME NEW i \in DOMAIN pp, NEW j \in DOMAIN r, Asks(r[j])
                 PROVE  pp[i] < r[j].msg
      OBVIOUS
    <3>1. pp[i] \in Members(p)
      BY <1>6 DEF Members
    <3>2. PICK h \in DOMAIN p : p[h] = pp[i]
      BY <3>1 DEF Members
    <3> QED
      BY <1>8, <3>2 DEF QueueOK, AskersOK
  <2> QED
    BY <1>6, <1>8, <2>1 DEF QueueOK, AskersOK
<1>13. QueueOK(r, pp, k \cup {u}, a, begun, n)
  <2>1. BindersOK(r, k \cup {u}) /\ HeardOK(r, a, begun, n)
    BY <1>8 DEF QueueOK, BindersOK
  <2> QED
    BY <1>11, <1>12, <2>1 DEF QueueOK
<1> QED
  BY <1>2, <1>4, <1>6, <1>7, <1>9, <1>13 DEF r, u, pp
-----------------------------------------------------------------------------
(* The reactor's queue.                                                    *)

LEMMA StartsAppend ==
    ASSUME NEW S, NEW in \in Seq(S), NEW e \in S
    PROVE  Starts(Append(in, e)) = Starts(in) \cup (IF e.kind = "continue" THEN {e.msg} ELSE {})
<1> DEFINE r == Append(in, e)
<1>1. /\ Len(r) \in DOMAIN r /\ r[Len(r)] = e
      /\ \A i \in DOMAIN in : i \in DOMAIN r /\ r[i] = in[i]
      /\ \A i \in DOMAIN r : i \in DOMAIN in \/ i = Len(r)
  BY AppendLemma
<1> HIDE DEF r
<1>2. \A m : m \in Starts(r) <=> \E i \in DOMAIN r : r[i].kind = "continue" /\ r[i].msg = m
  BY DEF Starts
<1>3. \A m : m \in Starts(in) <=> \E i \in DOMAIN in : in[i].kind = "continue" /\ in[i].msg = m
  BY DEF Starts
<1>4. \A m : m \in Starts(r) <=> m \in Starts(in) \/ (e.kind = "continue" /\ m = e.msg)
  BY <1>1, <1>2, <1>3
<1> QED
  BY <1>4 DEF r

LEMMA InboxAppend ==
    ASSUME NEW S, NEW in \in Seq(S), NEW e \in S, NEW a, NEW n, InboxOK(in, a, n),
           e.kind = "continue" => e.msg \in 1..n /\ Later(a, e.msg)
                                  /\ \A m \in Starts(in) : m < e.msg
    PROVE  InboxOK(Append(in, e), a, n)
<1> DEFINE r == Append(in, e)
<1>1. /\ Len(r) \in DOMAIN r /\ r[Len(r)] = e
      /\ \A i \in DOMAIN in : i \in DOMAIN r /\ r[i] = in[i]
      /\ \A i \in DOMAIN r : i \in DOMAIN in \/ i = Len(r)
      /\ \A i, j \in DOMAIN r : i < j => i \in DOMAIN in
  <2>1. LET b == Append(in, e) IN
           /\ DOMAIN b = 1..Len(b) /\ Len(b) \in Nat
           /\ \A i \in DOMAIN b : i \in DOMAIN in \/ i = Len(b)
    BY AppendLemma
  <2>2. \A i, j \in DOMAIN r : i < j => i \in DOMAIN in
    BY <2>1
  <2> QED
    BY <2>2, AppendLemma
<1>2. \A m \in Starts(r) : m \in 1..n /\ Later(a, m)
  BY StartsAppend DEF InboxOK
<1> HIDE DEF r
<1>3. ASSUME NEW i \in DOMAIN r, NEW j \in DOMAIN r, i < j,
             r[i].kind = "continue", r[j].kind = "continue"
      PROVE  r[i].msg < r[j].msg
  <2>1. i \in DOMAIN in /\ r[i] = in[i] /\ r[i].msg \in Starts(in)
    BY <1>1, <1>3 DEF Starts
  <2>2. CASE j \in DOMAIN in
    BY <1>1, <1>3, <2>1, <2>2 DEF InboxOK
  <2>3. CASE j = Len(r)
    BY <1>1, <1>3, <2>1, <2>3
  <2> QED
    BY <1>1, <2>2, <2>3
<1> QED
  BY <1>2, <1>3 DEF InboxOK, r

LEMMA InboxTail ==
    ASSUME NEW n, NEW in \in Seq(InboxEvents(n)), in # <<>>, NEW a, InboxOK(in, a, n)
    PROVE  /\ Tail(in) \in Seq(InboxEvents(n)) /\ Head(in) \in InboxEvents(n)
           /\ InboxOK(Tail(in), a, n) /\ Starts(Tail(in)) \subseteq Starts(in)
           /\ Head(in).kind = "continue" =>
                 /\ Head(in).msg \in 1..n /\ Later(a, Head(in).msg)
                 /\ \A m \in Starts(Tail(in)) : Head(in).msg < m
<1> DEFINE r == Tail(in)
<1>1. /\ r \in Seq(InboxEvents(n)) /\ Head(in) \in InboxEvents(n)
      /\ Head(in) = in[1] /\ 1 \in DOMAIN in
      /\ DOMAIN in \subseteq Nat \ {0} /\ DOMAIN r \subseteq Nat \ {0}
      /\ \A i \in DOMAIN r : i + 1 \in DOMAIN in /\ r[i] = in[i + 1]
  BY TailLemma
<1> HIDE DEF r
<1>2. Starts(r) \subseteq Starts(in)
  BY <1>1 DEF Starts
<1>3. ASSUME NEW i \in DOMAIN r, NEW j \in DOMAIN r, i < j,
             r[i].kind = "continue", r[j].kind = "continue"
      PROVE  r[i].msg < r[j].msg
  <2>1. i + 1 < j + 1 /\ i + 1 \in DOMAIN in /\ j + 1 \in DOMAIN in
    BY <1>1, <1>3
  <2> QED
    BY <1>1, <1>3, <2>1 DEF InboxOK
<1>4. InboxOK(r, a, n)
  BY <1>2, <1>3 DEF InboxOK
<1>5. Head(in).kind = "continue" => Head(in).msg \in Starts(in)
  BY <1>1 DEF Starts
<1>6. ASSUME Head(in).kind = "continue", NEW m \in Starts(r) PROVE Head(in).msg < m
  <2>1. PICK j \in DOMAIN r : r[j].kind = "continue" /\ r[j].msg = m
    BY DEF Starts
  <2>2. 1 < j + 1 /\ j + 1 \in DOMAIN in /\ r[j] = in[j + 1]
    BY <1>1
  <2> QED
    BY <1>1, <1>6, <2>1, <2>2 DEF InboxOK
<1> QED
  BY <1>1, <1>2, <1>4, <1>5, <1>6 DEF InboxOK, r

LEMMA InboxOne ==
    ASSUME NEW n, NEW in \in Seq(InboxEvents(n)), NEW a, InboxOK(in, a, n),
           NEW e \in InboxEvents(n), e.kind # "continue"
    PROVE  /\ Append(in, e) \in Seq(InboxEvents(n)) /\ InboxOK(Append(in, e), a, n)
           /\ Starts(Append(in, e)) = Starts(in)
<1>1. Append(in, e) \in Seq(InboxEvents(n))
  BY AppendLemma
<1>2. InboxOK(Append(in, e), a, n)
  BY InboxAppend
<1>3. Starts(Append(in, e)) = Starts(in)
  <2>1. Starts(Append(in, e)) = Starts(in) \cup (IF e.kind = "continue" THEN {e.msg} ELSE {})
    BY StartsAppend
  <2> QED
    BY <2>1
<1> QED
  BY <1>1, <1>2, <1>3

\* At most one event, and not a start.
Quiet(es, n) == es = <<>> \/ \E e \in InboxEvents(n) : e.kind # "continue" /\ es = <<e>>

LEMMA InboxQuiet ==
    ASSUME NEW n, NEW in \in Seq(InboxEvents(n)), NEW a, InboxOK(in, a, n),
           NEW es, Quiet(es, n)
    PROVE  /\ in \o es \in Seq(InboxEvents(n)) /\ InboxOK(in \o es, a, n)
           /\ Starts(in \o es) = Starts(in)
<1>1. CASE es = <<>>
  <2>1. in \o es = in
    BY <1>1
  <2> QED
    BY <2>1
<1>2. ASSUME NEW e \in InboxEvents(n), e.kind # "continue", es = <<e>>
      PROVE  /\ in \o es \in Seq(InboxEvents(n)) /\ InboxOK(in \o es, a, n)
             /\ Starts(in \o es) = Starts(in)
  <2>1. in \o es = Append(in, e)
    BY <1>2
  <2> QED
    BY <1>2, <2>1, InboxOne
<1> QED
  BY <1>1, <1>2 DEF Quiet

LEMMA EventTypes ==
    ASSUME NEW n \in Nat
    PROVE  /\ \A g \in Goals, user \in BOOLEAN : Quiet(GoalEvents(g, user), n)
           /\ \A g \in Goals : ClearEvent(g) \in InboxEvents(n) /\ ClearEvent(g).kind # "continue"
           /\ \A s \in SessionStates : /\ SetEvent(s) \in InboxEvents(n)
                                       /\ SetEvent(s).kind # "continue"
           /\ \A m \in 1..n : /\ StartEvent(m) \in InboxEvents(n)
                              /\ StartEvent(m).kind = "continue" /\ StartEvent(m).msg = m
<1>1. NoGoal \in Goals
  BY DEF NoGoal, Goals, GoalStates, LifeOrNone
<1>2. /\ NoEvent = [kind |-> "none", msg |-> 0, goal |-> NoGoal, user |-> FALSE, status |-> "none"]
      /\ 0 \in 0..n
  BY DEF NoEvent, None
<1>3. \A g \in Goals, user \in BOOLEAN :
         LET e == [NoEvent EXCEPT !.kind = "goal", !.goal = g, !.user = user] IN
         e \in InboxEvents(n) /\ e.kind # "continue"
  BY <1>1, <1>2 DEF InboxEvents, SessionStates
<1>4. \A g \in Goals, user \in BOOLEAN : Quiet(GoalEvents(g, user), n)
  BY <1>3 DEF Quiet, GoalEvents
<1>5. \A g \in Goals : ClearEvent(g) \in InboxEvents(n) /\ ClearEvent(g).kind # "continue"
  BY <1>1, <1>2 DEF ClearEvent, InboxEvents, SessionStates
<1>6. \A s \in SessionStates : SetEvent(s) \in InboxEvents(n) /\ SetEvent(s).kind # "continue"
  BY <1>1, <1>2 DEF SetEvent, InboxEvents
<1>7. \A m \in 1..n : /\ StartEvent(m) \in InboxEvents(n)
                      /\ StartEvent(m).kind = "continue" /\ StartEvent(m).msg = m
  <2> SUFFICES ASSUME NEW m \in 1..n
               PROVE  /\ StartEvent(m) \in InboxEvents(n)
                      /\ StartEvent(m).kind = "continue" /\ StartEvent(m).msg = m
    OBVIOUS
  <2>1. StartEvent(m) = [kind |-> "continue", msg |-> m, goal |-> NoGoal, user |-> FALSE,
                         status |-> "none"]
    <3> DEFINE b == [kind |-> "none", msg |-> 0, goal |-> NoGoal, user |-> FALSE,
                     status |-> "none"]
    <3>1. StartEvent(m) = [b EXCEPT !.kind = "continue", !.msg = m]
      BY <1>2 DEF StartEvent
    <3> QED
      BY <3>1
  <2>2. m \in 0..n
    OBVIOUS
  <2> QED
    BY <1>1, <2>1, <2>2 DEF InboxEvents, SessionStates
<1> QED
  BY <1>4, <1>5, <1>6, <1>7

LEMMA HeardTypes ==
    ASSUME NEW n \in Nat
    PROVE  /\ \A m \in 1..n : LET e == Heard("requested", None, m) IN
                e \in HeardEvents(n) /\ Asks(e) /\ ~Binds(e) /\ e.msg = m
           /\ \A t \in Turns, kind \in {"set", "started"} \cup TurnEnds :
                LET e == Heard(kind, t, None) IN
                /\ e \in HeardEvents(n) /\ ~Asks(e) /\ e.turn = t /\ e.kind = kind
                /\ Binds(e) <=> kind \in {"set", "started"}
BY DEF Heard, HeardEvents, TurnEnds, TurnOrNone, Asks, Binds, None
-----------------------------------------------------------------------------
(* What the invariant says of a state.                                     *)

LEMMA Constant ==
    /\ Lives \subseteq Nat /\ Turns \subseteq Nat /\ None \notin Lives /\ None \notin Turns
    /\ None = 0 /\ Turns = 1..MaxTurns /\ MaxTurns \in Nat /\ MaxLives \in Nat
    /\ Lives = 1..MaxLives
    /\ MaxChanges \in Nat /\ MaxFaults \in Nat
    /\ Outcomes \subseteq {"paused", "blocked", "complete"}
BY GoalConstants DEF Lives, Turns, None

LEMMA MsgFacts ==
    ASSUME TypeOK
    PROVE  /\ Len(msgs) \in Nat /\ DOMAIN msgs = 1..Len(msgs) /\ Messages = 1..Len(msgs)
           /\ \A m \in Messages : msgs[m] \in Lives
BY DEF TypeOK, Messages

LEMMA SentFacts ==
    ASSUME TypeOK
    PROVE  /\ Len(accepted) \in Nat /\ DOMAIN accepted = 1..Len(accepted)
           /\ DOMAIN accepted \subseteq Turns
           /\ \A t \in DOMAIN accepted : accepted[t].msg \in Messages
<1>1. /\ accepted \in Seq([msg : Messages, life : LifeOrNone]) /\ Len(accepted) <= MaxTurns
  BY DEF TypeOK
<1>2. \A t \in DOMAIN accepted : accepted[t] \in [msg : Messages, life : LifeOrNone]
  BY <1>1, ElementLemma
<1>3. DOMAIN accepted \subseteq Turns
  BY <1>1, Constant
<1> QED
  BY <1>1, <1>2, <1>3

LEMMA TypesGrow ==
    ASSUME NEW n \in Nat, NEW m \in Nat, n <= m
    PROVE  /\ TurnRows(n) \subseteq TurnRows(m) /\ Jobs(n) \subseteq Jobs(m)
           /\ Seq(InboxEvents(n)) \subseteq Seq(InboxEvents(m))
           /\ Seq(HeardEvents(n)) \subseteq Seq(HeardEvents(m))
           /\ Seq(1..n) \subseteq Seq(1..m)
<1>1. 0..n \subseteq 0..m /\ 1..n \subseteq 1..m
  OBVIOUS
<1>2. /\ TurnRows(n) \subseteq TurnRows(m) /\ Jobs(n) \subseteq Jobs(m)
      /\ InboxEvents(n) \subseteq InboxEvents(m) /\ HeardEvents(n) \subseteq HeardEvents(m)
  BY <1>1 DEF TurnRows, Jobs, InboxEvents, HeardEvents
<1>3. ASSUME NEW S, NEW T, S \subseteq T PROVE Seq(S) \subseteq Seq(T)
  BY <1>3
<1> QED
  BY <1>1, <1>2, <1>3

\* An event of a turn that was sent, which neither starts nor binds it.
LEMMA QueueOther ==
    ASSUME NEW n \in Nat, NEW q \in Seq(HeardEvents(n)), NEW p, NEW k, NEW a, NEW begun,
           QueueOK(q, p, k, a, begun, n),
           NEW t \in Turns, t \in DOMAIN a, NEW kind \in TurnEnds
    PROVE  LET r == Append(q, Heard(kind, t, None)) IN
           /\ r \in Seq(HeardEvents(n)) /\ QueueOK(r, p, k, a, begun, n)
           /\ \A x : Alive(q, p, x) => Alive(r, p, x)
<1> DEFINE e == Heard(kind, t, None)
<1>1. e \in HeardEvents(n) /\ ~Asks(e) /\ ~Binds(e) /\ e.turn = t /\ e.kind # "set"
  BY HeardTypes DEF TurnEnds
<1> HIDE DEF e
<1>2. Append(q, e) \in Seq(HeardEvents(n))
  BY <1>1, AppendLemma
<1>3. QueueOK(Append(q, e), p, k, a, begun, n)
  BY <1>1, QueueAppend
<1>4. \A x : Alive(q, p, x) => Alive(Append(q, e), p, x)
  BY <1>1, AliveAppend
<1> QED
  BY <1>2, <1>3, <1>4 DEF e

\* The start or the binding of the turn that was sent last.
LEMMA QueueLast ==
    ASSUME NEW n \in Nat, NEW q \in Seq(HeardEvents(n)), NEW p, NEW k, NEW a, NEW begun,
           QueueOK(q, p, k, a, begun, n),
           NEW t \in Turns, t \in DOMAIN a, \A u \in DOMAIN a : u <= t,
           NEW kind \in {"started", "set"}, kind = "set" => t \in begun,
           t \in k \/ Alive(q, p, a[t].msg)
    PROVE  LET r == Append(q, Heard(kind, t, None)) IN
           /\ r \in Seq(HeardEvents(n)) /\ QueueOK(r, p, k, a, begun, n)
           /\ \A x : Alive(q, p, x) => Alive(r, p, x)
<1> DEFINE e == Heard(kind, t, None)
<1>1. e \in HeardEvents(n) /\ ~Asks(e) /\ e.turn = t /\ e.kind = kind
  BY HeardTypes
<1> HIDE DEF e
<1>2. Append(q, e) \in Seq(HeardEvents(n))
  BY <1>1, AppendLemma
<1>3. \A i \in DOMAIN q : Binds(q[i]) => q[i].turn <= t
  BY DEF QueueOK, HeardOK, Binds, Asks
<1>4. QueueOK(Append(q, e), p, k, a, begun, n)
  BY <1>1, <1>3, QueueAppend
<1>5. \A x : Alive(q, p, x) => Alive(Append(q, e), p, x)
  BY <1>1, AliveAppend
<1> QED
  BY <1>2, <1>4, <1>5 DEF e

\* The binding of a turn that is known.
LEMMA QueueKnown ==
    ASSUME NEW n \in Nat, NEW q \in Seq(HeardEvents(n)), NEW p, NEW k, NEW a, NEW begun,
           QueueOK(q, p, k, a, begun, n),
           NEW t \in Turns, t \in DOMAIN a, t \in begun, t \in k
    PROVE  LET r == Append(q, Heard("set", t, None)) IN
           /\ r \in Seq(HeardEvents(n)) /\ QueueOK(r, p, k, a, begun, n)
           /\ \A x : Alive(q, p, x) => Alive(r, p, x)
<1> DEFINE e == Heard("set", t, None)
<1>1. e \in HeardEvents(n) /\ ~Asks(e) /\ e.turn = t
  BY HeardTypes
<1> HIDE DEF e
<1>2. Append(q, e) \in Seq(HeardEvents(n))
  BY <1>1, AppendLemma
<1>3. QueueOK(Append(q, e), p, k, a, begun, n)
  BY <1>1, QueueAppend
<1>4. \A x : Alive(q, p, x) => Alive(Append(q, e), p, x)
  BY <1>1, AliveAppend
<1> QED
  BY <1>2, <1>3, <1>4 DEF e
-----------------------------------------------------------------------------
(* The operations that several actions share.                              *)

\* The lists that grow: what they held they hold.
Extends(new, old) ==
    Len(old) <= Len(new) /\ \A i \in DOMAIN old : i \in DOMAIN new /\ new[i] = old[i]

\* A continuation is requested or is not.
LEMMA ContinueLemma ==
    ASSUME TypeOK, LivesOK, StartsOK,
           NEW in \in Seq(InboxEvents(Len(msgs))), InboxOK(in, accepted, Len(msgs)),
           NEW q \in Seq(HeardEvents(Len(msgs))),
           QueueOK(q, pending, known, accepted, Begun, Len(msgs)),
           \A x : Alive(queue, pending, x) => Alive(q, pending, x),
           NEW l, Continue(l, in, q)
    PROVE  /\ msgs' \in Seq(Lives) /\ Len(msgs') \in Nat /\ Extends(msgs', msgs)
           /\ rows' \in Seq(1..Len(msgs'))
           /\ inbox' \in Seq(InboxEvents(Len(msgs'))) /\ InboxOK(inbox', accepted, Len(msgs'))
           /\ \A m \in Starts(inbox') : m \in Starts(in) \/ m > Len(msgs)
           /\ queue' \in Seq(HeardEvents(Len(msgs')))
           /\ QueueOK(queue', pending, known, accepted, Begun, Len(msgs'))
           /\ \A m \in 1..Len(msgs') : Later(accepted, m) => Alive(queue', pending, m)
           /\ \A x : Alive(q, pending, x) => Alive(queue', pending, x)
           /\ \A i \in DOMAIN msgs' : msgs'[i] <= lives
           /\ \A i, j \in DOMAIN msgs' : i < j => msgs'[i] <= msgs'[j]
<1>0. Len(msgs) \in Nat /\ DOMAIN msgs = 1..Len(msgs) /\ Messages = 1..Len(msgs)
      /\ msgs \in Seq(Lives) /\ rows \in Seq(1..Len(msgs)) /\ pending \in Seq(1..Len(msgs))
  BY MsgFacts DEF TypeOK
<1>1. CASE MayContinue(goal, session, l)
  <2> DEFINE n == Len(msgs)
             m == n + 1
             e == StartEvent(m)
             h == Heard("requested", None, m)
  <2>1. l = goal.life /\ l \in Lives /\ l = lives
    BY <1>1 DEF MayContinue, LivesOK
  <2>2. /\ msgs' = Append(msgs, l) /\ msgs' \in Seq(Lives) /\ Len(msgs') = m /\ m \in Nat
        /\ DOMAIN msgs' = 1..m /\ msgs'[m] = l
        /\ \A i \in 1..n : msgs'[i] = msgs[i] /\ i \in 1..m
        /\ \A i \in 1..m : i \in 1..n \/ i = m
        /\ n <= m /\ m \in 1..m /\ n \in Nat
    <3>1. msgs' = Append(msgs, l)
      BY <1>1 DEF Continue
    <3>2. n \in Nat /\ msgs \in Seq(Lives)
      BY <1>0
    <3>3. Append(msgs, l) \in Seq(Lives) /\ Len(Append(msgs, l)) = n + 1
          /\ Append(msgs, l)[n + 1] = l
          /\ \A i \in 1..n : Append(msgs, l)[i] = msgs[i]
      BY <2>1, <3>2
    <3>4. DOMAIN msgs' = 1..m
      BY <3>1, <3>2, <3>3
    <3> QED
      BY <3>1, <3>2, <3>3, <3>4
  <2>3. /\ rows' = Append(rows, m) /\ inbox' = Append(in, e) /\ queue' = Append(q, h)
    BY <1>1, <2>2 DEF Continue
  <2> HIDE DEF m, n
  <2>4. /\ rows \in Seq(1..m) /\ in \in Seq(InboxEvents(m)) /\ q \in Seq(HeardEvents(m))
    BY <1>0, <2>2, TypesGrow DEF n
  <2>5. rows' \in Seq(1..m)
    BY <2>2, <2>3, <2>4, AppendLemma
  <2>6. e \in InboxEvents(m) /\ e.kind = "continue" /\ e.msg = m
    BY <2>2, EventTypes
  <2>7. h \in HeardEvents(m) /\ Asks(h) /\ ~Binds(h) /\ h.msg = m /\ h.kind # "set"
    BY <2>2, HeardTypes DEF Asks
  <2> HIDE DEF e, h
  <2>8. \A x \in 1..n : x < m
    BY <2>2 DEF m
  <2>9. Later(accepted, m)
    BY <1>0, <2>8, SentFacts DEF Later, n
  <2>10. /\ \A x \in Starts(in) : x \in 1..n
         /\ \A i \in DOMAIN pending : pending[i] \in 1..n
         /\ \A i \in DOMAIN q : Asks(q[i]) => q[i].msg \in 1..n
    BY <1>0 DEF InboxOK, QueueOK, HeardOK, n
  <2>11. InboxOK(in, accepted, m)
    BY <2>2, <2>10 DEF InboxOK, n
  <2>12. inbox' \in Seq(InboxEvents(m)) /\ InboxOK(inbox', accepted, m)
    <3>1. inbox' \in Seq(InboxEvents(m))
      BY <2>3, <2>4, <2>6, AppendLemma
    <3>2. \A x \in Starts(in) : x < e.msg
      BY <2>6, <2>8, <2>10
    <3> QED
      BY <2>2, <2>3, <2>4, <2>6, <2>9, <2>11, <3>1, <3>2, InboxAppend
  <2>13. \A x \in Starts(inbox') : x \in Starts(in) \/ x > n
    <3>1. Starts(inbox') = Starts(in) \cup {m}
      <4>1. Starts(inbox') = Starts(in) \cup (IF e.kind = "continue" THEN {e.msg} ELSE {})
        BY <2>3, <2>4, <2>6, StartsAppend
      <4> QED
        BY <2>6, <4>1
    <3>2. m > n
      BY <2>2 DEF m
    <3> QED
      BY <3>1, <3>2
  <2>14. QueueOK(q, pending, known, accepted, Begun, m)
    BY <2>2, QueueGrows DEF n
  <2>15. queue' \in Seq(HeardEvents(m)) /\ QueueOK(queue', pending, known, accepted, Begun, m)
    <3>1. queue' \in Seq(HeardEvents(m))
      BY <2>3, <2>4, <2>7, AppendLemma
    <3> QED
      BY <2>2, <2>3, <2>4, <2>7, <2>8, <2>10, <2>14, <3>1, QueueAppend
  <2>16. /\ \A x : Alive(q, pending, x) => Alive(queue', pending, x)
         /\ Alive(queue', pending, m)
    BY <2>3, <2>4, <2>7, AliveAppend
  <2>17. \A x \in 1..m : Later(accepted, x) => Alive(queue', pending, x)
    BY <1>0, <2>2, <2>16 DEF StartsOK, n
  <2>18. \A i \in 1..m : msgs'[i] <= lives
    <3> SUFFICES ASSUME NEW i \in 1..m PROVE msgs'[i] <= lives
      OBVIOUS
    <3>1. CASE i \in 1..n
      BY <1>0, <2>2, <3>1 DEF LivesOK, n
    <3>2. CASE i = m
      BY <2>1, <2>2, <3>2, Constant
    <3> QED
      BY <2>2, <3>1, <3>2
  <2>19. \A i, j \in 1..m : i < j => msgs'[i] <= msgs'[j]
    <3> SUFFICES ASSUME NEW i \in 1..m, NEW j \in 1..m, i < j PROVE msgs'[i] <= msgs'[j]
      OBVIOUS
    <3>1. i \in 1..n
      BY <2>2 DEF m
    <3>2. CASE j \in 1..n
      BY <1>0, <2>2, <3>1, <3>2 DEF LivesOK, n
    <3>3. CASE j = m
      BY <2>1, <2>2, <2>18, <3>3
    <3> QED
      BY <2>2, <3>2, <3>3
  <2>20. Extends(msgs', msgs)
    BY <1>0, <2>2 DEF Extends, n
  <2> QED
    BY <2>2, <2>5, <2>12, <2>13, <2>15, <2>16, <2>17, <2>18, <2>19, <2>20 DEF n
<1>2. CASE ~MayContinue(goal, session, l)
  <2>1. inbox' = in /\ queue' = q /\ msgs' = msgs /\ rows' = rows
    BY <1>2 DEF Continue
  <2>2. Extends(msgs', msgs)
    BY <1>0, <2>1 DEF Extends
  <2> QED
    BY <1>0, <2>1, <2>2 DEF StartsOK, LivesOK
<1> QED
  BY <1>1, <1>2

\* A session-set keeps the turns that have a row, and binds the turn it starts.
LEMMA FoldedLemma ==
    ASSUME TypeOK, NEW s \in Sessions
    PROVE  /\ Folded(s) \in [Turns -> TurnRows(Len(msgs))]
           /\ \A t \in Turns : /\ HasRow(t) => Folded(s)[t].state # "none"
                               /\ Folded(s)[t].state # "none" =>
                                     HasRow(t) \/ (s.status = "running" /\ t = s.active)
                               /\ s.status = "running" /\ t = s.active =>
                                     Folded(s)[t].state # "none" /\ Folded(s)[t].life = s.life
                               /\ ~(s.status = "running" /\ t = s.active) =>
                                     Folded(s)[t].life = turns[t].life
<1>1. rows # <<>> => Head(rows) \in 0..Len(msgs)
  <2>1. rows \in Seq(1..Len(msgs)) /\ Len(msgs) \in Nat
    BY MsgFacts DEF TypeOK
  <2>2. rows # <<>> => Head(rows) \in 1..Len(msgs)
    BY <2>1
  <2> QED
    BY <2>1, <2>2
<1>2. Consumes(s) => rows # <<>>
  BY DEF Consumes
<1>3. Ended(s.status) \in {"completed", "error", "interrupted"}
  BY DEF Ended
<1>4. goal.at \in Nat /\ s.life \in LifeOrNone
  BY DEF TypeOK, Goals, Sessions
<1>5. ASSUME NEW t \in Turns
      PROVE  /\ Folded(s)[t] \in TurnRows(Len(msgs))
             /\ HasRow(t) => Folded(s)[t].state # "none"
             /\ Folded(s)[t].state # "none" =>
                   HasRow(t) \/ (s.status = "running" /\ t = s.active)
             /\ s.status = "running" /\ t = s.active =>
                   Folded(s)[t].state # "none" /\ Folded(s)[t].life = s.life
             /\ ~(s.status = "running" /\ t = s.active) =>
                   Folded(s)[t].life = turns[t].life
  <2>1. turns[t] \in TurnRows(Len(msgs))
    BY DEF TypeOK
  <2>2. CASE s.status # "running"
    <3>1. CASE t \in Running /\ \A u \in Running : u <= t
      <4>1. Folded(s)[t] = [turns[t] EXCEPT !.state = Ended(s.status)]
        BY <2>2, <3>1 DEF Folded
      <4>2. HasRow(t)
        BY <3>1 DEF HasRow, Running
      <4> QED
        BY <1>3, <2>1, <2>2, <4>1, <4>2 DEF TurnRows
    <3>2. CASE ~(t \in Running /\ \A u \in Running : u <= t)
      <4>1. Folded(s)[t] = turns[t]
        BY <2>2, <3>2 DEF Folded
      <4> QED
        BY <2>1, <2>2, <4>1 DEF HasRow
    <3> QED
      BY <3>1, <3>2
  <2>3. CASE s.status = "running" /\ t # s.active
    <3>1. Folded(s)[t] = turns[t]
      BY <2>3 DEF Folded
    <3> QED
      BY <2>1, <2>3, <3>1 DEF HasRow
  <2>4. CASE s.status = "running" /\ t = s.active
    <3> DEFINE state == IF turns[t].state \in {"completed", "error"} THEN turns[t].state ELSE "running"
               msg == IF Consumes(s) THEN Head(rows) ELSE turns[t].msg
               since == IF turns[t].state # "none" THEN turns[t].since
                        ELSE IF Consumes(s) THEN 0 ELSE goal.at
    <3>1. Folded(s)[t] = [state |-> state, life |-> s.life, msg |-> msg, since |-> since]
      BY <2>4 DEF Folded
    <3>2. /\ state \in {"running", "completed", "error"} /\ msg \in 0..Len(msgs)
          /\ since \in Nat
      BY <1>1, <1>2, <1>4, <2>1 DEF TurnRows
    <3> HIDE DEF state, msg, since
    <3> QED
      BY <1>4, <2>4, <3>1, <3>2 DEF TurnRows
  <2> QED
    BY <2>2, <2>3, <2>4
<1>6. Folded(s) = [t \in Turns |-> Folded(s)[t]]
  BY DEF Folded
<1>7. Folded(s) \in [Turns -> TurnRows(Len(msgs))]
  BY <1>5, <1>6
<1> QED
  BY <1>5, <1>7

LEMMA SetsTypes ==
    ASSUME TypeOK, NEW s \in Sessions, Sets(s)
    PROVE  /\ session' = s /\ turns' = Folded(s) /\ turns' \in [Turns -> TurnRows(Len(msgs))]
           /\ rows' \in Seq(Messages)
<1>1. Consumes(s) => rows # <<>>
  BY DEF Consumes
<1>2. rows \in Seq(Messages) /\ (rows # <<>> => Tail(rows) \in Seq(Messages))
  BY DEF TypeOK
<1> QED
  BY <1>1, <1>2, FoldedLemma DEF Sets

LEMMA BegunLemma ==
    ASSUME TypeOK, NEW s \in Sessions, turns' = Folded(s)
    PROVE  /\ Begun \subseteq Begun'
           /\ Begun' = Begun \cup (IF s.status = "running" THEN {s.active} \cap Turns ELSE {})
           /\ \A t \in Turns : turns'[t].life = IF s.status = "running" /\ t = s.active
                                                THEN s.life ELSE turns[t].life
BY FoldedLemma DEF Begun, HasRow

LEMMA LearnsLemma ==
    ASSUME NEW s \in Sessions, NEW n \in Nat, NEW q \in Seq(HeardEvents(n))
    PROVE  /\ q \o Learns(s) \in Seq(HeardEvents(n))
           /\ \/ q \o Learns(s) = q
              \/ /\ s.status = "running" /\ s.active \in Turns
                 /\ q \o Learns(s) = Append(q, Heard("set", s.active, None))
<1>1. CASE s.status = "running" /\ s.active # None
  <2>1. s.active \in Turns /\ q \o Learns(s) = Append(q, Heard("set", s.active, None))
    BY <1>1 DEF Learns, Sessions, TurnOrNone
  <2>2. Heard("set", s.active, None) \in HeardEvents(n)
    BY <2>1, HeardTypes
  <2> QED
    BY <1>1, <2>1, <2>2, AppendLemma
<1>2. CASE ~(s.status = "running" /\ s.active # None)
  <2>1. q \o Learns(s) = q
    BY <1>2 DEF Learns
  <2> QED
    BY <2>1
<1> QED
  BY <1>1, <1>2

LEMMA GoalLemma ==
    ASSUME TypeOK
    PROVE  /\ goal \in Goals /\ goal.status \in GoalStates /\ goal.at \in Nat /\ goal.life \in LifeOrNone
           /\ \A status \in GoalStates : \A l :
                 /\ Reported(l, status) \in Goals /\ Reported(l, status).life = goal.life
                 /\ Reported(l, status).status # "none" => goal.status # "none" \/ status # "none"
                 /\ goal.status = "none" => Reported(l, status).status = "none"
           /\ Used(goal) \in Goals /\ Used(goal).life = goal.life
           /\ Used(goal).status # "none" => goal.status # "none"
<1>1. goal \in Goals
  BY DEF TypeOK
<1>2. /\ Used(goal) \in Goals /\ Used(goal).life = goal.life
      /\ Used(goal).status # "none" => goal.status # "none"
  <2> DEFINE status == IF goal.status = "active" /\ goal.used + 1 >= Budget
                       THEN "limited" ELSE goal.status
             used == goal.used + 1
  <2>1. Used(goal) = [goal EXCEPT !.used = used, !.status = status]
    BY DEF Used
  <2>2. /\ status \in GoalStates /\ used \in Nat
        /\ status # "none" => goal.status # "none"
    BY <1>1 DEF Goals, GoalStates
  <2> HIDE DEF status, used
  <2> QED
    BY <1>1, <2>1, <2>2 DEF Goals
<1>3. ASSUME NEW l, NEW status \in GoalStates
      PROVE  /\ Reported(l, status) \in Goals /\ Reported(l, status).life = goal.life
             /\ goal.status = "none" => Reported(l, status).status = "none"
  <2>1. CASE Reportable(l, status)
    <3> DEFINE at == goal.at + 1
    <3>1. Reported(l, status) = [goal EXCEPT !.status = status, !.at = at]
      BY <2>1 DEF Reported
    <3>2. at \in Nat /\ goal.status # "none"
      BY <1>1, <2>1 DEF Goals, Reportable
    <3> HIDE DEF at
    <3> QED
      BY <1>1, <3>1, <3>2 DEF Goals
  <2>2. CASE ~Reportable(l, status)
    BY <1>1, <2>2 DEF Reported
  <2> QED
    BY <2>1, <2>2
<1> QED
  BY <1>1, <1>2, <1>3 DEF Goals

LEMMA ReportEventsLemma ==
    ASSUME TypeOK, NEW l, NEW status \in GoalStates
    PROVE  Quiet(ReportEvents(l, status), Len(msgs))
<1>1. Quiet(<<>>, Len(msgs))
  BY DEF Quiet
<1> QED
  <2> DEFINE g == Reported(l, status)
  <2>0. \A s \in GoalStates : \A k : Reported(k, s) \in Goals
    BY GoalLemma
  <2>1. Len(msgs) \in Nat /\ g \in Goals
    BY <2>0, MsgFacts
  <2> HIDE DEF g
  <2>2. Quiet(GoalEvents(g, FALSE), Len(msgs))
    BY <2>1, EventTypes
  <2> QED
    BY <1>1, <2>2 DEF ReportEvents, g

\* The agent is interrupted or does not run a turn.
LEMMA InterruptLemma ==
    ASSUME TypeOK, RowsOK, QueueOK(queue, pending, known, accepted, Begun, Len(msgs)), Interrupt
    PROVE  /\ provider' \in TurnOrNone /\ (provider' # None => provider' \in DOMAIN accepted)
           /\ queue' \in Seq(HeardEvents(Len(msgs)))
           /\ QueueOK(queue', pending, known, accepted, Begun, Len(msgs))
           /\ \A x : Alive(queue, pending, x) => Alive(queue', pending, x)
<1>1. /\ Len(msgs) \in Nat /\ queue \in Seq(HeardEvents(Len(msgs)))
      /\ provider \in TurnOrNone /\ None \in TurnOrNone
  BY MsgFacts DEF TypeOK, TurnOrNone
<1>2. CASE provider = None
  BY <1>1, <1>2 DEF Interrupt
<1>3. CASE provider # None
  <2>1. provider \in Turns /\ provider \in DOMAIN accepted
    BY <1>1, <1>3 DEF RowsOK, TurnOrNone
  <2>2. provider' = None /\ queue' = Append(queue, Heard("interrupted", provider, None))
    BY <1>3 DEF Interrupt
  <2> QED
    BY <1>1, <2>1, <2>2, QueueOther DEF TurnEnds
<1> QED
  BY <1>2, <1>3

\* The user's and the agent's operations on the goal.
Edits == Users \/ \E status \in Outcomes : AgentReports(status)

LEMMA SetGoalLemma ==
    ASSUME TypeOK, LivesOK, NEW status \in GoalStates, NEW edited \in BOOLEAN,
           SetGoal(status, edited)
    PROVE  /\ goal' \in Goals /\ lives' \in 0..MaxLives /\ lives <= lives'
           /\ goal'.status # "none" => goal'.life = lives' /\ goal'.life \in Lives
<1> DEFINE actual == IF status = "active" /\ goal.used >= Budget THEN "limited" ELSE status
           rotates == edited \/ (actual = "active" /\ goal.status # "active")
           life == IF rotates THEN lives' ELSE goal.life
           at == goal.at + 1
<1>1. goal \in Goals /\ lives \in 0..MaxLives /\ MaxLives \in Nat
  BY Constant DEF TypeOK
<1>2. /\ goal.status # "none" /\ (rotates => lives < MaxLives)
      /\ lives' = IF rotates THEN lives + 1 ELSE lives
      /\ goal' = [goal EXCEPT !.status = actual, !.at = at, !.life = life]
  BY DEF SetGoal
<1>3. actual \in GoalStates
  BY DEF GoalStates
<1>4. at \in Nat
  BY <1>1 DEF Goals
<1>5. goal.life = lives /\ goal.life \in Lives
  BY <1>2 DEF LivesOK
<1> HIDE DEF actual, rotates, at
<1>6. lives' \in 0..MaxLives /\ lives <= lives' /\ life = lives' /\ life \in Lives
  BY <1>1, <1>2, <1>5, Constant
<1> HIDE DEF life
<1>7. goal' \in Goals /\ goal'.life = life
  <2>1. goal' = [status |-> actual, life |-> life, used |-> goal.used, at |-> at]
    BY <1>1, <1>2 DEF Goals
  <2> QED
    BY <1>1, <1>3, <1>4, <1>6, <2>1 DEF Goals, LifeOrNone
<1> QED
  BY <1>6, <1>7

LEMMA EditsLemma ==
    ASSUME TypeOK, LivesOK, Edits
    PROVE  /\ goal' \in Goals /\ lives' \in 0..MaxLives /\ changes' \in 0..MaxChanges
           /\ lives <= lives'
           /\ goal'.status # "none" => goal'.life = lives' /\ goal'.life \in Lives
           /\ \E es : Quiet(es, Len(msgs)) /\ inbox' = inbox \o es
           /\ UNCHANGED <<msgs, session, rows, turns, latch, observed, job, ingestion,
                          provider, queue, history, faults>>
<1>0. /\ Len(msgs) \in Nat /\ goal \in Goals /\ lives \in 0..MaxLives
      /\ changes \in 0..MaxChanges
      /\ \A g \in Goals, user \in BOOLEAN : Quiet(GoalEvents(g, user), Len(msgs))
  BY EventTypes, MsgFacts DEF TypeOK
<1>1. ASSUME NEW status \in GoalStates, NEW edited \in BOOLEAN, SetGoal(status, edited)
      PROVE  /\ goal' \in Goals /\ lives' \in 0..MaxLives /\ changes' \in 0..MaxChanges
             /\ lives <= lives'
             /\ goal'.status # "none" => goal'.life = lives' /\ goal'.life \in Lives
             /\ \E es : Quiet(es, Len(msgs)) /\ inbox' = inbox \o es
             /\ UNCHANGED <<msgs, session, rows, turns, latch, observed, job, ingestion,
                            provider, queue, history, faults>>
  <2>1. /\ goal' \in Goals /\ lives' \in 0..MaxLives /\ lives <= lives'
        /\ goal'.status # "none" => goal'.life = lives' /\ goal'.life \in Lives
    BY <1>1, SetGoalLemma
  <2>2. changes' \in 0..MaxChanges
    BY <1>0, <1>1, Constant DEF SetGoal, ChangesGoal
  <2>3. inbox' = inbox \o GoalEvents(goal', TRUE) /\ Quiet(GoalEvents(goal', TRUE), Len(msgs))
    BY <1>0, <1>1, <2>1 DEF SetGoal
  <2>4. UNCHANGED <<msgs, session, rows, turns, latch, observed, job, ingestion,
                    provider, queue, history, faults>>
    BY <1>1 DEF SetGoal
  <2> QED
    BY <2>1, <2>2, <2>3, <2>4
<1>2. CASE Edit \/ Resume \/ Pause \/ Complete
  <2>1. \E status \in GoalStates, edited \in BOOLEAN : SetGoal(status, edited)
    BY <1>0, <1>2 DEF Edit, Resume, Pause, Complete, GoalStates, Goals
  <2> QED
    BY <1>1, <2>1
<1>3. CASE CreateGoal
  <2>1. lives' = lives + 1 /\ lives < MaxLives /\ goal' = NewGoal
    BY <1>3 DEF CreateGoal
  <2>2. lives + 1 \in Lives /\ lives' \in 0..MaxLives /\ lives <= lives'
    BY <1>0, <2>1, Constant
  <2>3. goal' \in Goals /\ goal'.life = lives'
    BY <1>0, <2>1, <2>2 DEF NewGoal, Goals, GoalStates, LifeOrNone
  <2>4. inbox' = inbox \o GoalEvents(goal', TRUE) /\ Quiet(GoalEvents(goal', TRUE), Len(msgs))
    BY <1>0, <1>3, <2>3 DEF CreateGoal
  <2> QED
    BY <1>0, <1>3, <2>1, <2>2, <2>3, <2>4 DEF CreateGoal, bounds
<1>4. CASE ClearGoal
  <2>1. goal' = [NoGoal EXCEPT !.at = goal.at]
    BY <1>4 DEF ClearGoal
  <2>2. goal' \in Goals /\ goal'.status = "none"
    BY <1>0, <2>1 DEF NoGoal, Goals, GoalStates, LifeOrNone
  <2>3. changes' \in 0..MaxChanges
    BY <1>0, <1>4, Constant DEF ClearGoal, ChangesGoal
  <2>4. ClearEvent(goal) \in InboxEvents(Len(msgs)) /\ ClearEvent(goal).kind # "continue"
    BY <1>0, EventTypes
  <2>5. Quiet(<<ClearEvent(goal)>>, Len(msgs)) /\ inbox' = inbox \o <<ClearEvent(goal)>>
    <3>1. inbox' = Append(inbox, ClearEvent(goal)) /\ inbox \in Seq(InboxEvents(Len(msgs)))
      BY <1>4 DEF ClearGoal, TypeOK
    <3> QED
      BY <2>4, <3>1 DEF Quiet
  <2> QED
    <3>1. UNCHANGED <<lives, msgs, session, rows, turns, latch, observed, job, ingestion,
                      provider, queue, history, faults>>
      BY <1>4 DEF ClearGoal
    <3>2. lives <= lives
      BY <1>0
    <3>3. \E es : Quiet(es, Len(msgs)) /\ inbox' = inbox \o es
      BY <2>5
    <3> QED
      BY <1>0, <2>2, <2>3, <3>1, <3>2, <3>3
<1>5. ASSUME NEW status \in Outcomes, AgentReports(status)
      PROVE  /\ goal' \in Goals /\ lives' \in 0..MaxLives /\ changes' \in 0..MaxChanges
             /\ lives <= lives'
             /\ goal'.status # "none" => goal'.life = lives' /\ goal'.life \in Lives
             /\ \E es : Quiet(es, Len(msgs)) /\ inbox' = inbox \o es
             /\ UNCHANGED <<msgs, session, rows, turns, latch, observed, job, ingestion,
                            provider, queue, history, faults>>
  <2>1. goal' = Reported(goal.life, status) /\ goal.status # "none" /\ status \in GoalStates
    BY <1>5, Constant DEF AgentReports, Reportable, GoalStates
  <2>2. goal' \in Goals /\ goal'.life = goal.life
    BY <2>1, GoalLemma
  <2>3. goal'.life = lives /\ goal'.life \in Lives
    BY <2>1, <2>2 DEF LivesOK
  <2>4. inbox' = inbox \o GoalEvents(goal', FALSE) /\ Quiet(GoalEvents(goal', FALSE), Len(msgs))
    BY <1>0, <1>5, <2>2 DEF AgentReports
  <2>5. /\ UNCHANGED <<lives, msgs, session, rows, turns, latch, observed, job, ingestion,
                       provider, queue, history, faults>>
        /\ changes' \in 0..MaxChanges
    BY <1>0, <1>5, Constant DEF AgentReports, ChangesGoal
  <2>6. lives <= lives
    BY <1>0
  <2> QED
    BY <1>0, <2>2, <2>3, <2>4, <2>5, <2>6
<1> QED
  BY <1>2, <1>3, <1>4, <1>5 DEF Edits, Users
-----------------------------------------------------------------------------
(* The steps of a send.                                                    *)

LEMMA MovedLemma ==
    ASSUME NEW n, NEW j \in Jobs(n)
    PROVE  /\ Moved(j) \in Jobs(n)
           /\ Moved(j).pc = j.pc /\ Moved(j).msg = j.msg
           /\ Moved(j).life = j.life /\ Moved(j).turn = j.turn
BY DEF Moved, Jobs

LEMMA IdleLemma == \A n \in Nat : Idle \in Jobs(n) /\ Idle.pc = "idle"
BY DEF Idle, Jobs, None, LifeOrNone, TurnOrNone

LEMMA NoSetLemma == NoSet \in Sessions
BY DEF NoSet, Sessions, SessionStates, TurnOrNone, LifeOrNone

\* The session is set to idle or stays as it is.
LEMMA PrepareLemma ==
    ASSUME TypeOK, Ensure \/ Prebind
    PROVE  /\ job' \in Jobs(Len(msgs)) /\ job'.msg = job.msg
           /\ \/ job.pc = "ensure" /\ job'.pc = "prebind"
              \/ job.pc = "prebind" /\ job'.pc = "send" /\ job'.life = BoundTo(job.msg)
           /\ \/ UNCHANGED <<session, rows, turns, inbox, queue>>
              \/ \E s \in Sessions : /\ Sets(s) /\ s.status # "running" /\ s.active = None
                                     /\ queue' = queue
                                     /\ inbox' = Append(inbox, SetEvent(s.status))
           /\ UNCHANGED <<goal, lives, msgs, latch, observed, ingestion, provider, history, bounds>>
<1>1. session \in Sessions /\ goal \in Goals /\ job \in Jobs(Len(msgs))
      /\ queue \in Seq(HeardEvents(Len(msgs))) /\ Len(msgs) \in Nat
  BY MsgFacts DEF TypeOK
<1>2. ASSUME NEW s \in Sessions, s.status # "running", s.active = None, ReactorSets(s)
      PROVE  /\ Sets(s) /\ queue' = queue /\ inbox' = Append(inbox, SetEvent(s.status))
  BY <1>1, <1>2, LearnsLemma DEF ReactorSets
<1>3. UNCHANGED <<goal, lives, msgs, latch, observed, ingestion, provider, history, bounds>>
  BY DEF Ensure, Prebind
<1>4. CASE Ensure
  <2> DEFINE s == [NoSet EXCEPT !.status = "ready"]
  <2>1. s \in Sessions /\ s.status # "running" /\ s.active = None
    BY NoSetLemma DEF NoSet, Sessions, SessionStates
  <2>2. job' \in Jobs(Len(msgs)) /\ job'.msg = job.msg /\ job.pc = "ensure" /\ job'.pc = "prebind"
    BY <1>1, <1>4 DEF Ensure, Jobs
  <2>3. ReactorSets(s) \/ UNCHANGED <<session, rows, turns, inbox, queue>>
    BY <1>4 DEF Ensure
  <2> HIDE DEF s
  <2> QED
    BY <1>2, <1>3, <2>1, <2>2, <2>3
<1>5. CASE Prebind
  <2> DEFINE l == BoundTo(job.msg)
             s == [session EXCEPT !.life = l]
  <2>1. l \in LifeOrNone
    BY <1>1 DEF BoundTo, Goals, LifeOrNone
  <2>2. job' = [job EXCEPT !.pc = "send", !.life = l] /\ job.pc = "prebind"
    BY <1>5 DEF Prebind
  <2>3. \/ session.status # "running" /\ session.active = None /\ ReactorSets(s)
        \/ UNCHANGED <<session, rows, turns, inbox, queue>>
    BY <1>5 DEF Prebind
  <2> HIDE DEF l
  <2>4. job' \in Jobs(Len(msgs)) /\ job'.msg = job.msg /\ job'.pc = "send" /\ job'.life = l
    BY <1>1, <2>1, <2>2 DEF Jobs
  <2>5. s \in Sessions /\ s.status = session.status /\ s.active = session.active
    BY <1>1, <2>1 DEF Sessions
  <2> HIDE DEF s
  <2> QED
    BY <1>2, <1>3, <2>2, <2>3, <2>4, <2>5 DEF l
<1> QED
  BY <1>4, <1>5

\* The provider takes the turn: what it was running is closed, the turn is new.
LEMMA AcceptLemma ==
    ASSUME IInv, Accept
    PROVE  /\ job.pc = "send" /\ job.msg \in Messages /\ Len(accepted') = Len(accepted) + 1
           /\ accepted' \in Seq([msg : Messages, life : LifeOrNone]) /\ Len(accepted') <= MaxTurns
           /\ DOMAIN accepted' = DOMAIN accepted \cup {Len(accepted')}
           /\ Len(accepted') \in Turns
           /\ \A t \in DOMAIN accepted : t < Len(accepted') /\ accepted'[t] = accepted[t]
           /\ accepted'[Len(accepted')].msg = job.msg
           /\ provider' = Len(accepted')
           /\ job' \in Jobs(Len(msgs)) /\ job'.pc = "reread" /\ job'.msg = job.msg
           /\ job'.life = job.life /\ job'.turn = Len(accepted')
           /\ queue' \in Seq(HeardEvents(Len(msgs)))
           /\ QueueOK(queue', pending, known, accepted', Begun, Len(msgs))
           /\ \A x : Alive(queue, pending, x) => Alive(queue', pending, x)
<1> DEFINE t == Len(accepted) + 1
           a == [msg |-> job.msg, life |-> job.life]
           n == Len(msgs)
           q == IF provider = None THEN queue
                ELSE Append(queue, Heard("completed", provider, None))
           r == Append(q, Heard("started", t, None))
<1>1. /\ n \in Nat /\ job \in Jobs(n) /\ queue \in Seq(HeardEvents(n)) /\ Messages = 1..n
      /\ accepted \in Seq([msg : Messages, life : LifeOrNone]) /\ Len(accepted) \in Nat
      /\ provider \in TurnOrNone
  BY MsgFacts, SentFacts DEF IInv, TypeOK
<1>2. /\ job.pc = "send" /\ Len(accepted) < MaxTurns
      /\ accepted' = Append(accepted, a) /\ provider' = t
      /\ job' = [job EXCEPT !.pc = "reread", !.turn = t]
      /\ queue' = queue \o (IF provider = None THEN <<>> ELSE <<Heard("completed", provider, None)>>)
                        \o <<Heard("started", t, None)>>
  BY DEF Accept
<1>3. job.msg \in Messages /\ Later(accepted, job.msg) /\ job.life \in LifeOrNone
  BY <1>1, <1>2 DEF IInv, JobOK, Jobs
<1>4. t \in Turns
  BY <1>1, <1>2, Constant
<1>5. a \in [msg : Messages, life : LifeOrNone] /\ a.msg = job.msg
  BY <1>3
<1> HIDE DEF a
<1>6. /\ accepted' \in Seq([msg : Messages, life : LifeOrNone])
      /\ Len(accepted') = t /\ t <= MaxTurns
      /\ DOMAIN accepted = 1..Len(accepted) /\ DOMAIN accepted' = 1..t
      /\ accepted'[t] = a /\ \A u \in DOMAIN accepted : accepted'[u] = accepted[u]
  <2>1. LET b == Append(accepted, a) IN
          /\ b \in Seq([msg : Messages, life : LifeOrNone]) /\ Len(b) = t
          /\ DOMAIN accepted = 1..Len(accepted) /\ DOMAIN b = 1..Len(b) /\ b[Len(b)] = a
          /\ \A u \in DOMAIN accepted : b[u] = accepted[u]
    BY <1>1, <1>5, AppendLemma
  <2>2. t <= MaxTurns
    BY <1>1, <1>2, Constant
  <2> QED
    BY <1>2, <2>1, <2>2
<1>7. /\ DOMAIN accepted' = DOMAIN accepted \cup {t}
      /\ \A u \in DOMAIN accepted : u < t
  BY <1>1, <1>6
<1>8. /\ job' \in Jobs(n) /\ job'.pc = "reread" /\ job'.msg = job.msg
      /\ job'.life = job.life /\ job'.turn = t
  BY <1>1, <1>2, <1>4 DEF Jobs, TurnOrNone
<1>9. provider # None => provider \in DOMAIN accepted /\ provider \in Turns
  BY <1>1 DEF IInv, RowsOK, TurnOrNone
<1> HIDE DEF t
<1>10. QueueOK(queue, pending, known, accepted', Begun, n)
  <2>1. QueueOK(queue, pending, known, accepted, Begun, n) /\ n <= n
    BY <1>1 DEF IInv
  <2> QED
    BY <1>1, <1>6, <1>7, <2>1, QueueGrows
<1>11. /\ q \in Seq(HeardEvents(n)) /\ QueueOK(q, pending, known, accepted', Begun, n)
       /\ \A x : Alive(queue, pending, x) => Alive(q, pending, x)
  BY <1>1, <1>7, <1>9, <1>10, QueueOther DEF TurnEnds
<1>12. Alive(q, pending, accepted'[t].msg)
  BY <1>3, <1>5, <1>6, <1>11 DEF IInv, StartsOK
<1>13. queue' = r
  <2>1. CASE provider = None
    <3>1. queue' = queue \o <<>> \o <<Heard("started", t, None)>>
      BY <1>2, <2>1
    <3> QED
      BY <1>1, <2>1, <3>1
  <2>2. CASE provider # None
    <3>1. queue' = queue \o <<Heard("completed", provider, None)>> \o <<Heard("started", t, None)>>
      BY <1>2, <2>2
    <3>2. q \in Seq(HeardEvents(n)) /\ q = queue \o <<Heard("completed", provider, None)>>
      BY <1>1, <1>11, <2>2
    <3> HIDE DEF q
    <3> QED
      BY <3>1, <3>2
  <2> QED
    BY <2>1, <2>2
<1> HIDE DEF q
<1>14. /\ r \in Seq(HeardEvents(n)) /\ QueueOK(r, pending, known, accepted', Begun, n)
       /\ \A x : Alive(q, pending, x) => Alive(r, pending, x)
  <2>1. \A u \in DOMAIN accepted' : u <= t
    BY <1>1, <1>4, <1>6, <1>7, Constant
  <2> QED
    BY <1>1, <1>4, <1>7, <1>11, <1>12, <2>1, QueueLast
<1> HIDE DEF r
<1> QED
  BY <1>2, <1>3, <1>4, <1>5, <1>6, <1>7, <1>8, <1>11, <1>13, <1>14 DEF t

\* The session is set to running.
LEMMA ConfirmLemma ==
    ASSUME IInv, SetRunning
    PROVE  /\ job.pc = "set" /\ job' = Idle
           /\ job.turn \in DOMAIN accepted /\ job.turn \in Turns /\ job.turn = Len(accepted)
           /\ accepted[job.turn].msg = job.msg /\ job.msg \in Messages
           /\ job.life \in {None, msgs[job.msg]}
           /\ \E s \in Sessions :
                 /\ s.status = "running" /\ s.active = job.turn /\ s.life = job.life
                 /\ Sets(s) /\ inbox' = Append(inbox, SetEvent("running"))
                 /\ queue' = Append(queue, Heard("set", job.turn, None))
           /\ revived' \in {revived, job.turn}
           /\ UNCHANGED <<goal, lives, msgs, latch, observed, ingestion, provider,
                          accepted, charged, missed, obscured, bounds>>
<1> DEFINE s == [status |-> "running", active |-> job.turn, life |-> job.life]
<1>1. job.pc = "set" /\ job \in Jobs(Len(msgs)) /\ queue \in Seq(HeardEvents(Len(msgs)))
      /\ Len(msgs) \in Nat
  BY MsgFacts DEF SetRunning, IInv, TypeOK
<1>2. /\ job.turn \in DOMAIN accepted /\ job.turn \in Turns /\ job.turn = Len(accepted)
      /\ accepted[job.turn].msg = job.msg /\ job.msg \in Messages
      /\ job.life \in {None, msgs[job.msg]}
  BY <1>1, SentFacts DEF IInv, JobOK, Sent, Messages
<1>3. s \in Sessions
  BY <1>1, <1>2 DEF Sessions, SessionStates, TurnOrNone, Jobs
<1>4. /\ job' = Idle /\ revived' \in {revived, job.turn}
      /\ UNCHANGED <<goal, lives, msgs, latch, observed, ingestion, provider,
                     accepted, charged, missed, obscured, bounds>>
  BY DEF SetRunning
<1>5. Sets(s) /\ inbox' = Append(inbox, SetEvent("running")) /\ queue' = queue \o Learns(s)
  BY DEF SetRunning, ReactorSets
<1>6. queue \o Learns(s) = Append(queue, Heard("set", job.turn, None))
  BY <1>1, <1>2, Constant DEF Learns
<1> QED
  BY <1>1, <1>2, <1>3, <1>4, <1>5, <1>6

LEMMA FailLemma ==
    ASSUME TypeOK, Fail
    PROVE  /\ job.pc = "send" /\ session' \in Sessions /\ rows' \in Seq(Messages)
           /\ goal' = Reported(msgs[job.msg], "blocked")
           /\ job' \in Jobs(Len(msgs)) /\ job'.pc = "replace" /\ job'.msg = job.msg
           /\ \E es, fs : /\ Quiet(es, Len(msgs)) /\ Quiet(fs, Len(msgs))
                          /\ inbox' = (inbox \o es) \o fs
           /\ \/ turns' = turns
              \/ \E s \in Sessions : s.status # "running" /\ turns' = Folded(s)
<1> DEFINE unbound == [session EXCEPT !.life = None]
           clears == /\ job.life # None /\ session.life = job.life
                     /\ session.status # "running" /\ session.active = None
           es == IF clears THEN <<SetEvent(session.status)>> ELSE <<>>
           fs == ReportEvents(msgs[job.msg], "blocked")
           j == IF clears THEN Moved(job) ELSE job
<1>1. session \in Sessions /\ job \in Jobs(Len(msgs)) /\ rows \in Seq(Messages)
      /\ Len(msgs) \in Nat
  BY MsgFacts DEF TypeOK
<1>2. unbound \in Sessions /\ unbound.status = session.status
  BY <1>1 DEF Sessions, LifeOrNone
<1>3. j \in Jobs(Len(msgs)) /\ j.msg = job.msg
  BY <1>1, MovedLemma
<1>4. Quiet(es, Len(msgs))
  BY <1>1, EventTypes DEF Quiet, Sessions
<1>5. Quiet(fs, Len(msgs))
  BY ReportEventsLemma DEF GoalStates
<1>6. rows' \in Seq(Messages)
  BY <1>1, WithoutType DEF Fail
<1>7. /\ job.pc = "send" /\ goal' = Reported(msgs[job.msg], "blocked")
      /\ session' = IF clears THEN unbound ELSE session
      /\ turns' = IF clears THEN Folded(unbound) ELSE turns
      /\ inbox' = (inbox \o es) \o fs
      /\ job' = [j EXCEPT !.pc = "replace"]
  BY DEF Fail
<1> HIDE DEF j, es, fs
<1>8. job' \in Jobs(Len(msgs)) /\ job'.pc = "replace" /\ job'.msg = job.msg
  BY <1>3, <1>7 DEF Jobs
<1>9. \/ turns' = turns
      \/ \E s \in Sessions : s.status # "running" /\ turns' = Folded(s)
  BY <1>2, <1>7
<1> HIDE DEF unbound, clears
<1> QED
  BY <1>1, <1>2, <1>4, <1>5, <1>6, <1>7, <1>8, <1>9
-----------------------------------------------------------------------------
(* The steps of the ingestion.                                             *)

\* A turn is remembered as bound if it has a row.
LEMMA KnownLemma ==
    ASSUME TypeOK, NEW t \in TurnOrNone
    PROVE  Known(t) = known \cup (Known(t) \cap Begun)
<1>1. {u \in {t, session.active} \ {None} : HasRow(u)} \subseteq Begun
  BY DEF TypeOK, Begun, Sessions, TurnOrNone
<1> QED
  BY <1>1 DEF Known

\* The first event is taken.
LEMMA HeardLemma ==
    ASSUME IInv, NEW kinds, TakeHeard(kinds), "requested" \notin kinds
    PROVE  LET t == Head(queue).turn IN
           /\ ingest = NoIngest /\ ~Starting /\ queue # <<>> /\ Head(queue).kind \in kinds
           /\ Head(queue) \in HeardEvents(Len(msgs)) /\ ~Asks(Head(queue))
           /\ t \in DOMAIN accepted /\ t \in Turns /\ t # None
           /\ queue' = Tail(queue) /\ queue' \in Seq(HeardEvents(Len(msgs)))
           /\ QueueOK(queue', pending, known, accepted, Begun, Len(msgs))
           /\ \A x : Alive(queue, pending, x) => Alive(queue', pending, x)
           /\ Known(t) = known \cup (Known(t) \cap Begun)
<1> DEFINE t == Head(queue).turn
<1>1. /\ ingest = NoIngest /\ queue # <<>> /\ Head(queue).kind \in kinds /\ queue' = Tail(queue)
      /\ queue \in Seq(HeardEvents(Len(msgs))) /\ Len(msgs) \in Nat
      /\ session \in Sessions /\ known \subseteq Turns
  BY MsgFacts DEF TakeHeard, IInv, TypeOK
<1>2. Head(queue) \in HeardEvents(Len(msgs)) /\ queue' \in Seq(HeardEvents(Len(msgs)))
      /\ Head(queue) = queue[1] /\ 1 \in DOMAIN queue
  BY <1>1, TailLemma
<1>3. ~Asks(Head(queue))
  BY <1>1 DEF Asks
<1>4. t \in DOMAIN accepted /\ t \in Turns /\ t # None
  BY <1>2, <1>3, SentFacts, Constant DEF IInv, QueueOK, HeardOK
<1>5. QueueOK(queue', pending, known, accepted, Begun, Len(msgs))
  BY <1>1, <1>3, QueueTail DEF IInv
<1>6. \A x : Alive(queue, pending, x) => Alive(queue', pending, x)
  BY <1>1, <1>3, AliveTail
<1>7. ~Starting
  BY <1>1 DEF NoIngest, Starting, Setting
<1>8. Known(t) = known \cup (Known(t) \cap Begun)
  BY <1>4, KnownLemma DEF IInv, TurnOrNone
<1> QED
  BY <1>1, <1>2, <1>3, <1>4, <1>5, <1>6, <1>7, <1>8

\* A turn's tokens are read.
LEMMA UsageLemma ==
    ASSUME TypeOK, NEW t \in Turns, ReadUsage(t)
    PROVE  /\ t \in DOMAIN accepted /\ ingest = NoIngest /\ ~Setting
           /\ known' = Known(t) /\ Known(t) = known \cup (Known(t) \cap Begun)
           /\ UNCHANGED <<lives, msgs, session, rows, turns, latch, observed, job, queue, pending,
                          ingest, provider, accepted, missed, revived, obscured, bounds>>
<1>1. /\ t \in DOMAIN accepted /\ ingest = NoIngest /\ known' = Known(t)
      /\ UNCHANGED <<lives, msgs, session, rows, turns, latch, observed, job, queue, pending,
                     ingest, provider, accepted, missed, revived, obscured, bounds>>
  BY DEF ReadUsage, Underway
<1>2. ~Setting
  BY <1>1 DEF Setting, NoIngest
<1> QED
  BY <1>1, <1>2, KnownLemma DEF TurnOrNone

\* A notice of the agent's session is read.
LEMMA NoticeLemma ==
    ASSUME IInv, ReadNotice
    PROVE  /\ ingest = NoIngest /\ ~Setting /\ known' = known \cup (known' \cap Begun)
           /\ known' \subseteq Turns
           /\ ingest' \in Ingests /\ Setting' /\ ingest'.set.active = session.active
           /\ ingest'.set.life = session.life
           /\ Starting' => session.active \in known' /\ session.active \in Begun
           /\ ~Starting' => session.active = None
           /\ faults < MaxFaults /\ faults' = faults + 1
           /\ UNCHANGED <<tables, reactor, pending, provider, queue, history, changes>>
<1> DEFINE s == [session EXCEPT !.status = IF session.active # None THEN "running" ELSE "ready"]
<1>1. /\ ingest = NoIngest /\ known' = Known(None)
      /\ ingest' = [NoIngest EXCEPT !.pc = "notice", !.set = s]
      /\ faults < MaxFaults /\ faults' = faults + 1
      /\ UNCHANGED <<tables, reactor, pending, provider, queue, history, changes>>
  BY DEF ReadNotice
<1>2. session \in Sessions /\ known \subseteq Turns
  BY DEF IInv, TypeOK
<1>3. /\ s \in Sessions /\ s.active = session.active /\ s.life = session.life
      /\ s.status = "running" <=> session.active # None
  BY <1>2 DEF Sessions, SessionStates
<1> HIDE DEF s
<1>4. ingest' \in Ingests /\ Setting' /\ ingest'.set = s
  BY <1>1, <1>3, NoSetLemma DEF NoIngest, Ingests, LifeOrNone, Setting
<1>5. ~Setting
  BY <1>1 DEF NoIngest, Setting
<1>6. Known(None) = known \cup (Known(None) \cap Begun)
  BY KnownLemma DEF IInv, TurnOrNone
<1>7. session.active # None => session.active \in Begun /\ session.active \in Known(None)
  BY DEF IInv, SessionOK, Bound, Known, Begun
<1>8. known' \subseteq Turns
  BY <1>1, <1>2, <1>6 DEF Begun
<1> QED
  BY <1>1, <1>3, <1>4, <1>5, <1>6, <1>7, <1>8 DEF Starting

\* A turn without a row is heard of: its start is remembered.
LEMMA BindingLemma ==
    ASSUME IInv, TakeHeard({"started"}), NEW t, t = Head(queue).turn
    PROVE  /\ Binding(t) \in LifeOrNone /\ Behind(Binding(t), accepted[t].msg)
           /\ ~HasRow(t) => t \notin known /\ pending # <<>>
<1>1. /\ ~Starting /\ queue # <<>> /\ Head(queue).kind = "started" /\ t \in Turns
      /\ t \in DOMAIN accepted
  BY HeardLemma
<1>2. CASE HasRow(t)
  <2>1. Binding(t) = turns[t].life
    BY <1>2 DEF Binding
  <2>2. turns[t] \in TurnRows(Len(msgs)) /\ t \in Begun
    BY <1>1, <1>2 DEF IInv, TypeOK, Begun
  <2> QED
    BY <1>2, <2>1, <2>2 DEF TurnRows, IInv, NeverAhead
<1>3. CASE ~HasRow(t)
  <2>1. t \notin known
    BY <1>1, <1>3 DEF IInv, RowsOK, Begun
  <2>2. /\ Len(msgs) \in Nat /\ queue \in Seq(HeardEvents(Len(msgs)))
        /\ pending \in Seq(1..Len(msgs)) /\ Messages = 1..Len(msgs)
        /\ accepted \in Seq([msg : 1..Len(msgs), life : LifeOrNone])
    BY MsgFacts DEF IInv, TypeOK
  <2>3. QueueOK(queue, pending, known, accepted, Begun, Len(msgs)) /\ SentInOrder(accepted)
    BY DEF IInv
  <2>4. Binds(Head(queue)) /\ Head(queue).turn \notin known
    BY <1>1, <2>1 DEF Binds
  <2>5. pending # <<>> /\ Head(pending) \in Messages /\ Head(pending) <= accepted[t].msg
    BY <1>1, <2>2, <2>3, <2>4, QueuePop
  <2>6. Binding(t) = msgs[Head(pending)]
    BY <1>3, <2>5 DEF Binding
  <2>7. accepted[t].msg \in Messages /\ msgs[Head(pending)] \in Lives
        /\ msgs[accepted[t].msg] \in Lives
    BY <1>1, <2>5, MsgFacts, SentFacts DEF IInv
  <2>8. msgs[Head(pending)] <= msgs[accepted[t].msg]
    <3>1. DOMAIN msgs = Messages /\ Messages \subseteq Nat
      BY MsgFacts DEF IInv
    <3>2. Head(pending) = accepted[t].msg \/ Head(pending) < accepted[t].msg
      <4> DEFINE h == Head(pending)
                 m == accepted[t].msg
      <4>1. h \in Nat /\ m \in Nat /\ h <= m
        BY <2>5, <2>7, <3>1
      <4> HIDE DEF h, m
      <4>2. h = m \/ h < m
        BY <4>1
      <4> QED
        BY <4>2 DEF h, m
    <3> QED
      BY <2>5, <2>7, <3>1, <3>2, Constant DEF IInv, LivesOK
  <2> QED
    BY <1>3, <2>1, <2>5, <2>6, <2>7, <2>8 DEF Behind, LifeOrNone
<1> QED
  BY <1>2, <1>3

\* The turn that is starting, or the end of a turn, reaches the session.
LEMMA IngestSetsLemma ==
    ASSUME IInv, IngestSets
    PROVE  /\ Setting /\ ingest.set \in Sessions /\ Sets(ingest.set)
           /\ inbox' = Append(inbox, SetEvent(ingest.set.status))
           /\ job' = Moved(job) /\ ingest' \in Ingests /\ ~Setting'
           /\ \/ queue' = queue
              \/ /\ Starting /\ ingest.set.active \in Turns /\ ingest.set.active \in DOMAIN accepted
                 /\ ingest.set.active \in known
                 /\ queue' = Append(queue, Heard("set", ingest.set.active, None))
           /\ obscured' \in BOOLEAN
           /\ UNCHANGED <<goal, lives, msgs, latch, observed, provider, pending, known,
                          accepted, charged, missed, revived, bounds>>
<1>1. /\ ingest \in Ingests /\ ingest.set \in Sessions /\ queue \in Seq(HeardEvents(Len(msgs)))
      /\ Len(msgs) \in Nat
  BY MsgFacts DEF IInv, TypeOK, Ingests
<1>2. /\ Setting /\ Sets(ingest.set)
      /\ inbox' = Append(inbox, SetEvent(ingest.set.status))
      /\ job' = Moved(job) /\ queue' = queue \o Learns(ingest.set)
      /\ ingest' \in {NoIngest, [ingest EXCEPT !.pc = "act"]}
      /\ obscured' \in BOOLEAN
      /\ UNCHANGED <<goal, lives, msgs, latch, observed, provider, pending, known,
                     accepted, charged, missed, revived, bounds>>
  BY DEF IngestSets, Setting
<1>3. NoIngest \in Ingests /\ NoIngest.pc = "idle"
  BY NoSetLemma DEF NoIngest, Ingests, LifeOrNone
<1>4. ingest' \in Ingests /\ ~Setting'
  BY <1>1, <1>2, <1>3 DEF Ingests, Setting
<1>6. \/ queue' = queue
      \/ /\ ingest.set.status = "running" /\ ingest.set.active \in Turns
         /\ queue' = Append(queue, Heard("set", ingest.set.active, None))
  BY <1>1, <1>2, LearnsLemma
<1>7. ingest.set.status = "running" => /\ Starting /\ ingest.set.active \in known
                                       /\ ingest.set.active \in DOMAIN accepted
  BY <1>2 DEF IInv, RowsOK, Starting
<1> QED
  BY <1>1, <1>2, <1>4, <1>6, <1>7
-----------------------------------------------------------------------------
(* Types.                                                                  *)

LEMMA NextTypes == ASSUME IInv, [Next]_vars PROVE TypeOK'
<1> USE DEF tables, reactor, ingestion, history, bounds
<1>0. /\ TypeOK /\ LivesOK /\ StartsOK /\ InboxOK(inbox, accepted, Len(msgs))
      /\ QueueOK(queue, pending, known, accepted, Begun, Len(msgs)) /\ RowsOK
      /\ inbox \in Seq(InboxEvents(Len(msgs))) /\ queue \in Seq(HeardEvents(Len(msgs)))
      /\ Len(msgs) \in Nat /\ pending \in Seq(Messages) /\ Messages = 1..Len(msgs)
      /\ goal \in Goals
  BY MsgFacts DEF IInv, TypeOK
<1>m. msgs' = msgs => Messages' = Messages
  BY DEF Messages
<1>n. Messages' = 1..Len(msgs')
  BY DEF Messages
<1>q. \A es : Quiet(es, Len(msgs)) => inbox \o es \in Seq(InboxEvents(Len(msgs)))
  BY <1>0, InboxQuiet
<1>s. \A s \in SessionStates : Append(inbox, SetEvent(s)) \in Seq(InboxEvents(Len(msgs)))
  <2> SUFFICES ASSUME NEW s \in SessionStates
               PROVE  Append(inbox, SetEvent(s)) \in Seq(InboxEvents(Len(msgs)))
    OBVIOUS
  <2>1. SetEvent(s) \in InboxEvents(Len(msgs)) /\ SetEvent(s).kind # "continue"
    BY <1>0, EventTypes
  <2> QED
    BY <1>0, <2>1, InboxOne
<1>f. faults < MaxFaults /\ faults' = faults + 1 => faults' \in 0..MaxFaults
  BY <1>0, Constant DEF TypeOK
\* A continuation may be requested.
<1>c. ASSUME NEW in \in Seq(InboxEvents(Len(msgs))), InboxOK(in, accepted, Len(msgs)),
             NEW l, Continue(l, in, queue), turns' = turns, job' \in Jobs(Len(msgs)),
             accepted' = accepted, latch' \in 0..Len(msgs), pending' = pending
      PROVE  /\ msgs' \in Seq(Lives) /\ rows' \in Seq(Messages')
             /\ turns' \in [Turns -> TurnRows(Len(msgs'))]
             /\ inbox' \in Seq(InboxEvents(Len(msgs'))) /\ latch' \in 0..Len(msgs')
             /\ job' \in Jobs(Len(msgs')) /\ queue' \in Seq(HeardEvents(Len(msgs')))
             /\ pending' \in Seq(Messages')
             /\ accepted' \in Seq([msg : Messages', life : LifeOrNone])
  <2>1. /\ msgs' \in Seq(Lives) /\ Len(msgs') \in Nat /\ Len(msgs) <= Len(msgs')
        /\ rows' \in Seq(1..Len(msgs')) /\ inbox' \in Seq(InboxEvents(Len(msgs')))
        /\ queue' \in Seq(HeardEvents(Len(msgs')))
    BY <1>0, <1>c, ContinueLemma DEF Extends
  <2>2. /\ Jobs(Len(msgs)) \subseteq Jobs(Len(msgs'))
        /\ TurnRows(Len(msgs)) \subseteq TurnRows(Len(msgs'))
        /\ Seq(1..Len(msgs)) \subseteq Seq(1..Len(msgs'))
    BY <1>0, <2>1, TypesGrow
  <2>3. turns' \in [Turns -> TurnRows(Len(msgs'))]
    BY <1>0, <1>c, <2>2 DEF TypeOK
  <2>4. pending' \in Seq(Messages')
    BY <1>0, <1>c, <1>n, <2>2
  <2>5. Messages \subseteq Messages'
    BY <1>0, <1>n, <2>1
  <2>6. [msg : Messages, life : LifeOrNone] \subseteq [msg : Messages', life : LifeOrNone]
    BY <2>5
  <2>7. accepted' \in Seq([msg : Messages', life : LifeOrNone])
    <3>1. accepted \in Seq([msg : Messages, life : LifeOrNone])
      BY <1>0 DEF TypeOK
    <3>2. ASSUME NEW S, NEW T, S \subseteq T PROVE Seq(S) \subseteq Seq(T)
      BY <3>2
    <3>3. Seq([msg : Messages, life : LifeOrNone]) \subseteq Seq([msg : Messages', life : LifeOrNone])
      BY <2>6, <3>2
    <3> QED
      BY <1>c, <3>1, <3>3
  <2>8. latch' \in 0..Len(msgs')
    BY <1>0, <1>c, <2>1
  <2> QED
    BY <1>c, <1>n, <2>1, <2>2, <2>3, <2>4, <2>7, <2>8
<1>1. CASE Edits
  BY <1>0, <1>1, <1>m, <1>q, EditsLemma DEF TypeOK
<1>2. CASE EndTurn
  <2>1. /\ provider # None /\ provider \in Turns /\ provider' = None
        /\ \E kind \in {"completed", "failed"} : queue' = Append(queue, Heard(kind, provider, None))
        /\ faults' \in 0..MaxFaults
        /\ UNCHANGED <<tables, reactor, ingestion, history, changes>>
    BY <1>0, <1>2, <1>f DEF EndTurn, TypeOK, TurnOrNone
  <2>2. queue' \in Seq(HeardEvents(Len(msgs)))
    <3> SUFFICES ASSUME NEW kind \in {"completed", "failed"}
                 PROVE  Append(queue, Heard(kind, provider, None)) \in Seq(HeardEvents(Len(msgs)))
      BY <2>1
    <3>1. Heard(kind, provider, None) \in HeardEvents(Len(msgs))
      BY <1>0, <2>1, HeardTypes DEF TurnEnds
    <3> QED
      BY <1>0, <3>1, AppendLemma
  <2>3. provider' \in TurnOrNone
    BY <2>1 DEF TurnOrNone
  <2> QED
    BY <1>0, <1>m, <2>1, <2>2, <2>3 DEF TypeOK
<1>3. CASE TakeContinuation
  <2> DEFINE m == Head(inbox).msg
  <2>1. /\ inbox # <<>> /\ Head(inbox).kind = "continue" /\ inbox' = Tail(inbox) /\ Start(m)
        /\ UNCHANGED <<goal, lives, msgs, session, turns, observed, ingestion, provider, queue,
                       history, changes, faults>>
    BY <1>3 DEF TakeContinuation, TakeEvent
  <2>2. inbox' \in Seq(InboxEvents(Len(msgs))) /\ m \in Messages
    BY <1>0, <2>1, InboxTail
  <2> HIDE DEF m
  <2>3. rows' \in Seq(Messages) /\ latch' \in 0..Len(msgs) /\ job' \in Jobs(Len(msgs))
    <3>1. CASE MayContinue(goal, session, msgs[m]) /\ latch = None
      <4>1. latch' = m /\ rows' = rows /\ job' = [Idle EXCEPT !.pc = "ensure", !.msg = m]
        BY <2>1, <3>1 DEF Start
      <4>2. m \in 0..Len(msgs)
        BY <1>0, <2>2
      <4>3. job' \in Jobs(Len(msgs))
        BY <4>1, <4>2 DEF Idle, Jobs, None, LifeOrNone, TurnOrNone
      <4> QED
        BY <1>0, <4>1, <4>2, <4>3 DEF TypeOK
    <3>2. CASE ~(MayContinue(goal, session, msgs[m]) /\ latch = None)
      <4>1. rows' \in {rows, Without(rows, m)} /\ UNCHANGED <<latch, job>>
        BY <2>1, <3>2 DEF Start
      <4> QED
        BY <1>0, <4>1, WithoutType DEF TypeOK
    <3> QED
      BY <3>1, <3>2
  <2> QED
    BY <1>0, <1>m, <2>1, <2>2, <2>3 DEF TypeOK
<1>4. CASE TakeGoal
  <2>1. inbox # <<>> /\ Tail(inbox) \in Seq(InboxEvents(Len(msgs)))
        /\ InboxOK(Tail(inbox), accepted, Len(msgs))
    BY <1>0, <1>4, InboxTail DEF TakeGoal, TakeEvent
  <2>2. UNCHANGED <<goal, lives, session, turns, latch, observed, job, ingestion, history,
                    changes, faults>>
    BY <1>4 DEF TakeGoal
  <2>3. \/ Interrupt /\ inbox' = Tail(inbox) /\ UNCHANGED <<msgs, rows>>
        \/ Continue(Head(inbox).goal.life, Tail(inbox), queue) /\ UNCHANGED provider
        \/ inbox' = Tail(inbox) /\ UNCHANGED <<msgs, rows, queue, provider>>
    BY <1>4 DEF TakeGoal
  <2>4. CASE Interrupt /\ inbox' = Tail(inbox) /\ UNCHANGED <<msgs, rows>>
    <3>1. provider' \in TurnOrNone /\ queue' \in Seq(HeardEvents(Len(msgs)))
      BY <1>0, <2>4, InterruptLemma
    <3> QED
      BY <1>0, <1>m, <2>1, <2>2, <2>4, <3>1 DEF TypeOK
  <2>5. CASE Continue(Head(inbox).goal.life, Tail(inbox), queue) /\ UNCHANGED provider
    <3>1. job' \in Jobs(Len(msgs)) /\ latch' \in 0..Len(msgs)
      BY <1>0, <2>2 DEF TypeOK
    <3> QED
      BY <1>0, <1>c, <2>1, <2>2, <2>5, <3>1 DEF TypeOK
  <2>6. CASE inbox' = Tail(inbox) /\ UNCHANGED <<msgs, rows, queue, provider>>
    BY <1>0, <1>m, <2>1, <2>2, <2>6 DEF TypeOK
  <2> QED
    BY <2>3, <2>4, <2>5, <2>6
<1>5. CASE TakeClear
  <2>1. inbox' \in Seq(InboxEvents(Len(msgs)))
    BY <1>0, <1>5, InboxTail DEF TakeClear, TakeEvent
  <2>2. provider' \in TurnOrNone /\ queue' \in Seq(HeardEvents(Len(msgs)))
    <3>1. CASE Interrupt
      BY <1>0, <3>1, InterruptLemma
    <3>2. CASE UNCHANGED <<provider, queue>>
      BY <1>0, <3>2 DEF TypeOK
    <3> QED
      BY <1>5, <3>1, <3>2 DEF TakeClear
  <2>3. UNCHANGED <<goal, lives, msgs, session, rows, turns, latch, observed, job, ingestion,
                    history, changes, faults>>
    BY <1>5 DEF TakeClear
  <2> QED
    BY <1>0, <1>m, <2>1, <2>2, <2>3 DEF TypeOK
<1>6. CASE TakeSet
  <2>1. inbox' \in Seq(InboxEvents(Len(msgs)))
    BY <1>0, <1>6, InboxTail DEF TakeSet, TakeEvent
  <2>2. latch' \in {None, latch} /\ observed' \in {TRUE, FALSE, observed}
        /\ UNCHANGED <<tables, job, ingestion, provider, queue, history, changes, faults>>
    BY <1>6 DEF TakeSet
  <2>3. latch' \in 0..Len(msgs)
    <3>1. latch \in 0..Len(msgs) /\ latch' \in {None, latch} /\ None = 0
      BY <1>0, <2>2 DEF TypeOK, None
    <3> QED
      BY <1>0, <3>1
  <2>4. observed' \in BOOLEAN
    <3>1. observed \in BOOLEAN
      BY <1>0 DEF TypeOK
    <3> QED
      BY <2>2, <3>1
  <2> QED
    BY <1>0, <1>m, <2>1, <2>2, <2>3, <2>4 DEF TypeOK
<1>7. CASE Ensure \/ Prebind
  <2>1. /\ session' \in Sessions /\ rows' \in Seq(Messages)
        /\ turns' \in [Turns -> TurnRows(Len(msgs))] /\ queue' = queue
        /\ inbox' \in Seq(InboxEvents(Len(msgs)))
    <3>1. CASE UNCHANGED <<session, rows, turns, inbox, queue>>
      BY <1>0, <3>1 DEF TypeOK
    <3>2. ASSUME NEW s \in Sessions, Sets(s), inbox' = Append(inbox, SetEvent(s.status)),
                 queue' = queue
          PROVE  /\ session' \in Sessions /\ rows' \in Seq(Messages)
                 /\ turns' \in [Turns -> TurnRows(Len(msgs))] /\ queue' = queue
                 /\ inbox' \in Seq(InboxEvents(Len(msgs)))
      BY <1>0, <1>s, <3>2, SetsTypes DEF Sessions
    <3> QED
      BY <1>0, <1>7, <3>1, <3>2, PrepareLemma
  <2>2. job' \in Jobs(Len(msgs))
    BY <1>0, <1>7, PrepareLemma
  <2>3. UNCHANGED <<goal, lives, msgs, latch, observed, ingestion, provider, history, bounds>>
    BY <1>0, <1>7, PrepareLemma
  <2> QED
    BY <1>0, <1>m, <2>1, <2>2, <2>3 DEF TypeOK
<1>8. CASE Accept
  <2>1. /\ accepted' \in Seq([msg : Messages, life : LifeOrNone]) /\ Len(accepted') <= MaxTurns
        /\ provider' \in TurnOrNone /\ job' \in Jobs(Len(msgs))
        /\ queue' \in Seq(HeardEvents(Len(msgs)))
    BY <1>8, AcceptLemma DEF TurnOrNone
  <2>2. UNCHANGED <<tables, inbox, latch, observed, ingestion, charged, missed, revived,
                    obscured, bounds>>
    BY <1>8 DEF Accept
  <2> QED
    BY <1>0, <1>m, <2>1, <2>2 DEF TypeOK
<1>9. CASE SetRunning
  <2>1. /\ session' \in Sessions /\ rows' \in Seq(Messages)
        /\ turns' \in [Turns -> TurnRows(Len(msgs))] /\ queue' \in Seq(HeardEvents(Len(msgs)))
        /\ inbox' \in Seq(InboxEvents(Len(msgs)))
    <3>1. PICK s \in Sessions :
             /\ Sets(s) /\ inbox' = Append(inbox, SetEvent("running"))
             /\ queue' = Append(queue, Heard("set", job.turn, None)) /\ job.turn \in Turns
      BY <1>9, ConfirmLemma
    <3>2. Heard("set", job.turn, None) \in HeardEvents(Len(msgs))
      BY <1>0, <3>1, HeardTypes
    <3>3. queue' \in Seq(HeardEvents(Len(msgs)))
      BY <1>0, <3>1, <3>2, AppendLemma
    <3> QED
      BY <1>0, <1>s, <3>1, <3>3, SetsTypes DEF SessionStates
  <2>2. job' \in Jobs(Len(msgs)) /\ revived' \in TurnOrNone
    BY <1>0, <1>9, ConfirmLemma, IdleLemma DEF TypeOK, TurnOrNone
  <2>3. UNCHANGED <<goal, lives, msgs, latch, observed, ingestion, provider, accepted, charged,
                    missed, obscured, bounds>>
    BY <1>9, ConfirmLemma
  <2> QED
    BY <1>0, <1>m, <2>1, <2>2, <2>3 DEF TypeOK
<1>19. CASE Reread
  <2>1. /\ job' \in {Idle, [job EXCEPT !.pc = "set"]}
        /\ UNCHANGED <<tables, inbox, latch, observed, ingestion, provider, queue, history, bounds>>
    BY <1>19 DEF Reread
  <2>2. job' \in Jobs(Len(msgs))
    BY <1>0, <2>1, IdleLemma DEF TypeOK, Jobs
  <2> QED
    BY <1>0, <1>m, <2>1, <2>2 DEF TypeOK
<1>10. CASE Fail
  <2>1. turns' \in [Turns -> TurnRows(Len(msgs))]
    <3>1. \/ turns' = turns
          \/ \E s \in Sessions : s.status # "running" /\ turns' = Folded(s)
      BY <1>0, <1>10, FailLemma
    <3> QED
      BY <1>0, <3>1, FoldedLemma DEF TypeOK
  <2>2. goal' \in Goals
    BY <1>0, <1>10, FailLemma, GoalLemma DEF GoalStates
  <2>3. inbox' \in Seq(InboxEvents(Len(msgs)))
    <3>1. PICK es, fs : /\ Quiet(es, Len(msgs)) /\ Quiet(fs, Len(msgs))
                        /\ inbox' = (inbox \o es) \o fs
      BY <1>0, <1>10, FailLemma
    <3>2. inbox \o es \in Seq(InboxEvents(Len(msgs))) /\ InboxOK(inbox \o es, accepted, Len(msgs))
      BY <1>0, <3>1, InboxQuiet
    <3> QED
      BY <3>1, <3>2, InboxQuiet
  <2>4. session' \in Sessions /\ rows' \in Seq(Messages) /\ job' \in Jobs(Len(msgs))
    BY <1>0, <1>10, FailLemma
  <2>5. UNCHANGED <<lives, msgs, latch, observed, ingestion, provider, queue, history, changes>>
        /\ faults' \in 0..MaxFaults
    BY <1>10, <1>f DEF Fail
  <2> QED
    BY <1>0, <1>m, <2>1, <2>2, <2>3, <2>4, <2>5 DEF TypeOK
<1>11. CASE Replace
  <2>1. UNCHANGED <<goal, lives, session, turns, observed, ingestion, provider,
                    history, changes, faults>>
        /\ job' \in Jobs(Len(msgs)) /\ latch' \in 0..Len(msgs)
    <3>1. job' = Idle /\ latch' \in {latch, None}
          /\ UNCHANGED <<goal, lives, session, turns, observed, ingestion, provider,
                         history, changes, faults>>
      BY <1>11 DEF Replace
    <3> QED
      BY <1>0, <3>1, IdleLemma, Constant DEF TypeOK
  <2>2. CASE Continue(goal.life, inbox, queue)
    BY <1>0, <1>c, <2>1, <2>2 DEF TypeOK
  <2>3. CASE UNCHANGED <<msgs, rows, inbox, queue>>
    BY <1>0, <1>m, <2>1, <2>3 DEF TypeOK
  <2> QED
    BY <1>11, <2>2, <2>3 DEF Replace
<1>12. CASE HearDomain
  <2>1. /\ queue # <<>> /\ queue' = Tail(queue)
        /\ UNCHANGED <<tables, reactor, ingest, provider, history, changes, faults>>
        /\ Head(queue) \in HeardEvents(Len(msgs)) /\ Head(queue) = queue[1] /\ 1 \in DOMAIN queue
        /\ queue' \in Seq(HeardEvents(Len(msgs)))
    BY <1>0, <1>12, TailLemma DEF HearDomain, TakeHeard
  <2>2. pending' \in Seq(Messages) /\ known' \subseteq Turns
    <3>1. CASE Head(queue).kind = "requested"
      <4>1. /\ pending' = Enqueued(pending, Head(queue).msg)
            /\ known' = known
        BY <1>12, <3>1 DEF HearDomain
      <4>2. pending' \in Seq(Messages)
        BY <1>0, <2>1, <3>1, <4>1, QueueAsk DEF Asks
      <4> QED
        BY <1>0, <4>1, <4>2 DEF TypeOK
    <3>2. CASE Head(queue).kind # "requested"
      <4>1. /\ pending' \in {pending, Rest(pending)} /\ known' = known \cup {Head(queue).turn}
        BY <1>12, <3>2 DEF HearDomain
      <4>2. Head(queue).turn \in Turns
        BY <1>0, <2>1, <3>2, SentFacts DEF QueueOK, HeardOK, Asks
      <4>3. Rest(pending) \in Seq(Messages)
        BY <1>0, RestType
      <4> QED
        BY <1>0, <4>1, <4>2, <4>3 DEF TypeOK
    <3> QED
      BY <3>1, <3>2
  <2> QED
    BY <1>0, <1>m, <2>1, <2>2 DEF TypeOK
<1>13. CASE ReadStarted
  <2> DEFINE t == Head(queue).turn
  <2>1. /\ t \in Turns /\ queue' \in Seq(HeardEvents(Len(msgs)))
        /\ Known(t) = known \cup (Known(t) \cap Begun)
        /\ Binding(t) \in LifeOrNone
        /\ UNCHANGED <<tables, reactor, provider, history, changes, faults>>
    <3>1. TakeHeard({"started"})
      BY <1>13 DEF ReadStarted
    <3>2. UNCHANGED <<tables, reactor, provider, history, changes, faults>>
      BY <1>13 DEF ReadStarted
    <3> QED
      BY <3>1, <3>2, HeardLemma, BindingLemma
  <2>2. Known(t) \subseteq Turns
    BY <1>0, <2>1 DEF TypeOK, Begun
  <2>3. /\ known' \in {Known(t), Known(t) \cup {t}} /\ pending' \in {pending, Rest(pending)}
        /\ \/ ingest' = ingest
           \/ ingest' = [NoIngest EXCEPT !.pc = "set",
                            !.set = [status |-> "running", active |-> t, life |-> Binding(t)]]
    BY <1>13 DEF ReadStarted
  <2>4. Rest(pending) \in Seq(Messages)
    BY <1>0, RestType
  <2>5. ingest' \in Ingests
    <3> DEFINE s == [status |-> "running", active |-> t, life |-> Binding(t)]
    <3>1. s \in Sessions
      BY <2>1 DEF Sessions, SessionStates, TurnOrNone
    <3> HIDE DEF s
    <3>2. [NoIngest EXCEPT !.pc = "set", !.set = s] \in Ingests
      BY <3>1 DEF NoIngest, Ingests, LifeOrNone
    <3> QED
      BY <1>0, <2>3, <3>2 DEF TypeOK, s
  <2> HIDE DEF t
  <2> QED
    BY <1>0, <1>m, <2>1, <2>2, <2>3, <2>4, <2>5 DEF TypeOK
<1>14. ASSUME NEW t \in Turns, ReadUsage(t) PROVE TypeOK'
  <2>1. Known(t) = known \cup (Known(t) \cap Begun)
    BY <1>0, <1>14, UsageLemma
  <2>2. Known(t) \subseteq Turns
    BY <1>0, <2>1 DEF TypeOK, Begun
  <2>3. /\ known' = Known(t)
        /\ UNCHANGED <<lives, msgs, session, rows, turns, latch, observed, job, queue, pending,
                       ingest, provider, accepted, missed, revived, obscured, bounds>>
    BY <1>0, <1>14, UsageLemma
  <2>4. /\ goal' \in Goals /\ inbox' \in Seq(InboxEvents(Len(msgs)))
        /\ charged' \subseteq [turn : Turns, life : Lives]
    <3>1. CASE Counts(t)
      <4>1. /\ goal' = Used(goal) /\ inbox' = inbox \o GoalEvents(goal', FALSE)
            /\ charged' = charged \cup {[turn |-> t, life |-> goal.life]}
        BY <1>14, <3>1 DEF ReadUsage
      <4>2. goal' \in Goals
        BY <1>0, <4>1, GoalLemma
      <4>3. inbox' \in Seq(InboxEvents(Len(msgs)))
        BY <1>0, <1>q, <4>1, <4>2, EventTypes
      <4>4. goal.status # "none"
        BY <3>1 DEF Counts
      <4>5. goal.life \in Lives
        BY <1>0, <4>4 DEF LivesOK
      <4>6. [turn |-> t, life |-> goal.life] \in [turn : Turns, life : Lives]
        BY <4>5
      <4>7. charged \subseteq [turn : Turns, life : Lives]
        BY <1>0 DEF TypeOK
      <4> QED
        BY <4>1, <4>2, <4>3, <4>6, <4>7
    <3>2. CASE ~Counts(t)
      BY <1>0, <1>14, <3>2 DEF ReadUsage, TypeOK
    <3> QED
      BY <3>1, <3>2
  <2> QED
    BY <1>0, <1>m, <2>1, <2>2, <2>3, <2>4 DEF TypeOK
<1>15. CASE ReadEnd
  <2> DEFINE t == Head(queue).turn
  <2>1. /\ t \in Turns /\ queue' \in Seq(HeardEvents(Len(msgs)))
        /\ Known(t) = known \cup (Known(t) \cap Begun)
    <3>1. TakeHeard(TurnEnds)
      BY <1>15 DEF ReadEnd
    <3> QED
      BY <3>1, HeardLemma DEF TurnEnds
  <2>2. Known(t) \subseteq Turns
    BY <1>0, <2>1 DEF TypeOK, Begun
  <2>3. /\ known' = Known(t)
        /\ UNCHANGED <<tables, reactor, pending, provider, history, changes, faults>>
    BY <1>15 DEF ReadEnd
  <2>4. ingest' \in Ingests
    <3> DEFINE s == [NoSet EXCEPT !.status = IF Head(queue).kind = "failed" THEN "error" ELSE "ready"]
               act == ActAfter(Head(queue).kind, t)
    <3>1. s \in Sessions
      BY NoSetLemma DEF Sessions, SessionStates
    <3>2. act \in {"none", "continue", "paused", "blocked"}
      BY DEF ActAfter
    <3>3. NoIngest \in Ingests
      BY NoSetLemma DEF NoIngest, Ingests, LifeOrNone
    <3>4. \/ ingest' = NoIngest
          \/ ingest' = [pc |-> "set", set |-> s, act |-> act, life |-> goal.life]
      BY <1>15 DEF ReadEnd
    <3>5. goal.life \in LifeOrNone
      BY <1>0 DEF Goals
    <3> HIDE DEF s, act
    <3> QED
      BY <3>1, <3>2, <3>3, <3>4, <3>5 DEF Ingests
  <2> HIDE DEF t
  <2> QED
    BY <1>0, <1>m, <2>1, <2>2, <2>3, <2>4 DEF TypeOK
<1>16. CASE IngestSets
  <2>1. /\ ingest.set \in Sessions /\ Sets(ingest.set)
        /\ inbox' = Append(inbox, SetEvent(ingest.set.status))
        /\ job' = Moved(job) /\ ingest' \in Ingests
        /\ \/ queue' = queue
           \/ /\ ingest.set.active \in Turns
              /\ queue' = Append(queue, Heard("set", ingest.set.active, None))
    BY <1>16, IngestSetsLemma
  <2>2. /\ session' \in Sessions /\ rows' \in Seq(Messages)
        /\ turns' \in [Turns -> TurnRows(Len(msgs))]
    BY <1>0, <2>1, SetsTypes
  <2>3. inbox' \in Seq(InboxEvents(Len(msgs)))
    BY <1>s, <2>1 DEF Sessions
  <2>4. job' \in Jobs(Len(msgs))
    BY <1>0, <2>1, MovedLemma DEF TypeOK
  <2>5. queue' \in Seq(HeardEvents(Len(msgs)))
    <3>1. CASE queue' = queue
      BY <1>0, <3>1
    <3>2. CASE /\ ingest.set.active \in Turns
               /\ queue' = Append(queue, Heard("set", ingest.set.active, None))
      <4>1. Heard("set", ingest.set.active, None) \in HeardEvents(Len(msgs))
        BY <1>0, <3>2, HeardTypes
      <4> QED
        BY <1>0, <3>2, <4>1, AppendLemma
    <3> QED
      BY <2>1, <3>1, <3>2
  <2>6. /\ UNCHANGED <<goal, lives, msgs, latch, observed, provider, pending, known,
                       accepted, charged, missed, revived, bounds>>
        /\ obscured' \in BOOLEAN
    BY <1>16, IngestSetsLemma
  <2> QED
    BY <1>0, <1>m, <2>1, <2>2, <2>3, <2>4, <2>5, <2>6 DEF TypeOK
<1>17. CASE IngestActs
  <2>1. UNCHANGED <<lives, session, turns, latch, observed, job, provider, pending, known,
                    accepted, charged, revived, obscured, bounds>>
        /\ ingest' = NoIngest /\ missed' \in {goal.life, missed}
    BY <1>17 DEF IngestActs
  <2>2. ingest' \in Ingests /\ missed' \in LifeOrNone
    BY <1>0, <2>1, NoSetLemma DEF NoIngest, Ingests, LifeOrNone, TypeOK, Goals
  <2>3. CASE Continue(ingest.life, inbox, queue) /\ UNCHANGED goal
    <3>1. job' \in Jobs(Len(msgs)) /\ latch' \in 0..Len(msgs)
      BY <1>0, <2>1 DEF TypeOK
    <3> QED
      BY <1>0, <1>c, <2>1, <2>2, <2>3, <3>1 DEF TypeOK
  <2>4. CASE ingest.act # "continue"
    <3> DEFINE es == IF ingest.act = "none" THEN <<>> ELSE ReportEvents(ingest.life, ingest.act)
    <3>1. /\ goal' = IF ingest.act = "none" THEN goal ELSE Reported(ingest.life, ingest.act)
          /\ inbox' = inbox \o es /\ UNCHANGED <<msgs, rows, queue>>
      BY <1>17, <2>4 DEF IngestActs
    <3>2. ingest.act = "none" \/ ingest.act \in GoalStates
      BY <1>0, <2>4 DEF TypeOK, Ingests, GoalStates
    <3>3. goal' \in Goals
      BY <1>0, <3>1, <3>2, GoalLemma
    <3>4. Quiet(es, Len(msgs))
      BY <1>0, <3>2, ReportEventsLemma DEF Quiet
    <3> HIDE DEF es
    <3> QED
      BY <1>0, <1>m, <1>q, <2>1, <2>2, <3>1, <3>3, <3>4 DEF TypeOK
  <2> QED
    BY <1>17, <2>3, <2>4 DEF IngestActs
<1>18. CASE UNCHANGED vars
  BY <1>0, <1>m, <1>18 DEF vars, TypeOK
<1>20. CASE ReadNotice
  <2>1. /\ ingest' \in Ingests /\ known' \subseteq Turns /\ faults' \in 0..MaxFaults
        /\ UNCHANGED <<tables, reactor, pending, provider, queue, history, changes>>
    BY <1>20, <1>f, NoticeLemma
  <2> QED
    BY <1>0, <1>m, <2>1 DEF TypeOK
<1> QED
  BY <1>1, <1>2, <1>3, <1>4, <1>5, <1>6, <1>7, <1>8, <1>9, <1>10, <1>11, <1>12, <1>13, <1>14,
     <1>15, <1>16, <1>17, <1>18, <1>19, <1>20 DEF Next, Edits, Worker, Send, Ingestion
-----------------------------------------------------------------------------
(* Lifecycles, and what only grows.                                        *)

\* A continuation was requested.
LEMMA Continues ==
    ASSUME IInv, NEW l,
           \/ inbox # <<>> /\ Continue(l, Tail(inbox), queue)
           \/ Continue(l, inbox, queue)
    PROVE  /\ msgs' \in Seq(Lives) /\ Extends(msgs', msgs)
           /\ InboxOK(inbox', accepted, Len(msgs'))
           /\ \A m \in Starts(inbox') : m \in Starts(inbox) \/ m > Len(msgs)
           /\ QueueOK(queue', pending, known, accepted, Begun, Len(msgs'))
           /\ \A m \in 1..Len(msgs') : Later(accepted, m) => Alive(queue', pending, m)
           /\ \A x : Alive(queue, pending, x) => Alive(queue', pending, x)
           /\ \A i \in DOMAIN msgs' : msgs'[i] <= lives
           /\ \A i, j \in DOMAIN msgs' : i < j => msgs'[i] <= msgs'[j]
<1>1. /\ TypeOK /\ LivesOK /\ StartsOK /\ InboxOK(inbox, accepted, Len(msgs))
      /\ QueueOK(queue, pending, known, accepted, Begun, Len(msgs))
      /\ inbox \in Seq(InboxEvents(Len(msgs))) /\ queue \in Seq(HeardEvents(Len(msgs)))
      /\ Len(msgs) \in Nat
  BY MsgFacts DEF IInv, TypeOK
<1>2. ASSUME inbox # <<>>
      PROVE  /\ Tail(inbox) \in Seq(InboxEvents(Len(msgs))) /\ Starts(Tail(inbox)) \subseteq Starts(inbox)
             /\ InboxOK(Tail(inbox), accepted, Len(msgs))
  BY <1>1, <1>2, InboxTail
<1>3. PICK in \in {inbox, Tail(inbox)} :
         /\ Continue(l, in, queue) /\ in \in Seq(InboxEvents(Len(msgs)))
         /\ InboxOK(in, accepted, Len(msgs)) /\ Starts(in) \subseteq Starts(inbox)
  BY <1>1, <1>2
<1>4. /\ msgs' \in Seq(Lives) /\ Extends(msgs', msgs)
      /\ InboxOK(inbox', accepted, Len(msgs'))
      /\ \A m \in Starts(inbox') : m \in Starts(in) \/ m > Len(msgs)
      /\ QueueOK(queue', pending, known, accepted, Begun, Len(msgs'))
      /\ \A m \in 1..Len(msgs') : Later(accepted, m) => Alive(queue', pending, m)
      /\ \A x : Alive(queue, pending, x) => Alive(queue', pending, x)
      /\ \A i \in DOMAIN msgs' : msgs'[i] <= lives
      /\ \A i, j \in DOMAIN msgs' : i < j => msgs'[i] <= msgs'[j]
  BY <1>1, <1>3, ContinueLemma
<1> QED
  BY <1>3, <1>4

\* The goal is updated, or nothing of it but its status and usage.
LEMMA GoalKept ==
    ASSUME TypeOK, LivesOK,
           \/ goal' \in {goal, Used(goal)}
           \/ \E l : \E status \in GoalStates : goal' = Reported(l, status)
    PROVE  goal'.status # "none" => goal'.life = lives /\ goal'.life \in Lives
<1>1. goal'.life = goal.life /\ (goal'.status # "none" => goal.status # "none")
  BY GoalLemma
<1> QED
  BY <1>1 DEF LivesOK

LEMMA NextLives ==
    ASSUME IInv, [Next]_vars
    PROVE  LivesOK' /\ Extends(msgs', msgs) /\ Extends(accepted', accepted)
<1> USE DEF tables, reactor, ingestion, history, bounds
<1>0. /\ TypeOK /\ LivesOK /\ msgs \in Seq(Lives) /\ Len(msgs) \in Nat /\ lives \in Nat
      /\ Lives \subseteq Nat /\ Len(accepted) \in Nat
  BY MsgFacts, SentFacts, Constant DEF IInv, TypeOK
<1>e. Extends(msgs, msgs) /\ Extends(accepted, accepted)
  BY <1>0 DEF Extends
\* The goal keeps its lifecycle, starts may have been requested.
<1>g. ASSUME lives' = lives, accepted' = accepted,
             \/ goal' \in {goal, Used(goal)}
             \/ \E l : \E status \in GoalStates : goal' = Reported(l, status),
             \/ msgs' = msgs
             \/ \E l : \/ inbox # <<>> /\ Continue(l, Tail(inbox), queue)
                       \/ Continue(l, inbox, queue)
      PROVE  LivesOK' /\ Extends(msgs', msgs) /\ Extends(accepted', accepted)
  <2>1. goal'.status # "none" => goal'.life = lives /\ goal'.life \in Lives
    BY <1>0, <1>g, GoalKept
  <2>2. /\ Extends(msgs', msgs) /\ \A i \in DOMAIN msgs' : msgs'[i] <= lives
        /\ \A i, j \in DOMAIN msgs' : i < j => msgs'[i] <= msgs'[j]
    <3>1. CASE msgs' = msgs
      BY <1>0, <1>e, <3>1 DEF LivesOK
    <3>2. ASSUME NEW l, \/ inbox # <<>> /\ Continue(l, Tail(inbox), queue)
                        \/ Continue(l, inbox, queue)
          PROVE  /\ Extends(msgs', msgs) /\ \A i \in DOMAIN msgs' : msgs'[i] <= lives
                 /\ \A i, j \in DOMAIN msgs' : i < j => msgs'[i] <= msgs'[j]
      BY <3>2, Continues
    <3> QED
      BY <1>g, <3>1, <3>2
  <2> QED
    BY <1>e, <1>g, <2>1, <2>2 DEF LivesOK
<1>1. CASE Edits
  <2>1. /\ msgs' = msgs /\ accepted' = accepted /\ lives <= lives' /\ lives' \in Nat
        /\ goal'.status # "none" => goal'.life = lives' /\ goal'.life \in Lives
    BY <1>0, <1>1, EditsLemma
  <2>2. ASSUME NEW i \in DOMAIN msgs PROVE msgs[i] \in Nat /\ msgs[i] <= lives
    <3>1. msgs[i] \in Lives
      BY <1>0, ElementLemma
    <3> QED
      BY <1>0, <3>1 DEF LivesOK
  <2>3. \A i \in DOMAIN msgs : msgs[i] <= lives'
    BY <1>0, <2>1, <2>2
  <2>4. LivesOK'
    BY <1>0, <2>1, <2>3 DEF LivesOK
  <2> QED
    BY <1>e, <2>1, <2>4
<1>2. CASE EndTurn \/ TakeContinuation \/ TakeClear \/ TakeSet \/ Ensure \/ Prebind \/ Reread
           \/ SetRunning \/ HearDomain \/ ReadStarted \/ ReadNotice \/ ReadEnd \/ IngestSets
           \/ UNCHANGED vars
  <2>1. UNCHANGED <<goal, lives, msgs, accepted>>
    BY <1>2 DEF EndTurn, TakeContinuation, TakeClear, TakeSet, Ensure, Prebind, Reread, SetRunning,
                HearDomain, ReadStarted, ReadNotice, ReadEnd, IngestSets, vars
  <2> QED
    BY <1>g, <2>1
<1>3. CASE TakeGoal
  <2>1. UNCHANGED <<goal, lives, accepted>> /\ inbox # <<>>
        /\ (msgs' = msgs \/ \E l : Continue(l, Tail(inbox), queue))
    BY <1>3 DEF TakeGoal, TakeEvent
  <2> QED
    BY <1>g, <2>1
<1>4. CASE Accept
  <2>1. UNCHANGED <<goal, lives, msgs>>
    BY <1>4 DEF Accept
  <2>2. LivesOK' /\ Extends(msgs', msgs)
    BY <1>0, <1>e, <2>1 DEF LivesOK
  <2>3. Extends(accepted', accepted)
    BY <1>0, <1>4, AcceptLemma DEF Extends
  <2> QED
    BY <2>2, <2>3
<1>5. CASE Fail
  <2>1. UNCHANGED <<lives, msgs, accepted>>
    BY <1>5 DEF Fail
  <2>2. goal' = Reported(msgs[job.msg], "blocked") /\ "blocked" \in GoalStates
    BY <1>0, <1>5, FailLemma DEF GoalStates
  <2> QED
    BY <1>g, <2>1, <2>2
<1>6. CASE Replace
  <2>1. UNCHANGED <<goal, lives, accepted>> /\ (msgs' = msgs \/ Continue(goal.life, inbox, queue))
    BY <1>6 DEF Replace
  <2> QED
    BY <1>g, <2>1
<1>7. ASSUME NEW t \in Turns, ReadUsage(t)
      PROVE  LivesOK' /\ Extends(msgs', msgs) /\ Extends(accepted', accepted)
  <2>1. UNCHANGED <<lives, msgs, accepted>> /\ goal' \in {goal, Used(goal)}
    BY <1>7 DEF ReadUsage
  <2> QED
    BY <1>g, <2>1
<1>8. CASE IngestActs
  <2>1. UNCHANGED <<lives, accepted>>
    BY <1>8 DEF IngestActs
  <2>2. CASE ingest.act = "continue"
    <3>1. Continue(ingest.life, inbox, queue) /\ UNCHANGED goal
      BY <1>8, <2>2 DEF IngestActs
    <3> QED
      BY <1>g, <2>1, <3>1
  <2>3. CASE ingest.act # "continue"
    <3>1. /\ goal' = IF ingest.act = "none" THEN goal ELSE Reported(ingest.life, ingest.act)
          /\ msgs' = msgs
      BY <1>8, <2>3 DEF IngestActs
    <3>2. ingest.act = "none" \/ ingest.act \in GoalStates
      BY <1>0, <2>3 DEF TypeOK, Ingests, GoalStates
    <3> QED
      BY <1>g, <2>1, <3>1, <3>2
  <2> QED
    BY <2>2, <2>3
<1> QED
  BY <1>1, <1>2, <1>3, <1>4, <1>5, <1>6, <1>7, <1>8 DEF Next, Edits, Worker, Send, Ingestion
-----------------------------------------------------------------------------
(* The reactor's queue and its send.                                       *)

\* A send stays where it is, starts are taken or requested.
LEMMA JobStays ==
    ASSUME TypeOK, JobOK(job, inbox, accepted, msgs), NEW ms, Extends(ms, msgs), Len(ms) \in Nat,
           NEW in, InboxOK(in, accepted, Len(ms)),
           \A m \in Starts(in) : m \in Starts(inbox) \/ m > Len(msgs),
           NEW j, j.pc = job.pc, j.msg = job.msg, j.life = job.life, j.turn = job.turn
    PROVE  JobOK(j, in, accepted, ms)
<1>1. /\ Len(msgs) \in Nat /\ Len(msgs) <= Len(ms)
      /\ \A m \in 1..Len(msgs) : m \in 1..Len(ms) /\ ms[m] = msgs[m]
  BY MsgFacts DEF Extends
<1>2. job.pc # "idle" => j.msg \in 1..Len(msgs) /\ j.msg \in 1..Len(ms) /\ ms[j.msg] = msgs[j.msg]
  BY <1>1 DEF JobOK
<1>3. ASSUME job.pc \in {"ensure", "prebind", "send"}, NEW m \in Starts(in) PROVE j.msg < m
  <2>1. m \in Nat /\ j.msg \in Nat /\ j.msg <= Len(msgs) /\ j.msg = job.msg
    BY <1>1, <1>2, <1>3 DEF InboxOK
  <2>2. CASE m \in Starts(inbox)
    BY <1>3, <2>1, <2>2 DEF JobOK
  <2>3. CASE m > Len(msgs)
    BY <1>1, <2>1, <2>3
  <2> QED
    BY <2>2, <2>3
<1> QED
  BY <1>1, <1>2, <1>3 DEF JobOK, Sent

LEMMA NextInbox ==
    ASSUME IInv, [Next]_vars
    PROVE  /\ InboxOK(inbox, accepted, Len(msgs))' /\ JobOK(job, inbox, accepted, msgs)'
           /\ SentInOrder(accepted)'
<1> USE DEF tables, reactor, ingestion, history, bounds
<1>0. /\ TypeOK /\ LivesOK /\ InboxOK(inbox, accepted, Len(msgs)) /\ JobOK(job, inbox, accepted, msgs)
      /\ SentInOrder(accepted) /\ inbox \in Seq(InboxEvents(Len(msgs))) /\ Len(msgs) \in Nat
      /\ job \in Jobs(Len(msgs)) /\ Extends(msgs, msgs)
  BY MsgFacts DEF IInv, TypeOK, Extends
\* The send stays, and events that are not starts come in.
<1>q. ASSUME accepted' = accepted, msgs' = msgs, NEW es, Quiet(es, Len(msgs)), inbox' = inbox \o es,
             job' \in {job, Moved(job)}
      PROVE  /\ InboxOK(inbox, accepted, Len(msgs))' /\ JobOK(job, inbox, accepted, msgs)'
             /\ SentInOrder(accepted)'
  <2>1. InboxOK(inbox', accepted, Len(msgs)) /\ Starts(inbox') = Starts(inbox)
    BY <1>0, <1>q, InboxQuiet
  <2>2. job'.pc = job.pc /\ job'.msg = job.msg /\ job'.life = job.life /\ job'.turn = job.turn
    BY <1>0, <1>q, MovedLemma
  <2>3. JobOK(job', inbox', accepted, msgs)
    BY <1>0, <2>1, <2>2, JobStays
  <2> QED
    BY <1>0, <1>q, <2>1, <2>3
\* One event is taken and the send stays.
<1>t. ASSUME accepted' = accepted, msgs' = msgs, inbox # <<>>, inbox' = Tail(inbox), job' = job
      PROVE  /\ InboxOK(inbox, accepted, Len(msgs))' /\ JobOK(job, inbox, accepted, msgs)'
             /\ SentInOrder(accepted)'
  <2>1. InboxOK(inbox', accepted, Len(msgs)) /\ Starts(inbox') \subseteq Starts(inbox)
    BY <1>0, <1>t, InboxTail
  <2>2. JobOK(job', inbox', accepted, msgs)
    BY <1>0, <1>t, <2>1, JobStays
  <2> QED
    BY <1>0, <1>t, <2>1, <2>2
\* A start is requested, and the send stays or is over.
<1>c. ASSUME accepted' = accepted, job' \in {job, Idle},
             NEW l, \/ inbox # <<>> /\ Continue(l, Tail(inbox), queue)
                    \/ Continue(l, inbox, queue)
      PROVE  /\ InboxOK(inbox, accepted, Len(msgs))' /\ JobOK(job, inbox, accepted, msgs)'
             /\ SentInOrder(accepted)'
  <2>1. /\ msgs' \in Seq(Lives) /\ Extends(msgs', msgs) /\ InboxOK(inbox', accepted, Len(msgs'))
        /\ \A m \in Starts(inbox') : m \in Starts(inbox) \/ m > Len(msgs)
    BY <1>c, Continues
  <2>2. Len(msgs') \in Nat
    BY <2>1
  <2>3. JobOK(job', inbox', accepted, msgs')
    <3>1. CASE job' = job
      BY <1>0, <2>1, <2>2, <3>1, JobStays
    <3>2. CASE job' = Idle
      <4>1. Idle.pc = "idle"
        BY IdleLemma
      <4> QED
        BY <3>2, <4>1 DEF JobOK, Sent
    <3> QED
      BY <1>c, <3>1, <3>2
  <2> QED
    BY <1>0, <1>c, <2>1, <2>3
\* The send is over or has failed.
<1>i. ASSUME accepted' = accepted, msgs' = msgs, InboxOK(inbox', accepted, Len(msgs)),
             job'.pc \in {"idle", "replace"}, job'.pc = "replace" => job'.msg \in 1..Len(msgs)
      PROVE  /\ InboxOK(inbox, accepted, Len(msgs))' /\ JobOK(job, inbox, accepted, msgs)'
             /\ SentInOrder(accepted)'
  BY <1>0, <1>i DEF JobOK, Sent
<1>s. ASSUME NEW s \in SessionStates
      PROVE  Quiet(<<SetEvent(s)>>, Len(msgs)) /\ Append(inbox, SetEvent(s)) = inbox \o <<SetEvent(s)>>
  BY <1>0, EventTypes DEF Quiet
<1>1. CASE Edits
  <2>1. /\ \E es : Quiet(es, Len(msgs)) /\ inbox' = inbox \o es
        /\ UNCHANGED <<msgs, accepted, job>>
    BY <1>0, <1>1, EditsLemma
  <2> QED
    BY <1>q, <2>1
<1>2. CASE EndTurn \/ HearDomain \/ ReadStarted \/ ReadNotice \/ ReadEnd \/ UNCHANGED vars
  <2>1. UNCHANGED <<inbox, accepted, msgs, job>>
    BY <1>2 DEF EndTurn, HearDomain, ReadStarted, ReadNotice, ReadEnd, vars
  <2> QED
    BY <1>0, <2>1
<1>3. CASE TakeContinuation
  <2> DEFINE m == Head(inbox).msg
  <2>1. /\ inbox # <<>> /\ Head(inbox).kind = "continue" /\ inbox' = Tail(inbox) /\ Start(m)
        /\ UNCHANGED <<msgs, accepted>>
    BY <1>3 DEF TakeContinuation, TakeEvent
  <2>2. /\ InboxOK(inbox', accepted, Len(msgs)) /\ m \in 1..Len(msgs) /\ Later(accepted, m)
        /\ \A x \in Starts(inbox') : m < x
    BY <1>0, <2>1, InboxTail
  <2> HIDE DEF m
  <2>3. CASE job' = job
    BY <1>t, <2>1, <2>3
  <2>4. CASE job' = [Idle EXCEPT !.pc = "ensure", !.msg = m]
    <3>1. job'.pc = "ensure" /\ job'.msg = m
      BY <2>4 DEF Idle
    <3>2. JobOK(job', inbox', accepted, msgs)
      BY <2>2, <3>1 DEF JobOK, Sent
    <3> QED
      BY <1>0, <2>1, <2>2, <3>2
  <2> QED
    BY <2>1, <2>3, <2>4 DEF Start
<1>4. CASE TakeGoal
  <2>1. inbox # <<>> /\ UNCHANGED <<accepted, job>>
    BY <1>4 DEF TakeGoal, TakeEvent
  <2>2. \/ inbox' = Tail(inbox) /\ msgs' = msgs
        \/ \E l : Continue(l, Tail(inbox), queue)
    BY <1>4 DEF TakeGoal
  <2> QED
    BY <1>c, <1>t, <2>1, <2>2
<1>5. CASE TakeClear \/ TakeSet
  <2>1. inbox # <<>> /\ inbox' = Tail(inbox) /\ UNCHANGED <<msgs, accepted, job>>
    BY <1>5 DEF TakeClear, TakeSet, TakeEvent
  <2> QED
    BY <1>t, <2>1
<1>6. CASE Ensure \/ Prebind
  <2>1. /\ job'.msg = job.msg /\ UNCHANGED <<msgs, accepted>>
        /\ \/ job.pc = "ensure" /\ job'.pc = "prebind"
           \/ job.pc = "prebind" /\ job'.pc = "send" /\ job'.life = BoundTo(job.msg)
        /\ inbox' = inbox \/ \E s \in SessionStates : inbox' = Append(inbox, SetEvent(s))
    BY <1>0, <1>6, PrepareLemma DEF Sessions
  <2>2. InboxOK(inbox', accepted, Len(msgs)) /\ Starts(inbox') = Starts(inbox)
    <3>1. CASE inbox' = inbox
      BY <1>0, <3>1
    <3>2. ASSUME NEW s \in SessionStates, inbox' = Append(inbox, SetEvent(s))
          PROVE  InboxOK(inbox', accepted, Len(msgs)) /\ Starts(inbox') = Starts(inbox)
      <4>1. SetEvent(s) \in InboxEvents(Len(msgs)) /\ SetEvent(s).kind # "continue"
        BY <1>0, EventTypes
      <4> QED
        BY <1>0, <3>2, <4>1, InboxOne
    <3> QED
      BY <2>1, <3>1, <3>2
  <2>3. BoundTo(job.msg) \in {None, msgs[job.msg]}
    BY DEF BoundTo
  <2>4. JobOK(job', inbox', accepted, msgs)
    BY <1>0, <2>1, <2>2, <2>3 DEF JobOK, Sent
  <2> QED
    BY <1>0, <2>1, <2>2, <2>4
<1>7. CASE Accept
  <2> DEFINE n == Len(accepted')
  <2>1. /\ job.pc = "send" /\ DOMAIN accepted' = DOMAIN accepted \cup {n} /\ n \in Turns
        /\ \A t \in DOMAIN accepted : t < n /\ accepted'[t] = accepted[t]
        /\ accepted'[n].msg = job.msg /\ job'.pc = "reread" /\ job'.msg = job.msg
        /\ job'.life = job.life /\ job'.turn = n
    BY <1>7, AcceptLemma
  <2>2. UNCHANGED <<inbox, msgs>>
    BY <1>7 DEF Accept
  <2>3. /\ Later(accepted, job.msg) /\ \A m \in Starts(inbox) : job.msg < m
        /\ job.msg \in 1..Len(msgs) /\ job.life \in {None, msgs[job.msg]}
    BY <1>0, <2>1 DEF JobOK
  <2> HIDE DEF n
  <2>4. InboxOK(inbox, accepted', Len(msgs))
    BY <1>0, <2>1, <2>3 DEF InboxOK, Later
  <2>5. SentInOrder(accepted')
    <3> SUFFICES ASSUME NEW t \in DOMAIN accepted', NEW u \in DOMAIN accepted', t < u
                 PROVE  accepted'[t].msg < accepted'[u].msg
      BY DEF SentInOrder
    <3>1. t \in DOMAIN accepted
      BY <2>1, SentFacts, Constant, <1>0
    <3>2. CASE u \in DOMAIN accepted
      BY <1>0, <2>1, <3>1, <3>2 DEF SentInOrder
    <3>3. CASE u = n
      BY <2>1, <2>3, <3>1, <3>3 DEF Later
    <3> QED
      BY <2>1, <3>2, <3>3
  <2>6. JobOK(job', inbox', accepted', msgs')
    BY <2>1, <2>2, <2>3 DEF JobOK, Sent, n
  <2> QED
    BY <2>2, <2>4, <2>5, <2>6
<1>14. CASE Reread
  <2>1. /\ job.pc = "reread" /\ UNCHANGED <<inbox, msgs, accepted>>
        /\ \/ job'.pc = "idle"
           \/ job'.pc = "set" /\ job'.msg = job.msg /\ job'.life = job.life /\ job'.turn = job.turn
    BY <1>0, <1>14, IdleLemma DEF Reread, Jobs
  <2>2. JobOK(job', inbox, accepted, msgs)
    BY <1>0, <2>1 DEF JobOK, Sent
  <2> QED
    BY <1>0, <2>1, <2>2
<1>8. CASE SetRunning
  <2>1. job' = Idle /\ UNCHANGED <<msgs, accepted>> /\ inbox' = Append(inbox, SetEvent("running"))
    BY <1>8, ConfirmLemma
  <2>2. InboxOK(inbox', accepted, Len(msgs))
    BY <1>0, <1>s, <2>1, InboxQuiet DEF SessionStates
  <2>3. Idle.pc = "idle"
    BY IdleLemma
  <2> QED
    BY <1>i, <2>1, <2>2, <2>3
<1>9. CASE Fail
  <2>1. job.pc = "send" /\ job'.pc = "replace" /\ job'.msg = job.msg /\ UNCHANGED <<msgs, accepted>>
    BY <1>0, <1>9, FailLemma DEF Fail
  <2>2. InboxOK(inbox', accepted, Len(msgs))
    <3>1. PICK es, fs : /\ Quiet(es, Len(msgs)) /\ Quiet(fs, Len(msgs))
                        /\ inbox' = (inbox \o es) \o fs
      BY <1>0, <1>9, FailLemma
    <3>2. inbox \o es \in Seq(InboxEvents(Len(msgs))) /\ InboxOK(inbox \o es, accepted, Len(msgs))
      BY <1>0, <3>1, InboxQuiet
    <3> QED
      BY <3>1, <3>2, InboxQuiet
  <2>3. job.msg \in 1..Len(msgs)
    BY <1>0, <2>1 DEF JobOK
  <2> QED
    BY <1>i, <2>1, <2>2, <2>3
<1>10. CASE Replace
  <2>1. job' = Idle /\ UNCHANGED accepted
        /\ \/ UNCHANGED <<msgs, inbox>>
           \/ Continue(goal.life, inbox, queue)
    BY <1>10 DEF Replace
  <2>2. Idle.pc = "idle"
    BY IdleLemma
  <2>3. CASE UNCHANGED <<msgs, inbox>>
    BY <1>0, <1>i, <2>1, <2>2, <2>3
  <2> QED
    BY <1>c, <2>1, <2>3
<1>11. ASSUME NEW t \in Turns, ReadUsage(t)
       PROVE  /\ InboxOK(inbox, accepted, Len(msgs))' /\ JobOK(job, inbox, accepted, msgs)'
              /\ SentInOrder(accepted)'
  <2>1. UNCHANGED <<msgs, accepted, job>>
        /\ (inbox' = inbox \/ (goal' = Used(goal) /\ inbox' = inbox \o GoalEvents(goal', FALSE)))
    BY <1>11 DEF ReadUsage
  <2>2. Quiet(GoalEvents(Used(goal), FALSE), Len(msgs))
    <3>1. Used(goal) \in Goals
      BY <1>0, GoalLemma
    <3> QED
      BY <1>0, <3>1, EventTypes
  <2>3. CASE inbox' = inbox
    BY <1>0, <2>1, <2>3
  <2> QED
    BY <1>q, <2>1, <2>2, <2>3
<1>12. CASE IngestSets
  <2>1. inbox' = Append(inbox, SetEvent(ingest.set.status)) /\ job' = Moved(job)
        /\ UNCHANGED <<msgs, accepted>> /\ ingest.set.status \in SessionStates
    BY <1>12, IngestSetsLemma DEF Sessions
  <2> QED
    BY <1>q, <1>s, <2>1
<1>13. CASE IngestActs
  <2>1. UNCHANGED <<accepted, job>>
    BY <1>13 DEF IngestActs
  <2>2. CASE ingest.act = "continue"
    BY <1>13, <1>c, <2>1, <2>2 DEF IngestActs
  <2>3. CASE ingest.act # "continue"
    <3> DEFINE es == IF ingest.act = "none" THEN <<>> ELSE ReportEvents(ingest.life, ingest.act)
    <3>1. inbox' = inbox \o es /\ msgs' = msgs
      BY <1>13, <2>3 DEF IngestActs
    <3>2. ingest.act = "none" \/ ingest.act \in GoalStates
      BY <1>0, <2>3 DEF TypeOK, Ingests, GoalStates
    <3>3. Quiet(es, Len(msgs))
      BY <1>0, <3>2, ReportEventsLemma DEF Quiet
    <3> HIDE DEF es
    <3> QED
      BY <1>q, <2>1, <3>1, <3>3
  <2> QED
    BY <2>2, <2>3
<1> QED
  BY <1>1, <1>2, <1>3, <1>4, <1>5, <1>6, <1>7, <1>8, <1>9, <1>10, <1>11, <1>12, <1>13, <1>14
     DEF Next, Edits, Worker, Send, Ingestion
-----------------------------------------------------------------------------
(* The ingestion's queue and the starts it remembers.                      *)

\* The send stays, and what was alive is.
LEMMA StartsStay ==
    ASSUME TypeOK, StartsOK, Messages' = Messages, accepted' = accepted, known \subseteq known',
           \A x : Alive(queue, pending, x) => Alive(queue', pending', x),
           Sent(job') => Sent(job) /\ job'.turn = job.turn /\ job'.msg = job.msg
    PROVE  StartsOK'
BY DEF StartsOK

LEMMA NextQueue ==
    ASSUME IInv, [Next]_vars
    PROVE  QueueOK(queue, pending, known, accepted, Begun, Len(msgs))' /\ StartsOK'
<1> USE DEF tables, reactor, ingestion, history, bounds, Sent
<1>0. /\ TypeOK /\ LivesOK /\ StartsOK /\ RowsOK /\ SentInOrder(accepted)
      /\ JobOK(job, inbox, accepted, msgs)
      /\ QueueOK(queue, pending, known, accepted, Begun, Len(msgs))
      /\ queue \in Seq(HeardEvents(Len(msgs))) /\ pending \in Seq(1..Len(msgs))
      /\ Len(msgs) \in Nat /\ Messages = 1..Len(msgs) /\ job \in Jobs(Len(msgs))
      /\ accepted \in Seq([msg : 1..Len(msgs), life : LifeOrNone])
  BY MsgFacts DEF IInv, TypeOK
<1>m. msgs' = msgs => Messages' = Messages
  BY DEF Messages
<1>b. turns' = turns => Begun' = Begun
  BY DEF Begun, HasRow
\* Nothing is heard of, rows are added and more is known.
<1>k. ASSUME msgs' = msgs, accepted' = accepted, pending' = pending, known \subseteq known',
             Begun \subseteq Begun', queue' \in Seq(HeardEvents(Len(msgs))),
             QueueOK(queue', pending, known, accepted, Begun, Len(msgs)),
             \A x : Alive(queue, pending, x) => Alive(queue', pending, x),
             Sent(job') => Sent(job) /\ job'.turn = job.turn /\ job'.msg = job.msg
      PROVE  QueueOK(queue, pending, known, accepted, Begun, Len(msgs))' /\ StartsOK'
  <2>1. QueueOK(queue', pending, known', accepted, Begun', Len(msgs))
    BY <1>0, <1>k, QueueGrows
  <2>2. StartsOK'
    BY <1>0, <1>k, <1>m, StartsStay
  <2> QED
    BY <1>k, <2>1, <2>2
<1>u. ASSUME msgs' = msgs, accepted' = accepted, pending' = pending, known \subseteq known',
             Begun \subseteq Begun', queue' = queue,
             Sent(job') => Sent(job) /\ job'.turn = job.turn /\ job'.msg = job.msg
      PROVE  QueueOK(queue, pending, known, accepted, Begun, Len(msgs))' /\ StartsOK'
  BY <1>0, <1>k, <1>u
\* A start is requested.
<1>c. ASSUME UNCHANGED <<accepted, pending, known, turns>>,
             Sent(job') => Sent(job) /\ job'.turn = job.turn /\ job'.msg = job.msg,
             NEW l, \/ inbox # <<>> /\ Continue(l, Tail(inbox), queue)
                    \/ Continue(l, inbox, queue)
      PROVE  QueueOK(queue, pending, known, accepted, Begun, Len(msgs))' /\ StartsOK'
  <2>1. /\ QueueOK(queue', pending, known, accepted, Begun, Len(msgs'))
        /\ \A m \in 1..Len(msgs') : Later(accepted, m) => Alive(queue', pending, m)
        /\ \A x : Alive(queue, pending, x) => Alive(queue', pending, x)
    BY <1>c, Continues
  <2>2. StartsOK'
    <3>1. Messages' = 1..Len(msgs')
      BY DEF Messages
    <3> QED
      BY <1>0, <1>c, <2>1, <3>1 DEF StartsOK
  <2> QED
    BY <1>b, <1>c, <2>1, <2>2
<1>1. CASE Edits
  <2>1. UNCHANGED <<msgs, accepted, pending, known, turns, queue, job>>
    BY <1>0, <1>1, EditsLemma
  <2> QED
    BY <1>b, <1>u, <2>1
<1>2. CASE TakeContinuation
  <2>1. UNCHANGED <<msgs, accepted, pending, known, turns, queue>>
    BY <1>2 DEF TakeContinuation
  <2>2. job'.pc = "ensure" \/ job' = job
    BY <1>2 DEF TakeContinuation, Start, Idle
  <2> QED
    BY <1>b, <1>u, <2>1, <2>2
<1>3. CASE TakeSet \/ UNCHANGED vars
  <2>1. UNCHANGED <<msgs, accepted, pending, known, turns, queue, job>>
    BY <1>3 DEF TakeSet, vars
  <2> QED
    BY <1>b, <1>u, <2>1
<1>4. CASE EndTurn
  <2>1. /\ provider # None /\ UNCHANGED <<msgs, accepted, pending, known, turns, job>>
        /\ \E kind \in {"completed", "failed"} : queue' = Append(queue, Heard(kind, provider, None))
    BY <1>4 DEF EndTurn
  <2>2. provider \in Turns /\ provider \in DOMAIN accepted
    BY <1>0, <2>1 DEF TypeOK, TurnOrNone, RowsOK
  <2>3. /\ queue' \in Seq(HeardEvents(Len(msgs)))
        /\ QueueOK(queue', pending, known, accepted, Begun, Len(msgs))
        /\ \A x : Alive(queue, pending, x) => Alive(queue', pending, x)
    BY <1>0, <2>1, <2>2, QueueOther DEF TurnEnds
  <2> QED
    BY <1>b, <1>k, <2>1, <2>3
<1>5. ASSUME Interrupt, UNCHANGED <<msgs, accepted, pending, known, turns, job>>
      PROVE  QueueOK(queue, pending, known, accepted, Begun, Len(msgs))' /\ StartsOK'
  <2>1. /\ queue' \in Seq(HeardEvents(Len(msgs)))
        /\ QueueOK(queue', pending, known, accepted, Begun, Len(msgs))
        /\ \A x : Alive(queue, pending, x) => Alive(queue', pending, x)
    BY <1>0, <1>5, InterruptLemma
  <2> QED
    BY <1>b, <1>k, <1>5, <2>1
<1>6. CASE TakeGoal
  <2>1. UNCHANGED <<accepted, pending, known, turns, job>>
    BY <1>6 DEF TakeGoal
  <2>2. \/ Interrupt /\ UNCHANGED msgs
        \/ inbox # <<>> /\ \E l : Continue(l, Tail(inbox), queue)
        \/ UNCHANGED <<msgs, queue>>
    BY <1>6 DEF TakeGoal, TakeEvent
  <2>3. CASE UNCHANGED <<msgs, queue>>
    BY <1>b, <1>u, <2>1, <2>3
  <2> QED
    BY <1>5, <1>c, <2>1, <2>2, <2>3
<1>7. CASE TakeClear
  <2>1. UNCHANGED <<msgs, accepted, pending, known, turns, job>>
        /\ (Interrupt \/ UNCHANGED queue)
    BY <1>7 DEF TakeClear
  <2>2. CASE UNCHANGED queue
    BY <1>b, <1>u, <2>1, <2>2
  <2> QED
    BY <1>5, <2>1, <2>2
<1>8. CASE Ensure \/ Prebind
  <2>1. /\ job'.pc \in {"prebind", "send"} /\ UNCHANGED <<msgs, accepted, pending, known>> /\ queue' = queue
        /\ turns' = turns \/ \E s \in Sessions : Sets(s)
    BY <1>0, <1>8, PrepareLemma
  <2>2. Begun \subseteq Begun'
    BY <1>0, <1>b, <2>1, SetsTypes, BegunLemma
  <2> QED
    BY <1>u, <2>1, <2>2
<1>9. CASE Accept
  <2> DEFINE n == Len(accepted')
  <2>1. /\ job.pc = "send" /\ DOMAIN accepted' = DOMAIN accepted \cup {n}
        /\ \A t \in DOMAIN accepted : accepted'[t] = accepted[t]
        /\ job'.msg = job.msg
        /\ QueueOK(queue', pending, known, accepted', Begun, Len(msgs))
        /\ \A x : Alive(queue, pending, x) => Alive(queue', pending, x)
    BY <1>9, AcceptLemma
  <2>2. UNCHANGED <<msgs, turns, pending, known>>
    BY <1>9 DEF Accept
  <2> HIDE DEF n
  <2>3. \A m : Later(accepted', m) => Later(accepted, m)
    BY <2>1 DEF Later
  <2>4. Later(accepted, job.msg) /\ job.msg \in Messages
    BY <1>0, <2>1 DEF JobOK
  <2>5. StartsOK'
    BY <1>0, <1>m, <2>1, <2>2, <2>3, <2>4 DEF StartsOK
  <2> QED
    BY <1>b, <2>1, <2>2, <2>5
<1>18. CASE Reread
  <2>1. /\ job.pc = "reread" /\ UNCHANGED <<msgs, accepted, pending, known, turns, queue>>
        /\ job'.pc = "idle" \/ (job'.pc = "set" /\ job'.turn = job.turn /\ job'.msg = job.msg)
    BY <1>0, <1>18, IdleLemma DEF Reread, Jobs
  <2> QED
    BY <1>b, <1>u, <2>1
<1>10. CASE SetRunning
  <2>1. /\ job.pc = "set" /\ job' = Idle /\ job.turn \in DOMAIN accepted /\ job.turn \in Turns
        /\ job.turn = Len(accepted) /\ accepted[job.turn].msg = job.msg
        /\ UNCHANGED <<msgs, accepted, pending, known>>
    BY <1>10, ConfirmLemma
  <2>2. Idle.pc = "idle"
    BY IdleLemma
  <2>3. PICK s \in Sessions : /\ s.status = "running" /\ s.active = job.turn /\ Sets(s)
                              /\ queue' = Append(queue, Heard("set", job.turn, None))
    BY <1>10, ConfirmLemma
  <2>4. Begun \subseteq Begun' /\ job.turn \in Begun'
    BY <1>0, <2>1, <2>3, SetsTypes, BegunLemma
  <2>5. QueueOK(queue, pending, known, accepted, Begun', Len(msgs))
    <3>1. QueueOK(queue, pending, known, accepted, Begun, Len(msgs)) /\ Len(msgs) \in Nat
      BY <1>0
    <3> QED
      BY <2>4, <3>1, QueueGrows
  <2>6. job.turn \in known \/ Alive(queue, pending, accepted[job.turn].msg)
    BY <1>0, <2>1 DEF StartsOK
  <2>7. \A u \in DOMAIN accepted : u <= job.turn
    BY <1>0, <2>1, SentFacts
  <2>8. /\ queue' \in Seq(HeardEvents(Len(msgs)))
        /\ QueueOK(queue', pending, known, accepted, Begun', Len(msgs))
        /\ \A x : Alive(queue, pending, x) => Alive(queue', pending, x)
    BY <1>0, <2>1, <2>3, <2>4, <2>5, <2>6, <2>7, QueueLast
  <2>9. StartsOK'
    BY <1>0, <1>m, <2>1, <2>2, <2>8, StartsStay
  <2> QED
    BY <2>1, <2>8, <2>9
<1>11. CASE Fail
  <2>1. job'.pc = "replace" /\ UNCHANGED <<msgs, accepted, pending, known, queue>>
        /\ (turns' = turns \/ \E s \in Sessions : turns' = Folded(s))
    BY <1>0, <1>11, FailLemma DEF Fail
  <2>2. Begun \subseteq Begun'
    BY <1>0, <1>b, <2>1, BegunLemma
  <2> QED
    BY <1>u, <2>1, <2>2
<1>12. CASE Replace
  <2>1. job' = Idle /\ UNCHANGED <<turns, accepted, pending, known>>
        /\ \/ UNCHANGED <<msgs, queue>>
           \/ Continue(goal.life, inbox, queue)
    BY <1>12 DEF Replace
  <2>2. Idle.pc = "idle"
    BY IdleLemma
  <2>3. CASE UNCHANGED <<msgs, queue>>
    BY <1>b, <1>u, <2>1, <2>2, <2>3
  <2> QED
    BY <1>c, <2>1, <2>2, <2>3
\* The oldest start is forgotten when a turn is heard of for the first time.
<1>p. ASSUME NEW u, u = Head(queue).turn, queue # <<>>, Binds(Head(queue)), u \notin known,
             queue' = Tail(queue), pending' = Rest(pending), known \cup {u} \subseteq known',
             UNCHANGED <<msgs, accepted, turns, job>>
      PROVE  QueueOK(queue, pending, known, accepted, Begun, Len(msgs))' /\ StartsOK'
  <2>1. /\ u \in DOMAIN accepted
        /\ QueueOK(queue', pending', known \cup {u}, accepted, Begun, Len(msgs))
        /\ \A x \in 1..Len(msgs) : x > accepted[u].msg /\ Alive(queue, pending, x)
                                     => Alive(queue', pending', x)
    BY <1>0, <1>p, QueuePop
  <2>2. QueueOK(queue', pending', known', accepted, Begun, Len(msgs))
    <3>1. QueueOK(queue', pending', known \cup {u}, accepted, Begun, Len(msgs))
      BY <2>1
    <3>2. known \cup {u} \subseteq known' /\ Len(msgs) \in Nat
      BY <1>0, <1>p
    <3> QED
      BY <3>1, <3>2, QueueGrows
  <2>3. accepted[u].msg \in 1..Len(msgs) /\ DOMAIN accepted = 1..Len(accepted) /\ Len(accepted) \in Nat
    BY <1>0, <2>1, SentFacts
  <2>4. ASSUME NEW m \in Messages, Later(accepted, m) PROVE Alive(queue', pending', m)
    <3>1. m > accepted[u].msg /\ m \in 1..Len(msgs)
      BY <1>0, <2>1, <2>3, <2>4 DEF Later
    <3> QED
      BY <1>0, <2>1, <2>4, <3>1 DEF StartsOK
  <2>5. ASSUME Sent(job), job.turn \notin known' PROVE Alive(queue', pending', job.msg)
    <3>1. /\ job.turn \in DOMAIN accepted /\ job.turn = Len(accepted)
          /\ accepted[job.turn].msg = job.msg /\ job.msg \in 1..Len(msgs)
      BY <1>0, <2>5 DEF JobOK
    <3>2. u # job.turn /\ job.turn \notin known
      BY <1>p, <2>5
    <3>3. u < job.turn
      BY <2>1, <2>3, <3>1, <3>2
    <3>4. job.msg > accepted[u].msg
      BY <1>0, <2>1, <2>3, <3>1, <3>3 DEF SentInOrder
    <3>5. Alive(queue, pending, job.msg)
      BY <1>0, <2>5, <3>2 DEF StartsOK
    <3> QED
      BY <2>1, <3>1, <3>4, <3>5
  <2>6. StartsOK'
    BY <1>m, <1>p, <2>4, <2>5 DEF StartsOK
  <2> QED
    BY <1>b, <1>p, <2>2, <2>6
<1>13. CASE HearDomain
  <2> DEFINE e == Head(queue)
  <2>1. /\ queue # <<>> /\ queue' = Tail(queue) /\ e.kind \in {"requested", "set"}
        /\ UNCHANGED <<msgs, accepted, turns, job>>
    BY <1>13 DEF HearDomain, TakeHeard
  <2>2. CASE e.kind = "requested"
    <3>1. pending' = Enqueued(pending, e.msg) /\ known' = known
      BY <1>13, <2>2 DEF HearDomain
    <3>2. /\ QueueOK(queue', pending', known, accepted, Begun, Len(msgs))
          /\ \A x : Alive(queue, pending, x) => Alive(queue', pending', x)
      <4>1. Asks(Head(queue))
        BY <2>2 DEF Asks
      <4> QED
        BY <1>0, <2>1, <3>1, <4>1, QueueAsk
    <3>3. StartsOK'
      BY <1>0, <1>m, <2>1, <3>1, <3>2, StartsStay
    <3> QED
      BY <1>b, <2>1, <3>1, <3>2, <3>3
  <2>3. CASE e.kind = "set"
    <3>1. /\ pending' = IF e.turn \in known THEN pending ELSE Rest(pending)
          /\ known' = known \cup {e.turn}
      BY <1>13, <2>3 DEF HearDomain
    <3>2. CASE e.turn \in known
      <4>1. TakeHeard({"set"})
        BY <1>13, <2>3 DEF HearDomain, TakeHeard
      <4>2. /\ queue' \in Seq(HeardEvents(Len(msgs)))
            /\ QueueOK(queue', pending, known, accepted, Begun, Len(msgs))
            /\ \A x : Alive(queue, pending, x) => Alive(queue', pending, x)
        BY <4>1, HeardLemma
      <4> QED
        BY <1>b, <1>k, <2>1, <3>1, <3>2, <4>2
    <3>3. CASE e.turn \notin known
      <4>1. Binds(e)
        BY <2>3 DEF Binds
      <4> QED
        BY <1>p, <2>1, <3>1, <3>3, <4>1
    <3> QED
      BY <3>2, <3>3
  <2> QED
    BY <2>1, <2>2, <2>3
<1>14. CASE ReadStarted
  <2> DEFINE t == Head(queue).turn
  <2>1. /\ TakeHeard({"started"}) /\ UNCHANGED <<msgs, accepted, turns, job>>
    BY <1>14 DEF ReadStarted
  <2>2. /\ queue # <<>> /\ queue' = Tail(queue) /\ Head(queue).kind = "started"
        /\ queue' \in Seq(HeardEvents(Len(msgs)))
        /\ QueueOK(queue', pending, known, accepted, Begun, Len(msgs))
        /\ \A x : Alive(queue, pending, x) => Alive(queue', pending, x)
        /\ known \subseteq Known(t)
    BY <2>1, HeardLemma
  <2>3. CASE ~StartApplies(t) \/ HasRow(t)
    <3>1. known \subseteq known' /\ pending' = pending
      BY <1>14, <2>2, <2>3 DEF ReadStarted
    <3> QED
      BY <1>b, <1>k, <2>1, <2>2, <3>1
  <2>4. CASE StartApplies(t) /\ ~HasRow(t)
    <3>1. known \cup {t} \subseteq known' /\ pending' = Rest(pending)
      BY <1>14, <2>2, <2>4 DEF ReadStarted
    <3>2. t \notin known
      BY <2>1, <2>4, BindingLemma
    <3>3. Binds(Head(queue))
      BY <2>2 DEF Binds
    <3> QED
      BY <1>p, <2>1, <2>2, <3>1, <3>2, <3>3
  <2> QED
    BY <2>3, <2>4
<1>15. CASE ReadEnd
  <2> DEFINE t == Head(queue).turn
  <2>1. TakeHeard(TurnEnds) /\ UNCHANGED <<msgs, accepted, turns, pending, job>> /\ known' = Known(t)
    BY <1>15 DEF ReadEnd
  <2>2. /\ queue' \in Seq(HeardEvents(Len(msgs)))
        /\ QueueOK(queue', pending, known, accepted, Begun, Len(msgs))
        /\ \A x : Alive(queue, pending, x) => Alive(queue', pending, x)
        /\ known \subseteq Known(t)
    BY <2>1, HeardLemma DEF TurnEnds
  <2> HIDE DEF t
  <2> QED
    BY <1>b, <1>k, <2>1, <2>2
<1>19. ASSUME NEW t \in Turns, ReadUsage(t)
       PROVE  QueueOK(queue, pending, known, accepted, Begun, Len(msgs))' /\ StartsOK'
  <2>1. UNCHANGED <<msgs, accepted, turns, pending, job, queue>> /\ known \subseteq known'
    BY <1>0, <1>19, UsageLemma
  <2> QED
    BY <1>b, <1>u, <2>1
<1>20. CASE ReadNotice
  <2>1. UNCHANGED <<msgs, accepted, turns, pending, job, queue>> /\ known \subseteq known'
    BY <1>20, NoticeLemma
  <2> QED
    BY <1>b, <1>u, <2>1
<1>16. CASE IngestSets
  <2> DEFINE s == ingest.set
  <2>1. /\ s \in Sessions /\ Sets(s) /\ job' = Moved(job)
        /\ UNCHANGED <<msgs, accepted, pending, known>>
    BY <1>16, IngestSetsLemma
  <2>2. job'.pc = job.pc /\ job'.msg = job.msg /\ job'.turn = job.turn
    BY <1>0, <2>1, MovedLemma
  <2>3. Begun \subseteq Begun' /\ (s.status = "running" /\ s.active \in Turns => s.active \in Begun')
    BY <1>0, <2>1, SetsTypes, BegunLemma
  <2>4. CASE queue' = queue
    BY <1>u, <2>1, <2>2, <2>3, <2>4
  <2>5. CASE /\ Starting /\ s.active \in Turns /\ s.active \in DOMAIN accepted /\ s.active \in known
             /\ queue' = Append(queue, Heard("set", s.active, None))
    <3>1. s.active \in Begun'
      BY <2>3, <2>5 DEF Starting
    <3>2. QueueOK(queue, pending, known, accepted, Begun', Len(msgs))
      <4>1. QueueOK(queue, pending, known, accepted, Begun, Len(msgs)) /\ Len(msgs) \in Nat
        BY <1>0
      <4> QED
        BY <2>3, <4>1, QueueGrows
    <3> HIDE DEF s
    <3>3. /\ queue' \in Seq(HeardEvents(Len(msgs)))
          /\ QueueOK(queue', pending, known, accepted, Begun', Len(msgs))
          /\ \A x : Alive(queue, pending, x) => Alive(queue', pending, x)
      BY <1>0, <2>5, <3>1, <3>2, QueueKnown
    <3>4. StartsOK'
      BY <1>0, <1>m, <2>1, <2>2, <3>3, StartsStay
    <3> QED
      BY <2>1, <3>3, <3>4
  <2> QED
    BY <1>16, <2>4, <2>5, IngestSetsLemma
<1>17. CASE IngestActs
  <2>1. UNCHANGED <<accepted, pending, known, turns, job>>
    BY <1>17 DEF IngestActs
  <2>2. UNCHANGED <<msgs, queue>> \/ Continue(ingest.life, inbox, queue)
    BY <1>17 DEF IngestActs
  <2>3. CASE UNCHANGED <<msgs, queue>>
    BY <1>b, <1>u, <2>1, <2>3
  <2> QED
    BY <1>c, <2>1, <2>2, <2>3
<1> QED
  BY <1>1, <1>2, <1>3, <1>4, <1>6, <1>7, <1>8, <1>9, <1>10, <1>11, <1>12, <1>13, <1>14, <1>15,
     <1>16, <1>17, <1>18, <1>19, <1>20 DEF Next, Edits, Worker, Send, Ingestion
-----------------------------------------------------------------------------
(* Turns and the lifecycles they are bound to.                             *)

\* What a turn is bound to stays behind what its start was requested for.
LEMMA BehindStays ==
    ASSUME TypeOK, Extends(msgs', msgs), NEW m \in Messages, NEW l, Behind(l, m)
    PROVE  Behind(l, m)'
BY MsgFacts DEF Extends, Behind

LEMMA NextRows ==
    ASSUME IInv, [Next]_vars
    PROVE  RowsOK' /\ NeverAhead'
<1> USE DEF tables, reactor, ingestion, history, bounds, Setting
<1>0. /\ TypeOK /\ RowsOK /\ NeverAhead /\ JobOK(job, inbox, accepted, msgs)
      /\ QueueOK(queue, pending, known, accepted, Begun, Len(msgs))
      /\ Extends(msgs', msgs)
      /\ DOMAIN accepted \subseteq DOMAIN accepted' /\ \A t \in DOMAIN accepted : accepted'[t] = accepted[t]
      /\ \A t \in DOMAIN accepted : accepted[t].msg \in Messages
  BY SentFacts, NextLives DEF IInv, Extends
<1>b. turns' = turns => Begun' = Begun
  BY DEF Begun, HasRow
\* No turn starts to run in the tables, and none is in the ingestion's hands that was not.
<1>q. ASSUME Begun' = Begun, \A t \in Turns : turns'[t].life = turns[t].life,
             provider' \in {provider, None} \/ provider' \in DOMAIN accepted',
             ingest' = ingest, known' = known
      PROVE  RowsOK' /\ NeverAhead'
  <2>1. RowsOK'
    BY <1>0, <1>q DEF RowsOK, Starting, None
  <2>2. ASSUME NEW t \in Begun PROVE Behind(turns[t].life, accepted[t].msg)'
    <3>1. /\ t \in DOMAIN accepted /\ accepted'[t] = accepted[t] /\ turns'[t].life = turns[t].life
          /\ accepted[t].msg \in Messages
      BY <1>0, <1>q, <2>2 DEF RowsOK, Begun
    <3>2. Behind(turns[t].life, accepted[t].msg)
      BY <1>0, <2>2 DEF NeverAhead
    <3> QED
      BY <1>0, <3>1, <3>2, BehindStays DEF Behind
  <2>3. ASSUME Starting PROVE Behind(ingest.set.life, accepted[ingest.set.active].msg)'
    <3> DEFINE t == ingest.set.active
    <3>1. /\ t \in DOMAIN accepted /\ accepted'[t] = accepted[t] /\ accepted[t].msg \in Messages
      BY <1>0, <2>3 DEF RowsOK
    <3>2. Behind(ingest.set.life, accepted[t].msg)
      BY <1>0, <2>3 DEF NeverAhead
    <3> QED
      BY <1>0, <1>q, <3>1, <3>2, BehindStays DEF Behind
  <2> QED
    BY <1>q, <2>1, <2>2, <2>3 DEF NeverAhead, Starting
\* The ingestion begins with nothing in its hands, and its memory grows by turns that began.
<1>h. ASSUME UNCHANGED <<turns, provider, msgs, accepted>>, ~Starting, ~Starting',
             known' \subseteq known \cup Begun
      PROVE  RowsOK' /\ NeverAhead'
  <2>1. RowsOK'
    BY <1>0, <1>b, <1>h DEF RowsOK
  <2>2. NeverAhead'
    BY <1>0, <1>b, <1>h DEF NeverAhead, Behind
  <2> QED
    BY <2>1, <2>2
<1>1. CASE Edits
  <2>1. UNCHANGED <<turns, provider, ingest, known>>
    BY <1>0, <1>1, EditsLemma DEF IInv
  <2> QED
    BY <1>b, <1>q, <2>1
<1>2. CASE EndTurn \/ TakeContinuation \/ TakeSet \/ Reread \/ Replace \/ UNCHANGED vars
  <2>1. UNCHANGED <<turns, ingest, known>> /\ provider' \in {provider, None}
    BY <1>2 DEF EndTurn, TakeContinuation, TakeSet, Reread, Replace, vars
  <2> QED
    BY <1>b, <1>q, <2>1
<1>3. CASE TakeGoal \/ TakeClear
  <2>1. UNCHANGED <<turns, ingest, known>> /\ (provider' = provider \/ Interrupt)
    BY <1>3 DEF TakeGoal, TakeClear
  <2>2. provider' \in {provider, None}
    BY <2>1 DEF Interrupt
  <2> QED
    BY <1>b, <1>q, <2>1, <2>2
<1>4. CASE Accept
  <2>1. UNCHANGED <<turns, ingest, known>>
    BY <1>4 DEF Accept
  <2>2. provider' \in DOMAIN accepted'
    BY <1>4, AcceptLemma
  <2> QED
    BY <1>b, <1>q, <2>1, <2>2
<1>5. ASSUME NEW s \in Sessions, turns' = Folded(s), s.status # "running",
             UNCHANGED <<provider, ingest, known>>
      PROVE  RowsOK' /\ NeverAhead'
  <2>1. Begun' = Begun /\ \A t \in Turns : turns'[t].life = turns[t].life
    BY <1>0, <1>5, BegunLemma
  <2> QED
    BY <1>5, <1>q, <2>1
<1>6. CASE Ensure \/ Prebind
  <2>1. UNCHANGED <<provider, ingest, known>>
        /\ (turns' = turns \/ \E s \in Sessions : Sets(s) /\ s.status # "running")
    BY <1>0, <1>6, PrepareLemma
  <2>2. CASE turns' = turns
    BY <1>b, <1>q, <2>1, <2>2
  <2> QED
    BY <1>5, <2>1, <2>2 DEF Sets
<1>7. CASE Fail
  <2>1. UNCHANGED <<provider, ingest, known>>
        /\ (turns' = turns \/ \E s \in Sessions : s.status # "running" /\ turns' = Folded(s))
    BY <1>0, <1>7, FailLemma DEF Fail
  <2>2. CASE turns' = turns
    BY <1>b, <1>q, <2>1, <2>2
  <2> QED
    BY <1>5, <2>1, <2>2
\* A turn runs in the tables.
<1>8. ASSUME NEW s \in Sessions, Sets(s), s.status = "running" => /\ s.active \in DOMAIN accepted
                                                     /\ Behind(s.life, accepted[s.active].msg),
             UNCHANGED <<provider, known, msgs, accepted>>,
             \/ ingest' = ingest
             \/ ~Starting' /\ (Starting => s.status = "running" /\ s.active = ingest.set.active)
      PROVE  RowsOK' /\ NeverAhead'
  <2>1. /\ Begun \subseteq Begun' /\ DOMAIN accepted \subseteq Turns
        /\ Begun' = Begun \cup (IF s.status = "running" THEN {s.active} \cap Turns ELSE {})
        /\ \A t \in Turns : turns'[t].life = IF s.status = "running" /\ t = s.active
                                             THEN s.life ELSE turns[t].life
    BY <1>0, <1>8, SetsTypes, BegunLemma, SentFacts
  <2>2. RowsOK'
    <3>1. Begun' \subseteq DOMAIN accepted
      BY <1>0, <1>8, <2>1 DEF RowsOK
    <3>2. CASE ingest' = ingest
      BY <1>0, <1>8, <2>1, <3>1, <3>2 DEF RowsOK, Starting
    <3>3. CASE ~Starting' /\ (Starting => s.status = "running" /\ s.active = ingest.set.active)
      <4>1. ASSUME NEW t \in known PROVE t \in Begun'
        <5>1. t \in Begun \/ (Starting /\ ingest.set.active = t)
          BY <1>0 DEF RowsOK
        <5>2. Starting /\ ingest.set.active = t => t \in Begun'
          BY <1>8, <2>1, <3>3
        <5> QED
          BY <2>1, <5>1, <5>2
      <4> QED
        BY <1>0, <1>8, <3>1, <3>3, <4>1 DEF RowsOK
    <3> QED
      BY <1>8, <3>2, <3>3
  <2>3. ASSUME NEW t \in Begun' PROVE Behind(turns[t].life, accepted[t].msg)'
    <3>1. t \in Turns
      BY DEF Begun
    <3>2. CASE s.status = "running" /\ t = s.active
      BY <1>8, <2>1, <3>1, <3>2 DEF Behind
    <3>3. CASE ~(s.status = "running" /\ t = s.active)
      <4>1. t \in Begun /\ turns'[t].life = turns[t].life
        BY <2>1, <3>1, <3>3
      <4> QED
        BY <1>0, <1>8, <4>1 DEF NeverAhead, Behind
    <3> QED
      BY <3>2, <3>3
  <2>4. Starting' => ingest' = ingest /\ Starting
    BY <1>8 DEF Starting
  <2> QED
    BY <1>0, <1>8, <2>2, <2>3, <2>4 DEF NeverAhead, Behind
<1>9. CASE SetRunning
  <2>1. /\ job.turn \in DOMAIN accepted /\ accepted[job.turn].msg = job.msg
        /\ job.life \in {None, msgs[job.msg]} /\ job.msg \in Messages
        /\ UNCHANGED <<provider, known, msgs, accepted, ingest>>
        /\ \E s \in Sessions : s.active = job.turn /\ s.life = job.life /\ Sets(s)
    BY <1>9, ConfirmLemma
  <2>2. Behind(job.life, job.msg)
    <3>1. msgs[job.msg] \in Nat
      BY <1>0, <2>1, MsgFacts, Constant
    <3> QED
      BY <2>1, <3>1 DEF Behind
  <2> QED
    BY <1>8, <2>1, <2>2
<1>10. CASE IngestSets
  <2>1. /\ ingest.set \in Sessions /\ Sets(ingest.set) /\ ~Starting' /\ Setting
        /\ UNCHANGED <<provider, known, msgs, accepted>>
    BY <1>10, IngestSetsLemma DEF Starting
  <2>2. ingest.set.status = "running" =>
            /\ Starting /\ ingest.set.active \in DOMAIN accepted
            /\ Behind(ingest.set.life, accepted[ingest.set.active].msg)
    BY <1>0, <2>1 DEF Starting, RowsOK, NeverAhead
  <2>3. Starting => ingest.set.status = "running"
    BY DEF Starting
  <2> QED
    BY <1>8, <2>1, <2>2, <2>3
<1>11. CASE HearDomain
  <2>1. /\ queue # <<>> /\ ingest = NoIngest /\ ingest' = ingest
        /\ UNCHANGED <<turns, provider, msgs, accepted>>
        /\ (known' = known \/ (Head(queue).kind = "set" /\ known' = known \cup {Head(queue).turn}))
    BY <1>11 DEF HearDomain, TakeHeard
  <2>2. ~Starting /\ ~Starting'
    BY <2>1 DEF Starting, NoIngest
  <2>3. Head(queue).kind = "set" => Head(queue).turn \in Begun
    <3>1. Head(queue) = queue[1] /\ 1 \in DOMAIN queue
      BY <1>0, <2>1, TailLemma DEF TypeOK
    <3> QED
      BY <1>0, <3>1 DEF QueueOK, HeardOK
  <2> QED
    BY <1>h, <2>1, <2>2, <2>3
<1>12. CASE ReadEnd
  <2> DEFINE t == Head(queue).turn
  <2>1. TakeHeard(TurnEnds) /\ UNCHANGED <<turns, provider, msgs, accepted>> /\ known' = Known(t)
    BY <1>12 DEF ReadEnd
  <2>2. ~Starting /\ ingest = NoIngest /\ Known(t) \subseteq known \cup Begun
    BY <2>1, HeardLemma DEF TurnEnds
  <2>3. ~Starting'
    BY <1>12, <2>2 DEF ReadEnd, Starting, NoSet, NoIngest
  <2> HIDE DEF t
  <2> QED
    BY <1>h, <2>1, <2>2, <2>3
<1>15. ASSUME NEW t \in Turns, ReadUsage(t) PROVE RowsOK' /\ NeverAhead'
  <2>1. /\ ~Setting /\ known' = Known(t) /\ Known(t) \subseteq known \cup Begun
        /\ UNCHANGED <<turns, provider, msgs, accepted, ingest>>
    BY <1>0, <1>15, UsageLemma
  <2> QED
    BY <1>h, <2>1 DEF Starting
<1>16. CASE ReadNotice
  <2>1. /\ ~Setting /\ known' \subseteq known \cup Begun
        /\ UNCHANGED <<turns, provider, msgs, accepted>>
        /\ ingest'.set.active = session.active /\ ingest'.set.life = session.life
        /\ Starting' => session.active \in known' /\ session.active \in Begun
    BY <1>16, NoticeLemma
  <2>2. RowsOK'
    BY <1>0, <1>b, <2>1 DEF RowsOK, Starting
  <2>3. Starting' => Behind(session.life, accepted[session.active].msg)
    BY <2>1, Constant DEF IInv, SessionOK, Bound, Begun
  <2>4. NeverAhead'
    BY <1>0, <1>b, <2>1, <2>3 DEF NeverAhead, Behind
  <2> QED
    BY <2>2, <2>4
<1>13. CASE ReadStarted
  <2> DEFINE t == Head(queue).turn
             s == [status |-> "running", active |-> t, life |-> Binding(t)]
  <2>1. TakeHeard({"started"}) /\ UNCHANGED <<turns, provider, msgs, accepted>>
    BY <1>13 DEF ReadStarted
  <2>2. ~Starting /\ ingest = NoIngest /\ t \in DOMAIN accepted
        /\ Known(t) = known \cup (Known(t) \cap Begun)
    BY <2>1, HeardLemma
  <2>3. CASE ~StartApplies(t)
    <3>1. known' = Known(t) /\ ingest' = ingest
      BY <1>13, <2>3 DEF ReadStarted
    <3>2. ~Starting'
      BY <2>2, <3>1 DEF Starting
    <3> QED
      BY <1>h, <2>1, <2>2, <3>1, <3>2
  <2>4. CASE StartApplies(t)
    <3>1. known' = Known(t) \cup {t} /\ ingest' = [NoIngest EXCEPT !.pc = "set", !.set = s]
      BY <1>13, <2>4 DEF ReadStarted
    <3>2. Behind(Binding(t), accepted[t].msg)
      BY <2>1, BindingLemma
    <3> HIDE DEF t
    <3>3. /\ ingest'.set = s /\ ingest'.pc = "set"
      BY <3>1 DEF NoIngest
    <3>4. /\ Starting' /\ ingest'.set.active = t /\ ingest'.set.life = Binding(t)
      BY <3>3 DEF Starting
    <3> HIDE DEF s
    <3>5. RowsOK'
      BY <1>0, <1>b, <2>1, <2>2, <3>1, <3>4 DEF RowsOK
    <3>6. NeverAhead'
      BY <1>0, <1>b, <2>1, <2>2, <3>2, <3>4 DEF NeverAhead, Behind
    <3> QED
      BY <3>5, <3>6
  <2> QED
    BY <2>3, <2>4
<1>14. CASE IngestActs
  <2>1. /\ ingest.pc = "act" /\ ingest' = NoIngest
        /\ UNCHANGED <<turns, provider, known, accepted>>
    BY <1>14 DEF IngestActs
  <2>2. ~Starting /\ ~Starting'
    BY <2>1 DEF Starting, NoIngest
  <2>3. RowsOK'
    BY <1>0, <1>b, <2>1, <2>2 DEF RowsOK
  <2>4. ASSUME NEW t \in Begun PROVE Behind(turns[t].life, accepted[t].msg)'
    <3>1. accepted[t].msg \in Messages /\ Behind(turns[t].life, accepted[t].msg)
      BY <1>0, <2>4 DEF RowsOK, NeverAhead
    <3> QED
      BY <1>0, <2>1, <3>1, BehindStays DEF Behind
  <2> QED
    BY <1>b, <2>1, <2>2, <2>3, <2>4 DEF NeverAhead
<1> QED
  BY <1>1, <1>2, <1>3, <1>4, <1>6, <1>7, <1>9, <1>10, <1>11, <1>12, <1>13, <1>14, <1>15, <1>16
     DEF Next, Edits, Worker, Send, Ingestion

\* The session's turn, and the one a notice hands on.
LEMMA NextSession == ASSUME IInv, [Next]_vars PROVE SessionOK'
<1> USE DEF tables, reactor, ingestion, history, bounds
<1>0. /\ TypeOK /\ SessionOK /\ RowsOK /\ LivesOK /\ NeverAhead
      /\ Extends(msgs', msgs)
      /\ DOMAIN accepted \subseteq DOMAIN accepted' /\ \A t \in DOMAIN accepted : accepted'[t] = accepted[t]
      /\ \A t \in DOMAIN accepted : accepted[t].msg \in Messages
      /\ session \in Sessions /\ DOMAIN accepted \subseteq Turns
  BY SentFacts, NextLives DEF IInv, Extends, TypeOK
<1>s. ASSUME Bound(session)', ingest' = ingest \/ ~Setting' PROVE SessionOK'
  BY <1>0, <1>s DEF SessionOK, Setting, Starting
<1>u. ASSUME UNCHANGED <<session, turns>> PROVE Bound(session)'
  <2>1. Begun' = Begun
    BY <1>u DEF Begun, HasRow
  <2> SUFFICES ASSUME session.active # None
               PROVE  session.active \in Begun /\ Behind(session.life, accepted[session.active].msg)'
    BY <1>u, <2>1 DEF Bound
  <2>2. session.active \in Begun /\ Behind(session.life, accepted[session.active].msg)
    BY <1>0 DEF SessionOK, Bound
  <2>3. /\ session.active \in DOMAIN accepted /\ accepted[session.active].msg \in Messages
        /\ accepted'[session.active] = accepted[session.active]
    BY <1>0, <2>2 DEF RowsOK
  <2> QED
    BY <1>0, <1>u, <2>2, <2>3, BehindStays DEF Behind
<1>z. ASSUME session'.active = None PROVE Bound(session)'
  BY <1>z DEF Bound
<1>r. ASSUME NEW s \in Sessions, Sets(s), s.status = "running", s.active \in DOMAIN accepted,
             Behind(s.life, accepted[s.active].msg), UNCHANGED <<msgs, accepted>>
      PROVE  Bound(session)'
  <2>1. session' = s /\ s.active \in Begun'
    BY <1>0, <1>r, SetsTypes, BegunLemma
  <2> QED
    BY <1>r, <2>1 DEF Bound, Behind
<1>1. CASE Edits
  <2>1. UNCHANGED <<session, turns, ingest, msgs, accepted>>
    BY <1>0, <1>1, EditsLemma DEF ingestion, history
  <2> QED
    BY <1>s, <1>u, <2>1
<1>2. CASE EndTurn \/ Worker \/ Accept \/ Reread \/ Replace \/ HearDomain \/ IngestActs
           \/ (\E t \in Turns : ReadUsage(t)) \/ UNCHANGED vars
  <2>1. UNCHANGED <<session, turns>> /\ ingest' \in {ingest, NoIngest}
    BY <1>2 DEF EndTurn, Worker, TakeContinuation, TakeGoal, TakeClear, TakeSet, Accept, Reread,
                Replace, HearDomain, IngestActs, ReadUsage, vars
  <2> QED
    BY <1>s, <1>u, <2>1 DEF NoIngest, Setting
<1>3. CASE Ensure \/ Prebind
  <2>1. ingest' = ingest
        /\ (UNCHANGED <<session, turns>> \/ \E s \in Sessions : s.active = None /\ Sets(s))
    BY <1>0, <1>3, PrepareLemma
  <2> QED
    BY <1>s, <1>u, <1>z, <2>1 DEF Sets
<1>4. CASE SetRunning
  <2>1. /\ job.turn \in DOMAIN accepted /\ accepted[job.turn].msg = job.msg
        /\ job.life \in {None, msgs[job.msg]} /\ job.msg \in Messages
        /\ UNCHANGED <<msgs, accepted, ingest>>
        /\ \E s \in Sessions : /\ s.status = "running" /\ s.active = job.turn
                               /\ s.life = job.life /\ Sets(s)
    BY <1>4, ConfirmLemma
  <2>2. Behind(job.life, job.msg)
    <3>1. msgs[job.msg] \in Nat
      BY <1>0, <2>1, MsgFacts, Constant
    <3> QED
      BY <2>1, <3>1 DEF Behind
  <2> QED
    BY <1>r, <1>s, <2>1, <2>2
<1>5. CASE Fail
  <2>1. /\ ingest' = ingest
        /\ \/ UNCHANGED <<session, turns>>
           \/ session.active = None /\ session' = [session EXCEPT !.life = None]
    BY <1>5 DEF Fail
  <2>2. UNCHANGED <<session, turns>> \/ session'.active = None
    BY <1>0, <2>1 DEF Sessions
  <2> QED
    BY <1>s, <1>u, <1>z, <2>1, <2>2
<1>6. CASE ReadStarted \/ ReadEnd
  <2>1. /\ UNCHANGED <<session, turns>>
        /\ \/ ingest' \in {ingest, NoIngest}
           \/ ingest'.set.status = "running" /\ ingest'.pc = "set"
           \/ ingest'.set.active = None
    <3>1. UNCHANGED <<session, turns>>
      BY <1>6 DEF ReadStarted, ReadEnd, tables
    <3>2. CASE ReadStarted
      <4> DEFINE running == [status |-> "running", active |-> Head(queue).turn,
                             life |-> Binding(Head(queue).turn)]
      <4>1. ingest' = ingest \/ ingest' = [NoIngest EXCEPT !.pc = "set", !.set = running]
        BY <3>2 DEF ReadStarted
      <4>2. running.status = "running"
        OBVIOUS
      <4> HIDE DEF running
      <4>3. CASE ingest' = [NoIngest EXCEPT !.pc = "set", !.set = running]
        <5>1. ingest'.pc = "set" /\ ingest'.set = running
          BY <4>3 DEF NoIngest
        <5> QED
          BY <3>1, <4>2, <5>1
      <4> QED
        BY <3>1, <4>1, <4>3
    <3>3. CASE ReadEnd
      BY <3>3 DEF ReadEnd, NoIngest, NoSet
    <3> QED
      BY <1>6, <3>1, <3>2, <3>3
  <2>2. ingest' \in {ingest, NoIngest} => SessionOK'
    BY <1>s, <1>u, <2>1 DEF NoIngest, Setting
  <2> QED
    BY <1>u, <2>1, <2>2 DEF SessionOK, Starting, Setting
<1>7. CASE ReadNotice
  <2>1. /\ UNCHANGED <<session, turns>> /\ ingest'.set.active = session.active
        /\ ~Starting' => session.active = None
    BY <1>7, NoticeLemma
  <2> QED
    BY <1>u, <2>1 DEF SessionOK
<1>8. CASE IngestSets
  <2>1. /\ Setting /\ ingest.set \in Sessions /\ Sets(ingest.set) /\ ~Setting'
        /\ UNCHANGED <<msgs, accepted>>
    BY <1>8, IngestSetsLemma
  <2>2. CASE Starting
    <3>1. ingest.set.status = "running" /\ ingest.set.active \in DOMAIN accepted
          /\ Behind(ingest.set.life, accepted[ingest.set.active].msg)
      BY <1>0, <2>2 DEF Starting, RowsOK, NeverAhead
    <3> QED
      BY <1>r, <1>s, <2>1, <3>1
  <2>3. CASE ~Starting
    <3>1. session'.active = None
      BY <1>0, <2>1, <2>3 DEF SessionOK, Sets
    <3> QED
      BY <1>s, <1>z, <2>1, <3>1
  <2> QED
    BY <2>2, <2>3
<1> QED
  BY <1>1, <1>2, <1>3, <1>4, <1>5, <1>6, <1>7, <1>8 DEF Next, Edits, Send, Ingestion
-----------------------------------------------------------------------------
(* Charges.                                                                *)

\* A turn that is charged to the goal is bound to its lifecycle, the newest there is; its
\* start was requested for one that is not older, so for that one.
LEMMA NextCharges == ASSUME IInv, [Next]_vars PROVE ChargesOK'
<1> USE DEF tables, reactor, ingestion, history, bounds
<1>0. /\ TypeOK /\ LivesOK /\ RowsOK /\ NeverAhead /\ ChargesOK
      /\ Extends(msgs', msgs)
      /\ DOMAIN accepted \subseteq DOMAIN accepted' /\ \A t \in DOMAIN accepted : accepted'[t] = accepted[t]
      /\ \A t \in DOMAIN accepted : accepted[t].msg \in Messages
      /\ DOMAIN msgs = Messages
  BY MsgFacts, SentFacts, NextLives DEF IInv, Extends
<1>1. ASSUME charged' = charged PROVE ChargesOK'
  <2> SUFFICES ASSUME NEW c \in charged
               PROVE  c.turn \in DOMAIN accepted' /\ msgs'[accepted'[c.turn].msg] = c.life
    BY <1>1 DEF ChargesOK
  <2>1. c.turn \in DOMAIN accepted /\ msgs[accepted[c.turn].msg] = c.life
    BY <1>0 DEF ChargesOK
  <2>2. msgs'[accepted[c.turn].msg] = msgs[accepted[c.turn].msg]
    BY <1>0, <2>1 DEF Extends
  <2> QED
    BY <1>0, <2>1, <2>2
<1>2. ASSUME NEW t \in Turns, ReadUsage(t) PROVE ChargesOK'
  <2>1. /\ UNCHANGED <<msgs, accepted>>
        /\ \/ charged' = charged
           \/ Counts(t) /\ charged' = charged \cup {[turn |-> t, life |-> goal.life]}
    BY <1>2 DEF ReadUsage
  <2>2. t \in DOMAIN accepted
    BY <1>0, <1>2, UsageLemma
  <2>3. ASSUME Counts(t) PROVE msgs[accepted[t].msg] = goal.life
    <3>1. HasRow(t) /\ turns[t].life = goal.life /\ goal.status # "none"
      BY <2>3 DEF Counts
    <3>2. goal.life = lives /\ goal.life \in Lives
      BY <1>0, <3>1 DEF LivesOK
    <3>3. Behind(goal.life, accepted[t].msg)
      BY <1>0, <2>2, <3>1 DEF NeverAhead, Begun
    <3>4. goal.life <= msgs[accepted[t].msg]
      BY <3>2, <3>3, Constant DEF Behind
    <3>5. msgs[accepted[t].msg] <= lives /\ msgs[accepted[t].msg] \in Lives
      BY <1>0, <2>2, MsgFacts DEF LivesOK
    <3> DEFINE l == msgs[accepted[t].msg]
               g == goal.life
    <3>6. l \in Nat /\ g \in Nat /\ g <= l /\ l <= g
      BY <3>2, <3>4, <3>5, Constant
    <3> HIDE DEF l, g
    <3>7. l = g
      BY <3>6
    <3> QED
      BY <3>7 DEF l, g
  <2>4. CASE Counts(t) /\ charged' = charged \cup {[turn |-> t, life |-> goal.life]}
    <3> SUFFICES ASSUME NEW c \in charged'
                 PROVE  c.turn \in DOMAIN accepted /\ msgs[accepted[c.turn].msg] = c.life
      BY <2>1 DEF ChargesOK
    <3>1. c \in charged \/ (c.turn = t /\ c.life = goal.life)
      BY <2>4
    <3> QED
      BY <1>0, <2>2, <2>3, <2>4, <3>1 DEF ChargesOK
  <2> QED
    BY <1>1, <2>1, <2>4
<1>3. CASE \A t \in Turns : ~ReadUsage(t)
  <2>1. CASE Edits
    BY <1>0, <1>1, <2>1, EditsLemma
  <2>2. charged' = charged \/ Edits
    BY <1>3 DEF Next, Edits, Worker, Send, Ingestion, vars, EndTurn, TakeContinuation, TakeGoal,
                TakeClear, TakeSet, Ensure, Prebind, Accept, Reread, SetRunning, Fail, Replace,
                HearDomain, ReadStarted, ReadNotice, ReadEnd, IngestSets, IngestActs
  <2> QED
    BY <1>1, <2>1, <2>2
<1> QED
  BY <1>2, <1>3
-----------------------------------------------------------------------------
(* The invariant.                                                          *)

LEMMA InitIInv == Init => IInv
<1> SUFFICES ASSUME Init PROVE IInv
  OBVIOUS
<1> USE DEF Init
<1>0. /\ DOMAIN msgs = {} /\ DOMAIN inbox = {} /\ DOMAIN queue = {} /\ DOMAIN pending = {}
      /\ DOMAIN accepted = {} /\ Len(msgs) = 0 /\ Len(accepted) = 0 /\ Messages = {}
      /\ \A S : <<>> \in Seq(S)
  BY DEF Messages
<1>1. TypeOK
  <2>1. goal \in Goals /\ lives \in 0..MaxLives
    BY Constant DEF NoGoal, Goals, GoalStates, LifeOrNone
  <2>2. turns \in [Turns -> TurnRows(Len(msgs))]
    <3>1. NoTurn \in TurnRows(0)
      BY DEF NoTurn, TurnRows, LifeOrNone, None
    <3> QED
      BY <1>0, <3>1
  <2>3. latch \in 0..Len(msgs) /\ observed \in BOOLEAN /\ job \in Jobs(Len(msgs))
    <3>1. latch = 0 /\ 0 \in 0..0
      BY DEF None
    <3>2. 0 \in Nat /\ job = Idle /\ Idle \in Jobs(0)
      BY IdleLemma
    <3> QED
      BY <1>0, <3>1, <3>2
  <2>4. ingest \in Ingests /\ session \in Sessions
    BY NoSetLemma DEF NoIngest, Ingests, LifeOrNone
  <2>5. provider \in TurnOrNone /\ missed \in LifeOrNone /\ changes \in 0..MaxChanges
        /\ faults \in 0..MaxFaults /\ Len(accepted) <= MaxTurns
        /\ revived \in TurnOrNone /\ obscured \in BOOLEAN
    <3>1. 0 \in 0..MaxChanges /\ 0 \in 0..MaxFaults /\ 0 <= MaxTurns
      BY Constant
    <3> QED
      BY <1>0, <3>1 DEF TurnOrNone, LifeOrNone
  <2> QED
    BY <1>0, <2>1, <2>2, <2>3, <2>4, <2>5 DEF TypeOK
<1>2. Begun = {} /\ ~Starting /\ ~Setting
  BY DEF Begun, HasRow, NoTurn, Starting, Setting, NoIngest
<1>3. LivesOK /\ InboxOK(inbox, accepted, Len(msgs)) /\ SentInOrder(accepted)
  BY <1>0 DEF LivesOK, NoGoal, InboxOK, Starts, SentInOrder
<1>4. JobOK(job, inbox, accepted, msgs)
  BY DEF JobOK, Sent, Idle
<1>5. QueueOK(queue, pending, known, accepted, Begun, Len(msgs))
  BY <1>0 DEF QueueOK, HeardOK, BindersOK, AskersOK, Ascending, Remembers
<1>6. StartsOK
  BY <1>0 DEF StartsOK, Sent, Idle
<1>7. RowsOK /\ NeverAhead /\ SessionOK /\ ChargesOK
  BY <1>2 DEF RowsOK, NeverAhead, SessionOK, Bound, NoSet, ChargesOK
<1> QED
  BY <1>1, <1>3, <1>4, <1>5, <1>6, <1>7 DEF IInv

LEMMA NextIInv == IInv /\ [Next]_vars => IInv'
<1> SUFFICES ASSUME IInv, [Next]_vars PROVE IInv'
  OBVIOUS
<1> QED
  BY NextTypes, NextLives, NextInbox, NextQueue, NextRows, NextSession, NextCharges DEF IInv

LEMMA Invariance == Spec => []IInv
BY InitIInv, NextIInv, PTL DEF Spec

\* Every variable of the goals, the reactor, the ingestion and the tables has its type, and
\* no more turns are sent than were asked for.
THEOREM GoalTypeCorrect == Spec => []TypeOK
<1>1. IInv => TypeOK
  BY DEF IInv
<1> QED
  BY <1>1, Invariance, PTL

\* The tokens a turn used are recorded for the goal, in the lifecycle, its continuation was
\* requested for; never for one the user set since, whichever start the ingestion's memory
\* gave the turn and however late it heard of it.
THEOREM TokensAreChargedToTheirGoal == Spec => []ChargedToItsGoal
<1>1. IInv => ChargedToItsGoal
  BY DEF IInv, ChargesOK, ChargedToItsGoal
<1> QED
  BY <1>1, Invariance, PTL

\* Continuations are sent in the order they were requested, each at most once, whatever the
\* queue held when a send failed, was replaced or found its goal edited.
THEOREM ContinuationsAreSentOnce == Spec => []SentInOrder(accepted)
<1>1. IInv => SentInOrder(accepted)
  BY DEF IInv
<1> QED
  BY <1>1, Invariance, PTL

\* No turn is bound to a lifecycle set after its continuation was requested: neither the
\* rows of the tables, nor what the ingestion is about to set.
THEOREM TurnsAreNeverAhead == Spec => []NeverAhead
<1>1. IInv => NeverAhead
  BY DEF IInv
<1> QED
  BY <1>1, Invariance, PTL

\* A turn without a row is bound to a start the ingestion remembers.
BoundFromMemory ==
    ReadStarted /\ ~HasRow(Head(queue).turn) =>
        /\ pending # <<>>
        /\ msgs[Head(pending)] <= msgs[accepted[Head(queue).turn].msg]

\* When the start of a turn arrives before its row, the ingestion remembers a start, one
\* requested no later than the turn's own: what the code falls back on then, the oldest row
\* of the table and the active goal, is not needed while the server runs.
THEOREM BindingsComeFromMemory == Spec => [][BoundFromMemory]_vars
<1>1. IInv /\ [Next]_vars => [BoundFromMemory]_vars
  <2> SUFFICES ASSUME IInv, ReadStarted, ~HasRow(Head(queue).turn)
               PROVE  /\ pending # <<>>
                      /\ msgs[Head(pending)] <= msgs[accepted[Head(queue).turn].msg]
    BY DEF BoundFromMemory
  <2> DEFINE t == Head(queue).turn
  <2>1. TakeHeard({"started"})
    BY DEF ReadStarted
  <2> HIDE DEF t
  <2>2. /\ Behind(Binding(t), accepted[t].msg) /\ pending # <<>>
    BY <2>1, BindingLemma DEF t
  <2>3. Binding(t) = msgs[Head(pending)]
    BY <2>2 DEF Binding, t
  <2>4. msgs[Head(pending)] # None
    <3>1. TypeOK /\ pending \in Seq(Messages)
      BY DEF IInv, TypeOK
    <3>2. Head(pending) \in Messages
      BY <2>2, <3>1, TailLemma
    <3> QED
      BY <3>1, <3>2, MsgFacts, Constant
  <2> QED
    BY <2>2, <2>3, <2>4 DEF Behind, t
<1> QED
  BY <1>1, Invariance, PTL DEF Spec
-----------------------------------------------------------------------------
(* What the decider keeps of a goal, whoever changes it.                    *)

\* A goal that is active was so, or is new in this step and begins a lifecycle, and it
\* has tokens left.
Renewed(l) == goal'.life = l + 1 /\ lives' = l + 1
Reactivated ==
    goal'.status = "active" =>
        /\ goal'.used < Budget
        /\ goal.status = "active" \/ Renewed(lives)

ActiveHasBudget == goal.status = "active" => goal.used < Budget

LEMMA UserKeepsBudget ==
    ASSUME TypeOK, ActiveHasBudget, Users PROVE Reactivated
<1>1. goal \in Goals /\ lives \in Nat /\ Budget \in Nat \ {0}
  BY GoalConstants DEF TypeOK
<1>2. ASSUME NEW status, NEW edited \in BOOLEAN, SetGoal(status, edited)
      PROVE  Reactivated
  <2> DEFINE actual == IF status = "active" /\ goal.used >= Budget THEN "limited" ELSE status
             rotates == edited \/ (actual = "active" /\ goal.status # "active")
  <2>1. /\ lives' = IF rotates THEN lives + 1 ELSE lives
        /\ goal' = [goal EXCEPT !.status = actual, !.at = @ + 1,
                                !.life = IF rotates THEN lives' ELSE @]
    BY <1>2 DEF SetGoal
  <2>2. /\ goal'.status = actual /\ goal'.used = goal.used
        /\ rotates => goal'.life = lives + 1 /\ lives' = lives + 1
    BY <1>1, <2>1 DEF Goals
  <2>3. actual = "active" => goal.used < Budget
    BY <1>1 DEF Goals
  <2> QED
    BY <2>2, <2>3 DEF Reactivated, Renewed
<1>3. CASE CreateGoal
  BY <1>1, <1>3 DEF CreateGoal, NewGoal, Reactivated, Renewed
<1>4. CASE ClearGoal
  BY <1>4 DEF ClearGoal, NoGoal, Reactivated
<1> QED
  BY <1>2, <1>3, <1>4 DEF Users, Edit, Resume, Pause, Complete

LEMMA NextBudget ==
    ASSUME TypeOK, ActiveHasBudget, [Next]_vars PROVE Reactivated
<1>1. goal \in Goals /\ Budget \in Nat
  BY GoalConstants DEF TypeOK
<1>2. ASSUME goal' = goal PROVE Reactivated
  BY <1>2 DEF Reactivated, ActiveHasBudget
<1>3. ASSUME NEW l, NEW status, status # "active", goal' \in {goal, Reported(l, status)}
      PROVE  Reactivated
  <2>1. Reported(l, status) = goal \/ Reported(l, status).status = status
    BY <1>1 DEF Reported, Goals
  <2> QED
    BY <1>2, <1>3, <2>1 DEF Reactivated
<1>4. CASE Users
  BY <1>4, UserKeepsBudget
<1>5. CASE \E status \in Outcomes : AgentReports(status)
  <2>1. \A status \in Outcomes : status # "active"
    BY GoalConstants
  <2> QED
    BY <1>3, <1>5, <2>1 DEF AgentReports
<1>6. CASE Fail
  BY <1>3, <1>6 DEF Fail
<1>7. ASSUME NEW t \in Turns, ReadUsage(t) PROVE Reactivated
  <2>1. CASE goal' = goal
    BY <1>2, <2>1
  <2>2. CASE goal' = Used(goal)
    <3>1. /\ goal'.used = goal.used + 1
          /\ goal'.status = IF goal.status = "active" /\ goal.used + 1 >= Budget
                            THEN "limited" ELSE goal.status
      BY <1>1, <2>2 DEF Used, Goals
    <3> QED
      BY <1>1, <3>1 DEF Reactivated, Goals
  <2> QED
    BY <1>7, <2>1, <2>2 DEF ReadUsage
<1>8. CASE IngestActs
  <2>1. CASE ingest.act = "continue" \/ ingest.act = "none"
    BY <1>2, <1>8, <2>1 DEF IngestActs
  <2>2. CASE ingest.act \notin {"continue", "none"}
    <3>1. ingest.act # "active"
      BY DEF TypeOK, Ingests
    <3> QED
      BY <1>3, <1>8, <2>2, <3>1 DEF IngestActs
  <2> QED
    BY <2>1, <2>2
<1>9. CASE \/ EndTurn \/ Worker \/ Send \/ HearDomain \/ ReadStarted \/ ReadNotice \/ ReadEnd
           \/ IngestSets \/ UNCHANGED vars
  <2>1. goal' = goal
    BY <1>9 DEF EndTurn, Worker, Send, HearDomain, ReadStarted, ReadNotice, ReadEnd, IngestSets,
                vars, TakeContinuation, TakeGoal, TakeClear, TakeSet, Ensure, Prebind, Accept,
                Reread, SetRunning, Replace, tables
  <2> QED
    BY <1>2, <2>1
<1> QED
  BY <1>4, <1>5, <1>6, <1>7, <1>8, <1>9 DEF Next, Ingestion

\* A goal is not active beyond its budget: not after an edit, a resume or a report that
\* crossed the usage that used the budget up.
THEOREM ActiveGoalsHaveBudget == Spec => []ActiveHasBudget
<1>1. Init => ActiveHasBudget
  BY DEF Init, NoGoal, ActiveHasBudget
<1>2. TypeOK /\ ActiveHasBudget /\ [Next]_vars => ActiveHasBudget'
  BY NextBudget DEF Reactivated, ActiveHasBudget
<1> QED
  BY <1>1, <1>2, GoalTypeCorrect, PTL DEF Spec

\* A goal that was stopped, by the user, the budget, the agent or a failure, is active again
\* only in a new lifecycle, so that nothing that names the old one is accepted for it.
ReturnsAnew ==
    goal.status # "active" /\ goal'.status = "active" => goal'.life > lives

THEOREM StoppedGoalsReturnAnew == Spec => [][ReturnsAnew]_vars
<1>1. TypeOK /\ ActiveHasBudget /\ [Next]_vars => [ReturnsAnew]_vars
  <2> SUFFICES ASSUME TypeOK, ActiveHasBudget, [Next]_vars PROVE ReturnsAnew
    OBVIOUS
  <2>1. Reactivated /\ lives \in Nat
    BY NextBudget DEF TypeOK
  <2> QED
    BY <2>1 DEF Reactivated, Renewed, ReturnsAnew
<1> QED
  BY <1>1, ActiveGoalsHaveBudget, GoalTypeCorrect, PTL DEF Spec
=============================================================================

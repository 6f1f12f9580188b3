-------------------- MODULE OrchestrationRecoveryProofs --------------------
(***************************************************************************)
(* Theorems about OrchestrationRecovery, for every value of its constants. *)
(* The client's operations are functions of its state, so each has a lemma *)
(* of its own: it keeps the client sound.                                  *)
(***************************************************************************)
EXTENDS OrchestrationRecovery, TLAPS

\* What a replay in flight and the batch rely on: replays start at an event
\* that is applied, and no batched event is beyond the next one.
Sound(c) ==
    /\ c \in Clients
    /\ c.store = [seq |-> c.latest, whole |-> TRUE]
    /\ \A e \in c.batch : e <= c.latest + 1
    /\ c.inFlight = "replay" => c.bootstrapped /\ c.replayStart <= c.latest

\* d is a next state of c that loses no progress and no request in flight.
Follows(c, d) ==
    /\ Sound(d)
    /\ d.latest >= c.latest
    /\ c.inFlight # "none" => d.inFlight # "none"

LEMMA LargerIsNat ==
    ASSUME NEW m \in Nat, NEW n \in Nat
    PROVE  Larger(m, n) \in Nat /\ Larger(m, n) >= m /\ Larger(m, n) >= n
BY DEF Larger

LEMMA BeginSnapshotSound ==
    ASSUME NEW c, Sound(c)
    PROVE  Follows(c, BeginSnapshot(c)) /\ BeginSnapshot(c).inFlight # "none"
<1> DEFINE d == BeginSnapshot(c)
<1>1. d \in Clients
  BY DEF Sound, BeginSnapshot, Clients
<1>2. /\ d.latest = c.latest /\ d.store = c.store /\ d.batch = c.batch
      /\ d.bootstrapped = c.bootstrapped /\ d.replayStart = c.replayStart
      /\ d.inFlight = IF c.inFlight = "none" THEN "snapshot" ELSE c.inFlight
  BY DEF Sound, BeginSnapshot, Clients
<1> HIDE DEF d
<1> QED
  BY <1>1, <1>2 DEF Sound, Follows, Clients, d

LEMMA BeginReplaySound ==
    ASSUME NEW c, Sound(c)
    PROVE  Follows(c, BeginReplay(c))
<1> DEFINE d == BeginReplay(c)
<1>1. d \in Clients
  BY DEF Sound, BeginReplay, Clients
<1>2. /\ d.latest = c.latest /\ d.store = c.store /\ d.batch = c.batch
      /\ d.bootstrapped = c.bootstrapped
      /\ \/ d.inFlight = c.inFlight /\ d.replayStart = c.replayStart
         \/ c.bootstrapped /\ d.inFlight = "replay" /\ d.replayStart = c.latest
  BY DEF Sound, BeginReplay, Clients
<1> HIDE DEF d
<1> QED
  BY <1>1, <1>2 DEF Sound, Follows, Clients, d

\* A snapshot put into the store and completed leaves a sound client.
LEMMA CompleteSnapshotSound ==
    ASSUME NEW c, Sound(c), NEW n \in Nat
    PROVE  /\ Sound(CompleteSnapshot(SyncSnapshot(c, n), n))
           /\ CompleteSnapshot(SyncSnapshot(c, n), n).latest >= c.latest
<1> DEFINE s == SyncSnapshot(c, n)
           to == Larger(c.latest, n)
           d == [s EXCEPT !.latest = to, !.highest = Larger(@, to),
                          !.bootstrapped = TRUE, !.inFlight = "none"]
<1>1. s \in Clients /\ s.latest = c.latest /\ s.highest = c.highest /\ s.batch = c.batch
  BY DEF Sound, SyncSnapshot, Clients
<1>2. s.store = [seq |-> to, whole |-> TRUE]
  <2>1. c.latest \in Nat /\ c.store = [seq |-> c.latest, whole |-> TRUE] /\ c \in Clients
    BY DEF Sound, Clients
  <2>2. CASE n >= c.latest
    <3>1. to = n
      BY <2>1, <2>2 DEF Larger
    <3>2. s = [c EXCEPT !.store = [seq |-> n, whole |-> TRUE]]
      BY <2>2 DEF SyncSnapshot
    <3>3. s.store = [seq |-> n, whole |-> TRUE]
      BY <2>1, <3>2 DEF Clients
    <3> HIDE DEF s, to
    <3> QED
      BY <3>1, <3>3
  <2>3. CASE ~ (n >= c.latest)
    <3>1. to = c.latest
      BY <2>1, <2>3 DEF Larger
    <3>2. s = c
      BY <2>3 DEF SyncSnapshot
    <3> HIDE DEF s, to
    <3> QED
      BY <2>1, <3>1, <3>2
  <2> QED
    BY <2>2, <2>3
<1>3. to \in Nat /\ to >= c.latest /\ Larger(s.highest, to) \in Nat
  BY <1>1, LargerIsNat DEF Clients
<1>4. Sound(d) /\ d.latest = to
  <2>1. d \in Clients
    BY <1>1, <1>3 DEF Clients
  <2>2. d.latest = to /\ d.store = s.store /\ d.batch = c.batch /\ d.inFlight = "none"
    BY <1>1 DEF Clients
  <2> QED
    BY <1>2, <1>3, <2>1, <2>2 DEF Sound, Clients
<1>5. CompleteSnapshot(s, n) = IF ShouldReplay(d) THEN BeginReplay(d) ELSE d
  BY <1>1 DEF CompleteSnapshot
<1> HIDE DEF s, d, to
<1>6. Follows(d, BeginReplay(d))
  BY <1>4, BeginReplaySound
<1>7. Sound(CompleteSnapshot(s, n)) /\ CompleteSnapshot(s, n).latest >= c.latest
  <2>1. Sound(BeginReplay(d)) /\ BeginReplay(d).latest >= d.latest
    BY <1>6 DEF Follows
  <2>2. c.latest \in Nat /\ d.latest \in Nat /\ BeginReplay(d).latest \in Nat
    BY <1>4, <2>1 DEF Sound, Clients
  <2> QED
    BY <1>3, <1>4, <1>5, <2>1, <2>2
<1> QED
  BY <1>7 DEF s

LEMMA FailSnapshotSound ==
    ASSUME NEW c, Sound(c)
    PROVE  Sound(FailSnapshot(c)) /\ FailSnapshot(c).latest = c.latest
BY DEF Sound, FailSnapshot, Clients

LEMMA CompleteReplaySound ==
    ASSUME NEW c, Sound(c)
    PROVE  Sound(CompleteReplay(c)) /\ CompleteReplay(c).latest >= c.latest
<1> DEFINE d == [c EXCEPT !.replayStart = 0, !.inFlight = "none", !.pendingReplay = FALSE]
<1>1. Sound(d) /\ d.latest = c.latest
  BY DEF Sound, Clients
<1>2. CompleteReplay(c) = IF c.latest > c.replayStart /\ ShouldReplay(c) THEN BeginReplay(d)
                          ELSE [d EXCEPT !.stalled = c.highest > c.latest]
  BY DEF CompleteReplay
<1>3. ASSUME NEW b \in BOOLEAN
      PROVE  Sound([d EXCEPT !.stalled = b]) /\ [d EXCEPT !.stalled = b].latest = c.latest
  BY DEF Sound, Clients
<1>4. (c.highest > c.latest) \in BOOLEAN
  BY DEF Sound, Clients
<1> HIDE DEF d
<1>5. Follows(d, BeginReplay(d))
  BY <1>1, BeginReplaySound
<1>6. c.latest \in Nat
  BY DEF Sound, Clients
<1> DEFINE e == [d EXCEPT !.stalled = c.highest > c.latest]
<1>7. Sound(e) /\ e.latest = c.latest
  BY <1>3, <1>4
<1> HIDE DEF e
<1>8. CompleteReplay(c) \in {BeginReplay(d), e}
  BY <1>2 DEF e
<1> QED
  BY <1>1, <1>5, <1>6, <1>7, <1>8 DEF Follows

LEMMA FailReplaySound ==
    ASSUME NEW c, Sound(c)
    PROVE  Sound(FailReplay(c)) /\ FailReplay(c).latest >= c.latest
<1> DEFINE d == [c EXCEPT !.replayStart = 0, !.bootstrapped = FALSE, !.inFlight = "none"]
<1>1. Sound(d) /\ d.latest = c.latest
  BY DEF Sound, Clients
<1>2. FailReplay(c) = BeginSnapshot(d)
  BY DEF FailReplay
<1> HIDE DEF d
<1> QED
  BY <1>1, <1>2, BeginSnapshotSound DEF Follows
-----------------------------------------------------------------------------
\* A set of events can be folded when what is selected of it are the next
\* events, none missing.
NextEvents(c, S) ==
    \/ Selected(c, S) = {}
    \/ \E n \in Nat : n > c.latest /\ Selected(c, S) = (c.latest + 1)..n

LEMMA ApplySound ==
    ASSUME NEW c, Sound(c), NEW S, NextEvents(c, S)
    PROVE  /\ Follows(c, Apply(c, S))
           /\ Apply(c, S).inFlight = c.inFlight
<1>1. CASE Selected(c, S) = {}
  BY <1>1 DEF Apply, Follows, Sound, Clients
<1>2. CASE \E n \in Nat : n > c.latest /\ Selected(c, S) = (c.latest + 1)..n
  <2>1. PICK n \in Nat : n > c.latest /\ Selected(c, S) = (c.latest + 1)..n
    BY <1>2
  <2> DEFINE T == Selected(c, S)
             to == CHOOSE e \in T : \A f \in T : f <= e
  <2>2. c.latest \in Nat /\ c.highest \in Nat
    BY DEF Sound, Clients
  <2>3. n \in T /\ \A f \in T : f <= n
    BY <2>1, <2>2
  <2>4. to \in T /\ \A f \in T : f <= to
    BY <2>3
  <2>5. to = n
    BY <2>1, <2>2, <2>3, <2>4
  <2>6. Apply(c, S) = [c EXCEPT !.latest = n, !.highest = Larger(@, n),
                                !.store = [seq |-> n, whole |-> TRUE]]
    <3>1. T # {}
      BY <2>3
    <3>2. c.store.whole = TRUE /\ T = (c.store.seq + 1)..n
      BY <2>1 DEF Sound
    <3> QED
      BY <2>5, <3>1, <3>2 DEF Apply
  <2>7. Larger(c.highest, n) \in Nat
    BY <2>2, LargerIsNat
  <2>8. Apply(c, S) \in Clients
    <3>1. [seq |-> n, whole |-> TRUE] \in [seq : Nat, whole : BOOLEAN]
      BY <2>1
    <3>2. c \in Clients
      BY DEF Sound
    <3> HIDE DEF T, to
    <3> QED
      BY <2>1, <2>6, <2>7, <3>1, <3>2 DEF Clients
  <2>9. /\ Apply(c, S).latest = n /\ Apply(c, S).store = [seq |-> n, whole |-> TRUE]
        /\ Apply(c, S).batch = c.batch /\ Apply(c, S).inFlight = c.inFlight
        /\ Apply(c, S).bootstrapped = c.bootstrapped
        /\ Apply(c, S).replayStart = c.replayStart
    BY <2>6 DEF Sound, Clients
  <2>10. \A e \in c.batch : e \in Nat
    BY DEF Sound, Clients
  <2>11. c.inFlight = "replay" => c.replayStart \in Nat /\ c.replayStart <= c.latest
    BY DEF Sound, Clients
  <2> HIDE DEF T, to
  <2> QED
    BY <2>1, <2>2, <2>8, <2>9, <2>10, <2>11 DEF Follows, Sound
<1> QED
  BY <1>1, <1>2 DEF NextEvents

LEMMA ApplyUntilSound ==
    ASSUME NEW c, Sound(c), NEW S, NextEvents(c, S), NEW how
    PROVE  /\ Follows(c, ApplyUntil(c, S, how))
           /\ ApplyUntil(c, S, how).inFlight = c.inFlight
<1>1. Follows(c, c)
  BY DEF Follows, Sound, Clients
<1> QED
  BY <1>1, ApplySound DEF ApplyUntil

\* The events of a batch are the next one, or already applied.
LEMMA BatchIsNext ==
    ASSUME NEW c, Sound(c)
    PROVE  NextEvents([c EXCEPT !.batch = {}], c.batch)
<1> DEFINE d == [c EXCEPT !.batch = {}]
           T == Selected(d, c.batch)
<1>1. c.latest \in Nat /\ d.latest = c.latest
  BY DEF Sound, Clients
<1>2. \A e \in T : e = c.latest + 1
  BY <1>1 DEF Sound, Clients, Selected
<1>3. T = {} \/ T = (c.latest + 1)..(c.latest + 1)
  <2>1. (c.latest + 1)..(c.latest + 1) = {c.latest + 1}
    BY <1>1
  <2> QED
    BY <1>2, <2>1
<1> HIDE DEF T
<1>4. CASE T = {}
  BY <1>4 DEF NextEvents, T
<1>5. CASE T = (c.latest + 1)..(c.latest + 1)
  <2>1. c.latest + 1 \in Nat /\ c.latest + 1 > d.latest /\ T = (d.latest + 1)..(c.latest + 1)
    BY <1>1, <1>5
  <2> QED
    BY <2>1 DEF NextEvents, T
<1> QED
  BY <1>3, <1>4, <1>5

LEMMA FlushSound ==
    ASSUME NEW c, Sound(c), NEW how
    PROVE  Follows(c, Flush(c, how))
<1> DEFINE b == [c EXCEPT !.batch = {}]
           d == ApplyUntil(b, c.batch, how)
<1>1. Sound(b) /\ b.latest = c.latest /\ b.inFlight = c.inFlight
  BY DEF Sound, Clients
<1>2. NextEvents(b, c.batch)
  BY BatchIsNext
<1>3. Flush(c, how) = IF Throws(c, c.batch, how) THEN BeginSnapshot(d) ELSE d
  BY DEF Flush
<1> HIDE DEF b
<1>4. Follows(b, d)
  BY <1>1, <1>2, ApplyUntilSound
<1> HIDE DEF d
<1>5. Sound(d)
  BY <1>4 DEF Follows
<1>6. Follows(d, BeginSnapshot(d))
  BY <1>5, BeginSnapshotSound
<1>7. c.latest \in Nat /\ d.latest \in Nat /\ BeginSnapshot(d).latest \in Nat
  BY <1>5, <1>6 DEF Follows, Sound, Clients
<1> QED
  BY <1>1, <1>3, <1>4, <1>6, <1>7 DEF Follows

\* A replay that starts at an applied event returns the next ones.
LEMMA ReplayIsNext ==
    ASSUME NEW c, Sound(c), c.inFlight = "replay", NEW n \in Nat
    PROVE  NextEvents(c, (c.replayStart + 1)..n)
<1> DEFINE T == Selected(c, (c.replayStart + 1)..n)
<1>1. c.latest \in Nat /\ c.replayStart \in Nat /\ c.replayStart <= c.latest
  BY DEF Sound, Clients
<1>2. T = (c.latest + 1)..n
  BY <1>1 DEF Selected
<1>3. CASE n > c.latest
  BY <1>2, <1>3 DEF NextEvents
<1>4. CASE ~ (n > c.latest)
  <2>1. T = {}
    BY <1>1, <1>2, <1>4
  <2> QED
    BY <2>1 DEF NextEvents
<1> QED
  BY <1>3, <1>4
-----------------------------------------------------------------------------
\* The inductive invariant.
IInv == TypeOK /\ Sound(client)

LEMMA InitIInv == Init => IInv
<1> SUFFICES ASSUME Init PROVE IInv
  OBVIOUS
<1>1. log \in Nat /\ published \in 0..log
  BY RecoveryConstants DEF Init
<1>2. Sound(client) /\ client.inFlight = "none"
  BY DEF Init, Sound, Clients
<1>3. call \in [status : {"none", "asked", "answered", "lost"}, upTo : Nat]
      /\ call.status = "none"
  BY DEF Init, NoCall
<1>4. stream \in Seq(Nat)
  BY DEF Init
<1>5. subscribed \in BOOLEAN /\ welcome \in BOOLEAN
      /\ failures \in Nat /\ disconnects \in Nat
  BY DEF Init
<1> QED
  BY <1>1, <1>2, <1>3, <1>4, <1>5 DEF IInv, TypeOK, Sound

\* A callback that answers no request keeps the invariant and the progress.
LEMMA StepIInv ==
    ASSUME IInv, NEW d, Follows(client, d), Step(d),
           log' = log, published' = published, stream' \in Seq(Nat),
           subscribed' \in BOOLEAN, welcome' \in BOOLEAN,
           failures' \in Nat, disconnects' \in Nat
    PROVE  IInv' /\ client'.latest >= client.latest
<1>1. Sound(client')
  BY DEF Step, Follows
<1>2. call' \in [status : {"none", "asked", "answered", "lost"}, upTo : Nat]
  BY DEF Step, IInv, TypeOK, Asked
<1>3. call'.status = "none" <=> client'.inFlight = "none"
  BY DEF Step, IInv, TypeOK, Asked, Follows
<1>4. client'.latest >= client.latest
  BY DEF Step, Follows
<1>5. TypeOK'
  BY <1>1, <1>2, <1>3 DEF IInv, TypeOK, Sound
<1> QED
  BY <1>1, <1>4, <1>5 DEF IInv

\* So does one that handles the outcome of a request.
LEMMA ResumeIInv ==
    ASSUME IInv, NEW d, Sound(d), d.latest >= client.latest, Resume(d),
           log' = log, published' = published, stream' \in Seq(Nat),
           subscribed' \in BOOLEAN, welcome' \in BOOLEAN,
           failures' \in Nat, disconnects' \in Nat
    PROVE  IInv' /\ client'.latest >= client.latest
<1>1. Sound(client') /\ client'.latest >= client.latest
  BY DEF Resume
<1>2. call' \in [status : {"none", "asked", "answered", "lost"}, upTo : Nat]
      /\ (call'.status = "none" <=> client'.inFlight = "none")
  BY DEF Resume, Asked, NoCall
<1>3. TypeOK'
  BY <1>1, <1>2 DEF IInv, TypeOK, Sound
<1> QED
  BY <1>1, <1>3 DEF IInv

LEMMA ReceiveTypes ==
    ASSUME TypeOK, NEW n, Receive(n)
    PROVE  /\ log' = log /\ published' = published /\ stream' \in Seq(Nat)
           /\ subscribed' \in BOOLEAN /\ welcome' \in BOOLEAN /\ disconnects' \in Nat
           /\ n \in Nat
BY DEF TypeOK, Receive, server

LEMMA CountType == ASSUME TypeOK, NEW how, Count(how) PROVE failures' \in Nat
BY DEF TypeOK, Count

LEMMA ObservedSound ==
    ASSUME Sound(client), NEW n \in Nat
    PROVE  Follows(client, Observed(n))
           /\ Follows(client, [Observed(n) EXCEPT !.pendingReplay = TRUE])
           /\ Observed(n).latest = client.latest /\ Observed(n).batch = client.batch
<1>1. Larger(client.highest, n) \in Nat
  BY LargerIsNat DEF Sound, Clients
<1> DEFINE o == Observed(n)
           p == [o EXCEPT !.pendingReplay = TRUE]
<1>2. o \in Clients /\ p \in Clients
  BY <1>1 DEF Sound, Clients, Observed
<1>3. \A d \in {o, p} :
         /\ d.latest = client.latest /\ d.store = client.store /\ d.batch = client.batch
         /\ d.inFlight = client.inFlight /\ d.bootstrapped = client.bootstrapped
         /\ d.replayStart = client.replayStart
  BY DEF Sound, Clients, Observed
<1> HIDE DEF o, p
<1>4. Follows(client, o) /\ Follows(client, p) /\ o.latest = client.latest
      /\ o.batch = client.batch
  BY <1>2, <1>3 DEF Follows, Sound, Clients
<1> QED
  BY <1>4 DEF o, p

\* Every step keeps the invariant and loses no progress.
LEMMA NextIInv ==
    ASSUME ~DerivedStateFails, IInv, [Next]_vars
    PROVE  IInv' /\ client'.latest >= client.latest
<1> USE DEF IInv
<1>0. client.latest \in Nat /\ client.latest >= client.latest
  BY DEF Sound, Clients
<1>1. CASE Commit
  BY <1>1, <1>0 DEF Commit, TypeOK, Sound, network, bounds
<1>2. CASE Server
  <2>1. CASE PublishLive
    BY <2>1, <1>0 DEF PublishLive, TypeOK, Sound, Slide, bounds
  <2>2. ASSUME NEW n \in Nat, Answer(n) PROVE IInv'
    BY <2>2 DEF Answer, TypeOK, Sound, server, network, bounds
  <2>3. CASE ServeSnapshot
    BY <2>3, <2>2, <1>0 DEF ServeSnapshot, TypeOK, Answer
  <2>4. CASE ServeReplay
    <3>1. Larger(client.replayStart, Smaller(log, client.replayStart + ReplayLimit)) \in Nat
      <4>1. log \in Nat /\ client.replayStart \in Nat /\ ReplayLimit \in Nat
        BY RecoveryConstants DEF Sound, Clients, TypeOK
      <4>2. Smaller(log, client.replayStart + ReplayLimit) \in Nat
        BY <4>1 DEF Smaller
      <4> QED
        BY <4>1, <4>2, LargerIsNat
    <3> QED
      BY <2>4, <3>1, <2>2, <1>0 DEF ServeReplay, Answer
  <2> QED
    BY <1>2, <2>1, <2>3, <2>4 DEF Server
<1>3. CASE Disconnect
  <2>1. client' = client /\ log' = log /\ published' \in 0..log
    BY <1>3 DEF Disconnect, TypeOK
  <2>2. call' \in [status : {"none", "asked", "answered", "lost"}, upTo : Nat]
        /\ (call'.status = "none" <=> call.status = "none")
    BY <1>3 DEF Disconnect, TypeOK
  <2>3. stream' \in Seq(Nat)
    BY <1>3 DEF Disconnect
  <2>4. subscribed' \in BOOLEAN /\ welcome' \in BOOLEAN
    BY <1>3 DEF Disconnect
  <2>5. failures' \in Nat /\ disconnects' \in Nat
    BY <1>3 DEF Disconnect, TypeOK
  <2> QED
    BY <1>0, <2>1, <2>2, <2>3, <2>4, <2>5 DEF TypeOK
<1>4. CASE Subscribe
  BY <1>4, <1>0 DEF Subscribe, TypeOK, Sound, server, bounds
<1>5. CASE OnEvent
  <2> SUFFICES ASSUME NEW n \in 1..log,
                      \/ Ignore(n) \/ Defer(n)
                      \/ \E how \in Outcomes : ApplyLive(n, how) \/ Recover(n, how)
               PROVE  IInv' /\ client'.latest >= client.latest
    BY <1>5 DEF OnEvent
  <2>1. CASE Ignore(n)
    BY <2>1, ReceiveTypes, ObservedSound, StepIInv DEF Ignore, TypeOK
  <2>2. CASE Defer(n)
    BY <2>2, ReceiveTypes, ObservedSound, StepIInv DEF Defer, TypeOK
  <2>3. ASSUME NEW how \in Outcomes, ApplyLive(n, how)
        PROVE  IInv' /\ client'.latest >= client.latest
    <3> DEFINE c == [Observed(n) EXCEPT !.batch = @ \cup {n}]
               d == IF Cardinality(c.batch) >= MaxItems THEN Flush(c, how) ELSE c
    <3>1. n \in Nat /\ n = client.latest + 1 /\ Receive(n) /\ Count(how) /\ Step(d)
      BY <2>3, ReceiveTypes DEF ApplyLive
    <3>2. Follows(client, c)
      <4>1. Sound(Observed(n)) /\ Observed(n).latest = client.latest
        BY <3>1, ObservedSound DEF Follows
      <4>2. Observed(n).inFlight = client.inFlight
        BY DEF Observed, Sound, Clients
      <4> HIDE DEF Observed
      <4> QED
        BY <3>1, <4>1, <4>2, <1>0 DEF Follows, Sound, Clients
    <3> HIDE DEF c
    <3>3. Follows(c, Flush(c, how))
      BY <3>2, FlushSound DEF Follows
    <3>4. Follows(client, Flush(c, how))
      <4>1. c.latest \in Nat /\ Flush(c, how).latest \in Nat
        BY <3>2, <3>3 DEF Follows, Sound, Clients
      <4> QED
        BY <3>2, <3>3, <4>1, <1>0 DEF Follows
    <3>5. Follows(client, d)
      BY <3>2, <3>4
    <3> HIDE DEF d
    <3> QED
      BY <3>1, <3>5, ReceiveTypes, CountType, StepIInv
  <2>4. ASSUME NEW how \in Outcomes, Recover(n, how)
        PROVE  IInv' /\ client'.latest >= client.latest
    <3> DEFINE c == [Observed(n) EXCEPT !.pendingReplay = TRUE]
               f == Flush(c, how)
    <3>1. n \in Nat /\ Receive(n) /\ Count(how) /\ Step(BeginReplay(f))
      BY <2>4, ReceiveTypes DEF Recover
    <3>2. Follows(client, c)
      BY <3>1, ObservedSound
    <3> HIDE DEF c
    <3>3. Follows(c, f)
      BY <3>2, FlushSound DEF Follows
    <3> HIDE DEF f
    <3>4. Follows(f, BeginReplay(f))
      BY <3>3, BeginReplaySound DEF Follows
    <3>5. Follows(client, BeginReplay(f))
      <4>1. c.latest \in Nat /\ f.latest \in Nat /\ BeginReplay(f).latest \in Nat
        BY <3>2, <3>3, <3>4 DEF Follows, Sound, Clients
      <4> QED
        BY <3>2, <3>3, <3>4, <4>1, <1>0 DEF Follows
    <3> QED
      BY <3>1, <3>5, ReceiveTypes, CountType, StepIInv
  <2> QED
    BY <2>1, <2>2, <2>3, <2>4
<1>6. CASE OnFrame
  <2>1. PICK how \in Outcomes : Frame(how)
    BY <1>6 DEF OnFrame
  <2>2. Follows(client, Flush(client, how))
    BY FlushSound
  <2> QED
    BY <2>1, <2>2, CountType, StepIInv DEF Frame, TypeOK, server, network
<1>7. CASE OnReply
  <2>1. CASE SnapshotArrives
    <3>1. call.upTo \in Nat
      BY DEF TypeOK
    <3> QED
      BY <2>1, <3>1, CompleteSnapshotSound, ResumeIInv
         DEF SnapshotArrives, TypeOK, server, network, bounds
  <2>2. CASE DerivedStateThrows
    BY <2>2 DEF DerivedStateThrows
  <2>3. CASE SnapshotFails
    BY <2>3, FailSnapshotSound, ResumeIInv, <1>0
       DEF SnapshotFails, CallFails, TypeOK, server, network
  <2>4. CASE ReplayFails
    BY <2>4, FailReplaySound, ResumeIInv
       DEF ReplayFails, CallFails, TypeOK, server, network
  <2>5. ASSUME NEW how \in Outcomes, ReplayArrives(how)
        PROVE  IInv' /\ client'.latest >= client.latest
    <3> DEFINE S == (client.replayStart + 1)..call.upTo
               d == ApplyUntil(client, S, how)
               e == IF Throws(client, S, how) THEN FailReplay(d) ELSE CompleteReplay(d)
    <3>1. Resume(e) /\ Count(how) /\ client.inFlight = "replay"
      BY <2>5 DEF ReplayArrives
    <3>2. Follows(client, d)
      <4>1. call.upTo \in Nat
        BY DEF TypeOK
      <4> QED
        BY <3>1, <4>1, ReplayIsNext, ApplyUntilSound
    <3> HIDE DEF S, d
    <3>3. Sound(e) /\ e.latest >= d.latest
      BY <3>2, FailReplaySound, CompleteReplaySound DEF Follows
    <3> HIDE DEF e
    <3>4. e.latest >= client.latest
      <4>1. d.latest \in Nat /\ e.latest \in Nat
        BY <3>2, <3>3 DEF Follows, Sound, Clients
      <4> QED
        BY <3>2, <3>3, <4>1, <1>0 DEF Follows
    <3> QED
      BY <2>5, <3>1, <3>3, <3>4, CountType, ResumeIInv
         DEF ReplayArrives, TypeOK, server, network
  <2> QED
    BY <1>7, <2>1, <2>2, <2>3, <2>4, <2>5 DEF OnReply
<1>8. CASE Welcome
  BY <1>8, BeginSnapshotSound, StepIInv DEF Welcome, TypeOK, server, bounds
<1>9. CASE Watchdog
  BY <1>9, BeginSnapshotSound, StepIInv DEF Watchdog, TypeOK, server, network, bounds
<1>10. CASE UNCHANGED vars
  BY <1>10, <1>0 DEF vars, server, network, bounds, TypeOK, Sound
<1> QED
  BY <1>1, <1>2, <1>3, <1>4, <1>5, <1>6, <1>7, <1>8, <1>9, <1>10 DEF Next

\* The conditions the theorems below share: what is derived from a snapshot
\* can be stored.
LEMMA RecoveryInvariant == ~DerivedStateFails /\ Spec => []IInv
<1> SUFFICES ASSUME ~DerivedStateFails PROVE Spec => []IInv
  OBVIOUS
<1>1. IInv /\ [Next]_vars => IInv'
  BY NextIInv
<1> QED
  BY InitIInv, <1>1, PTL DEF Spec

\* The type invariant of the client and its connection.
THEOREM RecoveryTypeCorrect == ~DerivedStateFails /\ Spec => []TypeOK
<1>1. IInv => TypeOK
  BY DEF IInv
<1> QED
  BY <1>1, RecoveryInvariant, PTL

\* No gap, loss, replay, stale snapshot or failed batch makes the client skip
\* an event or fold one twice.
THEOREM RecoveryStoreIsPrefix == ~DerivedStateFails /\ Spec => []StoreIsPrefix
<1>1. IInv => StoreIsPrefix
  BY DEF IInv, Sound, StoreIsPrefix
<1> QED
  BY <1>1, RecoveryInvariant, PTL

\* No snapshot puts the client back behind events it applied.
THEOREM RecoveryNeverGoesBack == ~DerivedStateFails /\ Spec => StoreNeverGoesBack
<1> SUFFICES ASSUME ~DerivedStateFails PROVE Spec => StoreNeverGoesBack
  OBVIOUS
<1>1. IInv /\ IInv' /\ [Next]_vars => client'.store.seq >= client.store.seq
  BY NextIInv DEF IInv, Sound
<1>2. Spec => []IInv
  BY RecoveryInvariant
<1>3. IInv /\ IInv' /\ [Next]_vars => [client'.store.seq >= client.store.seq]_vars
  BY <1>1
<1> QED
  BY <1>2, <1>3, PTL DEF Spec, StoreNeverGoesBack
-----------------------------------------------------------------------------
\* What AtRestIsCurrent says of a client in state c, w telling whether a
\* welcome is on its way.
Current(c, w) ==
    c.inFlight = "none" /\ ~c.stalled =>
        IF c.bootstrapped
        THEN \A n \in (c.latest + 1)..c.highest : n \in c.batch
        ELSE w

\* The values a client's fields have.
LEMMA ClientFields ==
    ASSUME NEW c, Sound(c)
    PROVE  /\ c \in Clients /\ c.latest \in Nat /\ c.highest \in Nat
           /\ c.batch \subseteq Nat /\ \A e \in c.batch : e <= c.latest + 1
           /\ c.bootstrapped \in BOOLEAN /\ c.stalled \in BOOLEAN
           /\ c.inFlight \in {"none", "snapshot", "replay"}
BY DEF Sound, Clients

\* A bootstrapped client that asks for a replay has a request in flight.
LEMMA BeginReplayInFlight ==
    ASSUME NEW c, Sound(c), c.bootstrapped
    PROVE  BeginReplay(c).inFlight # "none"
BY DEF BeginReplay, Sound, Clients

\* Applying events and flushing leave a client bootstrapped, or not.
LEMMA ApplyUntilKeepsBootstrap ==
    ASSUME NEW c, Sound(c), NEW S, NEW how
    PROVE  ApplyUntil(c, S, how).bootstrapped = c.bootstrapped
BY DEF ApplyUntil, Apply, Sound, Clients

LEMMA FlushBootstrapped ==
    ASSUME NEW c, Sound(c), NEW how
    PROVE  Flush(c, how).bootstrapped = c.bootstrapped
<1> DEFINE b == [c EXCEPT !.batch = {}]
           d == ApplyUntil(b, c.batch, how)
<1>1. Sound(b) /\ b.bootstrapped = c.bootstrapped
  BY DEF Sound, Clients
<1>2. Flush(c, how) = IF Throws(c, c.batch, how) THEN BeginSnapshot(d) ELSE d
  BY DEF Flush
<1>3. NextEvents(b, c.batch)
  BY BatchIsNext
<1> HIDE DEF b
<1>4. Sound(d) /\ d.bootstrapped = c.bootstrapped
  BY <1>1, <1>3, ApplyUntilSound, ApplyUntilKeepsBootstrap DEF Follows
<1> HIDE DEF d
<1>5. BeginSnapshot(d).bootstrapped = d.bootstrapped
  BY <1>4 DEF BeginSnapshot, Sound, Clients
<1> QED
  BY <1>2, <1>4, <1>5

\* A flush that does not throw applies all the batch holds, and a client at
\* rest holds all it has seen; one that throws asks for a snapshot.
LEMMA FlushCurrent ==
    ASSUME NEW c, Sound(c), NEW w, Current(c, w), NEW how
    PROVE  Current(Flush(c, how), w)
<1> DEFINE b == [c EXCEPT !.batch = {}]
           T == Selected(b, c.batch)
           d == ApplyUntil(b, c.batch, how)
<1>1. /\ Sound(b) /\ b.latest = c.latest /\ b.highest = c.highest
      /\ b.inFlight = c.inFlight /\ b.stalled = c.stalled
      /\ b.bootstrapped = c.bootstrapped
  BY DEF Sound, Clients
<1>2. Flush(c, how) = IF Throws(c, c.batch, how) THEN BeginSnapshot(d) ELSE d
  BY DEF Flush
<1>3. T = {e \in c.batch : e > c.latest} /\ T = Selected(c, c.batch)
  BY <1>1 DEF Selected
<1>4. /\ c.latest \in Nat /\ c.highest \in Nat /\ c.batch \subseteq Nat
      /\ \A e \in c.batch : e <= c.latest + 1
  <2> HIDE DEF b, T, d
  <2> QED
    BY ClientFields
<1>5. Sound(d) /\ d.inFlight = c.inFlight
  <2>1. NextEvents(b, c.batch)
    BY BatchIsNext
  <2> HIDE DEF b
  <2>2. Follows(b, d) /\ d.inFlight = b.inFlight
    BY <1>1, <2>1, ApplyUntilSound
  <2> QED
    BY <1>1, <2>2 DEF Follows
<1>6. CASE T = {}
  <2>1. d = b
    BY <1>6 DEF ApplyUntil, Apply
  <2>2. ~Throws(c, c.batch, how)
    BY <1>3, <1>6 DEF Throws
  <2>3. Flush(c, how) = b
    BY <1>2, <2>1, <2>2
  <2> HIDE DEF b, d, T
  <2>4. \A n \in (c.latest + 1)..c.highest : n \in c.batch => n \in T
    <3> SUFFICES ASSUME NEW n \in (c.latest + 1)..c.highest, n \in c.batch
                 PROVE  n \in T
      OBVIOUS
    <3>1. n > c.latest
      BY <1>4
    <3> QED
      BY <1>3, <3>1
  <2>5. Current(b, w)
    BY <1>1, <1>6, <2>4 DEF Current
  <2> QED
    BY <1>1, <2>3, <2>5
<1>7. CASE T # {} /\ Throws(c, c.batch, how)
  <2>1. d.bootstrapped = c.bootstrapped
    BY <1>1 DEF ApplyUntil, Apply, Sound, Clients
  <2> HIDE DEF d
  <2>2. BeginSnapshot(d).inFlight # "none"
    BY <1>5, BeginSnapshotSound
  <2>3. BeginSnapshot(d).bootstrapped = d.bootstrapped
    BY <1>5 DEF BeginSnapshot, Sound, Clients
  <2> QED
    BY <1>2, <1>7, <2>1, <2>2, <2>3 DEF Current
<1>8. CASE T # {} /\ ~Throws(c, c.batch, how)
  <2>1. how = "ok" /\ Flush(c, how) = Apply(b, c.batch)
    BY <1>2, <1>3, <1>8 DEF Throws, ApplyUntil
  <2> DEFINE to == CHOOSE e \in T : \A f \in T : f <= e
  <2>2. T = {c.latest + 1}
    <3> HIDE DEF b, T
    <3>1. \A e \in T : e = c.latest + 1
      BY <1>3, <1>4
    <3> QED
      BY <3>1, <1>8
  <2>3. to = c.latest + 1
    BY <2>2, <1>4
  <2>4. Apply(b, c.batch) = [b EXCEPT !.latest = to, !.highest = Larger(@, to),
                                !.store = [seq |-> to, whole |-> b.store.whole
                                             /\ T = (b.store.seq + 1)..to]]
    BY <1>8 DEF Apply
  <2> DEFINE a == Apply(b, c.batch)
  <2>5. /\ a.latest = to /\ a.highest = Larger(c.highest, to)
        /\ a.inFlight = c.inFlight /\ a.stalled = c.stalled
        /\ a.bootstrapped = c.bootstrapped
    <3> HIDE DEF T, to, b
    <3> QED
      BY <1>1, <2>4 DEF Sound, Clients
  <2> HIDE DEF to, T, a, b
  <2>6. c.inFlight = "none" /\ ~c.stalled /\ c.bootstrapped => c.highest <= c.latest + 1
    <3> SUFFICES ASSUME c.inFlight = "none", ~c.stalled, c.bootstrapped,
                        ~(c.highest <= c.latest + 1)
                 PROVE  FALSE
      BY <1>4
    <3>1. c.highest \in (c.latest + 1)..c.highest /\ c.highest > c.latest + 1
      BY <1>4
    <3>2. c.highest \in c.batch
      BY <3>1 DEF Current
    <3> QED
      BY <1>4, <3>1, <3>2
  <2>7. c.inFlight = "none" /\ ~c.stalled /\ c.bootstrapped => a.highest = a.latest
    BY <1>4, <2>3, <2>5, <2>6 DEF Larger
  <2>8. a.latest \in Nat
    BY <1>4, <2>3, <2>5
  <2>9. Current(a, w)
    BY <2>5, <2>7, <2>8 DEF Current
  <2> QED
    BY <2>1, <2>5, <2>9 DEF a
<1> QED
  BY <1>6, <1>7, <1>8

\* A completed snapshot leaves no event the client saw unapplied, or a replay
\* in flight.
LEMMA CompleteSnapshotCurrent ==
    ASSUME NEW c, Sound(c), NEW n \in Nat, NEW w
    PROVE  Current(CompleteSnapshot(SyncSnapshot(c, n), n), w)
<1> DEFINE s == SyncSnapshot(c, n)
           to == Larger(c.latest, n)
           d == [s EXCEPT !.latest = to, !.highest = Larger(@, to),
                          !.bootstrapped = TRUE, !.inFlight = "none"]
<1>1. s \in Clients /\ s.latest = c.latest
  BY DEF Sound, SyncSnapshot, Clients
<1>2. to \in Nat /\ Larger(s.highest, to) \in Nat
  BY <1>1, LargerIsNat DEF Sound, Clients
<1>3. CompleteSnapshot(s, n) = IF ShouldReplay(d) THEN BeginReplay(d) ELSE d
  BY <1>1 DEF CompleteSnapshot
<1>4. d \in Clients /\ d.bootstrapped /\ d.inFlight = "none"
  <2> HIDE DEF s, to
  <2> QED
    BY <1>1, <1>2 DEF Clients
<1> HIDE DEF s, to, d
<1>5. CASE ShouldReplay(d)
  <2>1. BeginReplay(d).inFlight # "none"
    BY <1>4 DEF BeginReplay, Clients
  <2> QED
    BY <1>3, <1>5, <2>1 DEF Current, s
<1>6. CASE ~ShouldReplay(d)
  <2>1. d.highest \in Nat /\ d.latest \in Nat /\ ~(d.highest > d.latest)
    BY <1>4, <1>6 DEF ShouldReplay, Clients
  <2>2. Current(d, w)
    BY <1>4, <2>1 DEF Current
  <2> QED
    BY <1>3, <1>6, <2>2 DEF s
<1> QED
  BY <1>5, <1>6

\* So does a completed replay, unless it gave up.
LEMMA CompleteReplayCurrent ==
    ASSUME NEW c, Sound(c), c.bootstrapped, NEW w
    PROVE  Current(CompleteReplay(c), w)
<1> DEFINE d == [c EXCEPT !.replayStart = 0, !.inFlight = "none", !.pendingReplay = FALSE]
           e == [d EXCEPT !.stalled = c.highest > c.latest]
<1>1. CompleteReplay(c) \in {BeginReplay(d), e}
  BY DEF CompleteReplay
<1>2. Sound(d) /\ d.bootstrapped
  BY DEF Sound, Clients
<1>3. /\ e.stalled = (c.highest > c.latest) /\ e.highest = c.highest
      /\ e.latest = c.latest /\ e.bootstrapped
  BY DEF Sound, Clients
<1> HIDE DEF d, e
<1>4. Current(BeginReplay(d), w)
  BY <1>2, BeginReplayInFlight DEF Current
<1>5. Current(e, w)
  BY <1>3, ClientFields DEF Current
<1> QED
  BY <1>1, <1>4, <1>5

LEMMA FailReplayCurrent ==
    ASSUME NEW c, Sound(c), NEW w
    PROVE  Current(FailReplay(c), w)
<1> DEFINE d == [c EXCEPT !.replayStart = 0, !.bootstrapped = FALSE, !.inFlight = "none"]
<1>1. Sound(d) /\ FailReplay(c) = BeginSnapshot(d)
  BY DEF FailReplay, Sound, Clients
<1> HIDE DEF d
<1> QED
  BY <1>1, BeginSnapshotSound DEF Current

\* An event that is observed and put into the batch, or is old, leaves the
\* client current; one that is deferred leaves it not at rest, or waiting for
\* its welcome.
LEMMA ObservedCurrent ==
    ASSUME IInv, AtRestIsCurrent, NEW n \in Nat
    PROVE  /\ n <= client.latest => Current(Observed(n), welcome)
           /\ ~Live => Current([Observed(n) EXCEPT !.pendingReplay = TRUE], welcome)
           /\ n = client.latest + 1 =>
                Current([Observed(n) EXCEPT !.batch = @ \cup {n}], welcome)
<1> DEFINE o == Observed(n)
           p == [o EXCEPT !.pendingReplay = TRUE]
           q == [o EXCEPT !.batch = @ \cup {n}]
<1>1. client.latest \in Nat /\ client.highest \in Nat /\ client \in Clients
  BY ClientFields DEF IInv
<1>2. \A d \in {o, p, q} :
         /\ d.latest = client.latest /\ d.highest = Larger(client.highest, n)
         /\ d.inFlight = client.inFlight /\ d.bootstrapped = client.bootstrapped
         /\ d.stalled = client.stalled
  BY <1>1 DEF Observed, Clients
<1>3. o.batch = client.batch /\ q.batch = client.batch \cup {n}
  BY <1>1 DEF Observed, Clients
<1> HIDE DEF o, p, q
<1>4. ASSUME n <= client.latest PROVE Current(o, welcome)
  <2>1. \A k \in (client.latest + 1)..Larger(client.highest, n) :
           k \in (client.latest + 1)..client.highest
    BY <1>1, <1>4 DEF Larger
  <2> QED
    BY <1>2, <1>3, <2>1 DEF Current, AtRestIsCurrent
<1>5. ASSUME ~Live PROVE Current(p, welcome)
  BY <1>2, <1>5 DEF Current, AtRestIsCurrent, Live
<1>6. ASSUME n = client.latest + 1 PROVE Current(q, welcome)
  <2>1. \A k \in (client.latest + 1)..Larger(client.highest, n) :
           k = n \/ k \in (client.latest + 1)..client.highest
    BY <1>1, <1>6 DEF Larger
  <2> QED
    BY <1>2, <1>3, <2>1 DEF Current, AtRestIsCurrent
<1> QED
  BY <1>4, <1>5, <1>6 DEF o, p, q

\* Every step leaves a client at rest current.
LEMMA NextCurrent ==
    ASSUME IInv, AtRestIsCurrent, [Next]_vars
    PROVE  AtRestIsCurrent'
<1>0. Sound(client) /\ Current(client, welcome)
  BY DEF IInv, AtRestIsCurrent, Current
<1>a. ASSUME NEW d, client' = d, Current(d, welcome') PROVE AtRestIsCurrent'
  BY <1>a DEF AtRestIsCurrent, Current
<1>1. CASE Commit \/ Server \/ Subscribe \/ UNCHANGED vars
  <2>1. UNCHANGED <<client, welcome>>
    BY <1>1 DEF Commit, Server, PublishLive, ServeSnapshot, ServeReplay, Answer,
                Subscribe, vars, network
  <2> QED
    BY <2>1 DEF AtRestIsCurrent
<1>2. CASE Disconnect
  BY <1>0, <1>2 DEF Disconnect, AtRestIsCurrent
<1>3. CASE OnEvent
  <2> SUFFICES ASSUME NEW n \in 1..log,
                      \/ Ignore(n) \/ Defer(n)
                      \/ \E how \in Outcomes : ApplyLive(n, how) \/ Recover(n, how)
               PROVE  AtRestIsCurrent'
    BY <1>3 DEF OnEvent
  <2>1. n \in Nat
    BY DEF IInv, TypeOK
  <2>2. CASE Ignore(n)
    BY <2>1, <2>2, <1>a, ObservedCurrent DEF Ignore, Receive, Step
  <2>3. CASE Defer(n)
    BY <2>1, <2>3, <1>a, ObservedCurrent DEF Defer, Receive, Step
  <2>4. ASSUME NEW how \in Outcomes, ApplyLive(n, how) PROVE AtRestIsCurrent'
    <3> DEFINE c == [Observed(n) EXCEPT !.batch = @ \cup {n}]
               d == IF Cardinality(c.batch) >= MaxItems THEN Flush(c, how) ELSE c
    <3>1. n = client.latest + 1 /\ welcome' = welcome /\ client' = d
      BY <2>4 DEF ApplyLive, Receive, Step
    <3>2. Current(c, welcome)
      BY <2>1, <3>1, ObservedCurrent
    <3>3. Sound(c)
      <4>1. Sound(Observed(n)) /\ Observed(n).latest = client.latest
        BY <1>0, <2>1, ObservedSound DEF Follows
      <4>2. client.latest \in Nat
        BY <1>0, ClientFields
      <4> HIDE DEF Observed
      <4> QED
        BY <2>1, <3>1, <4>1, <4>2 DEF Sound, Clients
    <3> HIDE DEF c
    <3>4. Current(d, welcome)
      BY <3>2, <3>3, FlushCurrent
    <3> QED
      BY <3>1, <3>4, <1>a
  <2>5. ASSUME NEW how \in Outcomes, Recover(n, how) PROVE AtRestIsCurrent'
    <3> DEFINE c == [Observed(n) EXCEPT !.pendingReplay = TRUE]
               f == Flush(c, how)
    <3>1. client' = BeginReplay(f) /\ client.bootstrapped
      BY <2>5 DEF Recover, Step, Live
    <3>2. Sound(c)
      BY <1>0, <2>1, ObservedSound DEF Follows
    <3>3. c.bootstrapped
      BY <1>0, <3>1 DEF Observed, Sound, Clients
    <3> HIDE DEF c
    <3>4. Sound(f)
      BY <3>2, FlushSound DEF Follows
    <3>5. f.bootstrapped
      BY <3>2, <3>3, FlushBootstrapped
    <3> HIDE DEF f
    <3> QED
      BY <3>1, <3>4, <3>5, <1>a, BeginReplayInFlight DEF Current
  <2> QED
    BY <2>2, <2>3, <2>4, <2>5
<1>4. CASE OnFrame
  BY <1>0, <1>4, <1>a, FlushCurrent DEF OnFrame, Frame, Step, network
<1>5. CASE OnReply
  <2>1. CASE SnapshotArrives
    <3>1. call.upTo \in Nat
      BY DEF IInv, TypeOK
    <3> QED
      BY <1>0, <1>a, <2>1, <3>1, CompleteSnapshotCurrent DEF SnapshotArrives, Resume
  <2>2. ASSUME NEW d, Sound(d), client' = FailSnapshot(d) PROVE AtRestIsCurrent'
    <3>1. FailSnapshot(d).stalled
      BY <2>2 DEF FailSnapshot, Sound, Clients
    <3> QED
      BY <1>a, <2>2, <3>1 DEF Current
  <2>3. CASE DerivedStateThrows
    <3>1. client' = FailSnapshot(SyncSnapshot(client, call.upTo)) /\ call.upTo \in Nat
      BY <2>3 DEF DerivedStateThrows, Resume, IInv, TypeOK
    <3>2. SyncSnapshot(client, call.upTo) \in Clients
      BY <1>0, <3>1 DEF SyncSnapshot, Sound, Clients
    <3>3. FailSnapshot(SyncSnapshot(client, call.upTo)).stalled
      BY <3>2 DEF FailSnapshot, Clients
    <3> QED
      BY <1>a, <3>1, <3>3 DEF Current
  <2>4. CASE SnapshotFails
    BY <1>0, <2>2, <2>4 DEF SnapshotFails, Resume
  <2>5. CASE ReplayFails
    BY <1>0, <1>a, <2>5, FailReplayCurrent DEF ReplayFails, Resume
  <2>6. ASSUME NEW how \in Outcomes, ReplayArrives(how) PROVE AtRestIsCurrent'
    <3> DEFINE S == (client.replayStart + 1)..call.upTo
               d == ApplyUntil(client, S, how)
               e == IF Throws(client, S, how) THEN FailReplay(d) ELSE CompleteReplay(d)
    <3>1. client' = e /\ client.inFlight = "replay"
      BY <2>6 DEF ReplayArrives, Resume
    <3>2. Sound(d) /\ d.bootstrapped
      <4>1. call.upTo \in Nat /\ client.bootstrapped
        BY <3>1 DEF IInv, TypeOK
      <4> QED
        BY <1>0, <3>1, <4>1, ReplayIsNext, ApplyUntilSound, ApplyUntilKeepsBootstrap
           DEF Follows
    <3> HIDE DEF S, d
    <3>3. Current(e, welcome')
      BY <3>2, FailReplayCurrent, CompleteReplayCurrent
    <3> QED
      BY <1>a, <3>1, <3>3
  <2> QED
    BY <1>5, <2>1, <2>3, <2>4, <2>5, <2>6 DEF OnReply
<1>6. CASE Welcome
  BY <1>0, <1>6, <1>a, BeginSnapshotSound DEF Welcome, Step, Current
<1>7. CASE Watchdog
  BY <1>0, <1>7, <1>a, BeginSnapshotSound DEF Watchdog, Step, Current
<1> QED
  BY <1>1, <1>2, <1>3, <1>4, <1>5, <1>6, <1>7 DEF Next

\* A client at rest has applied, or holds in its batch, all it has seen: no
\* interleaving of live events, flushes, failed batches and overlapping
\* recoveries leaves a gap open without a request in flight.
THEOREM RecoveryAtRestIsCurrent == ~DerivedStateFails /\ Spec => []AtRestIsCurrent
<1>1. Init => AtRestIsCurrent
  BY DEF Init, AtRestIsCurrent
<1>2. IInv /\ AtRestIsCurrent /\ [Next]_vars => AtRestIsCurrent'
  BY NextCurrent
<1> QED
  BY <1>1, <1>2, RecoveryInvariant, PTL DEF Spec
=============================================================================

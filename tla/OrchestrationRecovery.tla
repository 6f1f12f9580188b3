----------------------- MODULE OrchestrationRecovery -----------------------
(***************************************************************************)
(* How a web client follows the orchestration event log: a snapshot, live  *)
(* events pushed over the WebSocket through a sliding buffer, and replays  *)
(* that fill the gaps.  The connection may break, the server restart, any  *)
(* request fail or time out, and an event batch fail while it is applied.  *)
(*                                                                         *)
(* An event is its sequence number.  The client's store is how far the log *)
(* is folded into it, and whether every event up to there was folded once  *)
(* and in order (whole).  All that one callback of the client does between *)
(* two awaits is one step, so its operations are functions from the        *)
(* client's state to its next state.                                       *)
(***************************************************************************)
EXTENDS Integers, Sequences, FiniteSets

CONSTANTS MaxLog,             \* bound: events committed
          BufferCapacity,     \* live events buffered per client (2048)
          ReplayLimit,        \* events one replay returns (1000)
          MaxItems,           \* batched events that force a flush (500)
          MaxFailures,        \* bound: failed requests and failed batches
          MaxDisconnects,     \* bound: broken connections
          DerivedStateFails   \* may the state derived from a snapshot fail to
                              \* be stored (persisted stores write localStorage)

ASSUME RecoveryConstants ==
    /\ {MaxLog, MaxFailures, MaxDisconnects} \subseteq Nat
    /\ {BufferCapacity, ReplayLimit, MaxItems} \subseteq Nat \ {0}
    /\ DerivedStateFails \in BOOLEAN

VARIABLES
    log,          \* number of committed events
    published,    \* the last one given to the subscribers' streams
    stream,       \* live events buffered for, or on their way to, the client
    subscribed,   \* the client's live subscription is up
    welcome,      \* a server welcome is on its way to the client
    call,         \* the client's snapshot or replay request
    client,       \* coordinator, frame batch and store of the client
    failures, disconnects   \* bound counters

server  == <<log, published>>
network == <<stream, subscribed, welcome>>
bounds  == <<failures, disconnects>>
vars    == <<server, network, call, client, bounds>>

Larger(m, n)  == IF m < n THEN n ELSE m
Smaller(m, n) == IF m < n THEN m ELSE n

NoCall == [status |-> "none", upTo |-> 0]
Asked  == [status |-> "asked", upTo |-> 0]

Init ==
    /\ log \in 0..MaxLog /\ published = log
    /\ stream = <<>> /\ subscribed = FALSE /\ welcome = TRUE
    /\ call = NoCall
    /\ client = [latest |-> 0, highest |-> 0, bootstrapped |-> FALSE,
                 pendingReplay |-> FALSE, inFlight |-> "none", replayStart |-> 0,
                 batch |-> {}, store |-> [seq |-> 0, whole |-> TRUE],
                 stalled |-> FALSE]   \* auxiliary: a recovery gave up
    /\ failures = 0 /\ disconnects = 0
-----------------------------------------------------------------------------
(* The recovery coordinator.                                                *)

BeginSnapshot(c) ==
    IF c.inFlight # "none" THEN [c EXCEPT !.pendingReplay = TRUE]
    ELSE [c EXCEPT !.inFlight = "snapshot", !.stalled = FALSE]

BeginReplay(c) ==
    IF ~c.bootstrapped \/ c.inFlight # "none" THEN [c EXCEPT !.pendingReplay = TRUE]
    ELSE [c EXCEPT !.pendingReplay = FALSE, !.replayStart = c.latest,
                   !.inFlight = "replay", !.stalled = FALSE]

ShouldReplay(c) == c.pendingReplay \/ c.highest > c.latest

\* completeSnapshotRecovery, and the replay it asks for.
CompleteSnapshot(c, n) ==
    LET to == Larger(c.latest, n)
        d  == [c EXCEPT !.latest = to, !.highest = Larger(@, to),
                        !.bootstrapped = TRUE, !.inFlight = "none"]
    IN  IF ShouldReplay(d) THEN BeginReplay(d) ELSE d

FailSnapshot(c) == [c EXCEPT !.inFlight = "none", !.stalled = TRUE]

\* Slip: what was deferred during the replay is forgotten.
CompleteReplayIgnoresPending(c) ==
    [c EXCEPT !.replayStart = 0, !.inFlight = "none", !.pendingReplay = FALSE]

\* completeReplayRecovery, and the replay it asks for.  Without progress the
\* events deferred meanwhile are not asked for again.
CompleteReplay(c) ==
    LET d == [c EXCEPT !.replayStart = 0, !.inFlight = "none", !.pendingReplay = FALSE]
    IN  IF c.latest > c.replayStart /\ ShouldReplay(c) THEN BeginReplay(d)
        ELSE [d EXCEPT !.stalled = c.highest > c.latest]

\* Slip: no snapshot is asked for after the replay failed.
FailReplayNoFallback(c) ==
    [c EXCEPT !.replayStart = 0, !.bootstrapped = FALSE, !.inFlight = "none"]

\* failReplayRecovery and fallbackToSnapshotRecovery.
FailReplay(c) ==
    BeginSnapshot([c EXCEPT !.replayStart = 0, !.bootstrapped = FALSE,
                            !.inFlight = "none"])
-----------------------------------------------------------------------------
(* Applying events.                                                         *)

\* Slip: events the snapshot already holds are folded again.
SelectedAll(c, S) == S

Selected(c, S) == {e \in S : e > c.latest}

\* The selected events are folded in ascending order and marked applied.
Apply(c, S) ==
    LET T == Selected(c, S)
    IN  IF T = {} THEN c
        ELSE LET to == CHOOSE e \in T : \A f \in T : f <= e
             IN  [c EXCEPT !.latest = to, !.highest = Larger(@, to),
                           !.store = [seq |-> to, whole |-> c.store.whole
                                        /\ T = (c.store.seq + 1)..to]]

\* Applying a batch succeeds, or throws early (nothing folded) or late (in the
\* effects that follow the fold).
Outcomes == {"ok"} \cup (IF failures < MaxFailures THEN {"early", "late"} ELSE {})
ApplyUntil(c, S, how) == IF how = "early" THEN c ELSE Apply(c, S)
Throws(c, S, how) == how # "ok" /\ Selected(c, S) # {}
Count(how) == failures' = IF how = "ok" THEN failures ELSE failures + 1

\* The frame batcher's flush; a batch that throws falls back to a snapshot.
Flush(c, how) ==
    LET d == ApplyUntil([c EXCEPT !.batch = {}], c.batch, how)
    IN  IF Throws(c, c.batch, how) THEN BeginSnapshot(d) ELSE d

\* A snapshot is put into the store unless newer events were applied; as live
\* events are deferred while it is fetched, there are none.
SyncSnapshot(c, n) ==
    IF n >= c.latest THEN [c EXCEPT !.store = [seq |-> n, whole |-> TRUE]] ELSE c
-----------------------------------------------------------------------------
(* The server: commits, the live stream, snapshots and replays.             *)

Commit ==
    /\ log < MaxLog /\ log' = log + 1
    /\ UNCHANGED <<published, network, call, client, bounds>>

\* The per-client buffer slides: when it is full the oldest event goes.
Slide(s) == IF Len(s) > BufferCapacity THEN Tail(s) ELSE s

PublishLive ==
    /\ published < log /\ published' = published + 1
    /\ stream' = IF subscribed THEN Slide(Append(stream, published + 1)) ELSE stream
    /\ UNCHANGED <<log, subscribed, welcome, call, client, bounds>>

Answer(n) ==
    /\ call.status = "asked"
    /\ call' = [status |-> "answered", upTo |-> n]
    /\ UNCHANGED <<server, network, client, bounds>>

ServeSnapshot == client.inFlight = "snapshot" /\ Answer(log)

ServeReplay ==
    /\ client.inFlight = "replay"
    /\ Answer(Larger(client.replayStart, Smaller(log, client.replayStart + ReplayLimit)))

\* The connection breaks; if the server restarted, events committed and not
\* published yet never will be.
Disconnect ==
    /\ disconnects < MaxDisconnects /\ disconnects' = disconnects + 1
    /\ stream' = <<>> /\ subscribed' = FALSE /\ welcome' = TRUE
    /\ published' \in {published, log}
    /\ call' = IF call.status = "none" THEN call ELSE [status |-> "lost", upTo |-> 0]
    /\ UNCHANGED <<log, client, failures>>

Subscribe ==
    /\ ~subscribed /\ subscribed' = TRUE
    /\ UNCHANGED <<server, stream, welcome, call, client, bounds>>
-----------------------------------------------------------------------------
(* The client's callbacks.                                                  *)

\* Slip: a recovery is marked in flight and its request never sent.
StepSendsNothing(d) == client' = d /\ UNCHANGED call

\* A callback that answers no request of the client may begin one.
Step(d) ==
    /\ client' = d
    /\ call' = IF client.inFlight = "none" /\ d.inFlight # "none" THEN Asked ELSE call

\* One that handles the outcome of a request may begin the next.
Resume(d) ==
    /\ client' = d
    /\ call' = IF d.inFlight # "none" THEN Asked ELSE NoCall

\* onDomainEvent: the next live event is classified and handled.
Receive(n) ==
    /\ stream # <<>> /\ n = Head(stream) /\ stream' = Tail(stream)
    /\ UNCHANGED <<server, subscribed, welcome, disconnects>>
Observed(n) == [client EXCEPT !.highest = Larger(@, n)]
Live == client.bootstrapped /\ client.inFlight = "none"

Ignore(n) ==
    /\ n <= client.latest
    /\ Receive(n) /\ Step(Observed(n)) /\ UNCHANGED failures

Defer(n) ==
    /\ n > client.latest /\ ~Live
    /\ Receive(n) /\ UNCHANGED failures
    /\ Step([Observed(n) EXCEPT !.pendingReplay = TRUE])

\* Slip: an event beyond the next one is not taken for a gap.
ApplyLiveAhead(n, how) ==
    /\ Live /\ n > client.latest
    /\ Receive(n) /\ Count(how)
    /\ LET c == [Observed(n) EXCEPT !.batch = @ \cup {n}]
       IN  /\ how # "ok" => Cardinality(c.batch) >= MaxItems
           /\ Step(IF Cardinality(c.batch) >= MaxItems THEN Flush(c, how) ELSE c)

ApplyLive(n, how) ==
    /\ Live /\ n = client.latest + 1
    /\ Receive(n) /\ Count(how)
    /\ LET c == [Observed(n) EXCEPT !.batch = @ \cup {n}]
       IN  /\ how # "ok" => Cardinality(c.batch) >= MaxItems
           /\ Step(IF Cardinality(c.batch) >= MaxItems THEN Flush(c, how) ELSE c)

Recover(n, how) ==
    /\ Live /\ n > client.latest + 1
    /\ Receive(n) /\ Count(how)
    /\ Step(BeginReplay(Flush([Observed(n) EXCEPT !.pendingReplay = TRUE], how)))

\* The animation frame, or its timer, flushes the batch.
Frame(how) ==
    /\ client.batch # {}
    /\ Step(Flush(client, how)) /\ Count(how)
    /\ UNCHANGED <<server, network, disconnects>>

Welcome ==
    /\ welcome /\ welcome' = FALSE
    /\ Step(BeginSnapshot(client))
    /\ UNCHANGED <<server, stream, subscribed, bounds>>

\* The watchdog: no activity for a while and a thread of the store seems to be
\* running; an empty store has none.
Watchdog ==
    /\ client.inFlight = "none" /\ client.store.seq > 0
    /\ Step(BeginSnapshot(client))
    /\ UNCHANGED <<server, network, bounds>>

SnapshotArrives ==
    /\ client.inFlight = "snapshot" /\ call.status = "answered"
    /\ Resume(CompleteSnapshot(SyncSnapshot(client, call.upTo), call.upTo))
    /\ UNCHANGED <<server, network, bounds>>

\* The snapshot is in the store, then the state derived from it throws.
DerivedStateThrows ==
    /\ DerivedStateFails
    /\ client.inFlight = "snapshot" /\ call.status = "answered"
    /\ call.upTo >= client.latest
    /\ Resume(FailSnapshot(SyncSnapshot(client, call.upTo)))
    /\ UNCHANGED <<server, network, bounds>>

\* The request is lost with the connection, fails or times out.
CallFails ==
    \/ call.status = "lost" /\ UNCHANGED failures
    \/ failures < MaxFailures /\ failures' = failures + 1

SnapshotFails ==
    /\ client.inFlight = "snapshot" /\ CallFails
    /\ Resume(FailSnapshot(client))
    /\ UNCHANGED <<server, network, disconnects>>

ReplayArrives(how) ==
    /\ client.inFlight = "replay" /\ call.status = "answered"
    /\ LET S == (client.replayStart + 1)..call.upTo
           d == ApplyUntil(client, S, how)
       IN  Resume(IF Throws(client, S, how) THEN FailReplay(d) ELSE CompleteReplay(d))
    /\ Count(how)
    /\ UNCHANGED <<server, network, disconnects>>

ReplayFails ==
    /\ client.inFlight = "replay" /\ CallFails
    /\ Resume(FailReplay(client))
    /\ UNCHANGED <<server, network, disconnects>>

Server == PublishLive \/ ServeSnapshot \/ ServeReplay
OnEvent == \E n \in 1..log : \/ Ignore(n) \/ Defer(n)
                             \/ \E how \in Outcomes : ApplyLive(n, how) \/ Recover(n, how)
OnFrame == \E how \in Outcomes : Frame(how)
OnReply == \/ SnapshotArrives \/ DerivedStateThrows \/ SnapshotFails \/ ReplayFails
           \/ \E how \in Outcomes : ReplayArrives(how)

Next ==
    \/ Commit \/ Server \/ Disconnect \/ Subscribe
    \/ OnEvent \/ OnFrame \/ OnReply \/ Welcome \/ Watchdog

Spec == Init /\ [][Next]_vars

\* The server answers and publishes; the browser delivers what arrives, runs
\* frames and ends every request by an answer, an error or a timeout.  Nothing
\* forces a commit, a broken connection or the watchdog.
FairSpec ==
    /\ Spec
    /\ WF_vars(Server) /\ WF_vars(Subscribe) /\ WF_vars(Welcome)
    /\ WF_vars(OnEvent) /\ WF_vars(OnFrame) /\ WF_vars(OnReply)
-----------------------------------------------------------------------------
(* Properties.                                                              *)

Clients == [latest : Nat, highest : Nat, bootstrapped : BOOLEAN,
            pendingReplay : BOOLEAN, inFlight : {"none", "snapshot", "replay"},
            replayStart : Nat, batch : SUBSET Nat,
            store : [seq : Nat, whole : BOOLEAN], stalled : BOOLEAN]

\* The type of every variable; a request is out exactly while one is in
\* flight, and replays only serve a client that was bootstrapped.
TypeOK ==
    /\ log \in Nat /\ published \in 0..log
    /\ stream \in Seq(Nat) /\ subscribed \in BOOLEAN /\ welcome \in BOOLEAN
    /\ call \in [status : {"none", "asked", "answered", "lost"}, upTo : Nat]
    /\ client \in Clients
    /\ call.status = "none" <=> client.inFlight = "none"
    /\ client.inFlight = "replay" => client.bootstrapped
    /\ failures \in Nat /\ disconnects \in Nat

\* What the client shows is the fold of exactly the first "latest" events of
\* the log: whatever is lost, reordered between live events, replays and
\* snapshots, or thrown, no event is skipped or folded twice.
StoreIsPrefix == client.store = [seq |-> client.latest, whole |-> TRUE]

\* The store never goes back: neither a batch that was held while a newer
\* snapshot or replay was applied, nor an older snapshot, is put over it.
StoreNeverGoesBack == [][client'.store.seq >= client.store.seq]_vars

\* A client at rest has applied, or holds in its batch, every event it has
\* ever seen, and one that is not bootstrapped has a welcome coming; unless
\* its last recovery gave up (a snapshot failed, or a replay came back empty).
AtRestIsCurrent ==
    client.inFlight = "none" /\ ~client.stalled =>
        IF client.bootstrapped
        THEN \A n \in (client.latest + 1)..client.highest : n \in client.batch
        ELSE welcome

\* Every event the client sees is applied in the end, unless a recovery gave
\* up: no gap is left open, whatever replays and snapshots overlap.
SeenIsApplied ==
    \A n \in 1..MaxLog :
        (client.highest >= n) ~> (client.latest >= n \/ client.stalled)
=============================================================================

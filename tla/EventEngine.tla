---------------------------- MODULE EventEngine ----------------------------
(***************************************************************************)
(* The orchestration engine of apps/server: a queue of command envelopes,  *)
(* one worker that decides each command against the in-memory read model,  *)
(* one SQL transaction that appends the decided events, projects them and  *)
(* writes the command receipt, and the hot stream of committed events.     *)
(*                                                                         *)
(* Data is abstracted to what the properties tell apart: an event is its   *)
(* sequence number and the command it is of; a projected table, in SQL or  *)
(* in the read model, is the sequence of event numbers folded into it.     *)
(* The server may crash between any two steps and boot again from what    *)
(* the database holds.                                                     *)
(***************************************************************************)
EXTENDS Integers, Sequences, FiniteSets

CONSTANTS Commands,       \* command ids callers send
          Requests,       \* calls of dispatch; several may carry one command id
          NoCommand,      \* the command of a request that was not made yet
          NoRequest,      \* the worker's envelope when it has none
          Projectors,     \* the projectors a snapshot depends on
          NewProjectors,  \* those an upgrade may have added: no cursor stored
          OldEvents,      \* the most events the database holds at first boot
          ReplayLimit,    \* default limit of readFromSequence (1000)
          MaxEvents,      \* bound: events one command is decided into
          MaxCrashes      \* bound: crashes of the server

ASSUME EngineConstants ==
    /\ NoCommand \notin Commands /\ NoRequest \notin Requests
    /\ NewProjectors \subseteq Projectors /\ Projectors # {}
    /\ OldEvents \in Nat /\ ReplayLimit \in Nat \ {0}
    /\ MaxEvents \in Nat /\ MaxCrashes \in Nat

VARIABLES
    log,        \* orchestration_events: the command of each committed event
    receipts,   \* orchestration_command_receipts
    proj,       \* projection tables and projection_state cursors
    phase,      \* where the server is between two steps
    replay,     \* the bootstrap replay: next and last event to apply
    model,      \* readModel: snapshotSequence and the tables folded in it
    queue,      \* commandQueue
    cur,        \* the request whose envelope the worker holds
    start,      \* dispatchStartSequence of that envelope
    tx,         \* the transaction: events left to append, events appended,
                \* events published, and the states to install on commit
    err,        \* the failure being handled
    published,  \* eventPubSub: event numbers published since the boot
    request,    \* the command each call of dispatch carries
    answer,     \* the Deferred of each call
    bootLen,    \* auxiliary: length of the log at the last boot
    crashes     \* bound counter

db      == <<log, receipts, proj>>
worker  == <<queue, cur, start, tx, err>>
callers == <<request, answer>>
vars    == <<db, phase, replay, model, worker, published, callers, bootLen, crashes>>

NoReceipt  == [status |-> "none", seq |-> 0]
Unanswered == [status |-> "none", seq |-> 0]
Refused(e) == [status |-> e, seq |-> 0]

UpTo(n) == [i \in 1..n |-> i]

\* projectEvent and the SQL projectors: event k is folded into every table.
EmptyModel == [seq |-> 0, tables |-> [p \in Projectors |-> <<>>]]
ProjectEvent(m, k) ==
    [seq |-> k, tables |-> [p \in Projectors |-> Append(m.tables[p], k)]]
ProjectEvents(m, first, last) ==
    [seq |-> last,
     tables |-> [p \in Projectors |->
                    m.tables[p] \o [i \in 1..(last - first + 1) |-> first + i - 1]]]

\* The projectors in S apply event k and their cursors are upserted to its
\* sequence, all in the transaction of the event.
EmptyProj == [p \in Projectors |-> [cursor |-> 0, rows |-> <<>>]]
Advance(P, S, k) ==
    [p \in Projectors |-> IF p \in S
                          THEN [cursor |-> k, rows |-> Append(P[p].rows, k)]
                          ELSE P[p]]

NoTx == [todo |-> 0, done |-> 0, sent |-> 0, model |-> EmptyModel, proj |-> EmptyProj]
NoReplay == [next |-> 1, last |-> 0]

Up == phase \notin {"down", "boot"}
Pending == {r \in Requests : request[r] # NoCommand /\ answer[r] = Unanswered}

\* The database a first boot finds: events of commands sent long ago, every
\* projector at the end of the log but those the upgrade added.
Init ==
    /\ \E n \in 0..OldEvents, S \in SUBSET NewProjectors :
          /\ log = [i \in 1..n |-> NoCommand]
          /\ proj = [p \in Projectors |->
                        IF p \in S THEN EmptyProj[p] ELSE [cursor |-> n, rows |-> UpTo(n)]]
    /\ receipts = [c \in Commands |-> NoReceipt]
    /\ phase = "down" /\ replay = NoReplay
    /\ model = EmptyModel /\ published = <<>> /\ bootLen = 0
    /\ queue = <<>> /\ cur = NoRequest /\ start = 0 /\ tx = NoTx /\ err = "none"
    /\ request = [r \in Requests |-> NoCommand]
    /\ answer = [r \in Requests |-> Unanswered]
    /\ crashes = 0
-----------------------------------------------------------------------------
(* Boot: the projection bootstrap, then the snapshot.                       *)

\* Read without a limit of its own, the event store returns what follows n up
\* to event ReadTo(n).
ReadTo(n) == IF n + ReplayLimit < Len(log) THEN n + ReplayLimit ELSE Len(log)

IsMinCursor(m) == /\ \E p \in Projectors : m = proj[p].cursor
                  /\ \A p \in Projectors : m <= proj[p].cursor

\* One stream serves all projectors: it starts at the least cursor and ends
\* with the log or after ReplayLimit events.
BeginBootstrap ==
    /\ phase = "down"
    /\ phase' = "boot"
    /\ \E m \in 0..Len(log) :
          /\ IsMinCursor(m)
          /\ replay' = [next |-> m + 1, last |-> ReadTo(m)]
    /\ UNCHANGED <<db, model, worker, published, callers, bootLen, crashes>>

BootstrapEvent ==
    /\ phase = "boot" /\ replay.next <= replay.last
    /\ proj' = Advance(proj, {p \in Projectors : proj[p].cursor < replay.next}, replay.next)
    /\ replay' = [replay EXCEPT !.next = @ + 1]
    /\ UNCHANGED <<log, receipts, phase, model, worker, published, callers,
                   bootLen, crashes>>

\* The read model is the snapshot of the tables; its sequence is the least
\* cursor of the projectors it depends on.
LoadSnapshot ==
    /\ phase = "boot" /\ replay.next > replay.last
    /\ phase' = "idle"
    /\ \E m \in 0..Len(log) :
          /\ IsMinCursor(m)
          /\ model' = [seq |-> m, tables |-> [p \in Projectors |-> proj[p].rows]]
    /\ bootLen' = Len(log)
    /\ UNCHANGED <<db, replay, worker, published, callers, crashes>>
-----------------------------------------------------------------------------
(* Callers and the worker's receipt lookup and decision.                    *)

Dispatch(r, c) ==
    /\ Up /\ request[r] = NoCommand
    /\ request' = [request EXCEPT ![r] = c]
    /\ queue' = Append(queue, r)
    /\ UNCHANGED <<db, phase, replay, model, cur, start, tx, err, published,
                   answer, bootLen, crashes>>

Take ==
    /\ phase = "idle" /\ queue # <<>>
    /\ cur' = Head(queue) /\ queue' = Tail(queue)
    /\ start' = model.seq
    /\ phase' = "lookup"
    /\ UNCHANGED <<db, replay, model, tx, err, published, callers, bootLen, crashes>>

\* Slip: the worker answers and goes on with the old envelope in its hands.
SettleKeepsEnvelope(a) ==
    /\ answer' = [answer EXCEPT ![cur] = a]
    /\ cur' = cur /\ phase' = "idle"

\* Deferred.succeed or Deferred.fail, and the worker takes the next envelope.
Settle(a) ==
    /\ answer' = [answer EXCEPT ![cur] = a]
    /\ cur' = NoRequest /\ phase' = "idle"

\* Slip: a retry is answered with the newest sequence, not the stored one.
ReceiptHitAnswersNewest ==
    /\ phase = "lookup" /\ receipts[request[cur]].status # "none"
    /\ Settle(IF receipts[request[cur]].status = "accepted"
              THEN [status |-> "accepted", seq |-> model.seq]
              ELSE Refused("previouslyRejected"))
    /\ UNCHANGED <<db, replay, model, queue, start, tx, err, published, request,
                   bootLen, crashes>>

ReceiptHit ==
    /\ phase = "lookup" /\ receipts[request[cur]].status # "none"
    /\ Settle(IF receipts[request[cur]].status = "accepted"
              THEN receipts[request[cur]] ELSE Refused("previouslyRejected"))
    /\ UNCHANGED <<db, replay, model, queue, start, tx, err, published, request,
                   bootLen, crashes>>

Fail(e) ==
    /\ err' = e /\ phase' = "failing"
    /\ UNCHANGED <<db, replay, model, queue, cur, start, published, callers,
                   bootLen, crashes>>

LookupFails == phase = "lookup" /\ Fail("storage") /\ UNCHANGED tx

\* Slip: the decider is asked although the command has a receipt.
DecideEventsAgain ==
    /\ phase = "lookup"
    /\ \E n \in 0..MaxEvents :
          tx' = [todo |-> n, done |-> 0, sent |-> 0, model |-> model, proj |-> proj]
    /\ phase' = "tx"
    /\ UNCHANGED <<db, replay, model, queue, cur, start, err, published, callers,
                   bootLen, crashes>>

\* The decider refuses the command, or decides it into n events; the read
\* model it consults is not part of the abstraction, so either may happen.
DecideRejects ==
    /\ phase = "lookup" /\ receipts[request[cur]] = NoReceipt
    /\ Fail("invariant") /\ UNCHANGED tx

DecideEvents ==
    /\ phase = "lookup" /\ receipts[request[cur]] = NoReceipt
    /\ \E n \in 0..MaxEvents :
          tx' = [todo |-> n, done |-> 0, sent |-> 0, model |-> model, proj |-> proj]
    /\ phase' = "tx"
    /\ UNCHANGED <<db, replay, model, queue, cur, start, err, published, callers,
                   bootLen, crashes>>
-----------------------------------------------------------------------------
(* The transaction.  Nothing of it is in the database before TxCommit.      *)

\* Slip: the live read model is changed inside the transaction.
TxAppendInPlace ==
    /\ phase = "tx" /\ tx.todo > 0
    /\ LET k == Len(log) + tx.done + 1
       IN  /\ model' = ProjectEvent(model, k)
           /\ tx' = [tx EXCEPT !.todo = @ - 1, !.done = @ + 1, !.model = model',
                               !.proj = Advance(@, Projectors, k)]
    /\ UNCHANGED <<db, phase, replay, queue, cur, start, err, published,
                   callers, bootLen, crashes>>

\* Slip: an event is published when it is appended, before the commit.
TxAppendPublishes ==
    /\ phase = "tx" /\ tx.todo > 0
    /\ LET k == Len(log) + tx.done + 1
       IN  /\ published' = Append(published, k)
           /\ tx' = [tx EXCEPT !.todo = @ - 1, !.done = @ + 1, !.sent = @ + 1,
                               !.model = ProjectEvent(@, k),
                               !.proj = Advance(@, Projectors, k)]
    /\ UNCHANGED <<db, phase, replay, model, queue, cur, start, err, callers,
                   bootLen, crashes>>

\* Append, project in memory, project in SQL: one decided event.
TxAppend ==
    /\ phase = "tx" /\ tx.todo > 0
    /\ LET k == Len(log) + tx.done + 1
       IN  tx' = [tx EXCEPT !.todo = @ - 1, !.done = @ + 1,
                            !.model = ProjectEvent(@, k),
                            !.proj = Advance(@, Projectors, k)]
    /\ UNCHANGED <<db, phase, replay, model, queue, cur, start, err, published,
                   callers, bootLen, crashes>>

TxFails == phase = "tx" /\ Fail("storage") /\ tx' = NoTx

TxEmpty == phase = "tx" /\ tx.todo = 0 /\ tx.done = 0 /\ Fail("invariant") /\ tx' = NoTx

TxCommit ==
    /\ phase = "tx" /\ tx.todo = 0 /\ tx.done > 0
    /\ log' = log \o [i \in 1..tx.done |-> request[cur]]
    /\ proj' = tx.proj
    /\ receipts' = [receipts EXCEPT ![request[cur]] =
                       [status |-> "accepted", seq |-> Len(log) + tx.done]]
    /\ phase' = "committed"
    /\ UNCHANGED <<replay, model, worker, published, callers, bootLen, crashes>>

InstallModel ==
    /\ phase = "committed"
    /\ model' = tx.model
    /\ phase' = "publish"
    /\ UNCHANGED <<db, replay, worker, published, callers, bootLen, crashes>>

Publish ==
    /\ phase = "publish" /\ tx.sent < tx.done
    /\ published' = Append(published, Len(log) - tx.done + tx.sent + 1)
    /\ tx' = [tx EXCEPT !.sent = @ + 1]
    /\ UNCHANGED <<db, phase, replay, model, queue, cur, start, err, callers,
                   bootLen, crashes>>

\* Slip: the caller is answered before the last event is published.
AnswerAcceptedEarly ==
    /\ phase = "publish"
    /\ Settle([status |-> "accepted", seq |-> Len(log)])
    /\ tx' = NoTx
    /\ UNCHANGED <<db, replay, model, queue, start, err, published, request,
                   bootLen, crashes>>

AnswerAccepted ==
    /\ phase = "publish" /\ tx.sent = tx.done
    /\ Settle([status |-> "accepted", seq |-> Len(log)])
    /\ tx' = NoTx
    /\ UNCHANGED <<db, replay, model, queue, start, err, published, request,
                   bootLen, crashes>>
-----------------------------------------------------------------------------
(* After a failure: reconcile the read model, record a rejection, answer.   *)

AfterReconcile == IF err = "invariant" THEN "record" ELSE "refuse"

\* Events found after dispatchStartSequence are projected and published.
Reconcile ==
    /\ phase = "failing"
    /\ LET last == ReadTo(start)
       IN  IF last <= start
           THEN UNCHANGED <<model, published>>
           ELSE /\ model' = ProjectEvents(model, start + 1, last)
                /\ published' = published \o [i \in 1..(last - start) |-> start + i]
    /\ phase' = AfterReconcile
    /\ UNCHANGED <<db, replay, worker, callers, bootLen, crashes>>

ReconcileFails ==
    /\ phase = "failing"
    /\ phase' = AfterReconcile
    /\ UNCHANGED <<db, replay, model, worker, published, callers, bootLen, crashes>>

RecordRejection ==
    /\ phase = "record"
    /\ receipts' = [receipts EXCEPT ![request[cur]] =
                       [status |-> "rejected", seq |-> model.seq]]
    /\ phase' = "refuse"
    /\ UNCHANGED <<log, proj, replay, model, worker, published, callers, bootLen, crashes>>

\* The upsert of the rejected receipt failed; the failure is ignored.
RecordFails ==
    /\ phase = "record"
    /\ phase' = "refuse"
    /\ UNCHANGED <<db, replay, model, worker, published, callers, bootLen, crashes>>

\* Slip: only the errors that are recorded are handed to the caller.
RefuseRecordedOnly ==
    /\ phase = "refuse" /\ err = "invariant"
    /\ Settle(Refused(err)) /\ err' = "none"
    /\ UNCHANGED <<db, replay, model, queue, start, tx, published, request,
                   bootLen, crashes>>

Refuse ==
    /\ phase = "refuse"
    /\ Settle(Refused(err)) /\ err' = "none"
    /\ UNCHANGED <<db, replay, model, queue, start, tx, published, request,
                   bootLen, crashes>>
-----------------------------------------------------------------------------
\* All memory is lost, and with it the callers' connections.
Crash ==
    /\ phase # "down" /\ crashes < MaxCrashes
    /\ crashes' = crashes + 1
    /\ phase' = "down" /\ replay' = NoReplay
    /\ model' = EmptyModel /\ published' = <<>> /\ bootLen' = 0
    /\ queue' = <<>> /\ cur' = NoRequest /\ start' = 0 /\ tx' = NoTx /\ err' = "none"
    /\ answer' = [r \in Requests |-> IF r \in Pending THEN Refused("lost") ELSE answer[r]]
    /\ UNCHANGED <<db, request>>

Boot == BeginBootstrap \/ BootstrapEvent \/ LoadSnapshot
Work ==
    \/ Take \/ LookupFails \/ ReceiptHit \/ DecideRejects \/ DecideEvents
    \/ TxAppend \/ TxFails \/ TxEmpty \/ TxCommit
    \/ InstallModel \/ Publish \/ AnswerAccepted
    \/ Reconcile \/ ReconcileFails \/ RecordRejection \/ RecordFails \/ Refuse

Next ==
    \/ Boot \/ Work \/ Crash
    \/ \E r \in Requests, c \in Commands : Dispatch(r, c)

Spec == Init /\ [][Next]_vars

\* The worker fiber and the boot are runnable whenever they have work; no
\* caller has to dispatch and no crash has to happen.
FairSpec == Spec /\ WF_vars(Boot) /\ WF_vars(Work)
-----------------------------------------------------------------------------
(* Properties.                                                              *)

EventNumbers == Seq(Nat)
Models == [seq : Nat, tables : [Projectors -> EventNumbers]]
Projections == [Projectors -> [cursor : Nat, rows : EventNumbers]]
Phases == {"down", "boot", "idle", "lookup", "tx", "committed", "publish",
           "failing", "record", "refuse"}

\* The type of every variable, and when the worker holds an envelope.
TypeOK ==
    /\ log \in Seq(Commands \cup {NoCommand})
    /\ receipts \in [Commands -> [status : {"none", "accepted", "rejected"}, seq : Nat]]
    /\ proj \in Projections
    /\ phase \in Phases
    /\ replay \in [next : Nat, last : Nat]
    /\ model \in Models
    /\ queue \in Seq(Requests) /\ \A i \in DOMAIN queue : request[queue[i]] \in Commands
    /\ cur \in Requests \cup {NoRequest}
    /\ cur = NoRequest <=> phase \in {"down", "boot", "idle"}
    /\ cur \in Requests => request[cur] \in Commands
    /\ start \in Nat
    /\ tx \in [todo : Nat, done : Nat, sent : Nat, model : Models, proj : Projections]
    /\ phase \in {"committed", "publish"} => tx.done <= Len(log)
    /\ err \in {"none", "storage", "invariant"}
    /\ published \in EventNumbers
    /\ request \in [Requests -> Commands \cup {NoCommand}]
    /\ answer \in [Requests -> [status : {"none", "accepted", "invariant", "storage",
                                          "previouslyRejected", "lost"}, seq : Nat]]
    /\ bootLen \in Nat /\ crashes \in 0..MaxCrashes

\* A command id is accepted exactly when the log holds its events, all of
\* them, once, next to each other, the receipt naming the last: no retry,
\* storage failure or crash leaves half a command or applies one twice
\* ("serialized through an internal queue and deduplicated via command
\* receipts").
EventsOf(c) == {i \in DOMAIN log : log[i] = c}
ReceiptMatchesLog ==
    \A c \in Commands :
        IF receipts[c].status = "accepted"
        THEN \E first \in 1..receipts[c].seq : EventsOf(c) = first..receipts[c].seq
        ELSE EventsOf(c) = {}

\* While the server is up the read model commands are decided against, and
\* the projection tables, are the fold of the whole log, no event missing or
\* folded twice; the read model may only miss the command that is committed
\* and not installed yet.
ReadModelIsFold ==
    Up => LET n == IF phase = "committed" THEN Len(log) - tx.done ELSE Len(log)
          IN  /\ model.seq = n
              /\ \A p \in Projectors :
                    /\ model.tables[p] = UpTo(n)
                    /\ proj[p] = [cursor |-> Len(log), rows |-> UpTo(Len(log))]

\* The hot stream carries the events committed since the boot, in log order,
\* none missing between them and none twice.
PublishedInOrder ==
    Up => /\ published = [i \in 1..Len(published) |-> bootLen + i]
          /\ bootLen + Len(published) <= Len(log)

\* A caller that is answered "accepted" can read its own write: its events
\* are in the read model and on the stream (or were committed before the
\* boot), whichever request with that command id got them committed.
AcceptedIsVisible ==
    Up => \A r \in Requests :
              answer[r].status = "accepted" =>
                  /\ answer[r].seq <= model.seq
                  /\ answer[r].seq <= bootLen + Len(published)

\* A receipt, once written, is the command's outcome for good.
ReceiptIsFinal ==
    [][\A c \in Commands : receipts[c] # NoReceipt => receipts'[c] = receipts[c]]_vars

\* The engine keeps the promise of CommandLog.
CL == INSTANCE CommandLog WITH outcome <- receipts
ImplementsCommandLog == CL!Spec

\* Every call of dispatch is answered, whatever fails while it is handled.
EveryDispatchAnswered ==
    \A r \in Requests : (request[r] # NoCommand) ~> (answer[r] # Unanswered)
=============================================================================

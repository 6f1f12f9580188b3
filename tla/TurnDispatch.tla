---------------------------- MODULE TurnDispatch ----------------------------
(***************************************************************************)
(* How a thread's requested turns reach the agent.  A turn start is a       *)
(* durable event with a pending row in projection_turns.  The provider      *)
(* command reactor takes it from the hot stream, latches the thread while   *)
(* the send crosses to the provider, and defers other starts until a        *)
(* session-set shows that the turn ended.  Runtime ingestion writes the     *)
(* session from the provider's events; the reactor writes it too.  Each     *)
(* session-set is folded into the rows and comes back to the reactor.       *)
(* After a restart the reactor re-drives the pending rows in a fiber of its *)
(* own, beside its worker.                                                  *)
(*                                                                          *)
(* One thread, user turns (a goal's continuation is in ThreadGoals).  A     *)
(* dispatch is one step (EventEngine).                                      *)
(***************************************************************************)
EXTENDS Integers, Sequences

CONSTANTS MaxMessages,  \* turns the user requests
          MaxTurns,     \* turns the provider accepts
          MaxFaults     \* failed sends, dead agents, expired latches, stops, restarts

ASSUME TurnConstants ==
    MaxMessages \in Nat /\ MaxTurns \in Nat /\ MaxFaults \in Nat

Messages == 1..MaxMessages
Turns == 1..MaxTurns
None == 0
Fibers == {"worker", "boot"}

Sessions == [status : {"none", "ready", "running", "error", "stopped"},
             active : Turns \cup {None}]
TurnRows == [state : {"none", "running", "completed", "error", "interrupted"},
             msg : Messages \cup {None}]

\* What the hot stream brings the reactor, and the provider the ingestion.
\* late: the session was updated after the event was created.
DomainEvents == [kind : {"start", "set", "stop"}, msg : Messages \cup {None},
                 status : {"none", "ready", "running", "error", "stopped"}]
RuntimeEvents == [kind : {"started", "completed", "failed", "exited"},
                  turn : Turns \cup {None}, late : BOOLEAN]

\* Who sends what, how far a fiber is with a send, and the reconcile.
Latches == [fiber : Fibers \cup {"none"}, msg : Messages \cup {None}]
Jobs == [pc : {"idle", "ensure", "send", "reread", "set", "fail"},
         msg : Messages \cup {None}, turn : Turns \cup {None}, moved : BOOLEAN]
Boots == [phase : {"rows", "driving", "done"}, todo : Seq(Messages), busy : BOOLEAN]

VARIABLES
    session,    \* thread.session of the read model and of SQL
    rows,       \* pending rows of projection_turns, by row_id
    turns,      \* rows of projection_turns with a turn id
    requested,  \* how many messages were sent with a turn start
    inbox,      \* the reactor's worker queue
    latch,      \* inFlightTurnDispatches: who sends what
    deferred,   \* deferredTurnStarts
    observed,   \* threadsWithObservedRunningTurn
    job,        \* where each fiber of the reactor is in a send
    boot,       \* the reconcile after a start: its phase and its rows
    provider,   \* the agent's session and the turn it runs
    runtime,    \* the ingestion's queue
    ingest,     \* the session the ingestion is about to set
    accepted,   \* auxiliary: the messages the provider took, by turn
    life,       \* auxiliary: turns accepted before the last restart
    failed, dropped,    \* auxiliary: starts that failed, that a stop dropped
    disturbed,  \* auxiliary: a send was out of its turn, or a message's second send failed
    early,      \* auxiliary: messages requested before the reconcile listed the rows
    faults

reactor == <<inbox, latch, deferred, observed, job, boot>>
tables == <<session, rows, turns>>
outside == <<provider, runtime, ingest, accepted>>
history == <<life, failed, dropped, disturbed, early>>
vars == <<tables, requested, reactor, outside, history, faults>>

NoLatch == [fiber |-> "none", msg |-> None]
Idle == [pc |-> "idle", msg |-> None, turn |-> None, moved |-> FALSE]
NoBoot == [phase |-> "done", todo |-> <<>>, busy |-> FALSE]
NoSet == [status |-> "none", active |-> None]

Members(seq) == {seq[i] : i \in DOMAIN seq}

\* Message m leaves a sequence that holds it once.
Without(seq, m) ==
    IF m \notin Members(seq) THEN seq
    ELSE LET i == CHOOSE i \in DOMAIN seq : seq[i] = m
         IN  [j \in 1..Len(seq) - 1 |-> IF j < i THEN seq[j] ELSE seq[j + 1]]

Init ==
    /\ session = NoSet /\ rows = <<>>
    /\ turns = [t \in Turns |-> [state |-> "none", msg |-> None]]
    /\ requested = 0
    /\ inbox = <<>> /\ latch = NoLatch /\ deferred = <<>> /\ observed = FALSE
    /\ job = [f \in Fibers |-> Idle]
    /\ boot = NoBoot
    /\ provider = [alive |-> FALSE, turn |-> None] /\ runtime = <<>> /\ ingest = NoSet
    /\ accepted = <<>> /\ life = 0 /\ failed = {} /\ dropped = {}
    /\ disturbed = FALSE /\ early = {} /\ faults = 0
-----------------------------------------------------------------------------
(* A thread.session-set and what folds it.                                 *)

\* Slip: the session's status is taken for the turn's state.
EndedAs(status) == status

\* The state of the latest running turn when the session stops running.
Ended(status) == CASE status = "error" -> "error"
                   [] status = "stopped" -> "interrupted"
                   [] OTHER -> "completed"

\* Slip: a turn that has its message takes another row.
ConsumesAgain(s) == s.status = "running" /\ s.active # None /\ rows # <<>>

\* The first pending row belongs to the turn that begins to run, unless the
\* turn has a message already.
Consumes(s) ==
    /\ s.status = "running" /\ s.active # None /\ rows # <<>>
    /\ turns[s.active].msg \in {None, Head(rows)}

RunningTurns == {t \in Turns : turns[t].state = "running"}
LatestRunning(t) == t \in RunningTurns /\ \A u \in RunningTurns : u <= t

ProjectTurns(s) ==
    [t \in Turns |->
        IF s.status # "running"
        THEN IF LatestRunning(t) THEN [turns[t] EXCEPT !.state = Ended(s.status)] ELSE turns[t]
        ELSE IF t # s.active THEN turns[t]
        ELSE [state |-> IF turns[t].state \in {"completed", "error"}
                        THEN turns[t].state ELSE "running",
              msg |-> IF Consumes(s) THEN Head(rows) ELSE turns[t].msg]]

\* Slip: the row stays.
ProjectRowsKeeps(s) == rows

ProjectRows(s) == IF Consumes(s) THEN Tail(rows) ELSE rows

\* The session is set, the rows follow, the worker hears of it.
SetSession(s) ==
    /\ session' = s
    /\ turns' = ProjectTurns(s) /\ rows' = ProjectRows(s)
    /\ inbox' = Append(inbox, [kind |-> "set", msg |-> None, status |-> s.status])

\* A send under way notices that the session was updated meanwhile.
Moved(j) == [f \in Fibers |-> IF j[f].pc \in {"send", "reread"}
                              THEN [j[f] EXCEPT !.moved = TRUE] ELSE j[f]]

\* The reactor stamps the session with the present, the ingestion with the time
\* of its event: events in the queue become older or newer than the session.
Stamp(queue, late) ==
    [i \in DOMAIN queue |-> [queue[i] EXCEPT !.late = late /\ queue[i].kind = "exited"]]

RuntimeEvent(kind, t) == [kind |-> kind, turn |-> t, late |-> FALSE]
-----------------------------------------------------------------------------
(* The user.                                                               *)

\* thread.turn.start: message and start are one command; nothing looks whether
\* a turn is running.
RequestTurn ==
    /\ requested < MaxMessages
    /\ requested' = requested + 1
    /\ rows' = Append(rows, requested')
    /\ inbox' = Append(inbox, [kind |-> "start", msg |-> requested', status |-> "none"])
    /\ early' = IF boot.phase = "rows" THEN early \cup {requested'} ELSE early
    /\ UNCHANGED <<session, turns, latch, deferred, observed, job, boot, outside,
                   life, failed, dropped, disturbed, faults>>

RequestStop ==
    /\ session.status # "none" /\ faults < MaxFaults
    /\ faults' = faults + 1
    /\ inbox' = Append(inbox, [kind |-> "stop", msg |-> None, status |-> "none"])
    /\ UNCHANGED <<tables, requested, latch, deferred, observed, job, boot, outside,
                   history>>
-----------------------------------------------------------------------------
(* The reactor: starting a turn.                                           *)

Enqueue(queue, m) == IF m \in Members(queue) THEN queue ELSE Append(queue, m)

\* processTurnStartRequested up to its first await, with latch l and deferred
\* starts queue: it is deferred, or it takes the latch.
Start(f, m, l, queue) ==
    IF l # NoLatch
    THEN /\ latch' = l /\ deferred' = Enqueue(queue, m)
         /\ job' = [job EXCEPT ![f] = Idle]
    ELSE /\ latch' = [fiber |-> f, msg |-> m] /\ deferred' = queue
         /\ job' = [job EXCEPT ![f] = [Idle EXCEPT !.pc = "ensure", !.msg = m]]

\* Slip: the deferred start stays in the queue.
StartNextKeeps(f, l, queue) ==
    IF queue # <<>> THEN Start(f, Head(queue), l, queue)
    ELSE /\ latch' = l /\ deferred' = queue /\ job' = [job EXCEPT ![f] = Idle]

\* takeDeferredTurnStart, and the start it found.
StartNext(f, l, queue) ==
    IF queue # <<>> THEN Start(f, Head(queue), l, Tail(queue))
    ELSE /\ latch' = l /\ deferred' = queue /\ job' = [job EXCEPT ![f] = Idle]

TakeEvent(kind) ==
    /\ job["worker"].pc = "idle" /\ inbox # <<>> /\ Head(inbox).kind = kind

TakeStart ==
    /\ TakeEvent("start")
    /\ inbox' = Tail(inbox)
    /\ Start("worker", Head(inbox).msg, latch, deferred)
    /\ UNCHANGED <<tables, requested, observed, boot, outside, history, faults>>

\* ensureSessionForThread: a session that is there and alive is used; otherwise
\* one is started and bound.
UseSession(f) ==
    /\ job[f].pc = "ensure"
    /\ session.status \notin {"none", "stopped"} /\ provider.alive
    /\ job' = [job EXCEPT ![f].pc = "send"]
    /\ UNCHANGED <<tables, requested, inbox, latch, deferred, observed, boot, outside,
                   history, faults>>

BindSession(f) ==
    /\ job[f].pc = "ensure"
    /\ session.status \in {"none", "stopped"} \/ ~provider.alive
    /\ provider' = [alive |-> TRUE, turn |-> None]
    /\ SetSession([status |-> "ready", active |-> None])
    /\ job' = [Moved(job) EXCEPT ![f].pc = "send"]
    /\ runtime' = Stamp(runtime, TRUE)
    /\ UNCHANGED <<requested, latch, deferred, observed, boot, ingest, accepted,
                   history, faults>>

\* The turns this life of the server had accepted.
Sent == life + 1..Len(accepted)

\* Every older message has its turn or failed, this one has neither, and no turn of
\* this life waits for its row.
InTurn(m) ==
    /\ \A x \in 1..m - 1 : x \in failed \/ \E t \in Turns : turns[t].msg = x
    /\ m \notin failed
    /\ \A t \in Sent : turns[t].msg # None /\ accepted[t] # m

\* The provider takes the turn.  A turn it still runs is closed first.
Accept(f) ==
    /\ job[f].pc = "send" /\ Len(accepted) < MaxTurns
    /\ LET t == Len(accepted) + 1
           closing == IF provider.turn = None THEN <<>>
                      ELSE <<RuntimeEvent("completed", provider.turn)>> IN
        /\ accepted' = Append(accepted, job[f].msg)
        /\ provider' = [alive |-> TRUE, turn |-> t]
        /\ runtime' = runtime \o closing \o <<RuntimeEvent("started", t)>>
        /\ job' = [job EXCEPT ![f].pc = "reread", ![f].turn = t]
    /\ disturbed' = (disturbed \/ ~InTurn(job[f].msg))
    /\ UNCHANGED <<tables, requested, inbox, latch, deferred, observed, boot, ingest,
                   life, failed, dropped, early, faults>>

\* The session cannot be started, or the provider rejects the turn.
SendFails(f) ==
    /\ job[f].pc \in {"ensure", "send"} /\ faults < MaxFaults
    /\ faults' = faults + 1
    /\ job' = [job EXCEPT ![f].pc = "fail"]
    /\ UNCHANGED <<tables, requested, inbox, latch, deferred, observed, boot, outside,
                   history>>

\* The pending row goes; the latch if it is this send's; a deferred start runs.
Fail(f) ==
    /\ job[f].pc = "fail"
    /\ rows' = Without(rows, job[f].msg)
    /\ failed' = failed \cup {job[f].msg}
    /\ StartNext(f, IF latch = [fiber |-> f, msg |-> job[f].msg] THEN NoLatch ELSE latch,
                 deferred)
    /\ disturbed' = (disturbed \/ \E t \in Sent : accepted[t] = job[f].msg)
    /\ UNCHANGED <<session, turns, requested, inbox, observed, boot, outside, life,
                   dropped, early, faults>>

\* The session's turn was closed, or another one runs, since the send began.
Superseded(f) ==
    \/ turns[job[f].turn].state \notin {"none", "running"}
    \/ job[f].moved /\ session.status # "running" /\ session.active = None
    \/ session.status = "running" /\ session.active \notin {None, job[f].turn}

Reread(f) ==
    /\ job[f].pc = "reread"
    /\ job' = [job EXCEPT ![f] = IF Superseded(f) THEN Idle
                                 ELSE [@ EXCEPT !.pc = "set", !.moved = FALSE]]
    /\ UNCHANGED <<tables, requested, inbox, latch, deferred, observed, boot, outside,
                   history, faults>>

SetRunning(f) ==
    /\ job[f].pc = "set"
    /\ SetSession([status |-> "running", active |-> job[f].turn])
    /\ job' = [Moved(job) EXCEPT ![f] = Idle]
    /\ runtime' = Stamp(runtime, TRUE)
    /\ UNCHANGED <<requested, latch, deferred, observed, boot, provider, ingest, accepted,
                   history, faults>>
-----------------------------------------------------------------------------
(* The reactor: session-sets, stops, the latch's timeout.                  *)

\* Slip: a session that is ready releases no deferred start.
ReleasesOnFailure(status) == status \in {"error", "stopped"}

Releases(status) == status \in {"error", "stopped"} \/ (status = "ready" /\ observed)

\* processSessionSet: a running turn opens the latch, an ended one lets the next
\* deferred start go.
TakeSet ==
    /\ TakeEvent("set")
    /\ inbox' = Tail(inbox)
    /\ LET status == Head(inbox).status IN
        \/ /\ status = "running"
           /\ latch' = NoLatch /\ observed' = TRUE
           /\ UNCHANGED <<deferred, job>>
        \/ /\ Releases(status)
           /\ observed' = FALSE
           /\ StartNext("worker", NoLatch, deferred)
        \/ /\ status # "running" /\ ~Releases(status)
           /\ UNCHANGED <<latch, deferred, observed, job>>
    /\ UNCHANGED <<tables, requested, boot, outside, history, faults>>

\* processSessionStopRequested: deferred starts are forgotten, their rows stay.
TakeStop ==
    /\ TakeEvent("stop")
    /\ LET stopped == [status |-> "stopped", active |-> None]
           exits == session.status # "stopped" /\ provider.alive IN
        /\ session' = stopped
        /\ turns' = ProjectTurns(stopped) /\ rows' = ProjectRows(stopped)
        /\ inbox' = Append(Tail(inbox), [kind |-> "set", msg |-> None, status |-> "stopped"])
        /\ provider' = IF exits THEN [alive |-> FALSE, turn |-> None] ELSE provider
        /\ runtime' = Stamp(IF exits THEN Append(runtime, RuntimeEvent("exited", None))
                                     ELSE runtime, TRUE)
    /\ latch' = NoLatch /\ deferred' = <<>> /\ observed' = FALSE
    /\ job' = Moved(job)
    /\ dropped' = dropped \cup Members(deferred)
    /\ UNCHANGED <<requested, boot, ingest, accepted, life, failed, disturbed, early, faults>>

\* inFlightTurnDispatch: after a minute the latch is not honoured any more.
LatchExpires ==
    /\ latch # NoLatch /\ faults < MaxFaults
    /\ faults' = faults + 1
    /\ latch' = NoLatch
    /\ UNCHANGED <<tables, requested, inbox, deferred, observed, job, boot, outside,
                   history>>
-----------------------------------------------------------------------------
(* The reactor: reconcile.                                                 *)

BeginReconcile ==
    /\ boot.phase = "rows"
    /\ boot' = [phase |-> "driving", todo |-> rows,
                busy |-> session.status = "running" \/ session.active # None]
    /\ UNCHANGED <<tables, requested, inbox, latch, deferred, observed, job, outside,
                   history, faults>>

\* The rows that were pending are started one after the other, or deferred behind a
\* turn that runs already.
Redrive ==
    /\ boot.phase = "driving" /\ boot.todo # <<>> /\ job["boot"].pc = "idle"
    /\ boot' = [boot EXCEPT !.todo = Tail(@)]
    /\ IF boot.busy
       THEN /\ deferred' = Enqueue(deferred, Head(boot.todo))
            /\ UNCHANGED <<latch, job>>
       ELSE Start("boot", Head(boot.todo), latch, deferred)
    /\ UNCHANGED <<tables, requested, inbox, observed, outside, history, faults>>

EndReconcile ==
    /\ boot.phase = "driving" /\ boot.todo = <<>> /\ job["boot"].pc = "idle"
    /\ boot' = NoBoot
    /\ UNCHANGED <<tables, requested, inbox, latch, deferred, observed, job, outside,
                   history, faults>>
-----------------------------------------------------------------------------
(* The provider and the ingestion.                                         *)

EndTurn ==
    /\ provider.turn # None
    /\ provider' = [provider EXCEPT !.turn = None]
    /\ \/ /\ runtime' = Append(runtime, RuntimeEvent("completed", provider.turn))
          /\ UNCHANGED faults
       \/ /\ faults < MaxFaults /\ faults' = faults + 1
          /\ runtime' = Append(runtime, RuntimeEvent("failed", provider.turn))
    /\ UNCHANGED <<tables, requested, reactor, ingest, accepted, history>>

AgentDies ==
    /\ provider.alive /\ faults < MaxFaults
    /\ faults' = faults + 1
    /\ provider' = [alive |-> FALSE, turn |-> None]
    /\ runtime' = Append(runtime, RuntimeEvent("exited", None))
    /\ UNCHANGED <<tables, requested, reactor, ingest, accepted, history>>

\* The guards of processRuntimeEvent: another turn is active, the provider is in
\* another turn, the start of a turn that is over, the exit of an old session.
Applies(e) ==
    CASE e.kind = "started" ->
            /\ session.active \in {None, e.turn}
            /\ session.active = None =>
                 /\ provider.turn \in {None, e.turn}
                 /\ turns[e.turn].state \in {"none", "running"}
      [] e.kind = "exited" -> ~(session.status \notin {"none", "stopped"} /\ e.late)
      [] OTHER -> session.active \in {None, e.turn}

NextSession(e) ==
    CASE e.kind = "started" -> [status |-> "running", active |-> e.turn]
      [] e.kind = "exited" -> [status |-> "stopped", active |-> None]
      [] e.kind = "failed" -> [status |-> "error", active |-> None]
      [] e.kind = "completed" -> [status |-> "ready", active |-> None]

\* The thread is read, then the session is dispatched.
Ingest ==
    /\ ingest = NoSet /\ runtime # <<>>
    /\ runtime' = Tail(runtime)
    /\ ingest' = IF Applies(Head(runtime)) THEN NextSession(Head(runtime)) ELSE NoSet
    /\ UNCHANGED <<tables, requested, reactor, provider, accepted, history, faults>>

IngestSets ==
    /\ ingest # NoSet
    /\ SetSession(ingest)
    /\ ingest' = NoSet
    /\ job' = Moved(job)
    /\ runtime' = Stamp(runtime, FALSE)
    /\ UNCHANGED <<requested, latch, deferred, observed, boot, provider, accepted,
                   history, faults>>
-----------------------------------------------------------------------------
\* Crash and boot: the reactor's memory, the agent and the queues are gone, the
\* ingestion has set the session of every thread to stopped before anyone listens.
Restart ==
    /\ faults < MaxFaults
    /\ faults' = faults + 1
    /\ LET stopped == [status |-> "stopped", active |-> None] IN
        IF session.status = "none" THEN UNCHANGED tables
        ELSE /\ session' = stopped
             /\ turns' = ProjectTurns(stopped) /\ rows' = ProjectRows(stopped)
    /\ inbox' = <<>> /\ latch' = NoLatch /\ deferred' = <<>> /\ observed' = FALSE
    /\ job' = [f \in Fibers |-> Idle]
    /\ boot' = [NoBoot EXCEPT !.phase = "rows"]
    /\ provider' = [alive |-> FALSE, turn |-> None]
    /\ runtime' = <<>> /\ ingest' = NoSet
    /\ life' = Len(accepted)
    /\ UNCHANGED <<requested, accepted, failed, dropped, disturbed, early>>

Send(f) ==
    \/ UseSession(f) \/ BindSession(f) \/ Accept(f) \/ SendFails(f)
    \/ Fail(f) \/ Reread(f) \/ SetRunning(f)

Next ==
    \/ RequestTurn \/ RequestStop
    \/ TakeStart \/ TakeSet \/ TakeStop \/ LatchExpires
    \/ \E f \in Fibers : Send(f)
    \/ BeginReconcile \/ Redrive \/ EndReconcile
    \/ EndTurn \/ AgentDies \/ Ingest \/ IngestSets
    \/ Restart

Spec == Init /\ [][Next]_vars

\* Fibers run when they have work; a provider ends the turn it runs.
Fairness ==
    /\ WF_vars(TakeStart \/ TakeSet \/ TakeStop)
    /\ \A f \in Fibers : WF_vars(Send(f))
    /\ WF_vars(BeginReconcile \/ Redrive \/ EndReconcile)
    /\ WF_vars(EndTurn)
    /\ WF_vars(Ingest \/ IngestSets)

FairSpec == Spec /\ Fairness
-----------------------------------------------------------------------------
\* Every variable has its type.
TypeOK ==
    /\ session \in Sessions /\ rows \in Seq(Messages) /\ turns \in [Turns -> TurnRows]
    /\ requested \in 0..MaxMessages
    /\ inbox \in Seq(DomainEvents)
    /\ latch \in Latches /\ deferred \in Seq(Messages) /\ observed \in BOOLEAN
    /\ job \in [Fibers -> Jobs] /\ boot \in Boots
    /\ provider \in [alive : BOOLEAN, turn : Turns \cup {None}]
    /\ runtime \in Seq(RuntimeEvents) /\ ingest \in Sessions
    /\ accepted \in Seq(Messages) /\ life \in Nat
    /\ failed \subseteq Messages /\ dropped \subseteq Messages /\ disturbed \in BOOLEAN
    /\ faults \in 0..MaxFaults

Taken(m) == \E t \in DOMAIN accepted : accepted[t] = m
Settled(m) == Taken(m) \/ m \in failed \/ m \in dropped

\* One life of the server sends a message to the provider at most once, through
\* whichever of queue, deferred starts and pending rows it comes; but a message that
\* was requested before the reconcile listed the rows comes through both.
SentOnce ==
    \A t, u \in Sent : accepted[t] = accepted[u] /\ accepted[t] \notin early => t = u

\* A requested turn that was neither sent nor refused has its row, also after a stop
\* dropped it, so that a restart finds it, unless sends and rows stopped pairing up.
UnsentIsDurable ==
    ~disturbed => \A m \in 1..requested : Taken(m) \/ m \in failed \/ m \in Members(rows)

\* A turn is bound to the message that started it, although rows are consumed
\* in their order and not by message, unless sends and rows stopped pairing up.
TurnOwnsItsMessage ==
    ~disturbed => \A t \in Turns : turns[t].msg # None => turns[t].msg = accepted[t]

\* The session waits for the end of a turn that the provider is not in, and no
\* event is on its way.
Stuck ==
    /\ session.status = "running" /\ provider.turn # session.active
    /\ runtime = <<>> /\ ingest = NoSet
    /\ \A f \in Fibers : job[f].pc = "idle"

\* Every requested turn is sent, refused or dropped by a stop, but for the two
\* ways it gets lost: the session is stuck, or another turn took its row.
EveryStartSettles ==
    \A m \in Messages :
        (m <= requested) ~> (Settled(m) \/ Stuck \/ (disturbed /\ m \notin Members(rows)))

\* The reactor's comment: a deferred start runs after the turn in flight reaches
\* a terminal session state.  Without faults every start should settle.
DeferredStartsRun == \A m \in Messages : (m <= requested) ~> Settled(m)
=============================================================================

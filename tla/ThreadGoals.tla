---------------------------- MODULE ThreadGoals ----------------------------
(***************************************************************************)
(* A thread's goal.  While it is active and the thread is idle, the harness *)
(* starts one turn after the other, continuations without a user message,   *)
(* until the goal is complete, paused, blocked or out of budget.  A goal    *)
(* has a lifecycle, a number here, which an edit or a resume replaces; all  *)
(* that refers to a goal names the lifecycle it means, and the decider      *)
(* refuses what names another one.                                          *)
(*                                                                          *)
(* The provider command reactor reacts to goals and continuations and sends *)
(* turns, runtime ingestion binds turns to lifecycles, charges tokens and   *)
(* asks for the next continuation, the agent reports an outcome through a   *)
(* tool, the user edits the goal at any time.                               *)
(*                                                                          *)
(* One thread in default mode, an agent that cannot be steered (not Codex), *)
(* and no turns of the user's own: TurnDispatch has those, and dead agents, *)
(* stops and restarts.                                                      *)
(***************************************************************************)
EXTENDS Integers, Sequences

CONSTANTS Budget,      \* the goal's token budget; a turn reports one token or none
          Outcomes,    \* what the agent's tool may report
          MaxLives,    \* lifecycles
          MaxTurns,    \* turns the provider accepts
          MaxChanges,  \* changes of the user's to a goal, reports of its agent's
          MaxFaults    \* failed sends, failed turns, notices of the agent's session

ASSUME GoalConstants ==
    /\ Budget \in Nat \ {0} /\ Outcomes \subseteq {"complete", "blocked"}
    /\ {MaxLives, MaxTurns, MaxChanges, MaxFaults} \subseteq Nat

Lives == 1..MaxLives
Turns == 1..MaxTurns
None == 0
GoalStates == {"none", "active", "paused", "blocked", "limited", "complete"}
SessionStates == {"none", "ready", "running", "error", "stopped"}

VARIABLES
    goal,       \* status, lifecycle, tokens used, at: its updates so far
    lives,      \* lifecycles so far
    msgs,       \* the continuations that were requested, by the lifecycle they are for
    session,    \* thread.session
    rows,       \* pending rows of projection_turns
    turns,      \* rows of projection_turns with a turn id
    inbox,      \* the reactor's worker queue
    latch, observed,    \* as in TurnDispatch
    job,        \* where the reactor's worker is in a send
    provider,   \* the turn the agent runs
    queue,      \* the ingestion's queue
    pending,    \* pendingGoalBindingsByThreadId: starts without a turn
    known,      \* turns with an entry in goalLifecycleByTurnKey
    ingest,     \* what the ingestion is about to dispatch
    accepted,   \* auxiliary: start and lifecycle of each turn sent
    charged,    \* auxiliary: turn and lifecycle of each token recorded
    missed,     \* auxiliary: lifecycle set while the ingestion handled the end of a turn
    revived,    \* auxiliary: turn that was over when its session was set to running
    obscured,   \* auxiliary: the ingestion set the session to idle while a turn was sent or ran
    changes, faults

tables == <<goal, lives, msgs, session, rows, turns>>
reactor == <<inbox, latch, observed, job>>
ingestion == <<pending, known, ingest>>
history == <<accepted, charged, missed, revived, obscured>>
bounds == <<changes, faults>>
vars == <<tables, reactor, ingestion, provider, queue, history, bounds>>

NoGoal == [status |-> "none", life |-> None, used |-> 0, at |-> 0]
NoSet == [status |-> "none", active |-> None, life |-> None]
NoTurn == [state |-> "none", life |-> None, msg |-> None, since |-> 0]
Idle == [pc |-> "idle", msg |-> None, life |-> None, turn |-> None, moved |-> FALSE]
NoIngest == [pc |-> "idle", set |-> NoSet, act |-> "none", life |-> None]

Members(seq) == {seq[i] : i \in DOMAIN seq}
Rest(seq) == IF seq = <<>> THEN <<>> ELSE Tail(seq)

\* Message m leaves a sequence that holds it at most once.
Without(seq, m) ==
    IF m \notin Members(seq) THEN seq
    ELSE LET i == CHOOSE i \in DOMAIN seq : seq[i] = m
         IN  [j \in 1..Len(seq) - 1 |-> IF j < i THEN seq[j] ELSE seq[j + 1]]

Init ==
    /\ goal = NoGoal /\ lives = 0 /\ msgs = <<>>
    /\ session = NoSet /\ rows = <<>> /\ turns = [t \in Turns |-> NoTurn]
    /\ inbox = <<>> /\ latch = None /\ observed = FALSE
    /\ job = Idle
    /\ provider = None /\ queue = <<>>
    /\ pending = <<>> /\ known = {} /\ ingest = NoIngest
    /\ accepted = <<>> /\ charged = {}
    /\ missed = None /\ revived = None /\ obscured = FALSE
    /\ changes = 0 /\ faults = 0
-----------------------------------------------------------------------------
(* Events of the two queues.                                               *)

NoEvent == [kind |-> "none", msg |-> None, goal |-> NoGoal, user |-> FALSE,
            status |-> "none"]

\* A goal-updated event; one to which processGoalUpdated never reacts is left out.
GoalEvents(g, user) ==
    IF user \/ g.status \in {"limited", "paused"}
    THEN <<[NoEvent EXCEPT !.kind = "goal", !.goal = g, !.user = user]>> ELSE <<>>
ClearEvent(g) == [NoEvent EXCEPT !.kind = "clear", !.goal = g]
StartEvent(m) == [NoEvent EXCEPT !.kind = "continue", !.msg = m]
TurnEnds == {"completed", "failed", "interrupted"}
SetEvent(status) == [NoEvent EXCEPT !.kind = "set", !.status = status]
Heard(kind, t, m) == [kind |-> kind, turn |-> t, msg |-> m]

\* A thread.session-set reaches the reactor; the ingestion learns from it that the
\* running turn is bound.
Learns(s) == IF s.status = "running" /\ s.active # None
             THEN <<Heard("set", s.active, None)>> ELSE <<>>
-----------------------------------------------------------------------------
(* Folds of session-sets (TurnDispatch), with the turn's lifecycle.  A turn *)
(* that takes a pending row began when that was requested, before its       *)
(* lifecycle was stopped; another begins now.                               *)

\* Slip: the turn takes the status of the session.
EndedAs(status) == IF status = "stopped" THEN "interrupted" ELSE status

Ended(status) == CASE status = "error" -> "error"
                   [] status = "stopped" -> "interrupted"
                   [] OTHER -> "completed"

Consumes(s) ==
    /\ s.status = "running" /\ s.active # None /\ rows # <<>>
    /\ turns[s.active].msg \in {None, Head(rows)}

Running == {t \in Turns : turns[t].state = "running"}

Folded(s) ==
    [t \in Turns |->
        IF s.status # "running"
        THEN IF t \in Running /\ \A u \in Running : u <= t
             THEN [turns[t] EXCEPT !.state = Ended(s.status)] ELSE turns[t]
        ELSE IF t # s.active THEN turns[t]
        ELSE [state |-> IF turns[t].state \in {"completed", "error"}
                        THEN turns[t].state ELSE "running",
              life |-> s.life,
              msg |-> IF Consumes(s) THEN Head(rows) ELSE turns[t].msg,
              since |-> IF turns[t].state # "none" THEN turns[t].since
                        ELSE IF Consumes(s) THEN 0 ELSE goal.at]]

\* Session, rows and turns follow, and a send under way notices.
Sets(s) ==
    /\ session' = s /\ turns' = Folded(s)
    /\ rows' = IF Consumes(s) THEN Tail(rows) ELSE rows

Moved(j) == IF j.pc \in {"send", "reread"} THEN [j EXCEPT !.moved = TRUE] ELSE j
-----------------------------------------------------------------------------
(* The decider on goals.                                                   *)

\* thread.goal.status.report: lifecycle and status are compared.
Reportable(l, status) ==
    /\ goal.status # "none" /\ goal.life = l
    /\ goal.status \in {"active", status} \/ (goal.status = "limited" /\ status = "complete")

Reported(l, status) ==
    IF Reportable(l, status) THEN [goal EXCEPT !.status = status, !.at = @ + 1] ELSE goal

ReportEvents(l, status) ==
    IF Reportable(l, status) THEN GoalEvents(Reported(l, status), FALSE) ELSE <<>>

\* thread.goal.usage.record: the budget stops an active goal.
Used(g) == [g EXCEPT !.used = @ + 1,
                     !.status = IF g.status = "active" /\ g.used + 1 >= Budget
                                THEN "limited" ELSE @]

\* thread.goal.continue: the lifecycle is the current one, active, the thread idle.
MayContinue(g, s, l) ==
    g.life = l /\ g.status = "active" /\ s.status # "running" /\ s.active = None

\* thread.goal.continue, dispatched when the queues are in and q.
Continue(l, in, q) ==
    IF MayContinue(goal, session, l)
    THEN /\ msgs' = Append(msgs, l)
         /\ rows' = Append(rows, Len(msgs'))
         /\ inbox' = Append(in, StartEvent(Len(msgs')))
         /\ queue' = Append(q, Heard("requested", None, Len(msgs')))
    ELSE inbox' = in /\ queue' = q /\ UNCHANGED <<msgs, rows>>
-----------------------------------------------------------------------------
(* The user.                                                               *)

ChangesGoal == changes < MaxChanges /\ changes' = changes + 1

\* thread.goal.set on a goal: its status and whether the objective is another one.
SetGoal(status, edited) ==
    /\ goal.status # "none" /\ (status = "paused" => edited \/ goal.status = "active")
    /\ ChangesGoal
    /\ LET actual == IF status = "active" /\ goal.used >= Budget THEN "limited" ELSE status
           rotates == edited \/ (actual = "active" /\ goal.status # "active") IN
        /\ rotates => lives < MaxLives
        /\ lives' = IF rotates THEN lives + 1 ELSE lives
        /\ goal' = [goal EXCEPT !.status = actual, !.at = @ + 1,
                                !.life = IF rotates THEN lives' ELSE @]
    /\ inbox' = inbox \o GoalEvents(goal', TRUE)
    /\ UNCHANGED <<msgs, session, rows, turns, latch, observed, job, ingestion, provider, queue, history, faults>>

Edit == SetGoal(goal.status, TRUE)
Resume == goal.status # "active" /\ SetGoal("active", FALSE)
Pause == SetGoal("paused", FALSE)
Complete == goal.status # "complete" /\ SetGoal("complete", FALSE)

NewGoal == [status |-> "active", life |-> lives + 1, used |-> 0, at |-> goal.at + 1]

\* thread.goal.set without a goal.
CreateGoal ==
    /\ goal.status = "none" /\ lives < MaxLives
    /\ lives' = lives + 1
    /\ goal' = NewGoal
    /\ inbox' = inbox \o GoalEvents(goal', TRUE)
    /\ UNCHANGED <<msgs, session, rows, turns, latch, observed, job, ingestion, provider, queue, history, bounds>>

ClearGoal ==
    /\ goal.status # "none"
    /\ ChangesGoal
    /\ goal' = [NoGoal EXCEPT !.at = goal.at]
    /\ inbox' = Append(inbox, ClearEvent(goal))
    /\ UNCHANGED <<lives, msgs, session, rows, turns, latch, observed,
                   job, ingestion, provider, queue, history, faults>>

-----------------------------------------------------------------------------
(* The agent.                                                              *)

\* The turn under way, or the one about to start, was bound to the current goal.
Owns(s) ==
    /\ goal.status # "none" /\ s.life = goal.life
    /\ \/ s.status = "running"
       \/ s.status = "ready" /\ s.active = None

\* The agent's tool, from inside a turn.
AgentReports(status) ==
    /\ provider # None /\ Owns(session)
    /\ Reportable(goal.life, status) /\ goal.status # status
    /\ ChangesGoal
    /\ goal' = Reported(goal.life, status)
    /\ inbox' = inbox \o GoalEvents(goal', FALSE)
    /\ UNCHANGED <<lives, msgs, session, rows, turns, latch, observed,
                   job, ingestion, provider, queue, history, faults>>

EndTurn ==
    /\ provider # None
    /\ provider' = None
    /\ \/ /\ queue' = Append(queue, Heard("completed", provider, None))
          /\ UNCHANGED faults
       \/ /\ faults < MaxFaults /\ faults' = faults + 1
          /\ queue' = Append(queue, Heard("failed", provider, None))
    /\ UNCHANGED <<tables, reactor, ingestion, history, changes>>
-----------------------------------------------------------------------------
(* The reactor: sending.                                                   *)

\* processGoalContinuationRequested up to its send.  A row that is being sent stays.
Start(m) ==
    IF MayContinue(goal, session, msgs[m]) /\ latch = None
    THEN latch' = m /\ job' = [Idle EXCEPT !.pc = "ensure", !.msg = m] /\ UNCHANGED rows
    ELSE /\ rows' = IF latch = m THEN rows ELSE Without(rows, m)
         /\ UNCHANGED <<latch, job>>

TakeEvent(kind) ==
    /\ job.pc = "idle" /\ inbox # <<>> /\ Head(inbox).kind = kind

TakeContinuation ==
    /\ TakeEvent("continue")
    /\ inbox' = Tail(inbox)
    /\ Start(Head(inbox).msg)
    /\ UNCHANGED <<goal, lives, msgs, session, turns, observed, ingestion, provider, queue, history, bounds>>

\* The lifecycle a turn is sent for: that of its start, if it is still the active goal.
BoundTo(m) ==
    IF msgs[m] = goal.life /\ goal.status = "active"
    THEN goal.life ELSE None

\* The reactor sets the session.
ReactorSets(s) ==
    /\ Sets(s)
    /\ inbox' = Append(inbox, SetEvent(s.status)) /\ queue' = queue \o Learns(s)

\* ensureSessionForThread: a session that is there is used; else one is started and bound.
Ensure ==
    /\ job.pc = "ensure"
    /\ job' = [job EXCEPT !.pc = "prebind"]
    /\ IF session.status \in {"none", "stopped"}
       THEN ReactorSets([NoSet EXCEPT !.status = "ready"])
       ELSE UNCHANGED <<session, rows, turns, inbox, queue>>
    /\ UNCHANGED <<goal, lives, msgs, latch, observed, ingestion, provider, history, bounds>>

\* An idle session is bound to the goal before the turn is sent, so that the agent's
\* tool finds the goal from the first moment.
Prebind ==
    /\ job.pc = "prebind"
    /\ LET l == BoundTo(job.msg) IN
        /\ job' = [job EXCEPT !.pc = "send", !.life = l]
        /\ IF l # None /\ session.status # "running" /\ session.active = None
           THEN ReactorSets([session EXCEPT !.life = l])
           ELSE UNCHANGED <<session, rows, turns, inbox, queue>>
    /\ UNCHANGED <<goal, lives, msgs, latch, observed, ingestion, provider, history, bounds>>

\* The provider takes the turn.  A turn it still runs is closed first.
Accept ==
    /\ job.pc = "send" /\ Len(accepted) < MaxTurns
    /\ LET t == Len(accepted) + 1
           closing == IF provider = None THEN <<>>
                      ELSE <<Heard("completed", provider, None)>> IN
        /\ accepted' = Append(accepted, [msg |-> job.msg, life |-> job.life])
        /\ provider' = t
        /\ queue' = queue \o closing \o <<Heard("started", t, None)>>
        /\ job' = [job EXCEPT !.pc = "reread", !.turn = t]
    /\ UNCHANGED <<tables, inbox, latch, observed, ingestion,
                   charged, missed, revived, obscured, bounds>>

\* The session's turn was closed, or another one runs, since the send began.
Superseded ==
    \/ turns[job.turn].state \notin {"none", "running"}
    \/ job.moved /\ session.status # "running" /\ session.active = None
    \/ session.status = "running" /\ session.active \notin {None, job.turn}

Reread ==
    /\ job.pc = "reread"
    /\ job' = IF Superseded THEN Idle ELSE [job EXCEPT !.pc = "set"]
    /\ UNCHANGED <<tables, inbox, latch, observed, ingestion, provider, queue, history, bounds>>

\* The session is set to running, whatever became of the turn since the reread.
SetRunning ==
    /\ job.pc = "set"
    /\ job' = Idle
    /\ ReactorSets([status |-> "running", active |-> job.turn, life |-> job.life])
    /\ revived' = IF turns[job.turn].state \in {"none", "running"} THEN revived ELSE job.turn
    /\ UNCHANGED <<goal, lives, msgs, latch, observed, ingestion, provider,
                   accepted, charged, missed, obscured, bounds>>

\* The send fails: its binding and its row go, its goal is blocked.
Fail ==
    /\ job.pc = "send" /\ faults < MaxFaults
    /\ faults' = faults + 1
    /\ LET m == job.msg
           unbound == [session EXCEPT !.life = None]
           clears == /\ job.life # None /\ session.life = job.life
                     /\ session.status # "running" /\ session.active = None IN
        /\ session' = IF clears THEN unbound ELSE session
        /\ turns' = IF clears THEN Folded(unbound) ELSE turns
        /\ rows' = Without(rows, m)
        /\ goal' = Reported(msgs[m], "blocked")
        /\ inbox' = inbox \o (IF clears THEN <<SetEvent(session.status)>> ELSE <<>>)
                          \o ReportEvents(msgs[m], "blocked")
        /\ job' = [(IF clears THEN Moved(job) ELSE job) EXCEPT !.pc = "replace"]
    /\ UNCHANGED <<lives, msgs, latch, observed, ingestion, provider, queue, history,
                   changes>>

\* If the latch is still this send's, a goal that replaced its own is continued.
Replace ==
    /\ job.pc = "replace"
    /\ job' = Idle
    /\ IF latch = job.msg
       THEN /\ latch' = None
            /\ IF goal.life # msgs[job.msg] THEN Continue(goal.life, inbox, queue)
               ELSE UNCHANGED <<msgs, rows, inbox, queue>>
       ELSE UNCHANGED <<latch, msgs, rows, inbox, queue>>
    /\ UNCHANGED <<goal, lives, session, turns, observed, ingestion, provider,
                   history, bounds>>
-----------------------------------------------------------------------------
(* The reactor: goals and session-sets.                                    *)

\* providerService.interruptTurn: the agent ends the turn it runs, if it runs one.
Interrupt ==
    IF provider = None THEN UNCHANGED <<provider, queue>>
    ELSE /\ provider' = None
         /\ queue' = Append(queue, Heard("interrupted", provider, None))

\* The running turn was bound to lifecycle l.
OwnsRunning(l) == session.status = "running" /\ session.active # None /\ session.life = l

\* The goal is still the one of the event.  Times tell, and usage that was recorded
\* since changed them or not.
StillCurrent(g) ==
    IF goal.life # g.life \/ goal.status # g.status THEN {FALSE}
    ELSE IF goal.used = g.used THEN {TRUE} ELSE BOOLEAN


\* processGoalUpdated: a limited or paused goal, and one the user completed, stops
\* the turn that works on it; a goal the user made active is continued.
StopsTurn(e) ==
    /\ e.goal.status \in {"limited", "paused"} \/ (e.user /\ e.goal.status = "complete")
    /\ OwnsRunning(e.goal.life)

Wakes(e) ==
    /\ e.user /\ e.goal.status = "active"
    /\ session.status # "running" /\ session.active = None

TakeGoal ==
    /\ TakeEvent("goal")
    /\ LET e == Head(inbox) IN
        \E current \in StillCurrent(e.goal) :
            \/ current /\ StopsTurn(e)
               /\ Interrupt /\ inbox' = Tail(inbox) /\ UNCHANGED <<msgs, rows>>
            \/ current /\ Wakes(e)
               /\ Continue(e.goal.life, Tail(inbox), queue) /\ UNCHANGED provider
            \/ ~(current /\ (StopsTurn(e) \/ Wakes(e)))
               /\ inbox' = Tail(inbox) /\ UNCHANGED <<msgs, rows, queue, provider>>
    /\ UNCHANGED <<goal, lives, session, turns, latch, observed, job, ingestion, history, bounds>>

\* processGoalCleared.
TakeClear ==
    /\ TakeEvent("clear")
    /\ inbox' = Tail(inbox)
    /\ IF OwnsRunning(Head(inbox).goal.life) THEN Interrupt ELSE UNCHANGED <<provider, queue>>
    /\ UNCHANGED <<tables, latch, observed, job, ingestion,
                   history, bounds>>

Releases(status) == status \in {"error", "stopped"} \/ (status = "ready" /\ observed)

\* processSessionSet.
TakeSet ==
    /\ TakeEvent("set")
    /\ inbox' = Tail(inbox)
    /\ LET status == Head(inbox).status IN
        \/ /\ status = "running"
           /\ latch' = None /\ observed' = TRUE
        \/ /\ Releases(status)
           /\ latch' = None /\ observed' = FALSE
        \/ /\ status # "running" /\ ~Releases(status)
           /\ UNCHANGED <<latch, observed>>
    /\ UNCHANGED <<tables, job, ingestion, provider, queue, history, bounds>>
-----------------------------------------------------------------------------
(* The ingestion.  It takes its queue in order.  A domain event changes     *)
(* only its memory of bindings; for a runtime event it reads the thread,    *)
(* sets the session and acts on the goal it read.                           *)

TakeHeard(kinds) ==
    /\ ingest = NoIngest /\ queue # <<>> /\ Head(queue).kind \in kinds
    /\ queue' = Tail(queue)

\* enqueuePendingGoalBinding: a start that is remembered is not added again.
Enqueued(p, m) == IF m \in Members(p) THEN p ELSE Append(p, m)

\* processDomainEvent: a start that was requested, a turn that runs and is bound.
HearDomain ==
    /\ TakeHeard({"requested", "set"})
    /\ LET e == Head(queue) IN
        IF e.kind = "requested"
        THEN pending' = Enqueued(pending, e.msg) /\ UNCHANGED known
        ELSE /\ pending' = IF e.turn \in known THEN pending ELSE Rest(pending)
             /\ known' = known \cup {e.turn}
    /\ UNCHANGED <<tables, reactor, ingest, provider, history, bounds>>

HasRow(t) == turns[t].state # "none"
Known(t) == known \cup {u \in {t, session.active} \ {None} : HasRow(u)}

\* The guards of processRuntimeEvent: another turn is active, the provider is in
\* another turn, the start of a turn that is over.
StartApplies(t) ==
    /\ session.active \in {None, t}
    /\ session.active = None => /\ provider \in {None, t}
                                /\ turns[t].state \in {"none", "running"}

\* Slip: a turn belongs to the goal that is active when its start is heard of.
BindingNow(t) ==
    IF HasRow(t) THEN turns[t].life
    ELSE IF goal.status = "active" THEN goal.life ELSE None

\* The lifecycle of a turn that starts: that of its row; else that of the oldest
\* start not yet taken, in memory or in the table; else the active goal's.
Binding(t) ==
    CASE HasRow(t) -> turns[t].life
      [] ~HasRow(t) /\ pending # <<>> -> msgs[Head(pending)]
      [] ~HasRow(t) /\ pending = <<>> /\ rows # <<>> -> msgs[Head(rows)]
      [] OTHER -> IF goal.status = "active" THEN goal.life ELSE None

ReadStarted ==
    /\ TakeHeard({"started"})
    /\ LET t == Head(queue).turn IN
        IF ~StartApplies(t)
        THEN known' = Known(t) /\ UNCHANGED <<pending, ingest>>
        ELSE /\ known' = Known(t) \cup {t}
             /\ pending' = IF HasRow(t) THEN pending ELSE Rest(pending)
             /\ ingest' = [NoIngest EXCEPT !.pc = "set",
                              !.set = [status |-> "running", active |-> t,
                                       life |-> Binding(t)]]
    /\ UNCHANGED <<tables, reactor, provider, history, bounds>>

\* session.started, thread.started or a ready session.state.changed: the session is set
\* as it was read, running if it has a turn, else ready.  The notice names no turn and its
\* sending changes nothing else: it is read between any two events of the queue.
ReadNotice ==
    /\ ingest = NoIngest /\ session.status # "none" /\ faults < MaxFaults
    /\ faults' = faults + 1
    /\ known' = Known(None)
    /\ ingest' = [NoIngest EXCEPT !.pc = "notice",
                     !.set = [session EXCEPT !.status = IF session.active # None
                                                        THEN "running" ELSE "ready"]]
    /\ UNCHANGED <<tables, reactor, pending, provider, queue, history, changes>>

\* Tokens count for the goal the turn is bound to while it is active or limited, or
\* was stopped during the turn.
Counts(t) ==
    /\ HasRow(t) /\ turns[t].life = goal.life
    /\ \/ goal.status \in {"active", "limited"}
       \/ /\ goal.status \in {"paused", "blocked", "complete"}
          /\ goal.at > turns[t].since /\ \A u \in Turns : HasRow(u) => u <= t

\* The start of turn t was handled and its end was not.
Underway(t) ==
    /\ t \in DOMAIN accepted /\ Heard("started", t, None) \notin Members(queue)
    /\ \/ provider = t
       \/ \E kind \in TurnEnds : Heard(kind, t, None) \in Members(queue)

\* A turn reports its tokens between its start and its end, some agents with the end
\* only, or never.  The report changes nothing until it is read, as a notice.
ReadUsage(t) ==
    /\ ingest = NoIngest /\ Underway(t) /\ \A c \in charged : c.turn # t
    /\ known' = Known(t)
    /\ IF Counts(t)
       THEN /\ goal' = Used(goal)
            /\ inbox' = inbox \o GoalEvents(goal', FALSE)
            /\ charged' = charged \cup {[turn |-> t, life |-> goal.life]}
       ELSE UNCHANGED <<goal, inbox, charged>>
    /\ UNCHANGED <<lives, msgs, session, rows, turns, latch, observed, job, queue,
                   pending, ingest, provider, accepted, missed, revived, obscured, bounds>>

\* Slip: only the end of a turn of the current goal has consequences.
ActAfterOwn(kind, t) ==
    CASE ~(HasRow(t) /\ turns[t].life = goal.life) \/ goal.status # "active" -> "none"
      [] kind = "failed" -> "blocked"
      [] kind = "interrupted" -> "paused"
      [] OTHER -> "continue"

\* What follows the end of a turn, by the goal that was read.
ActAfter(kind, t) ==
    LET owns == HasRow(t) /\ turns[t].life = goal.life IN
    CASE goal.status # "active" -> "none"
      [] goal.status = "active" /\ kind = "failed" /\ owns -> "blocked"
      [] goal.status = "active" /\ kind = "interrupted" /\ owns -> "paused"
      [] OTHER -> "continue"

ReadEnd ==
    /\ TakeHeard(TurnEnds)
    /\ LET e == Head(queue) IN
        /\ known' = Known(e.turn)
        /\ ingest' =
             IF session.active \notin {None, e.turn} THEN NoIngest
             ELSE [pc |-> "set",
                   set |-> [NoSet EXCEPT !.status = IF e.kind = "failed" THEN "error"
                                                    ELSE "ready"],
                   act |-> ActAfter(e.kind, e.turn), life |-> goal.life]
    /\ UNCHANGED <<tables, reactor, pending, provider, history, bounds>>

IngestSets ==
    /\ ingest.pc \in {"set", "notice"}
    /\ Sets(ingest.set)
    /\ inbox' = Append(inbox, SetEvent(ingest.set.status))
    /\ queue' = queue \o Learns(ingest.set)
    /\ job' = Moved(job)
    /\ ingest' = IF ingest.pc = "notice" \/ ingest.set.status = "running" THEN NoIngest
                 ELSE [ingest EXCEPT !.pc = "act"]
    /\ obscured' = /\ provider # None \/ job.pc \in {"send", "reread", "set"}
                   /\ obscured \/ ingest.set.status # "running"
    /\ UNCHANGED <<goal, lives, msgs, latch, observed, provider, pending, known,
                   accepted, charged, missed, revived, bounds>>

\* The continuation or the stop is dispatched for the goal that was read.
IngestActs ==
    /\ ingest.pc = "act"
    /\ ingest' = NoIngest
    /\ IF ingest.act = "continue"
       THEN Continue(ingest.life, inbox, queue) /\ UNCHANGED goal
       ELSE /\ goal' = IF ingest.act = "none" THEN goal ELSE Reported(ingest.life, ingest.act)
            /\ inbox' = inbox \o (IF ingest.act = "none" THEN <<>>
                                  ELSE ReportEvents(ingest.life, ingest.act))
            /\ UNCHANGED <<msgs, rows, queue>>
    /\ missed' = IF goal.status = "active" /\ ingest.life # goal.life THEN goal.life ELSE missed
    /\ UNCHANGED <<lives, session, turns, latch, observed, job,
                   provider, pending, known, accepted, charged, revived, obscured, bounds>>
-----------------------------------------------------------------------------
Users ==
    \/ CreateGoal \/ Edit \/ Resume \/ Pause \/ Complete \/ ClearGoal

Worker == TakeContinuation \/ TakeGoal \/ TakeClear \/ TakeSet

Send == Ensure \/ Prebind \/ Accept \/ Reread \/ SetRunning \/ Replace

Ingestion ==
    \/ HearDomain \/ ReadStarted \/ ReadEnd \/ IngestSets \/ IngestActs

Next ==
    \/ Users \/ (\E status \in Outcomes : AgentReports(status))
    \/ EndTurn
    \/ Worker \/ Send \/ Fail
    \/ Ingestion \/ ReadNotice \/ \E t \in Turns : ReadUsage(t)

Spec == Init /\ [][Next]_vars

\* The workers run when they have work; what the agent does is up to it.
Fairness ==
    /\ WF_vars(Worker \/ Send)
    /\ WF_vars(Ingestion)

FairSpec == Spec /\ Fairness
-----------------------------------------------------------------------------
Messages == 1..Len(msgs)
LifeOrNone == Lives \cup {None}
TurnOrNone == Turns \cup {None}
Sessions == [status : SessionStates, active : TurnOrNone, life : LifeOrNone]
Goals == [status : GoalStates, life : LifeOrNone, used : Nat, at : Nat]

\* Records that may name one of the first n continuations.
TurnRows(n) == [state : {"none", "running", "completed", "error", "interrupted"},
                life : LifeOrNone, msg : 0..n, since : Nat]
InboxEvents(n) == [kind : {"continue", "set", "goal", "clear"}, msg : 0..n, goal : Goals,
                   user : BOOLEAN, status : SessionStates]
HeardEvents(n) == [kind : {"requested", "set", "started"} \cup TurnEnds, turn : TurnOrNone, msg : 0..n]
Jobs(n) == [pc : {"idle", "ensure", "prebind", "send", "reread", "set", "replace"}, msg : 0..n,
            life : LifeOrNone, turn : TurnOrNone, moved : BOOLEAN]
Ingests == [pc : {"idle", "set", "notice", "act"}, set : Sessions,
            act : {"none", "continue", "paused", "blocked"}, life : LifeOrNone]

\* Every variable has its type.
TypeOK ==
    /\ goal \in Goals /\ lives \in 0..MaxLives
    /\ msgs \in Seq(Lives)
    /\ session \in Sessions /\ rows \in Seq(Messages)
    /\ turns \in [Turns -> TurnRows(Len(msgs))]
    /\ inbox \in Seq(InboxEvents(Len(msgs)))
    /\ latch \in 0..Len(msgs) /\ observed \in BOOLEAN
    /\ job \in Jobs(Len(msgs))
    /\ provider \in TurnOrNone
    /\ queue \in Seq(HeardEvents(Len(msgs)))
    /\ pending \in Seq(Messages) /\ known \subseteq Turns
    /\ ingest \in Ingests
    /\ accepted \in Seq([msg : Messages, life : LifeOrNone]) /\ Len(accepted) <= MaxTurns
    /\ charged \subseteq [turn : Turns, life : Lives]
    /\ missed \in LifeOrNone /\ revived \in TurnOrNone /\ obscured \in BOOLEAN
    /\ changes \in 0..MaxChanges /\ faults \in 0..MaxFaults

\* A token is charged to the lifecycle its turn was requested for, whatever was edited,
\* requested or discarded since.
ChargedToItsGoal ==
    \A c \in charged : msgs[accepted[c.turn].msg] = c.life

\* An active goal, no turn, and more turns to come.
Waiting == goal.status = "active" /\ provider = None /\ Len(accepted) < MaxTurns

\* The two ways the code leaves a goal without a turn: it was set while the ingestion
\* handled the end of a turn, or the last turn ended between the reread of its session
\* and the write that says it runs.
Lost == missed = goal.life \/ (revived # None /\ revived = Len(accepted))

\* An active goal does not rest, whatever failed, ended or was edited before, but for
\* Lost: a turn runs until the goal is stopped or cleared.
GoalIsPursued == (Waiting /\ ~Lost) ~> ~(Waiting /\ ~Lost)

\* A turn runs that was sent for the current lifecycle, which is paused or out of budget,
\* and the ingestion did not set the session to idle after its send began.
Overruns ==
    /\ goal.status \in {"paused", "limited"}
    /\ provider # None /\ accepted[provider].life = goal.life
    /\ ~obscured

=============================================================================

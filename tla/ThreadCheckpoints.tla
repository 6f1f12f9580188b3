-------------------------- MODULE ThreadCheckpoints --------------------------
(***************************************************************************)
(* The checkpoints of one thread: which git snapshot of the workspace      *)
(* belongs to which turn.  Two workers write them.  Provider runtime       *)
(* ingestion announces a placeholder when the agent reports a diff; the    *)
(* checkpoint reactor captures git refs when a turn ends or a placeholder  *)
(* was announced, and reverts.  Each reads the read model, works for a     *)
(* while, and dispatches what it found.  The engine folds the resulting    *)
(* events into the read model and into the table projection_turns, by two  *)
(* pieces of code; a restart loads the read model from the table.          *)
(*                                                                         *)
(* The workspace is a git repository with a provider session.  A dispatch  *)
(* is one step (EventEngine).                                              *)
(***************************************************************************)
EXTENDS Integers, Sequences

CONSTANTS MaxTurns,     \* turns the agent runs
          MaxDiffs,     \* diffs the agent reports
          MaxReverts,   \* reverts the user asks for
          MaxFaults     \* git, provider and dispatch failures, and restarts

ASSUME CheckpointConstants ==
    /\ MaxTurns \in Nat /\ MaxDiffs \in Nat
    /\ MaxReverts \in Nat /\ MaxFaults \in Nat

Turns == 1..MaxTurns
NoTurn == 0

\* A checkpoint's ref is the git ref of its turn count, or "provider" for the
\* label provider-diff:<event>, which no git ref has.  The status "ready" stands
\* for "error" as well, from which the code never tells it apart here.
Checkpoint == [status : {"none", "missing", "ready"}, count : Nat,
               ref : {"none", "provider", "git"}]
NoCheckpoint == [status |-> "none", count |-> 0, ref |-> "none"]

Present(cp) == cp.status # "none"
Real(cp) == cp.status = "ready"

\* What is handed to the two workers: runtime events of the agent, and the
\* domain events the reactor listens to.
Input == [kind : {"started", "diff", "completed", "baseline", "diffCompleted", "revert"},
          turn : Turns \cup {NoTurn}, cp : Checkpoint]

VARIABLES
    mem,        \* thread.checkpoints of the read model, by turn
    table,      \* the checkpoint columns of projection_turns, by turn
    active,     \* thread.session.activeTurnId of the read model
    refs,       \* the turn counts whose git ref exists
    agent,      \* the turn the agent runs, those it began, a requested one
    ingestQ, ingest,    \* the ingestion's worker: inputs, where it is
    reactQ, job,        \* the reactor's worker: inputs, where it is
    diffs, reverts, faults,
    broken      \* auxiliary: a revert was broken off after it began to delete

workers == <<ingestQ, ingest, reactQ, job>>
budgets == <<diffs, reverts, faults>>
vars == <<mem, table, active, refs, agent, workers, budgets, broken>>

IdleIngest == [step |-> "idle", turn |-> NoTurn, count |-> 0]
IdleJob == [step |-> "idle", turn |-> NoTurn, cp |-> NoCheckpoint,
            from |-> "none", stale |-> {}]

Init ==
    /\ mem = [t \in Turns |-> NoCheckpoint] /\ table = mem
    /\ active = NoTurn /\ refs = {}
    /\ agent = [running |-> NoTurn, begun |-> 0, requested |-> FALSE]
    /\ ingestQ = <<>> /\ ingest = IdleIngest
    /\ reactQ = <<>> /\ job = IdleJob
    /\ diffs = 0 /\ reverts = 0 /\ faults = 0
    /\ broken = FALSE
-----------------------------------------------------------------------------
(* The two folds of thread.turn-diff-completed and thread.reverted.        *)

\* Slip: the projector lets a placeholder replace a capture.
ProjectDiffUnguarded(cps, t, cp) == [cps EXCEPT ![t] = cp]

\* projector.ts: a placeholder does not replace a capture.
ProjectDiff(cps, t, cp) ==
    IF Real(cps[t]) /\ cp.status = "missing" THEN cps ELSE [cps EXCEPT ![t] = cp]

\* Slip: another turn keeps the turn count.
UpsertDiffOnly(rows, t, cp) == [rows EXCEPT ![t] = cp]

\* ProjectionPipeline.ts: clearCheckpointTurnConflict, then upsertByTurnId.
UpsertDiff(rows, t, cp) ==
    [u \in Turns |-> IF u = t THEN cp
                     ELSE IF Present(rows[u]) /\ rows[u].count = cp.count THEN NoCheckpoint
                     ELSE rows[u]]

\* Slip: the turn reverted to is dropped as well.
ProjectRevertBelow(cps, n) ==
    [t \in Turns |-> IF cps[t].count < n THEN cps[t] ELSE NoCheckpoint]

ProjectRevert(cps, n) == [t \in Turns |-> IF cps[t].count <= n THEN cps[t] ELSE NoCheckpoint]

KeepRows(rows, n) == [t \in Turns |-> IF rows[t].count <= n THEN rows[t] ELSE NoCheckpoint]

Counts(cps) == {0} \cup {cps[t].count : t \in Turns}
IsLatest(n, cps) == n \in Counts(cps) /\ \A c \in Counts(cps) : c <= n

RuntimeEvent(kind, t, status) ==
    [kind |-> kind, turn |-> t, cp |-> [NoCheckpoint EXCEPT !.status = status]]
-----------------------------------------------------------------------------
(* The agent and the user.                                                 *)

\* The user starts a turn: thread.message-sent and thread.turn-start-requested,
\* on each of which the reactor secures the state before the turn.
RequestTurn ==
    /\ ~agent.requested /\ agent.begun < MaxTurns
    /\ agent' = [agent EXCEPT !.requested = TRUE]
    /\ LET baseline == RuntimeEvent("baseline", NoTurn, "none") IN
        reactQ' = reactQ \o <<baseline, baseline>>
    /\ UNCHANGED <<mem, table, active, refs, ingestQ, ingest, job, budgets, broken>>

StartTurn ==
    /\ agent.requested /\ agent.running = NoTurn /\ agent.begun < MaxTurns
    /\ LET t == agent.begun + 1 IN
        /\ agent' = [running |-> t, begun |-> t, requested |-> FALSE]
        /\ ingestQ' = Append(ingestQ, RuntimeEvent("started", t, "none"))
        /\ reactQ' = Append(reactQ, RuntimeEvent("baseline", t, "none"))
    /\ UNCHANGED <<mem, table, active, refs, ingest, job, budgets, broken>>

ReportDiff ==
    /\ agent.running # NoTurn /\ diffs < MaxDiffs
    /\ diffs' = diffs + 1
    /\ ingestQ' = Append(ingestQ, RuntimeEvent("diff", agent.running, "none"))
    /\ UNCHANGED <<mem, table, active, refs, agent, ingest, reactQ, job,
                   reverts, faults, broken>>

\* checkpointStatusFromRuntime: "missing" if the turn was interrupted.
EndTurn(status) ==
    /\ agent.running # NoTurn
    /\ agent' = [agent EXCEPT !.running = NoTurn]
    /\ ingestQ' = Append(ingestQ, RuntimeEvent("completed", agent.running, status))
    /\ reactQ' = Append(reactQ, RuntimeEvent("completed", agent.running, status))
    /\ UNCHANGED <<mem, table, active, refs, ingest, job, budgets, broken>>

\* turn.aborted ends the turn for the ingestion; the reactor does not hear of it.
AbortTurn ==
    /\ agent.running # NoTurn
    /\ agent' = [agent EXCEPT !.running = NoTurn]
    /\ ingestQ' = Append(ingestQ, RuntimeEvent("completed", agent.running, "missing"))
    /\ UNCHANGED <<mem, table, active, refs, ingest, reactQ, job, budgets, broken>>

RequestRevert(n) ==
    /\ reverts < MaxReverts /\ reverts' = reverts + 1
    /\ reactQ' = Append(reactQ, [RuntimeEvent("revert", NoTurn, "none")
                                    EXCEPT !.cp.count = n])
    /\ UNCHANGED <<mem, table, active, refs, agent, ingestQ, ingest, job,
                   diffs, faults, broken>>
-----------------------------------------------------------------------------
(* Provider runtime ingestion.                                             *)

NextIngest(kind) ==
    /\ ingest.step = "idle" /\ ingestQ # <<>> /\ Head(ingestQ).kind = kind
    /\ ingestQ' = Tail(ingestQ)

\* A start is refused while another turn is active or the provider's session
\* is in another one already, and once the turn's row says that it is over: it
\* has a checkpoint, or had one that was cleared.
MayStart(t) ==
    \/ active = t
    \/ active = NoTurn /\ agent.running \in {NoTurn, t} /\ ~Present(table[t])

MayRefuse(t) ==
    /\ active # t
    /\ \/ active # NoTurn \/ agent.running \notin {NoTurn, t}
       \/ Present(table[t]) \/ Present(mem[t])

IngestStarted ==
    /\ NextIngest("started")
    /\ LET t == Head(ingestQ).turn IN
        \/ MayStart(t) /\ active' = t
        \/ MayRefuse(t) /\ UNCHANGED active
    /\ UNCHANGED <<mem, table, refs, agent, ingest, reactQ, job, budgets, broken>>

\* Only the active turn ends the session's turn.
IngestCompleted ==
    /\ NextIngest("completed")
    /\ active' = IF active \in {NoTurn, Head(ingestQ).turn} THEN NoTurn ELSE active
    /\ UNCHANGED <<mem, table, refs, agent, ingest, reactQ, job, budgets, broken>>

\* The thread is read once, before anything is done about the event.
IngestDiff ==
    /\ NextIngest("diff")
    /\ LET t == Head(ingestQ).turn IN
        IF Present(mem[t]) THEN UNCHANGED ingest
        ELSE \E n \in Counts(mem) :
                /\ IsLatest(n, mem)
                /\ ingest' = [step |-> "announce", turn |-> t, count |-> n + 1]
    /\ UNCHANGED <<mem, table, active, refs, agent, reactQ, job, budgets, broken>>

\* The engine's part of a thread.turn.diff.complete.
DispatchDiff(t, cp) ==
    /\ mem' = ProjectDiff(mem, t, cp)
    /\ table' = UpsertDiff(table, t, cp)
    /\ reactQ' = Append(reactQ, [kind |-> "diffCompleted", turn |-> t, cp |-> cp])

Announce ==
    /\ ingest.step = "announce"
    /\ DispatchDiff(ingest.turn, [status |-> "missing", count |-> ingest.count,
                                  ref |-> "provider"])
    /\ ingest' = IdleIngest
    /\ UNCHANGED <<active, refs, agent, ingestQ, job, budgets, broken>>

Fail == faults < MaxFaults /\ faults' = faults + 1

\* A failed dispatch is logged, and the rest of the event is dropped.
IngestFails ==
    /\ Fail
    /\ \/ ingest.step = "announce" /\ ingest' = IdleIngest /\ UNCHANGED ingestQ
       \/ NextIngest("started") /\ UNCHANGED ingest
       \/ NextIngest("completed") /\ UNCHANGED ingest
    /\ UNCHANGED <<mem, table, active, refs, agent, reactQ, job,
                   diffs, reverts, broken>>
-----------------------------------------------------------------------------
(* The checkpoint reactor.                                                 *)

NextReact(kind) ==
    /\ job.step = "idle" /\ reactQ # <<>> /\ Head(reactQ).kind = kind
    /\ reactQ' = Tail(reactQ)

\* Slip: the baseline is taken one turn too early.
SecureBaselineBefore ==
    /\ NextReact("baseline")
    /\ \E n \in Counts(mem) : IsLatest(n, mem) /\ refs' = refs \cup {n - 1}
    /\ UNCHANGED <<mem, table, active, agent, ingestQ, ingest, job, budgets, broken>>

\* The ref of the latest turn count is captured unless it exists.
SecureBaseline ==
    /\ NextReact("baseline")
    /\ \E n \in Counts(mem) : IsLatest(n, mem) /\ refs' = refs \cup {n}
    /\ UNCHANGED <<mem, table, active, agent, ingestQ, ingest, job, budgets, broken>>

BeginCapture(t, status, n, from) ==
    job' = [IdleJob EXCEPT !.step = "capture", !.turn = t, !.from = from,
                           !.cp = [status |-> status, count |-> n, ref |-> "git"]]

\* captureCheckpointFromTurnCompletion, up to the capture: a placeholder's
\* count is used again, otherwise the next one.
CaptureCompleted ==
    /\ NextReact("completed")
    /\ LET e == Head(reactQ) IN
        IF active \notin {NoTurn, e.turn} \/ Real(mem[e.turn]) THEN UNCHANGED job
        ELSE IF Present(mem[e.turn])
        THEN BeginCapture(e.turn, e.cp.status, mem[e.turn].count, "completion")
        ELSE \E n \in Counts(mem) :
                IsLatest(n, mem) /\ BeginCapture(e.turn, e.cp.status, n + 1, "completion")
    /\ UNCHANGED <<mem, table, active, refs, agent, ingestQ, ingest, budgets, broken>>

\* Slip: any checkpoint of the turn stops the capture.
CapturePlaceholderUnlessPresent ==
    /\ NextReact("diffCompleted")
    /\ LET e == Head(reactQ) IN
        IF e.cp.status # "missing" \/ Present(mem[e.turn]) THEN UNCHANGED job
        ELSE BeginCapture(e.turn, "ready", e.cp.count, "placeholder")
    /\ UNCHANGED <<mem, table, active, refs, agent, ingestQ, ingest, budgets, broken>>

\* captureCheckpointFromPlaceholder, up to the capture.
CapturePlaceholder ==
    /\ NextReact("diffCompleted")
    /\ LET e == Head(reactQ) IN
        IF e.cp.status # "missing" \/ Real(mem[e.turn]) THEN UNCHANGED job
        ELSE BeginCapture(e.turn, "ready", e.cp.count, "placeholder")
    /\ UNCHANGED <<mem, table, active, refs, agent, ingestQ, ingest, budgets, broken>>

\* captureAndDispatchCheckpoint: the git ref, then the event.
WriteRef ==
    /\ job.step = "capture"
    /\ refs' = refs \cup {job.cp.count}
    /\ job' = [job EXCEPT !.step = "dispatch"]
    /\ UNCHANGED <<mem, table, active, agent, ingestQ, ingest, reactQ, budgets, broken>>

DispatchCapture ==
    /\ job.step = "dispatch"
    /\ DispatchDiff(job.turn, job.cp)
    /\ job' = IdleJob
    /\ UNCHANGED <<active, refs, agent, ingestQ, ingest, budgets, broken>>

\* The checkpoint a revert to n restores can be restored.  When several
\* turns have this count, any of them may be the one that is found.
Restorable(n) ==
    \/ n = 0
    \/ \E t \in Turns : Present(mem[t]) /\ mem[t].count = n
                        /\ mem[t].ref = "git" /\ n \in refs

Unrestorable(n) ==
    \/ \A c \in Counts(mem) : c < n
    \/ n = 0 /\ 0 \notin refs    \* and the repository has no HEAD to fall back to
    \/ n # 0 /\ ~ \E t \in Turns : Present(mem[t]) /\ mem[t].count = n
    \/ \E t \in Turns : /\ Present(mem[t]) /\ mem[t].count = n /\ n # 0
                        /\ mem[t].ref # "git" \/ n \notin refs

\* Slip: the ref of the turn reverted to is stale as well.
StaleFrom(n) == {mem[t].count : t \in {u \in Turns : mem[u].count >= n /\ mem[u].ref = "git"}}

Stale(n) == {mem[t].count : t \in {u \in Turns : mem[u].count > n /\ mem[u].ref = "git"}}

\* rewindThreadState, up to the restored workspace, which is left out.
BeginRevert ==
    /\ NextReact("revert")
    /\ LET n == Head(reactQ).cp.count IN
        \/ /\ Restorable(n) /\ \E c \in Counts(mem) : n <= c
           /\ job' = [IdleJob EXCEPT !.step = "delete", !.stale = Stale(n),
                                     !.cp = [NoCheckpoint EXCEPT !.count = n]]
        \/ Unrestorable(n) /\ UNCHANGED job
    /\ UNCHANGED <<mem, table, active, refs, agent, ingestQ, ingest, budgets, broken>>

DeleteStale ==
    /\ job.step = "delete"
    /\ refs' = refs \ job.stale
    /\ job' = [job EXCEPT !.step = "commit"]
    /\ UNCHANGED <<mem, table, active, agent, ingestQ, ingest, reactQ, budgets, broken>>

\* The agent's conversation is rolled back and thread.revert.complete dispatched.
CommitRevert ==
    /\ job.step = "commit"
    /\ mem' = ProjectRevert(mem, job.cp.count) /\ table' = KeepRows(table, job.cp.count)
    /\ job' = IdleJob
    /\ UNCHANGED <<active, refs, agent, ingestQ, ingest, reactQ, budgets, broken>>

\* The refs that exist when the job is broken off: a deletion may be half done.
PartlyDeleted ==
    {refs \ d : d \in SUBSET (IF job.step = "delete" THEN job.stale ELSE {})}

\* A failure ends the job; a failure activity is appended to the thread.
ReactFails ==
    /\ Fail /\ job.step # "idle" /\ job' = IdleJob
    /\ refs' \in PartlyDeleted
    /\ broken' = (broken \/ job.step \in {"delete", "commit"})
    /\ UNCHANGED <<mem, table, active, agent, ingestQ, ingest, reactQ,
                   diffs, reverts>>

SecureBaselineFails ==
    /\ Fail /\ NextReact("baseline")
    /\ UNCHANGED <<mem, table, active, refs, agent, ingestQ, ingest, job,
                   diffs, reverts, broken>>
-----------------------------------------------------------------------------
\* The server restarts: the agent's turn, a requested turn, both queues and
\* what the workers did are lost, and the read model is loaded from the tables.
Restart ==
    /\ Fail
    /\ mem' = table /\ active' = NoTurn
    /\ agent' = [agent EXCEPT !.running = NoTurn, !.requested = FALSE]
    /\ ingestQ' = <<>> /\ ingest' = IdleIngest /\ reactQ' = <<>> /\ job' = IdleJob
    /\ refs' \in PartlyDeleted
    /\ broken' = (broken \/ job.step \in {"delete", "commit"})
    /\ UNCHANGED <<table, diffs, reverts>>

Agent ==
    \/ RequestTurn \/ StartTurn \/ ReportDiff
    \/ \E status \in {"ready", "missing"} : EndTurn(status)
    \/ AbortTurn
    \/ \E n \in 0..MaxTurns : RequestRevert(n)

Ingestion ==
    \/ IngestStarted \/ IngestCompleted \/ IngestDiff \/ Announce

Reactor ==
    \/ SecureBaseline \/ CaptureCompleted \/ CapturePlaceholder
    \/ WriteRef \/ DispatchCapture
    \/ BeginRevert \/ DeleteStale \/ CommitRevert

Next == Agent \/ Ingestion \/ Reactor \/ IngestFails \/ ReactFails
        \/ SecureBaselineFails \/ Restart

\* Both workers run while they have inputs.
Fairness == WF_vars(Ingestion) /\ WF_vars(Reactor)

Spec == Init /\ [][Next]_vars
FairSpec == Spec /\ Fairness
-----------------------------------------------------------------------------
\* Every variable has its type.
TypeOK ==
    /\ mem \in [Turns -> Checkpoint] /\ table \in [Turns -> Checkpoint]
    /\ active \in Turns \cup {NoTurn} /\ refs \subseteq Nat
    /\ agent \in [running : Turns \cup {NoTurn}, begun : 0..MaxTurns, requested : BOOLEAN]
    /\ ingestQ \in Seq(Input) /\ reactQ \in Seq(Input)
    /\ ingest \in [step : {"idle", "announce"}, turn : Turns \cup {NoTurn}, count : Nat]
    /\ job \in [step : {"idle", "capture", "dispatch", "delete", "commit"},
                turn : Turns \cup {NoTurn}, cp : Checkpoint,
                from : {"none", "completion", "placeholder"}, stale : SUBSET Nat]
    /\ diffs \in 0..MaxDiffs /\ reverts \in 0..MaxReverts
    /\ faults \in 0..MaxFaults
    /\ broken \in BOOLEAN

\* No two turns of the table have one checkpoint turn count, whichever worker
\* took it first: the table's UNIQUE constraint never fails a transaction.
TableCountsAreUnique ==
    \A t, u \in Turns :
        Present(table[t]) /\ Present(table[u]) /\ table[t].count = table[u].count => t = u

\* A capture in the read model can be restored: its git ref exists, unless a
\* revert is under way or was broken off between deleting refs and its event.
CapturesAreRestorable ==
    ~broken /\ job.step # "commit" =>
        \A t \in Turns : mem[t].ref = "git" => mem[t].count \in refs

\* A capture in the table is the one in the read model: a restart invents none
\* and moves none to another turn or count.
TableCapturesAreInMemory ==
    \A t \in Turns : table[t].ref = "git" => table[t] = mem[t]

\* In the read model a capture stays as it is until a revert removes it or the
\* server restarts, whatever placeholders arrive late.
MemoryKeepsCaptures ==
    [][ \A t \in Turns : Real(mem[t]) =>
            \/ mem'[t] = mem[t]
            \/ ~Present(mem'[t]) /\ job.step = "commit"
            \/ faults' # faults /\ mem' = table ]_vars

\* A placeholder is replaced by a capture or reverted, if nothing fails.
PlaceholdersAreReplaced ==
    \A t \in Turns : mem[t].status = "missing" ~> mem[t].status # "missing"

\* The projector's comment, of the table as well: a placeholder does not
\* overwrite a captured checkpoint.
TableKeepsCaptures ==
    [][ \A t \in Turns : Real(table[t]) => table'[t].status # "missing" ]_vars
=============================================================================

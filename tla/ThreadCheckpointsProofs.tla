----------------------- MODULE ThreadCheckpointsProofs -----------------------
(***************************************************************************)
(* Theorems about ThreadCheckpoints, for every value of its constants.     *)
(***************************************************************************)
EXTENDS ThreadCheckpoints, TLAPS

\* Inputs as they are enqueued.
Work == {e \in Input :
            /\ e.kind \in {"started", "diff", "completed", "diffCompleted"} => e.turn \in Turns
            /\ e.kind = "completed" => e.cp.status \in {"ready", "missing"}}

WorkOK ==
    /\ ingestQ \in Seq(Work) /\ reactQ \in Seq(Work)
    /\ ingest.step = "announce" => ingest.turn \in Turns

\* While the reactor captures, the turn has no capture: only the reactor
\* makes captures, and it looked before it began.
CaptureOK ==
    job.step \in {"capture", "dispatch"} =>
        /\ job.turn \in Turns /\ ~Real(mem[job.turn])
        /\ job.cp.status \in {"ready", "missing"} /\ job.cp.ref = "git"

\* Where the git refs are at each step of the reactor.
RefsOK ==
    ~broken =>
        /\ \A t \in Turns : mem[t].ref = "git" /\ (job.step = "commit" => mem[t].count <= job.cp.count)
                            => mem[t].count \in refs
        /\ job.step = "dispatch" => job.cp.count \in refs
        /\ job.step = "delete" => \A n \in job.stale : n > job.cp.count

IInv == TypeOK /\ WorkOK /\ CaptureOK /\ RefsOK
        /\ TableCountsAreUnique /\ TableCapturesAreInMemory
-----------------------------------------------------------------------------
(* The folds.                                                              *)

LEMMA NoCheckpointType == NoCheckpoint \in Checkpoint
BY DEF NoCheckpoint, Checkpoint

\* What thread.turn-diff-completed does to the read model.
LEMMA ProjectDiffLemma ==
    ASSUME NEW cps \in [Turns -> Checkpoint], NEW t \in Turns, NEW cp \in Checkpoint
    PROVE  /\ ProjectDiff(cps, t, cp) \in [Turns -> Checkpoint]
           /\ \A u \in Turns : u # t => ProjectDiff(cps, t, cp)[u] = cps[u]
           /\ ProjectDiff(cps, t, cp)[t] \in {cps[t], cp}
           /\ ~Real(cps[t]) \/ cp.status # "missing" => ProjectDiff(cps, t, cp)[t] = cp
           /\ Real(cps[t]) /\ cp.status = "missing" => ProjectDiff(cps, t, cp) = cps
BY DEF ProjectDiff

\* What it does to the table.
LEMMA UpsertDiffLemma ==
    ASSUME NEW rows \in [Turns -> Checkpoint], NEW t \in Turns, NEW cp \in Checkpoint
    PROVE  /\ UpsertDiff(rows, t, cp) \in [Turns -> Checkpoint]
           /\ UpsertDiff(rows, t, cp)[t] = cp
           /\ \A u \in Turns : u # t =>
                \/ UpsertDiff(rows, t, cp)[u] = NoCheckpoint
                \/ UpsertDiff(rows, t, cp)[u] = rows[u]
                   /\ ~(Present(rows[u]) /\ rows[u].count = cp.count)
BY NoCheckpointType DEF UpsertDiff

\* What thread.reverted does to either.
LEMMA RevertLemma ==
    ASSUME NEW cps \in [Turns -> Checkpoint], NEW n \in Nat
    PROVE  /\ ProjectRevert(cps, n) = KeepRows(cps, n)
           /\ KeepRows(cps, n) \in [Turns -> Checkpoint]
           /\ \A t \in Turns : KeepRows(cps, n)[t] =
                IF cps[t].count <= n THEN cps[t] ELSE NoCheckpoint
BY NoCheckpointType DEF ProjectRevert, KeepRows

\* The largest count is a number.
LEMMA CountsType ==
    ASSUME NEW cps \in [Turns -> Checkpoint]
    PROVE  Counts(cps) \subseteq Nat
BY DEF Counts, Checkpoint

LEMMA RuntimeEventType ==
    ASSUME NEW kind \in {"started", "diff", "completed", "baseline", "revert"},
           NEW t \in Turns \cup {NoTurn}, NEW status \in {"none", "missing", "ready"},
           kind \in {"started", "diff", "completed"} => t \in Turns,
           kind = "completed" => status \in {"ready", "missing"}
    PROVE  /\ RuntimeEvent(kind, t, status) \in Work
           /\ RuntimeEvent(kind, t, status).kind = kind
           /\ RuntimeEvent(kind, t, status).turn = t
BY DEF RuntimeEvent, Work, Input, Checkpoint, NoCheckpoint

LEMMA QueueLemma ==
    ASSUME NEW q \in Seq(Work), NEW e \in Work
    PROVE  /\ Append(q, e) \in Seq(Work)
           /\ q # <<>> => Head(q) \in Work /\ Tail(q) \in Seq(Work)
OBVIOUS

\* A queue of work has the type of a queue.
LEMMA WorkIsInput == \A q \in Seq(Work) : q \in Seq(Input)
<1>1. Work \subseteq Input
  BY DEF Work
<1> QED
  BY <1>1
-----------------------------------------------------------------------------
(* Types, and what is enqueued.                                            *)

LEMMA TypeInit == Init => TypeOK /\ WorkOK
<1> SUFFICES ASSUME Init
             PROVE  TypeOK /\ WorkOK
  OBVIOUS
<1>1. mem \in [Turns -> Checkpoint] /\ table \in [Turns -> Checkpoint]
  BY NoCheckpointType DEF Init
<1>2. agent \in [running : Turns \cup {NoTurn}, begun : 0..MaxTurns, requested : BOOLEAN]
  BY CheckpointConstants DEF Init
<1>3. /\ diffs \in 0..MaxDiffs /\ reverts \in 0..MaxReverts /\ faults \in 0..MaxFaults
  BY CheckpointConstants DEF Init
<1>4. ingest \in [step : {"idle", "announce"}, turn : Turns \cup {NoTurn}, count : Nat]
  BY DEF Init, IdleIngest, NoTurn
<1>5. job \in [step : {"idle", "capture", "dispatch", "delete", "commit"},
              turn : Turns \cup {NoTurn}, cp : Checkpoint,
              from : {"none", "completion", "placeholder"}, stale : SUBSET Nat]
  BY NoCheckpointType DEF Init, IdleJob
<1>6. ingestQ \in Seq(Work) /\ reactQ \in Seq(Work) /\ ingest.step # "announce"
  BY DEF Init, IdleIngest
<1> QED
  BY <1>1, <1>2, <1>3, <1>4, <1>5, <1>6, WorkIsInput DEF Init, TypeOK, WorkOK, NoTurn

\* A dispatched diff: the folds, and the event for the reactor.
LEMMA DispatchDiffType ==
    ASSUME TypeOK, WorkOK, NEW t \in Turns, NEW cp \in Checkpoint, DispatchDiff(t, cp)
    PROVE  /\ mem' \in [Turns -> Checkpoint] /\ table' \in [Turns -> Checkpoint]
           /\ reactQ' \in Seq(Work)
<1>1. [kind |-> "diffCompleted", turn |-> t, cp |-> cp] \in Work
  BY DEF Work, Input
<1> QED
  BY <1>1, ProjectDiffLemma, UpsertDiffLemma, QueueLemma DEF DispatchDiff, TypeOK, WorkOK

LEMMA AgentType == TypeOK /\ WorkOK /\ Agent => (TypeOK /\ WorkOK)'
<1> SUFFICES ASSUME TypeOK, WorkOK, Agent
             PROVE  (TypeOK /\ WorkOK)'
  OBVIOUS
<1> USE CheckpointConstants
\* What a step of the agent or the user must have.
<1>1. ASSUME UNCHANGED <<mem, table, active, refs, ingest, job, faults, broken>>,
             agent' \in [running : Turns \cup {NoTurn}, begun : 0..MaxTurns,
                         requested : BOOLEAN],
             ingestQ' \in Seq(Work), reactQ' \in Seq(Work),
             diffs' \in 0..MaxDiffs, reverts' \in 0..MaxReverts
      PROVE  (TypeOK /\ WorkOK)'
  BY <1>1, WorkIsInput DEF TypeOK, WorkOK
<1>2. /\ agent \in [running : Turns \cup {NoTurn}, begun : 0..MaxTurns, requested : BOOLEAN]
      /\ ingestQ \in Seq(Work) /\ reactQ \in Seq(Work)
      /\ diffs \in 0..MaxDiffs /\ reverts \in 0..MaxReverts
  BY DEF TypeOK, WorkOK
<1>3. CASE RequestTurn
  <2> DEFINE baseline == RuntimeEvent("baseline", NoTurn, "none")
  <2>1. baseline \in Work
    BY RuntimeEventType
  <2>2. reactQ' \in Seq(Work)
    <3> HIDE DEF baseline
    <3>1. reactQ' = reactQ \o <<baseline, baseline>>
      BY <1>3 DEF RequestTurn, baseline
    <3> QED
      BY <2>1, <3>1 DEF WorkOK
  <2>3. agent' \in [running : Turns \cup {NoTurn}, begun : 0..MaxTurns, requested : BOOLEAN]
    BY <1>2, <1>3 DEF RequestTurn
  <2> QED
    BY <1>1, <1>2, <1>3, <2>2, <2>3 DEF RequestTurn, budgets
<1>4. CASE StartTurn
  <2>1. agent.begun + 1 \in Turns /\ agent.begun + 1 \in 0..MaxTurns
    BY <1>4 DEF StartTurn, TypeOK, Turns
  <2>2. ingestQ' \in Seq(Work) /\ reactQ' \in Seq(Work)
    BY <1>4, <2>1, RuntimeEventType, QueueLemma DEF StartTurn, WorkOK
  <2>3. agent' \in [running : Turns \cup {NoTurn}, begun : 0..MaxTurns, requested : BOOLEAN]
    BY <1>4, <2>1 DEF StartTurn
  <2> QED
    BY <1>1, <1>2, <1>4, <2>2, <2>3 DEF StartTurn, budgets
<1>5. CASE ReportDiff
  <2>1. agent.running \in Turns
    BY <1>5 DEF ReportDiff, TypeOK
  <2>2. ingestQ' \in Seq(Work)
    BY <1>5, <2>1, RuntimeEventType, QueueLemma DEF ReportDiff, WorkOK
  <2>3. diffs' \in 0..MaxDiffs
    BY <1>5 DEF ReportDiff, TypeOK
  <2> QED
    BY <1>1, <1>2, <1>5, <2>2, <2>3 DEF ReportDiff
<1>6. ASSUME NEW status \in {"ready", "missing"}, EndTurn(status)
      PROVE  (TypeOK /\ WorkOK)'
  <2>1. agent.running \in Turns
    BY <1>6 DEF EndTurn, TypeOK
  <2>2. ingestQ' \in Seq(Work) /\ reactQ' \in Seq(Work)
    BY <1>6, <2>1, RuntimeEventType, QueueLemma DEF EndTurn, WorkOK
  <2>3. agent' \in [running : Turns \cup {NoTurn}, begun : 0..MaxTurns, requested : BOOLEAN]
    BY <1>2, <1>6 DEF EndTurn
  <2> QED
    BY <1>1, <1>2, <1>6, <2>2, <2>3 DEF EndTurn, budgets
<1>7. CASE AbortTurn
  <2>1. agent.running \in Turns
    BY <1>2, <1>7 DEF AbortTurn
  <2>2. ingestQ' \in Seq(Work)
    BY <1>7, <2>1, RuntimeEventType, QueueLemma DEF AbortTurn, WorkOK
  <2>3. agent' \in [running : Turns \cup {NoTurn}, begun : 0..MaxTurns, requested : BOOLEAN]
    BY <1>2, <1>7 DEF AbortTurn
  <2> QED
    BY <1>1, <1>2, <1>7, <2>2, <2>3 DEF AbortTurn, budgets
<1>8. ASSUME NEW n \in 0..MaxTurns, RequestRevert(n)
      PROVE  (TypeOK /\ WorkOK)'
  <2> DEFINE e == [RuntimeEvent("revert", NoTurn, "none") EXCEPT !.cp.count = n]
  <2>1. e \in Work
    <3>1. RuntimeEvent("revert", NoTurn, "none") =
            [kind |-> "revert", turn |-> NoTurn, cp |-> NoCheckpoint]
      BY DEF RuntimeEvent, NoCheckpoint
    <3>2. e = [kind |-> "revert", turn |-> NoTurn, cp |-> [NoCheckpoint EXCEPT !.count = n]]
      BY <3>1
    <3>3. [NoCheckpoint EXCEPT !.count = n] \in Checkpoint
      BY DEF NoCheckpoint, Checkpoint
    <3> QED
      BY <3>2, <3>3 DEF Work, Input
  <2>2. reactQ' \in Seq(Work)
    BY <1>8, <2>1, QueueLemma DEF RequestRevert, WorkOK
  <2>3. reverts' \in 0..MaxReverts
    BY <1>8 DEF RequestRevert, TypeOK
  <2> HIDE DEF e
  <2> QED
    BY <1>1, <1>2, <1>8, <2>2, <2>3 DEF RequestRevert
<1> QED
  BY <1>3, <1>4, <1>5, <1>6, <1>7, <1>8 DEF Agent

LEMMA IngestionType == TypeOK /\ WorkOK /\ (Ingestion \/ IngestFails) => (TypeOK /\ WorkOK)'
<1> SUFFICES ASSUME TypeOK, WorkOK, Ingestion \/ IngestFails
             PROVE  (TypeOK /\ WorkOK)'
  OBVIOUS
<1> USE CheckpointConstants
<1>1. ASSUME NEW kind, NextIngest(kind)
      PROVE  /\ Head(ingestQ) \in Work /\ Head(ingestQ).kind = kind
             /\ ingestQ' \in Seq(Work)
  BY <1>1, QueueLemma DEF NextIngest, WorkOK
<1>2. CASE IngestStarted
  <2>1. Head(ingestQ).turn \in Turns /\ ingestQ' \in Seq(Work)
    BY <1>1, <1>2 DEF IngestStarted, Work
  <2> QED
    BY <1>2, <2>1, WorkIsInput DEF IngestStarted, TypeOK, WorkOK, budgets
<1>3. CASE IngestCompleted
  <2>1. ingestQ' \in Seq(Work)
    BY <1>1, <1>3 DEF IngestCompleted
  <2> QED
    BY <1>3, <2>1, WorkIsInput DEF IngestCompleted, TypeOK, WorkOK, budgets
<1>4. CASE IngestDiff
  <2>1. Head(ingestQ).turn \in Turns /\ ingestQ' \in Seq(Work)
    BY <1>1, <1>4 DEF IngestDiff, Work
  <2>2. /\ ingest' \in [step : {"idle", "announce"}, turn : Turns \cup {NoTurn}, count : Nat]
        /\ ingest'.step = "announce" => ingest'.turn \in Turns
    BY <1>4, <2>1, CountsType DEF IngestDiff, TypeOK, WorkOK
  <2> QED
    BY <1>4, <2>1, <2>2, WorkIsInput DEF IngestDiff, TypeOK, WorkOK, budgets
<1>5. CASE Announce
  <2> DEFINE cp == [status |-> "missing", count |-> ingest.count, ref |-> "provider"]
  <2>1. ingest.turn \in Turns /\ cp \in Checkpoint
    BY <1>5 DEF Announce, TypeOK, WorkOK, Checkpoint
  <2>2. DispatchDiff(ingest.turn, cp)
    BY <1>5 DEF Announce
  <2> HIDE DEF cp
  <2>3. /\ mem' \in [Turns -> Checkpoint] /\ table' \in [Turns -> Checkpoint]
        /\ reactQ' \in Seq(Work)
    BY <2>1, <2>2, DispatchDiffType
  <2> QED
    BY <1>5, <2>3, WorkIsInput
       DEF Announce, TypeOK, WorkOK, budgets, IdleIngest, NoTurn
<1>6. CASE IngestFails
  <2>1. ingestQ' \in Seq(Work) /\ ingest' \in {ingest, IdleIngest}
    BY <1>1, <1>6 DEF IngestFails, WorkOK
  <2> QED
    BY <1>6, <2>1, WorkIsInput DEF IngestFails, Fail, TypeOK, WorkOK, IdleIngest, NoTurn
<1> QED
  BY <1>2, <1>3, <1>4, <1>5, <1>6 DEF Ingestion

LEMMA ReactorType ==
    TypeOK /\ WorkOK /\ CaptureOK /\ (Reactor \/ ReactFails \/ SecureBaselineFails)
        => (TypeOK /\ WorkOK)'
<1> SUFFICES ASSUME TypeOK, WorkOK, CaptureOK, Reactor \/ ReactFails \/ SecureBaselineFails
             PROVE  (TypeOK /\ WorkOK)'
  OBVIOUS
<1> USE CheckpointConstants
<1> DEFINE Jobs == [step : {"idle", "capture", "dispatch", "delete", "commit"},
                    turn : Turns \cup {NoTurn}, cp : Checkpoint,
                    from : {"none", "completion", "placeholder"}, stale : SUBSET Nat]
<1>1. ASSUME NEW kind, NextReact(kind)
      PROVE  /\ Head(reactQ) \in Work /\ Head(reactQ).kind = kind
             /\ Head(reactQ).cp.count \in Nat
             /\ reactQ' \in Seq(Work)
  BY <1>1, QueueLemma DEF NextReact, WorkOK, Work, Input, Checkpoint
<1>2. IdleJob \in Jobs
  BY NoCheckpointType DEF IdleJob
<1>3. \A step \in {"delete", "commit", "capture", "dispatch"} : [job EXCEPT !.step = step] \in Jobs
  BY DEF TypeOK
<1>4. ASSUME NEW t \in Turns, NEW status \in {"ready", "missing"}, NEW n \in Nat,
             NEW from \in {"completion", "placeholder"}, BeginCapture(t, status, n, from)
      PROVE  job' \in Jobs
  BY <1>4 DEF BeginCapture, IdleJob, Checkpoint
<1> HIDE DEF Jobs
\* What a step of the reactor that leaves the checkpoints alone must have.
<1>5. ASSUME UNCHANGED <<mem, table, active, agent, ingestQ, ingest>>,
             reactQ' \in Seq(Work), refs' \subseteq Nat, job' \in Jobs,
             UNCHANGED <<diffs, reverts>>, faults' \in 0..MaxFaults, broken' \in BOOLEAN
      PROVE  (TypeOK /\ WorkOK)'
  BY <1>5, WorkIsInput DEF TypeOK, WorkOK, Jobs
<1>6. /\ reactQ \in Seq(Work) /\ refs \subseteq Nat /\ job \in Jobs
      /\ faults \in 0..MaxFaults /\ broken \in BOOLEAN
      /\ mem \in [Turns -> Checkpoint] /\ table \in [Turns -> Checkpoint]
  BY DEF TypeOK, WorkOK, Jobs
<1>7. CASE SecureBaseline
  <2>1. refs' \subseteq Nat
    BY <1>6, <1>7, CountsType DEF SecureBaseline
  <2> QED
    BY <1>1, <1>5, <1>6, <1>7, <2>1 DEF SecureBaseline, budgets
<1>8. CASE CaptureCompleted
  <2> DEFINE e == Head(reactQ)
  <2>1. e.turn \in Turns /\ e.cp.status \in {"ready", "missing"} /\ reactQ' \in Seq(Work)
    BY <1>1, <1>8 DEF CaptureCompleted, Work
  <2>2. mem[e.turn].count \in Nat /\ \A n \in Counts(mem) : n + 1 \in Nat
    <3>1. mem[e.turn] \in Checkpoint
      BY <1>6, <2>1
    <3>2. Counts(mem) \subseteq Nat
      BY <1>6, CountsType
    <3> QED
      BY <3>1, <3>2 DEF Checkpoint
  <2>3. job' \in Jobs
    BY <1>4, <1>6, <1>8, <2>1, <2>2 DEF CaptureCompleted
  <2> QED
    BY <1>5, <1>6, <1>8, <2>1, <2>3 DEF CaptureCompleted, budgets
<1>9. CASE CapturePlaceholder
  <2> DEFINE e == Head(reactQ)
  <2>1. e.turn \in Turns /\ e.cp.count \in Nat /\ reactQ' \in Seq(Work)
    BY <1>1, <1>9 DEF CapturePlaceholder, Work
  <2>2. job' \in Jobs
    BY <1>4, <1>6, <1>9, <2>1 DEF CapturePlaceholder
  <2> QED
    BY <1>5, <1>6, <1>9, <2>1, <2>2 DEF CapturePlaceholder, budgets
<1>10. CASE WriteRef
  <2>1. job.cp.count \in Nat
    BY DEF TypeOK, Checkpoint
  <2> QED
    BY <1>3, <1>5, <1>6, <1>10, <2>1 DEF WriteRef, budgets
<1>11. CASE DispatchCapture
  <2>1. job.turn \in Turns /\ job.cp \in Checkpoint /\ DispatchDiff(job.turn, job.cp)
    BY <1>11 DEF DispatchCapture, TypeOK, CaptureOK
  <2>2. /\ mem' \in [Turns -> Checkpoint] /\ table' \in [Turns -> Checkpoint]
        /\ reactQ' \in Seq(Work)
    BY <2>1, DispatchDiffType
  <2> QED
    BY <1>2, <1>11, <2>2, WorkIsInput DEF DispatchCapture, TypeOK, WorkOK, budgets, Jobs
<1>12. CASE BeginRevert
  <2> DEFINE n == Head(reactQ).cp.count
  <2>1. n \in Nat /\ reactQ' \in Seq(Work)
    BY <1>1, <1>12 DEF BeginRevert
  <2>2. Stale(n) \subseteq Nat
    BY <1>6 DEF Stale, Checkpoint
  <2>3. [IdleJob EXCEPT !.step = "delete", !.stale = Stale(n),
                       !.cp = [NoCheckpoint EXCEPT !.count = n]] \in Jobs
    <3>1. [NoCheckpoint EXCEPT !.count = n] \in Checkpoint
      BY <2>1 DEF NoCheckpoint, Checkpoint
    <3> QED
      BY <2>2, <3>1, <1>2 DEF Jobs, IdleJob
  <2> QED
    BY <1>5, <1>6, <1>12, <2>1, <2>3 DEF BeginRevert, budgets
<1>13. CASE DeleteStale
  BY <1>3, <1>5, <1>6, <1>13 DEF DeleteStale, budgets
<1>14. CASE CommitRevert
  <2>1. mem' \in [Turns -> Checkpoint] /\ table' \in [Turns -> Checkpoint]
    <3>1. job.cp.count \in Nat
      BY DEF TypeOK, Checkpoint
    <3> QED
      BY <1>6, <1>14, <3>1, RevertLemma DEF CommitRevert
  <2> QED
    BY <1>2, <1>14, <2>1, WorkIsInput DEF CommitRevert, TypeOK, WorkOK, budgets, Jobs
<1>15. CASE ReactFails
  <2>1. refs' \subseteq Nat
    BY <1>6, <1>15 DEF ReactFails, PartlyDeleted
  <2>2. faults' \in 0..MaxFaults
    BY <1>6, <1>15 DEF ReactFails, Fail
  <2> QED
    BY <1>2, <1>5, <1>6, <1>15, <2>1, <2>2 DEF ReactFails
<1>16. CASE SecureBaselineFails
  <2>1. faults' \in 0..MaxFaults
    BY <1>6, <1>16 DEF SecureBaselineFails, Fail
  <2> QED
    BY <1>1, <1>5, <1>6, <1>16, <2>1 DEF SecureBaselineFails
<1> QED
  BY <1>7, <1>8, <1>9, <1>10, <1>11, <1>12, <1>13, <1>14, <1>15, <1>16 DEF Reactor

LEMMA RestartType == TypeOK /\ WorkOK /\ Restart => (TypeOK /\ WorkOK)'
<1> SUFFICES ASSUME TypeOK, WorkOK, Restart
             PROVE  (TypeOK /\ WorkOK)'
  OBVIOUS
<1>1. refs' \subseteq Nat
  BY DEF Restart, PartlyDeleted, TypeOK
<1>2. faults' \in 0..MaxFaults
  BY CheckpointConstants DEF Restart, Fail, TypeOK
<1>3. job' \in [step : {"idle", "capture", "dispatch", "delete", "commit"},
               turn : Turns \cup {NoTurn}, cp : Checkpoint,
               from : {"none", "completion", "placeholder"}, stale : SUBSET Nat]
  BY NoCheckpointType DEF Restart, IdleJob
<1>4. /\ ingest' \in [step : {"idle", "announce"}, turn : Turns \cup {NoTurn}, count : Nat]
      /\ ingest'.step # "announce"
      /\ ingestQ' \in Seq(Work) /\ reactQ' \in Seq(Work)
  BY DEF Restart, IdleIngest
<1>5. agent' \in [running : Turns \cup {NoTurn}, begun : 0..MaxTurns, requested : BOOLEAN]
  BY DEF Restart, TypeOK
<1> QED
  BY <1>1, <1>2, <1>3, <1>4, <1>5, WorkIsInput DEF Restart, TypeOK, WorkOK

LEMMA TypeStep == TypeOK /\ WorkOK /\ CaptureOK /\ [Next]_vars => (TypeOK /\ WorkOK)'
<1>1. ASSUME TypeOK, WorkOK, UNCHANGED vars
      PROVE  (TypeOK /\ WorkOK)'
  BY <1>1 DEF TypeOK, WorkOK, vars, workers, budgets
<1> QED
  BY <1>1, AgentType, IngestionType, ReactorType, RestartType DEF Next
-----------------------------------------------------------------------------
(* The read model and the table.                                           *)

\* The ways in which a step changes either.
LEMMA ThreadStep ==
    ASSUME TypeOK, WorkOK, CaptureOK, [Next]_vars
    PROVE  \/ UNCHANGED <<mem, table>>
           \/ \E t \in Turns, cp \in Checkpoint :
                /\ Announce /\ DispatchDiff(t, cp) /\ cp.status = "missing" /\ cp.ref = "provider"
           \/ /\ DispatchCapture /\ DispatchDiff(job.turn, job.cp)
              /\ job.step = "dispatch" /\ job.turn \in Turns /\ job.cp \in Checkpoint
           \/ /\ CommitRevert /\ job.step = "commit" /\ job.cp.count \in Nat
              /\ mem' = KeepRows(mem, job.cp.count) /\ table' = KeepRows(table, job.cp.count)
           \/ Restart /\ mem' = table /\ table' = table
<1>1. ASSUME Announce
      PROVE  \E t \in Turns, cp \in Checkpoint :
                DispatchDiff(t, cp) /\ cp.status = "missing" /\ cp.ref = "provider"
  <2> DEFINE cp == [status |-> "missing", count |-> ingest.count, ref |-> "provider"]
  <2>1. ingest.turn \in Turns /\ cp \in Checkpoint
    BY <1>1 DEF Announce, TypeOK, WorkOK, Checkpoint
  <2>2. DispatchDiff(ingest.turn, cp)
    BY <1>1 DEF Announce
  <2> QED
    BY <2>1, <2>2
<1>2. ASSUME DispatchCapture
      PROVE  /\ DispatchDiff(job.turn, job.cp) /\ job.step = "dispatch"
             /\ job.turn \in Turns /\ job.cp \in Checkpoint
  BY <1>2 DEF DispatchCapture, TypeOK, CaptureOK
<1>3. ASSUME CommitRevert
      PROVE  /\ job.step = "commit" /\ job.cp.count \in Nat
             /\ mem' = KeepRows(mem, job.cp.count) /\ table' = KeepRows(table, job.cp.count)
  <2>1. job.cp.count \in Nat /\ mem \in [Turns -> Checkpoint]
    BY DEF TypeOK, Checkpoint
  <2> QED
    BY <1>3, <2>1, RevertLemma DEF CommitRevert
<1>4. ASSUME Agent
      PROVE  UNCHANGED <<mem, table>>
  BY <1>4 DEF Agent, RequestTurn, StartTurn, ReportDiff, EndTurn,
                   AbortTurn, RequestRevert
<1>5. ASSUME IngestStarted \/ IngestCompleted \/ IngestDiff \/ IngestFails
      PROVE  UNCHANGED <<mem, table>>
  BY <1>5 DEF IngestStarted, IngestCompleted, IngestDiff, IngestFails
<1>6. ASSUME \/ SecureBaseline \/ CaptureCompleted \/ CapturePlaceholder \/ WriteRef
             \/ BeginRevert \/ DeleteStale \/ ReactFails \/ SecureBaselineFails
      PROVE  UNCHANGED <<mem, table>>
  BY <1>6 DEF SecureBaseline, CaptureCompleted, CapturePlaceholder, WriteRef,
              BeginRevert, DeleteStale, ReactFails, SecureBaselineFails
<1>7. ASSUME Restart
      PROVE  mem' = table /\ table' = table
  BY <1>7 DEF Restart
<1>8. CASE UNCHANGED vars
  BY <1>8 DEF vars
<1>9. CASE Next
  BY <1>1, <1>2, <1>3, <1>4, <1>5, <1>6, <1>7, <1>9 DEF Next, Ingestion, Reactor
<1> QED
  BY <1>8, <1>9

\* What a dispatched diff does to the two, turn by turn.
LEMMA DispatchDiffLemma ==
    ASSUME TypeOK, NEW t \in Turns, NEW cp \in Checkpoint, DispatchDiff(t, cp)
    PROVE  /\ mem'[t] \in {mem[t], cp} /\ table'[t] = cp
           /\ ~Real(mem[t]) \/ cp.status # "missing" => mem'[t] = cp
           /\ Real(mem[t]) /\ cp.status = "missing" => mem'[t] = mem[t]
           /\ \A u \in Turns : u # t =>
                /\ mem'[u] = mem[u]
                /\ \/ table'[u] = NoCheckpoint
                   \/ table'[u] = table[u] /\ ~(Present(table[u]) /\ table[u].count = cp.count)
<1>1. table \in [Turns -> Checkpoint] /\ mem \in [Turns -> Checkpoint]
  BY DEF TypeOK
<1>2. table' = UpsertDiff(table, t, cp) /\ mem' = ProjectDiff(mem, t, cp)
  BY DEF DispatchDiff
<1>3. /\ UpsertDiff(table, t, cp)[t] = cp
      /\ \A u \in Turns : u # t =>
            \/ UpsertDiff(table, t, cp)[u] = NoCheckpoint
            \/ UpsertDiff(table, t, cp)[u] = table[u]
               /\ ~(Present(table[u]) /\ table[u].count = cp.count)
  BY <1>1, UpsertDiffLemma
<1>4. \A u \in Turns : u # t => ProjectDiff(mem, t, cp)[u] = mem[u]
  BY <1>1, ProjectDiffLemma
<1>5. /\ ProjectDiff(mem, t, cp)[t] \in {mem[t], cp}
      /\ ~Real(mem[t]) \/ cp.status # "missing" => ProjectDiff(mem, t, cp)[t] = cp
  BY <1>1, ProjectDiffLemma
<1>6. Real(mem[t]) /\ cp.status = "missing" => ProjectDiff(mem, t, cp)[t] = mem[t]
  BY <1>1, ProjectDiffLemma
<1> QED
  BY <1>2, <1>3, <1>4, <1>5, <1>6

\* A dispatched diff keeps the table's counts unique.
LEMMA UniqueStep ==
    TypeOK /\ WorkOK /\ CaptureOK /\ TableCountsAreUnique /\ [Next]_vars
        => TableCountsAreUnique'
<1> SUFFICES ASSUME TypeOK, WorkOK, CaptureOK, TableCountsAreUnique, [Next]_vars
             PROVE  TableCountsAreUnique'
  OBVIOUS
<1>1. table \in [Turns -> Checkpoint]
  BY DEF TypeOK
<1>2. ASSUME NEW t \in Turns, NEW cp \in Checkpoint, DispatchDiff(t, cp)
      PROVE  TableCountsAreUnique'
  <2>1. ~Present(NoCheckpoint)
    BY DEF Present, NoCheckpoint
  <2>2. /\ table'[t] = cp
        /\ \A u \in Turns : u # t =>
            \/ table'[u] = NoCheckpoint
            \/ table'[u] = table[u] /\ ~(Present(table[u]) /\ table[u].count = cp.count)
    BY <1>2, DispatchDiffLemma
  <2> QED
    BY <2>1, <2>2 DEF TableCountsAreUnique, Present
<1>3. ASSUME NEW n \in Nat, table' = KeepRows(table, n)
      PROVE  TableCountsAreUnique'
  BY <1>1, <1>3, RevertLemma DEF TableCountsAreUnique, Present, NoCheckpoint
<1>4. CASE table' = table
  BY <1>4 DEF TableCountsAreUnique
<1> QED
  BY <1>2, <1>3, <1>4, ThreadStep

\* A capture of the table is written to the read model with it: nothing but a
\* placeholder keeps the projector from folding the event, and the turn of a
\* capture has none.
LEMMA CapturesStep ==
    TypeOK /\ WorkOK /\ CaptureOK /\ TableCapturesAreInMemory /\ [Next]_vars
        => TableCapturesAreInMemory'
<1> SUFFICES ASSUME TypeOK, WorkOK, CaptureOK, TableCapturesAreInMemory, [Next]_vars
             PROVE  TableCapturesAreInMemory'
  OBVIOUS
<1>1. table \in [Turns -> Checkpoint] /\ mem \in [Turns -> Checkpoint]
  BY DEF TypeOK
<1>2. NoCheckpoint.ref # "git"
  BY DEF NoCheckpoint
<1>3. ASSUME NEW t \in Turns, NEW cp \in Checkpoint, DispatchDiff(t, cp),
             cp.ref = "git" => ~Real(mem[t])
      PROVE  TableCapturesAreInMemory'
  <2>1. /\ table'[t] = cp /\ (~Real(mem[t]) => mem'[t] = cp)
        /\ \A u \in Turns : u # t =>
            mem'[u] = mem[u] /\ table'[u] \in {NoCheckpoint, table[u]}
    BY <1>3, DispatchDiffLemma
  <2> QED
    BY <1>2, <1>3, <2>1 DEF TableCapturesAreInMemory
<1>4. ASSUME NEW n \in Nat, mem' = KeepRows(mem, n), table' = KeepRows(table, n)
      PROVE  TableCapturesAreInMemory'
  BY <1>1, <1>2, <1>4, RevertLemma DEF TableCapturesAreInMemory
<1>5. CASE table' = table /\ mem' \in {mem, table}
  BY <1>5 DEF TableCapturesAreInMemory
<1>6. job.step = "dispatch" => ~Real(mem[job.turn])
  BY DEF CaptureOK
<1> QED
  BY <1>3, <1>4, <1>5, <1>6, ThreadStep
-----------------------------------------------------------------------------
(* The reactor's job, the git refs and the captures of the read model.     *)

\* The job of a step that is not the reactor's own stays or ends.
LEMMA JobStep ==
    ASSUME TypeOK, [Next]_vars
    PROVE  \/ UNCHANGED <<job, refs, broken>>
           \/ job' = job /\ broken' = broken /\ SecureBaseline
           \/ CaptureCompleted \/ CapturePlaceholder \/ WriteRef \/ DispatchCapture
           \/ BeginRevert \/ DeleteStale \/ CommitRevert \/ ReactFails \/ Restart
<1>1. CASE UNCHANGED vars
  BY <1>1 DEF vars, workers
<1>2. CASE Agent
  BY <1>2 DEF Agent, RequestTurn, StartTurn, ReportDiff, EndTurn,
                   AbortTurn, RequestRevert
<1>3. CASE Ingestion \/ IngestFails
  BY <1>3 DEF Ingestion, IngestStarted, IngestCompleted, IngestDiff, Announce, IngestFails
<1>4. CASE SecureBaselineFails
  BY <1>4 DEF SecureBaselineFails
<1>5. CASE SecureBaseline
  BY <1>5 DEF SecureBaseline
<1> QED
  BY <1>1, <1>2, <1>3, <1>4, <1>5 DEF Next, Reactor

LEMMA CaptureStep == TypeOK /\ WorkOK /\ CaptureOK /\ [Next]_vars => CaptureOK'
<1> SUFFICES ASSUME TypeOK, WorkOK, CaptureOK, [Next]_vars,
                    job'.step \in {"capture", "dispatch"}
             PROVE  /\ job'.turn \in Turns /\ ~Real(mem'[job'.turn])
                    /\ job'.cp.status \in {"ready", "missing"} /\ job'.cp.ref = "git"
  BY DEF CaptureOK, Real
<1> DEFINE e == Head(reactQ)
<1>1. ASSUME NEW kind, NextReact(kind)
      PROVE  e \in Work /\ e.kind = kind
  BY <1>1, QueueLemma DEF NextReact, WorkOK
<1>2. ASSUME NEW t \in Turns, NEW status \in {"ready", "missing"}, NEW n, NEW from,
             BeginCapture(t, status, n, from)
      PROVE  job'.turn = t /\ job'.cp.status = status /\ job'.cp.ref = "git"
  BY <1>2 DEF BeginCapture, IdleJob
<1>3. CASE job' = job
  <2>1. job.turn \in Turns /\ ~Real(mem[job.turn])
    BY <1>3 DEF CaptureOK
  <2>2. job.cp.status \in {"ready", "missing"} /\ job.cp.ref = "git"
    BY <1>3 DEF CaptureOK
  <2>3. job \in [step : {"idle", "capture", "dispatch", "delete", "commit"},
                turn : Turns \cup {NoTurn}, cp : Checkpoint,
                from : {"none", "completion", "placeholder"}, stale : SUBSET Nat]
    BY DEF TypeOK
  <2>4. ~Real(mem'[job.turn])
    <3>1. CASE UNCHANGED mem
      BY <2>1, <3>1
    <3>2. ASSUME NEW t \in Turns, NEW cp \in Checkpoint, DispatchDiff(t, cp), cp.status = "missing"
          PROVE  ~Real(mem'[job.turn])
      BY <2>1, <3>2, DispatchDiffLemma DEF Real
    <3>3. CASE DispatchCapture \/ CommitRevert \/ Restart
      BY <1>3, <2>1, <3>3 DEF DispatchCapture, CommitRevert, Restart, IdleJob
    <3> QED
      BY <3>1, <3>2, <3>3, ThreadStep
  <2> QED
    BY <1>3, <2>1, <2>2, <2>4
<1>4. CASE CaptureCompleted /\ job' # job
  <2>1. e.turn \in Turns /\ e.cp.status \in {"ready", "missing"}
    BY <1>1, <1>4 DEF CaptureCompleted, Work
  <2>2. ~Real(mem[e.turn]) /\ mem' = mem
    BY <1>4 DEF CaptureCompleted
  <2>3. \E n, from : BeginCapture(e.turn, e.cp.status, n, from)
    BY <1>4 DEF CaptureCompleted
  <2> QED
    BY <1>2, <2>1, <2>2, <2>3
<1>5. CASE CapturePlaceholder /\ job' # job
  <2>1. e.turn \in Turns
    BY <1>1, <1>5 DEF CapturePlaceholder, Work
  <2>2. ~Real(mem[e.turn]) /\ mem' = mem
    BY <1>5 DEF CapturePlaceholder
  <2>3. \E n, from : BeginCapture(e.turn, "ready", n, from)
    BY <1>5 DEF CapturePlaceholder
  <2> QED
    BY <1>2, <2>1, <2>2, <2>3
<1>6. CASE WriteRef
  <2>1. job'.turn = job.turn /\ job'.cp = job.cp /\ mem' = mem
    BY <1>6 DEF WriteRef, TypeOK
  <2> QED
    BY <1>6, <2>1 DEF WriteRef, CaptureOK
<1>7. CASE BeginRevert /\ job' # job
  BY <1>7 DEF BeginRevert, IdleJob
<1>8. CASE DeleteStale
  BY <1>8 DEF DeleteStale, TypeOK
<1>9. CASE DispatchCapture \/ CommitRevert \/ ReactFails \/ Restart
  BY <1>9 DEF DispatchCapture, CommitRevert, ReactFails, Restart, IdleJob
<1> QED
  BY <1>3, <1>4, <1>5, <1>6, <1>7, <1>8, <1>9, JobStep

LEMMA RefsStep ==
    TypeOK /\ WorkOK /\ CaptureOK /\ TableCapturesAreInMemory /\ RefsOK /\ [Next]_vars
        => RefsOK'
<1> SUFFICES ASSUME TypeOK, WorkOK, CaptureOK, TableCapturesAreInMemory, RefsOK, [Next]_vars,
                    ~broken'
             PROVE  /\ \A t \in Turns :
                        mem'[t].ref = "git"
                        /\ (job'.step = "commit" => mem'[t].count <= job'.cp.count)
                            => mem'[t].count \in refs'
                    /\ job'.step = "dispatch" => job'.cp.count \in refs'
                    /\ job'.step = "delete" => \A n \in job'.stale : n > job'.cp.count
  BY DEF RefsOK
<1>1. ~broken
  BY JobStep DEF CaptureCompleted, CapturePlaceholder, WriteRef, DispatchCapture,
                 BeginRevert, DeleteStale, CommitRevert, ReactFails, Restart
<1>2. /\ mem \in [Turns -> Checkpoint]
      /\ \A t \in Turns : mem[t].count \in Nat
      /\ job.cp.count \in Nat /\ job.stale \subseteq Nat
  BY DEF TypeOK, Checkpoint
<1>3. /\ \A t \in Turns : mem[t].ref = "git"
            /\ (job.step = "commit" => mem[t].count <= job.cp.count) => mem[t].count \in refs
      /\ job.step = "dispatch" => job.cp.count \in refs
      /\ job.step = "delete" => \A n \in job.stale : n > job.cp.count
  BY <1>1 DEF RefsOK
\* A capture in the read model is one that was there, or the one dispatched.
<1>4. \A t \in Turns : mem'[t].ref = "git" =>
        \/ mem'[t] = mem[t]
        \/ DispatchCapture /\ t = job.turn /\ mem'[t] = job.cp
  <2> SUFFICES ASSUME NEW t \in Turns, mem'[t].ref = "git", mem'[t] # mem[t]
               PROVE  DispatchCapture /\ t = job.turn /\ mem'[t] = job.cp
    OBVIOUS
  <2>1. ~ UNCHANGED mem
    OBVIOUS
  <2>2. ~ \E u \in Turns, cp \in Checkpoint : DispatchDiff(u, cp) /\ cp.ref = "provider"
    BY DispatchDiffLemma
  <2>3. ASSUME NEW n \in Nat, mem' = KeepRows(mem, n)
        PROVE  FALSE
    BY <1>2, <2>3, RevertLemma DEF NoCheckpoint
  <2>4. mem' # table
    BY DEF TableCapturesAreInMemory
  <2>5. ASSUME DispatchDiff(job.turn, job.cp), job.turn \in Turns, job.cp \in Checkpoint
        PROVE  t = job.turn /\ mem'[t] = job.cp
    BY <2>5, DispatchDiffLemma
  <2> QED
    BY <2>1, <2>2, <2>3, <2>4, <2>5, ThreadStep
<1>5. CASE /\ refs \subseteq refs' /\ job' = job /\ ~DispatchCapture
  BY <1>3, <1>4, <1>5
<1>6. CASE CaptureCompleted \/ CapturePlaceholder
  <2>1. job' = job \/ job'.step = "capture"
    BY <1>6 DEF CaptureCompleted, CapturePlaceholder, BeginCapture, IdleJob
  <2>2. job.step = "idle" /\ UNCHANGED <<mem, refs>>
    BY <1>6 DEF CaptureCompleted, CapturePlaceholder, NextReact
  <2> QED
    BY <1>3, <2>1, <2>2
<1>7. CASE WriteRef
  <2>1. job'.step = "dispatch" /\ job'.cp = job.cp /\ mem' = mem
        /\ job.step = "capture" /\ refs' = refs \cup {job.cp.count}
    BY <1>7 DEF WriteRef, TypeOK
  <2> QED
    BY <1>3, <2>1
<1>8. CASE DispatchCapture
  <2>1. job.step = "dispatch" /\ job'.step = "idle" /\ refs' = refs
    BY <1>8 DEF DispatchCapture, IdleJob
  <2> QED
    BY <1>3, <1>4, <2>1
<1>9. CASE BeginRevert
  <2>1. job.step = "idle" /\ UNCHANGED <<mem, refs>>
    BY <1>9 DEF BeginRevert, NextReact
  <2>2. CASE job' = job
    BY <1>3, <2>1, <2>2
  <2>3. CASE job' # job
    <3>1. PICK n : n = Head(reactQ).cp.count /\
                   job' = [IdleJob EXCEPT !.step = "delete", !.stale = Stale(n),
                                          !.cp = [NoCheckpoint EXCEPT !.count = n]]
      BY <1>9, <2>3 DEF BeginRevert
    <3>2. job'.step = "delete" /\ job'.stale = Stale(n) /\ job'.cp.count = n
      BY <3>1 DEF IdleJob, NoCheckpoint
    <3>3. \A m \in Stale(n) : m > n
      BY DEF Stale
    <3> QED
      BY <1>3, <2>1, <3>2, <3>3
  <2> QED
    BY <2>2, <2>3
<1>10. CASE DeleteStale
  <2>1. /\ job.step = "delete" /\ job'.step = "commit" /\ job'.cp = job.cp
        /\ refs' = refs \ job.stale /\ mem' = mem
    BY <1>10 DEF DeleteStale, TypeOK
  <2> QED
    BY <1>2, <1>3, <2>1
<1>11. CASE CommitRevert
  <2>1. job.step = "commit" /\ job'.step = "idle" /\ refs' = refs /\ ~DispatchCapture
    BY <1>11 DEF CommitRevert, DispatchCapture, IdleJob
  <2>2. \A t \in Turns : mem'[t].ref = "git" => mem[t].count <= job.cp.count
    <3>1. mem' = KeepRows(mem, job.cp.count)
      BY <1>2, <1>11, RevertLemma DEF CommitRevert
    <3> QED
      BY <1>2, <3>1, RevertLemma DEF NoCheckpoint
  <2> QED
    BY <1>3, <1>4, <2>1, <2>2
<1>12. CASE ReactFails \/ Restart
  <2>1. job.step \notin {"delete", "commit"} /\ job'.step = "idle"
    <3>1. broken' = (broken \/ job.step \in {"delete", "commit"})
      BY <1>12 DEF ReactFails, Restart
    <3>2. job' = IdleJob
      BY <1>12 DEF ReactFails, Restart
    <3>3. job.step \notin {"delete", "commit"}
      BY <3>1, Zenon
    <3> QED
      BY <3>2, <3>3 DEF IdleJob
  <2>2. refs' = refs
    BY <1>12, <2>1 DEF ReactFails, Restart, PartlyDeleted
  <2>3. \A t \in Turns : mem'[t].ref = "git" => mem'[t] = mem[t]
    BY <1>12 DEF ReactFails, Restart, TableCapturesAreInMemory
  <2> QED
    BY <1>3, <2>1, <2>2, <2>3
<1>13. SecureBaseline => refs \subseteq refs' /\ ~DispatchCapture
  BY DEF SecureBaseline, DispatchCapture, NextReact
<1>14. UNCHANGED <<job, refs, broken>> => refs \subseteq refs' /\ (~DispatchCapture)
  BY DEF DispatchCapture, IdleJob
<1> QED
  BY <1>5, <1>6, <1>7, <1>8, <1>9, <1>10, <1>11, <1>12, <1>13, <1>14, JobStep
-----------------------------------------------------------------------------
(* The theorems.                                                           *)

LEMMA InvInit == Init => IInv
<1> SUFFICES ASSUME Init
             PROVE  IInv
  OBVIOUS
<1>1. \A t \in Turns : mem[t] = NoCheckpoint /\ table[t] = NoCheckpoint
  BY DEF Init
<1>2. job = IdleJob
  BY DEF Init
<1>3. CaptureOK /\ RefsOK
  BY <1>1, <1>2 DEF CaptureOK, RefsOK, IdleJob, NoCheckpoint
<1>4. TableCountsAreUnique /\ TableCapturesAreInMemory
  BY <1>1 DEF TableCountsAreUnique, TableCapturesAreInMemory, Present, NoCheckpoint
<1> QED
  BY <1>3, <1>4, TypeInit DEF IInv

LEMMA InvStep == IInv /\ [Next]_vars => IInv'
BY TypeStep, CaptureStep, RefsStep, UniqueStep, CapturesStep DEF IInv

THEOREM Invariance == Spec => []IInv
BY InvInit, InvStep, PTL DEF Spec

\* Every variable has its type.
THEOREM TypeCorrect == Spec => []TypeOK
<1>1. IInv => TypeOK
  BY DEF IInv
<1> QED
  BY <1>1, Invariance, PTL

\* No two rows of projection_turns have one checkpoint turn count, so that the
\* UNIQUE constraint never fails the engine's transaction.
THEOREM TableCountsUnique == Spec => []TableCountsAreUnique
<1>1. IInv => TableCountsAreUnique
  BY DEF IInv
<1> QED
  BY <1>1, Invariance, PTL

\* The git ref of a capture exists: RefsOK is what is left of it while a revert
\* is between deleting refs and its event.
THEOREM CapturesRestorable == Spec => []CapturesAreRestorable
<1>1. IInv => CapturesAreRestorable
  BY DEF IInv, RefsOK, CapturesAreRestorable
<1> QED
  BY <1>1, Invariance, PTL

\* A capture a restart loads is the one the read model had.
THEOREM TableCapturesInMemory == Spec => []TableCapturesAreInMemory
<1>1. IInv => TableCapturesAreInMemory
  BY DEF IInv
<1> QED
  BY <1>1, Invariance, PTL

\* A placeholder never replaces a capture in the read model, and neither does
\* another capture: the turn the reactor captures for has none.
THEOREM CapturesKept == Spec => MemoryKeepsCaptures
<1> DEFINE Kept(t) == Real(mem[t]) =>
              \/ mem'[t] = mem[t]
              \/ ~Present(mem'[t]) /\ job.step = "commit"
              \/ faults' # faults /\ mem' = table
<1>1. ASSUME IInv, [Next]_vars, NEW t \in Turns
      PROVE  Kept(t)
  <2> SUFFICES ASSUME Real(mem[t])
               PROVE  \/ mem'[t] = mem[t]
                      \/ ~Present(mem'[t]) /\ job.step = "commit"
                      \/ faults' # faults /\ mem' = table
    OBVIOUS
  <2>1. TypeOK /\ WorkOK /\ CaptureOK
    BY <1>1 DEF IInv
  <2>2. mem \in [Turns -> Checkpoint] /\ faults \in Nat
    BY <2>1, CheckpointConstants DEF TypeOK
  <2>3. ASSUME NEW u \in Turns, NEW cp \in Checkpoint, DispatchDiff(u, cp),
               cp.status = "missing" \/ ~Real(mem[u])
        PROVE  mem'[t] = mem[t]
    BY <2>1, <2>3, DispatchDiffLemma
  <2>4. job.step = "dispatch" => ~Real(mem[job.turn])
    BY <2>1 DEF CaptureOK
  <2>5. ASSUME NEW n \in Nat, mem' = KeepRows(mem, n)
        PROVE  mem'[t] = mem[t] \/ ~Present(mem'[t])
    BY <2>2, <2>5, RevertLemma DEF Present, NoCheckpoint
  <2>6. Restart => faults' # faults
    BY <2>2 DEF Restart, Fail
  <2> QED
    BY <1>1, <2>1, <2>3, <2>4, <2>5, <2>6, ThreadStep
<1>2. IInv /\ [Next]_vars => [\A t \in Turns : Kept(t)]_vars
  BY <1>1
<1> QED
  BY <1>2, Invariance, PTL DEF Spec, MemoryKeepsCaptures
=============================================================================

-------------------------- MODULE AutomationsProofs --------------------------
(***************************************************************************)
(* Theorems about Automations, for any number of automations, requests,    *)
(* threads, edits and faults: the types; that an automation no two jobs     *)
(* worked on together keeps its edits; and that one none of whose runs may  *)
(* have missed another (unsure) runs once per due time and never twice at   *)
(* once.  A step that concerns one automation frames the others (Frame,     *)
(* FrameLemma).                                                             *)
(***************************************************************************)
EXTENDS Automations, TLAPS

\* What a job becomes: it begins a run or an update, or goes on.
Running(a, r, at) == [Idle EXCEPT !.pc = "create", !.auto = a, !.row = r, !.at = at]
Updating(a, r) == [Idle EXCEPT !.pc = "update", !.auto = a, !.row = r]
Going(w, pc, t) == [w EXCEPT !.pc = pc, !.thread = t]

\* What becomes of a thread.
Turned(th, turn, open, repo) == [th EXCEPT !.turn = turn, !.open = open, !.repo = repo]

\* A job that works has an automation.
Assigned == \A j \in Jobs : job[j].pc = "idle" <=> job[j].auto = None
-----------------------------------------------------------------------------
(* Records and the functions of the model.                                 *)

LEMMA Constant == N \in Nat /\ MaxTime \in Nat /\ MaxThreads \in Nat /\ MaxEdits \in Nat
                    /\ MaxFaults \in Nat /\ "tick" \notin Callers
                    /\ \A a \in Automations : a # None /\ a \in 0..N
BY AutomationConstants DEF AutomationConstants, Automations, None

LEMMA NextAtType ==
    ASSUME NEW status, NEW t \in 0..MaxTime
    PROVE  /\ NextAt(status, t) \in -1..MaxTime + 1
           /\ NextAt(status, t) \in {Never, t + 1}
BY Constant DEF NextAt, Never

LEMMA NoRowType == NoRow \in Rows /\ NoRow.status = "none" /\ NoRow.last = None
BY Constant DEF NoRow, Rows, Never, None

LEMMA IdleType == Idle \in Works /\ Idle.pc = "idle" /\ Idle.auto = None
BY NoRowType, Constant DEF Idle, Works, None

LEMMA RunningType ==
    ASSUME NEW a \in Automations, NEW r \in Rows, NEW at \in 0..MaxTime
    PROVE  LET w == Running(a, r, at) IN
           w \in Works /\ w.pc = "create" /\ w.auto = a /\ w.row = r /\ w.at = at
BY IdleType, Constant DEF Running, Idle, Works

LEMMA UpdatingType ==
    ASSUME NEW a \in Automations, NEW r \in Rows
    PROVE  LET w == Updating(a, r) IN
           w \in Works /\ w.pc = "update" /\ w.auto = a /\ w.row = r
BY IdleType, Constant DEF Updating, Idle, Works

LEMMA SaysType ==
    ASSUME NEW r \in Rows
    PROVE  Says(r) \in Told
BY DEF Says, Told, Rows

\* A row with another next time, or another thread.
LEMMA RowLemma ==
    ASSUME NEW r \in Rows, NEW t \in 0..MaxTime, NEW thread \in 0..MaxThreads
    PROVE  LET s == [r EXCEPT !.next = NextAt(r.status, t)]
               q == QueuedRow(r, t, thread) IN
           /\ s \in Rows /\ s.status = r.status /\ s.last = r.last
           /\ s.next \in {Never, t + 1} /\ Says(s) = Says(r)
           /\ q \in Rows /\ q.status = r.status /\ q.last = thread
           /\ q.next \in {Never, t + 1} /\ Says(q) = Says(r)
BY NextAtType DEF Rows, QueuedRow, Says

LEMMA PatchedLemma ==
    ASSUME NEW r \in Rows, NEW patch \in {"pause", "resume", "edit"},
           edits \in 0..MaxEdits, edits < MaxEdits
    PROVE  /\ Patched(r, patch) \in Rows /\ Patched(r, patch).last = r.last
           /\ r.status # "none" => Patched(r, patch).status # "none"
BY Constant DEF Patched, Rows
-----------------------------------------------------------------------------
(* Types.                                                                  *)

LEMMA TypeInit == Init => TypeOK /\ Assigned
<1> SUFFICES ASSUME Init PROVE TypeOK /\ Assigned
  OBVIOUS
<1>1. row \in [Automations -> Rows] /\ job \in [Jobs -> Works] /\ wanted \in [Automations -> Told]
  BY NoRowType, IdleType, SaysType DEF Init
<1>2. threads \in Seq(Threads) /\ Len(threads) = 0
  BY DEF Init
<1> QED
  BY <1>1, <1>2, IdleType, Constant DEF Init, TypeOK, Assigned

\* A job begins a run of a with row r.
LEMMA BeginType ==
    ASSUME TypeOK, Assigned, NEW j \in Jobs, NEW a \in Automations, NEW r \in Rows,
           Begin(j, a, r)
    PROVE  /\ job' \in [Jobs -> Works] /\ Assigned' /\ unsure' \subseteq Automations
           /\ \A k \in Jobs \ {j} : job'[k] = job[k]
           /\ job'[j].pc = "create" /\ job'[j].auto = a /\ job'[j].row = r /\ job'[j].at = now
<1>1. now \in 0..MaxTime
  BY DEF TypeOK
<1>2. \A k \in Jobs \ {j} : job'[k] = job[k]
  BY DEF TypeOK, Begin
<1>3. /\ job'[j] \in Works /\ job'[j].pc = "create" /\ job'[j].auto = a /\ job'[j].row = r
      /\ job'[j].at = now
  <2>1. job' = [job EXCEPT ![j] = Running(a, r, now)]
    BY DEF Begin, Running
  <2>2. job'[j] = Running(a, r, now)
    BY <2>1 DEF TypeOK
  <2> QED
    BY <1>1, <2>2, RunningType
<1>4. job' \in [Jobs -> Works]
  BY <1>2, <1>3 DEF TypeOK, Begin
<1>5. Assigned'
  BY <1>2, <1>3, Constant DEF Assigned
<1>6. unsure' \subseteq Automations
  BY DEF TypeOK, Begin
<1> QED
  BY <1>2, <1>3, <1>4, <1>5, <1>6

\* A job reads a's row to update it.
LEMMA UpdateType ==
    ASSUME TypeOK, Assigned, NEW c \in Callers, NEW a \in Automations,
           NEW patch \in {"pause", "resume", "edit"}, UpdateReads(c, a, patch)
    PROVE  /\ job' \in [Jobs -> Works] /\ Assigned'
           /\ \A k \in Jobs \ {c} : job'[k] = job[k]
           /\ job'[c].pc = "update" /\ job'[c].auto = a
           /\ job'[c].row.last = row[a].last /\ job'[c].row.status # "none"
           /\ job'[c].row.next \in {Never, now + 1}
<1> DEFINE r == Patched(row[a], patch)
           s == [r EXCEPT !.next = NextAt(r.status, now)]
<1>1. c \in Jobs /\ now \in 0..MaxTime /\ row[a] \in Rows /\ row[a].status # "none"
  BY DEF TypeOK, Jobs, UpdateReads, Exists
<1>2. r \in Rows /\ r.last = row[a].last /\ r.status # "none"
  BY <1>1, PatchedLemma DEF TypeOK, UpdateReads
<1>3. /\ s \in Rows /\ s.last = row[a].last /\ s.status # "none"
      /\ s.next \in {Never, now + 1}
  <2> HIDE DEF r
  <2>1. 0 \in 0..MaxThreads
    BY Constant
  <2> QED
    BY <1>1, <1>2, <2>1, RowLemma
<1>4. job' = [job EXCEPT ![c] = Updating(a, s)]
  BY DEF UpdateReads, Updating
<1> HIDE DEF r, s
<1>5. \A k \in Jobs \ {c} : job'[k] = job[k]
  BY <1>1, <1>4 DEF TypeOK
<1>6. job'[c] = Updating(a, s)
  BY <1>1, <1>4 DEF TypeOK
<1>7. /\ job'[c] \in Works /\ job'[c].pc = "update" /\ job'[c].auto = a /\ job'[c].row = s
  BY <1>3, <1>6, UpdatingType
<1>8. job' \in [Jobs -> Works]
  BY <1>4, <1>5, <1>7 DEF TypeOK
<1>9. Assigned'
  BY <1>5, <1>7, Constant DEF Assigned
<1> QED
  BY <1>3, <1>5, <1>7, <1>8, <1>9

\* The requests of the user.
LEMMA TypeRequests ==
    ASSUME TypeOK, Assigned, NEW a \in Automations,
           \/ \E status \in {"active", "paused"} : Create(a, status)
           \/ Delete(a)
           \/ \E c \in Callers : \/ RunNow(c, a)
                               \/ \E patch \in {"pause", "resume", "edit"} : UpdateReads(c, a, patch)
    PROVE  TypeOK' /\ Assigned'
<1> USE Constant
<1>1. ASSUME NEW status \in {"active", "paused"}, Create(a, status) PROVE TypeOK' /\ Assigned'
  <2>1. [NoRow EXCEPT !.status = status, !.next = NextAt(status, now)] \in Rows
    BY NextAtType, NoRowType DEF TypeOK, Rows
  <2>2. row' \in [Automations -> Rows]
    BY <1>1, <2>1 DEF TypeOK, Create
  <2>3. wanted' \in [Automations -> Told]
    BY <1>1, <2>2, SaysType DEF TypeOK, Create
  <2> QED
    BY <1>1, <2>2, <2>3 DEF TypeOK, Create, Assigned
<1>2. ASSUME Delete(a) PROVE TypeOK' /\ Assigned'
  <2>1. [row[a] EXCEPT !.deleted = TRUE] \in Rows /\ [wanted[a] EXCEPT !.deleted = TRUE] \in Told
    <3>1. row[a] \in Rows /\ wanted[a] \in Told
      BY DEF TypeOK
    <3> QED
      BY <3>1 DEF Rows, Told
  <2>2. row' = [row EXCEPT ![a] = [row[a] EXCEPT !.deleted = TRUE]]
    BY <1>2 DEF Delete
  <2>3. wanted' = [wanted EXCEPT ![a] = [wanted[a] EXCEPT !.deleted = TRUE]]
    BY <1>2 DEF Delete
  <2>4. row' \in [Automations -> Rows] /\ wanted' \in [Automations -> Told]
    BY <2>1, <2>2, <2>3 DEF TypeOK
  <2> QED
    BY <1>2, <2>4 DEF TypeOK, Delete, Reads, Assigned
<1>3. ASSUME NEW c \in Callers, RunNow(c, a) PROVE TypeOK' /\ Assigned'
  <2>1. job' \in [Jobs -> Works] /\ Assigned' /\ unsure' \subseteq Automations
    BY <1>3, BeginType DEF TypeOK, RunNow, Jobs
  <2> QED
    BY <1>3, <2>1 DEF TypeOK, RunNow, Reads
<1>4. ASSUME NEW c \in Callers, NEW patch \in {"pause", "resume", "edit"}, UpdateReads(c, a, patch)
      PROVE  TypeOK' /\ Assigned'
  <2>1. job' \in [Jobs -> Works] /\ Assigned'
    BY <1>4, UpdateType
  <2> QED
    BY <1>4, <2>1 DEF TypeOK, UpdateReads, Reads
<1> QED
  BY <1>1, <1>2, <1>3, <1>4

\* The scheduler.
LEMMA TypeTick ==
    ASSUME TypeOK, Assigned, Tick
    PROVE  TypeOK' /\ Assigned'
<1> USE Constant
<1>1. ASSUME TickLists PROVE TypeOK' /\ Assigned'
  BY <1>1 DEF TypeOK, TickLists, Reads, Assigned
<1>2. ASSUME TickTakes PROVE TypeOK' /\ Assigned'
  <2>1. PICK d \in todo : /\ todo' = todo \ {d}
                          /\ \/ Active(d.row.last) /\ UNCHANGED <<job, unsure>>
                             \/ ~Active(d.row.last) /\ Begin("tick", d.auto, d.row)
    BY <1>2 DEF TickTakes
  <2>2. "tick" \in Jobs /\ d.auto \in Automations /\ d.row \in Rows
    BY <2>1 DEF Jobs, TypeOK
  <2>3. job' \in [Jobs -> Works] /\ Assigned' /\ unsure' \subseteq Automations
    BY <2>1, <2>2, BeginType DEF TypeOK, Assigned
  <2> QED
    BY <1>2, <2>1, <2>3 DEF TypeOK, TickTakes
<1> QED
  BY <1>1, <1>2 DEF Tick

\* A job that works goes on with the automation, the row and the time it began with.
LEMMA JobGoesOn ==
    ASSUME TypeOK, Assigned, NEW j \in Jobs, NEW pc \in {"start", "queued", "failed"},
           NEW thread \in 0..MaxThreads, job[j].pc # "idle",
           job' = [job EXCEPT ![j] = Going(job[j], pc, thread)]
    PROVE  /\ job' \in [Jobs -> Works] /\ Assigned'
           /\ \A k \in Jobs \ {j} : job'[k] = job[k]
           /\ job'[j].auto = job[j].auto /\ job'[j].row = job[j].row /\ job'[j].at = job[j].at
           /\ job'[j].pc = pc /\ job'[j].thread = thread
<1>1. job[j] \in Works /\ job[j].auto # None
  BY DEF TypeOK, Assigned
<1>2. job'[j] = Going(job[j], pc, thread) /\ \A k \in Jobs \ {j} : job'[k] = job[k]
  BY DEF TypeOK
<1>3. /\ job'[j] \in Works /\ job'[j].auto = job[j].auto /\ job'[j].row = job[j].row
      /\ job'[j].at = job[j].at /\ job'[j].pc = pc /\ job'[j].thread = thread
  <2>1. job'[j] = Going(job[j], pc, thread)
    BY <1>2
  <2>2. PICK v \in Works : v = job[j]
    BY <1>1
  <2>3. LET w == Going(v, pc, thread) IN
        /\ w \in Works /\ w.auto = v.auto /\ w.row = v.row /\ w.at = v.at
        /\ w.pc = pc /\ w.thread = thread
    BY DEF Going, Works
  <2> QED
    BY <2>1, <2>2, <2>3
<1>4. job' \in [Jobs -> Works]
  BY <1>2, <1>3 DEF TypeOK
<1> QED
  BY <1>1, <1>2, <1>3, <1>4 DEF Assigned

\* The four steps that do, but for those that end it.
LEMMA GoesOn ==
    ASSUME TypeOK, Assigned, NEW j \in Jobs
    PROVE  /\ CreateThread(j) =>
                /\ job[j].pc = "create" /\ Len(threads') \in 0..MaxThreads
                /\ Len(threads') = Len(threads) + 1
                /\ job' = [job EXCEPT ![j] = Going(job[j], "start", Len(threads'))]
           /\ StartTurn(j) =>
                /\ job[j].pc = "start"
                /\ job' = [job EXCEPT ![j] = Going(job[j], "queued", job[j].thread)]
           /\ Rejected(j) \/ (WriteFails(j) /\ job[j].pc = "queued") =>
                /\ job[j].pc # "idle"
                /\ job' = [job EXCEPT ![j] = Going(job[j], "failed", job[j].thread)]
           /\ job[j].thread \in 0..MaxThreads
<1>1. job[j] \in Works
  BY DEF TypeOK
<1>2. /\ job[j].thread \in 0..MaxThreads
      /\ \A pc : [job[j] EXCEPT !.pc = pc] = Going(job[j], pc, job[j].thread)
  BY <1>1 DEF Works, Going
<1>3. CreateThread(j) => Len(threads') \in 0..MaxThreads /\ Len(threads') = Len(threads) + 1
  BY Constant DEF CreateThread, TypeOK
<1>4. CreateThread(j) => /\ job[j].pc = "create"
                         /\ job' = [job EXCEPT ![j] = Going(job[j], "start", Len(threads'))]
  BY <1>1 DEF CreateThread, Going
<1>5. StartTurn(j) => job' = [job EXCEPT ![j] = Going(job[j], "queued", job[j].thread)]
  BY <1>2 DEF StartTurn
<1>6. Rejected(j) \/ (WriteFails(j) /\ job[j].pc = "queued") =>
        job' = [job EXCEPT ![j] = Going(job[j], "failed", job[j].thread)]
  BY <1>2 DEF Rejected, WriteFails
<1> QED
  BY <1>2, <1>3, <1>4, <1>5, <1>6 DEF StartTurn, Rejected

LEMMA JobEnds ==
    ASSUME TypeOK, Assigned, NEW j \in Jobs, job' = [job EXCEPT ![j] = Idle]
    PROVE  /\ job' \in [Jobs -> Works] /\ Assigned' /\ job'[j] = Idle
           /\ \A k \in Jobs \ {j} : job'[k] = job[k]
<1>1. job'[j] = Idle /\ \A k \in Jobs \ {j} : job'[k] = job[k]
  BY DEF TypeOK
<1>2. job' \in [Jobs -> Works]
  BY <1>1, IdleType DEF TypeOK
<1> QED
  BY <1>1, <1>2, IdleType DEF Assigned

\* A thread's turn goes on; its automation and the time it was due stay.
LEMMA TurnedType ==
    ASSUME TypeOK, NEW t \in DOMAIN threads, NEW turn \in {"queued", "running", "done"},
           NEW open \in BOOLEAN, NEW repo \in BOOLEAN,
           threads' = [threads EXCEPT ![t] = Turned(@, turn, open, repo)]
    PROVE  /\ threads' \in Seq(Threads) /\ DOMAIN threads' = DOMAIN threads
           /\ Len(threads') = Len(threads) /\ threads'[t].turn = turn
           /\ \A u \in DOMAIN threads : /\ threads'[u].auto = threads[u].auto
                                        /\ threads'[u].due = threads[u].due
           /\ \A u \in DOMAIN threads \ {t} : threads'[u] = threads[u]
<1> DEFINE th == Turned(threads[t], turn, open, repo)
<1>1. threads \in Seq(Threads) /\ threads[t] \in Threads
  BY DEF TypeOK
<1>2. th \in Threads /\ th.turn = turn /\ th.auto = threads[t].auto /\ th.due = threads[t].due
  BY <1>1 DEF Turned, Threads
<1>3. threads' = [threads EXCEPT ![t] = th]
  OBVIOUS
<1> HIDE DEF th
<1>4. threads' \in Seq(Threads) /\ DOMAIN threads' = DOMAIN threads /\ Len(threads') = Len(threads)
  BY <1>1, <1>2, <1>3
<1>5. threads'[t] = th /\ \A u \in DOMAIN threads \ {t} : threads'[u] = threads[u]
  BY <1>1, <1>3
<1> QED
  BY <1>2, <1>4, <1>5

\* The steps of a run, and the write of an update.
LEMMA TypeJob ==
    ASSUME TypeOK, Assigned, NEW j \in Jobs, Run(j) \/ Rejected(j) \/ WriteFails(j) \/ UpdateWrites(j)
    PROVE  TypeOK' /\ Assigned'
<1> USE Constant
<1>0. /\ job[j] \in Works /\ job[j].row \in Rows /\ job[j].at \in 0..MaxTime
      /\ job[j].thread \in 0..MaxThreads
      /\ job[j].pc # "idle" => job[j].auto \in Automations
  BY DEF TypeOK, Works, Assigned, Automations, None
<1>1. CASE CreateThread(j)
  <2> DEFINE t == [auto |-> job[j].auto, turn |-> "none", open |-> FALSE,
                   repo |-> job[j].auto \in Repositories,
                   due |-> IF j = "tick" THEN job[j].row.next ELSE Never]
  <2>1. t \in Threads
    <3>1. job[j].auto \in Automations /\ job[j].row.next \in -1..MaxTime + 1
      BY <1>0, <1>1 DEF CreateThread, Rows
    <3>2. (IF j = "tick" THEN job[j].row.next ELSE Never) \in -1..MaxTime + 1
      BY <3>1 DEF Never
    <3> QED
      BY <3>1, <3>2 DEF Threads
  <2>2. threads' = Append(threads, t)
    BY <1>1 DEF CreateThread
  <2>3. threads' \in Seq(Threads) /\ Len(threads') <= MaxThreads
    <3> HIDE DEF t
    <3> QED
      BY <1>1, <2>1, <2>2 DEF CreateThread, TypeOK
  <2>4. job' \in [Jobs -> Works] /\ Assigned'
    BY <1>1, GoesOn, JobGoesOn
  <2> QED
    BY <1>1, <2>3, <2>4 DEF CreateThread, TypeOK
<1>2. CASE StartTurn(j)
  <2>1. threads' \in Seq(Threads) /\ Len(threads') = Len(threads)
    <3> DEFINE th == [threads[job[j].thread] EXCEPT !.turn = "queued"]
    <3>1. threads' = [threads EXCEPT ![job[j].thread] = th] /\ threads \in Seq(Threads)
      BY <1>2 DEF StartTurn, TypeOK
    <3>2. job[j].thread \in DOMAIN threads => th \in Threads
      <4>1. job[j].thread \in DOMAIN threads => threads[job[j].thread] \in Threads
        BY <3>1
      <4> QED
        BY <4>1 DEF Threads
    <3> HIDE DEF th
    <3>3. CASE job[j].thread \in DOMAIN threads
      BY <3>1, <3>2, <3>3
    <3>4. CASE job[j].thread \notin DOMAIN threads
      <4>1. threads' = threads
        BY <3>1, <3>4
      <4> QED
        BY <3>1, <4>1
    <3> QED
      BY <3>3, <3>4
  <2>2. job' \in [Jobs -> Works] /\ Assigned'
    BY <1>2, GoesOn, JobGoesOn
  <2> QED
    BY <1>2, <2>1, <2>2 DEF StartTurn, TypeOK
<1>3. CASE Rejected(j) \/ (WriteFails(j) /\ job[j].pc = "queued")
  <2>1. job' \in [Jobs -> Works] /\ Assigned'
    BY <1>3, GoesOn, JobGoesOn
  <2>2. CASE Rejected(j)
    BY <2>1, <2>2 DEF Rejected, TypeOK
  <2>3. CASE WriteFails(j) /\ job[j].pc = "queued"
    <3>1. job[j].auto \in Automations
      BY <1>0, <2>3
    <3> QED
      BY <2>1, <2>3, <3>1 DEF WriteFails, TypeOK
  <2> QED
    BY <1>3, <2>2, <2>3
<1>4. CASE WriteFails(j) /\ job[j].pc # "queued"
  <2>1. job' \in [Jobs -> Works] /\ Assigned'
    BY <1>4, JobEnds DEF WriteFails, Aborted
  <2> QED
    BY <1>4, <2>1 DEF WriteFails, TypeOK
<1>5. CASE MarkQueued(j)
  <2>1. job' \in [Jobs -> Works] /\ Assigned'
    BY <1>5, JobEnds DEF MarkQueued
  <2>2. row' \in [Automations -> Rows]
    <3>1. QueuedRow(job[j].row, job[j].at, job[j].thread) \in Rows
      BY <1>0, RowLemma
    <3> QED
      BY <1>5, <3>1 DEF MarkQueued, TypeOK
  <2> QED
    BY <1>5, <2>1, <2>2 DEF MarkQueued, TypeOK
<1>6. CASE MarkFailed(j)
  <2>1. job' \in [Jobs -> Works] /\ Assigned'
    BY <1>6, JobEnds DEF MarkFailed
  <2>2. row' \in [Automations -> Rows]
    <3>1. [job[j].row EXCEPT !.next = NextAt(job[j].row.status, job[j].at)] \in Rows
      BY <1>0, RowLemma
    <3> QED
      BY <1>6, <3>1 DEF MarkFailed, TypeOK
  <2> QED
    BY <1>6, <2>1, <2>2 DEF MarkFailed, TypeOK
<1>7. CASE UpdateWrites(j)
  <2>1. job' \in [Jobs -> Works] /\ Assigned'
    BY <1>7, JobEnds DEF UpdateWrites
  <2>2. row' \in [Automations -> Rows] /\ wanted' \in [Automations -> Told]
    BY <1>0, <1>7, SaysType DEF UpdateWrites, TypeOK
  <2>3. unsure' \subseteq Automations
    BY <1>0, <1>7 DEF UpdateWrites, TypeOK
  <2> QED
    BY <1>7, <2>1, <2>2, <2>3 DEF UpdateWrites, TypeOK
<1> QED
  <2>1. CASE Run(j)
    BY <1>1, <1>2, <1>5, <1>6, <2>1 DEF Run
  <2>2. CASE Rejected(j)
    BY <1>3, <2>2
  <2>3. CASE WriteFails(j)
    BY <1>3, <1>4, <2>3
  <2>4. CASE UpdateWrites(j)
    BY <1>7, <2>4
  <2> QED
    BY <2>1, <2>2, <2>3, <2>4

\* What becomes of a thread, by its own steps.
LEMMA ThreadSteps ==
    ASSUME TypeOK, NEW t \in DOMAIN threads, Turn(t) \/ Capture(t) \/ CaptureFails(t)
    PROVE  /\ threads' \in Seq(Threads) /\ DOMAIN threads' = DOMAIN threads
           /\ Len(threads') = Len(threads) /\ threads'[t].turn \in {"running", "done"}
           /\ \A u \in DOMAIN threads : /\ threads'[u].auto = threads[u].auto
                                        /\ threads'[u].due = threads[u].due
           /\ \A u \in DOMAIN threads \ {t} : threads'[u] = threads[u]
           /\ threads[t].turn # "none"
           /\ threads'[t].turn = "running" => threads[t].turn = "queued"
           /\ threads[t].turn = "running" => threads'[t].turn = "done"
<1>1. /\ threads[t] \in Threads /\ threads \in Seq(Threads)
      /\ threads[t].open \in BOOLEAN /\ threads[t].repo \in BOOLEAN
  <2>1. threads[t] \in Threads /\ threads \in Seq(Threads)
    BY DEF TypeOK
  <2> QED
    BY <2>1 DEF Threads
<1>2. CASE TurnStarts(t)
  <2>1. threads' = [threads EXCEPT ![t] = Turned(@, "running", TRUE, threads[t].repo)]
    BY <1>1, <1>2 DEF TurnStarts, Turned, Threads
  <2> QED
    BY <1>1, <1>2, <2>1, TurnedType DEF TurnStarts
<1>3. CASE TurnEnds(t)
  <2>1. threads' = [threads EXCEPT ![t] = Turned(@, "done", threads[t].open, threads[t].repo)]
    BY <1>1, <1>3 DEF TurnEnds, Turned, Threads
  <2> QED
    BY <1>1, <1>3, <2>1, TurnedType DEF TurnEnds
<1>4. CASE Capture(t)
  <2>1. threads' = [threads EXCEPT ![t] = Turned(@, "done", FALSE, threads[t].repo)]
    BY <1>1, <1>4 DEF Capture, Turned, Threads
  <2> QED
    BY <1>1, <1>4, <2>1, TurnedType DEF Capture
<1>5. CASE CaptureFails(t)
  <2>1. threads' = [threads EXCEPT ![t] = Turned(@, "done", threads[t].open, FALSE)]
    BY <1>1, <1>5 DEF CaptureFails, Turned, Threads
  <2> QED
    BY <1>1, <1>5, <2>1, TurnedType DEF CaptureFails
<1> QED
  BY <1>2, <1>3, <1>4, <1>5 DEF Turn

\* A crash keeps the threads; those that wait to be run still do.
LEMMA CrashThreads ==
    ASSUME TypeOK, Crash
    PROVE  /\ threads' \in Seq(Threads) /\ Len(threads') = Len(threads)
           /\ DOMAIN threads' = DOMAIN threads
           /\ \A u \in DOMAIN threads :
                /\ threads'[u].auto = threads[u].auto /\ threads'[u].due = threads[u].due
                /\ threads'[u].turn = IF threads[u].turn = "running" THEN "done" ELSE threads[u].turn
<1>1. DOMAIN threads = 1..Len(threads) /\ Len(threads) \in Nat
  BY DEF TypeOK
<1>2. threads' \in [1..Len(threads) -> Threads]
  <2>1. ASSUME NEW u \in 1..Len(threads)
        PROVE  [threads[u] EXCEPT !.turn = IF @ = "running" THEN "done" ELSE @, !.open = FALSE]
                    \in Threads
    <3>1. threads[u] \in Threads
      BY <1>1 DEF TypeOK
    <3> QED
      BY <3>1 DEF Threads
  <2> QED
    BY <1>1, <2>1 DEF Crash
<1>3. threads' \in Seq(Threads) /\ Len(threads') = Len(threads) /\ DOMAIN threads' = DOMAIN threads
  BY <1>1, <1>2
<1>4. \A u \in DOMAIN threads : threads[u] \in Threads
  BY DEF TypeOK
<1> QED
  BY <1>1, <1>3, <1>4 DEF Crash, Threads

LEMMA TypeStep == TypeOK /\ Assigned /\ [Next]_vars => TypeOK' /\ Assigned'
<1> SUFFICES ASSUME TypeOK, Assigned, [Next]_vars PROVE TypeOK' /\ Assigned'
  OBVIOUS
<1> USE Constant
<1>1. CASE \E a \in Automations :
             \/ \E status \in {"active", "paused"} : Create(a, status)
             \/ Delete(a)
             \/ \E c \in Callers :
                 \/ RunNow(c, a)
                 \/ \E patch \in {"pause", "resume", "edit"} : UpdateReads(c, a, patch)
  BY <1>1, TypeRequests
<1>2. CASE Tick
  BY <1>2, TypeTick
<1>3. CASE \/ \E c \in Callers : UpdateWrites(c)
           \/ \E j \in Jobs : Run(j) \/ Rejected(j) \/ WriteFails(j)
  BY <1>3, TypeJob DEF Jobs
<1>4. CASE Clock
  BY <1>4 DEF Clock, TypeOK, Assigned
<1>5. CASE \E t \in DOMAIN threads : Turn(t) \/ Capture(t) \/ CaptureFails(t)
  <2> PICK t \in DOMAIN threads : Turn(t) \/ Capture(t) \/ CaptureFails(t)
    BY <1>5
  <2>1. threads' \in Seq(Threads) /\ Len(threads') = Len(threads)
    BY ThreadSteps
  <2> QED
    BY <2>1 DEF TypeOK, Assigned, Turn, TurnStarts, TurnEnds, Capture, CaptureFails
<1>6. CASE Crash
  <2>1. job' \in [Jobs -> Works] /\ Assigned'
    BY <1>6, IdleType DEF Crash, Assigned
  <2>2. unsure' \subseteq Automations
    <3>1. \A j \in Jobs : job[j].pc = "queued" => job[j].auto \in Automations
      BY DEF TypeOK, Assigned, Works, Automations, None
    <3> QED
      BY <1>6, <3>1 DEF Crash, TypeOK
  <2>3. threads' \in Seq(Threads) /\ Len(threads') <= MaxThreads
    BY <1>6, CrashThreads DEF TypeOK
  <2>4. /\ row' = row /\ now' = now /\ todo' = {} /\ edits' = edits /\ wanted' = wanted
        /\ loose' = loose /\ faults < MaxFaults /\ faults' = faults + 1
    BY <1>6 DEF Crash
  <2>5. faults' \in 0..MaxFaults
    BY <2>4 DEF TypeOK
  <2> QED
    BY <2>1, <2>2, <2>3, <2>4, <2>5 DEF TypeOK
<1>7. CASE UNCHANGED vars
  BY <1>7 DEF vars, TypeOK, Assigned
<1> QED
  BY <1>1, <1>2, <1>3, <1>4, <1>5, <1>6, <1>7 DEF Next

\* Every variable keeps its type: the automations table, the jobs with the row each
\* has read, and the threads of the runs.
THEOREM AutomationsTypeCorrect == Spec => []TypeOK
<1>1. Spec => [](TypeOK /\ Assigned)
  BY TypeInit, TypeStep, PTL DEF Spec
<1> QED
  BY <1>1, PTL
-----------------------------------------------------------------------------
(* The invariant.                                                          *)

Busy(t) == threads[t].turn \in {"queued", "running"}
Started(t) == threads[t].turn # "none" /\ threads[t].due # Never

\* The turn of the run is on its way and the row does not say so yet.
Pending(a, t) == \E j \in Jobs : job[j].auto = a /\ job[j].pc = "queued" /\ job[j].thread = t

\* A row that somebody has read exists.
Owned ==
    /\ \A j \in Jobs : job[j].pc # "idle" =>
            job[j].row.status # "none" /\ row[job[j].auto].status # "none"
    /\ \A d \in todo : d.row.status # "none" /\ row[d.auto].status # "none"

\* The threads are of the automation whose row, or run, they are.
Placed ==
    /\ \A t \in DOMAIN threads : row[threads[t].auto].status # "none"
    /\ \A j \in Jobs : job[j].pc \in {"start", "queued"} =>
            job[j].thread \in DOMAIN threads /\ threads[job[j].thread].auto = job[j].auto
    /\ \A a \in Automations : row[a].last # None =>
            row[a].last \in DOMAIN threads /\ threads[row[a].last].auto = a
    /\ \A j \in Jobs : job[j].pc # "idle" /\ job[j].row.last # None =>
            job[j].row.last \in DOMAIN threads /\ threads[job[j].row.last].auto = job[j].auto
    /\ \A d \in todo : d.row.last # None =>
            d.row.last \in DOMAIN threads /\ threads[d.row.last].auto = d.auto

\* Nothing was started for a time that has not come.
Timed ==
    /\ \A t \in DOMAIN threads : threads[t].due <= now
    /\ \A d \in todo : d.row.next <= now
    /\ \A j \in Jobs : job[j].at <= now
    /\ \A j \in Jobs : job[j].pc = "start" => threads[job[j].thread].due <= job[j].at
    /\ Runs("tick") => job["tick"].row.next <= job["tick"].at
    /\ job["tick"].pc # "update"

\* The thread of a run that is not noted yet is of no other job and of no row, and before
\* its turn is requested nothing happened in it.
Fresh ==
    /\ \A j \in Jobs : job[j].pc = "start" => threads[job[j].thread].turn = "none"
    /\ \A j, k \in Jobs : /\ job[j].pc \in {"start", "queued"} /\ job[k].pc \in {"start", "queued"}
                          /\ job[j].thread = job[k].thread
                          => j = k
    /\ \A j \in Jobs : job[j].pc \in {"start", "queued"} =>
            /\ \A a \in Automations : row[a].last # job[j].thread
            /\ \A k \in Jobs : job[k].pc # "idle" => job[k].row.last # job[j].thread
            /\ \A d \in todo : d.row.last # job[j].thread

\* One holder at a time; what it has read is what the row says.
Single(a) ==
    /\ \A j, k \in Jobs : job[j].auto = a /\ job[k].auto = a => j = k
    /\ \A d, e \in todo : d.auto = a /\ e.auto = a => d = e
    /\ \A j \in Jobs, d \in todo : job[j].auto = a => d.auto # a

Kept(a) ==
    /\ Says(row[a]) = wanted[a]
    /\ \A d \in todo : d.auto = a => d.row = row[a]
    /\ \A j \in Jobs : job[j].auto = a /\ Runs(j) => job[j].row = row[a]

\* One run at a time, and the row names the last one as when the run read it.
One(a) ==
    /\ \A j, k \in Jobs : job[j].auto = a /\ Runs(j) /\ job[k].auto = a /\ Runs(k) => j = k
    /\ \A j \in Jobs : job[j].auto = a /\ Runs(j) => job[j].row.last = row[a].last

\* A turn under way is the last the row knows, or the one it will know; and then
\* the last is over.
Apart(a) ==
    /\ \A t \in RunsOf(a) : Busy(t) => t = row[a].last \/ Pending(a, t)
    /\ \A j \in Jobs : job[j].auto = a /\ Runs(j) /\ row[a].last # None => ~Busy(row[a].last)

\* The times that started a turn the row knows of, and a next time after them.
Noted(a) == {threads[t].due : t \in {u \in RunsOf(a) : Started(u) /\ ~Pending(a, u)}}
Follows(a, next) == next = Never \/ \A due \in Noted(a) : due < next

\* Whatever may become the row's next time follows those that started a turn.
DueOnce(a) ==
    /\ Follows(a, row[a].next)
    /\ \A d \in todo : d.auto = a /\ d.row.last = row[a].last => Follows(a, d.row.next)
    /\ \A j \in Jobs : job[j].auto = a /\ (job[j].pc = "update" => job[j].row.last = row[a].last)
            => Follows(a, job[j].row.next)
    /\ \A j \in Jobs : job[j].auto = a /\ job[j].pc = "start" =>
            threads[job[j].thread].due \in {Never, job[j].row.next}
    /\ \A j \in Jobs : job[j].auto = a /\ Runs(j) =>
            \A t \in RunsOf(a) : Started(t) => threads[t].due <= job[j].at
    /\ \A t, u \in RunsOf(a) : Started(t) /\ Started(u) /\ threads[t].due = threads[u].due => t = u

Sure(a) == One(a) /\ Apart(a) /\ DueOnce(a)

Own(a) ==
    /\ a \notin loose => Single(a) /\ Kept(a)
    /\ a \notin unsure => Sure(a)

IInv ==
    /\ TypeOK /\ Assigned /\ Owned /\ Placed /\ Timed /\ Fresh
    /\ \A a \in Automations : Own(a)

LEMMA InitInv == Init => IInv
<1> SUFFICES ASSUME Init PROVE IInv
  OBVIOUS
<1> USE Constant
<1>1. TypeOK /\ Assigned
  BY TypeInit
<1>2. DOMAIN threads = {} /\ todo = {} /\ \A j \in Jobs : job[j] = Idle
  BY DEF Init
<1>3. Owned /\ Placed
  BY <1>1, <1>2, IdleType, NoRowType DEF Init, Owned, Placed
<1>4. Timed
  <2>1. Idle.at = 0 /\ Idle.pc = "idle" /\ now = 0 /\ "tick" \in Jobs
    BY DEF Idle, Init, Jobs
  <2> QED
    BY <1>2, <2>1 DEF Timed, Runs
<1>5. Fresh
  BY <1>2, IdleType DEF Fresh
<1>6. ASSUME NEW a \in Automations PROVE Own(a)
  <2>1. row[a] = NoRow /\ NoRow.next = Never /\ RunsOf(a) = {} /\ Noted(a) = {}
    BY <1>2 DEF Init, NoRow, RunsOf, Noted
  <2>2. \A j \in Jobs : job[j].auto # a
    BY <1>2, IdleType
  <2> QED
    BY <1>2, <2>1, <2>2 DEF Init, Own, Sure, Single, Kept, One, Apart, DueOnce, Follows
<1> QED
  BY <1>1, <1>3, <1>4, <1>5, <1>6 DEF IInv

\* Nothing of a changes, but that a holder lets go of it, or a thread's turn goes on.
Frame(a) ==
    /\ row'[a] = row[a] /\ wanted'[a] = wanted[a]
    /\ \A k \in Jobs : job'[k].auto = a => job'[k] = job[k]
    /\ \A k \in Jobs : job[k].auto = a /\ job[k].pc = "queued" => job'[k] = job[k] \/ a \in unsure'
    /\ \A d \in todo' : d.auto = a => d \in todo
    /\ loose \subseteq loose' /\ unsure \subseteq unsure'
    /\ \A t \in DOMAIN threads : /\ t \in DOMAIN threads'
                                 /\ threads'[t].auto = threads[t].auto
                                 /\ threads'[t].due = threads[t].due
    /\ \A t \in DOMAIN threads' :
         threads'[t].auto = a => \/ t \notin DOMAIN threads /\ threads'[t].turn = "none"
                                 \/ /\ t \in DOMAIN threads
                                    /\ threads'[t].turn = "none" <=> threads[t].turn = "none"
                                    /\ Busy(t)' => Busy(t)

LEMMA FrameLemma ==
    ASSUME IInv, NEW a \in Automations, Frame(a)
    PROVE  Own(a)'
<1>1. ASSUME a \notin loose' PROVE Single(a)' /\ Kept(a)'
  <2>1. Single(a) /\ Kept(a)
    BY <1>1 DEF Frame, IInv, Own
  <2>2. Single(a)'
    BY <2>1 DEF Frame, Single
  <2>3. Kept(a)'
    BY <2>1 DEF Frame, Kept, Runs
  <2> QED
    BY <2>2, <2>3
<1>2. ASSUME a \notin unsure' PROVE Sure(a)'
  <2>1. One(a) /\ Apart(a) /\ DueOnce(a) /\ row'[a] = row[a]
    BY <1>2 DEF Frame, IInv, Own, Sure
  <2>2. /\ \A t : Pending(a, t) => Pending(a, t)'
        /\ \A t \in RunsOf(a)' : Busy(t)' \/ Started(t)' => t \in RunsOf(a)
        /\ \A t \in RunsOf(a)' : Busy(t)' => Busy(t)
        /\ \A t \in RunsOf(a)' : Started(t)' => Started(t) /\ threads'[t].due = threads[t].due
    BY <1>2 DEF Frame, Pending, RunsOf, Busy, Started
  <2>3. One(a)'
    BY <2>1 DEF Frame, One, Runs
  <2>4. Apart(a)'
    <3>1. \A t \in RunsOf(a)' : Busy(t)' => t = row'[a].last \/ Pending(a, t)'
      BY <2>1, <2>2 DEF Apart
    <3>2. ASSUME NEW j \in Jobs, job'[j].auto = a, Runs(j)', row'[a].last # None
          PROVE  threads'[row'[a].last].turn \notin {"queued", "running"}
      <4>1. job'[j] = job[j] /\ Runs(j) /\ row'[a].last = row[a].last
        BY <2>1, <3>2 DEF Frame, Runs
      <4>2. threads[row[a].last].turn \notin {"queued", "running"} /\ row[a].last \in DOMAIN threads /\ threads[row[a].last].auto = a
        BY <2>1, <3>2, <4>1 DEF Apart, Busy, IInv, Placed
      <4>3. row[a].last \in DOMAIN threads' /\ threads'[row[a].last].auto = a
        BY <4>2 DEF Frame
      <4> QED
        BY <4>1, <4>2, <4>3 DEF Frame, Busy
    <3> QED
      BY <3>1, <3>2 DEF Apart, Busy
  <2>5. Noted(a)' \subseteq Noted(a)
    BY <2>2 DEF Noted
  <2>6. DueOnce(a)'
    <3>1. /\ \A j \in Jobs : job'[j].auto = a => job'[j] = job[j]
          /\ \A d \in todo' : d.auto = a => d \in todo
      BY DEF Frame
    <3>2. ASSUME NEW j \in Jobs, job[j].auto = a, job[j].pc = "start"
          PROVE  threads'[job[j].thread].due = threads[job[j].thread].due
      BY <3>2 DEF Frame, IInv, Placed
    <3> QED
      BY <2>1, <2>2, <2>5, <3>1, <3>2 DEF DueOnce, Follows, Runs
  <2> QED
    BY <2>3, <2>4, <2>6 DEF Sure
<1> QED
  BY <1>1, <1>2 DEF Own

\* What the invariant says of all automations together.
Whole == Owned /\ Placed /\ Timed /\ Fresh

LEMMA Numbers ==
    ASSUME TypeOK
    PROVE  /\ now \in Nat /\ now \in 0..MaxTime
           /\ \A t \in DOMAIN threads : threads[t] \in Threads /\ threads[t].due \in Int
           /\ \A j \in Jobs : /\ job[j] \in Works /\ job[j].at \in 0..MaxTime
                               /\ job[j].row \in Rows /\ job[j].row.next \in Int
                               /\ job[j].thread \in 0..MaxThreads
           /\ \A d \in todo : /\ d.auto \in Automations /\ d.row \in Rows /\ d.row.next \in Int
                               /\ d = [auto |-> d.auto, row |-> d.row]
           /\ \A a \in Automations : row[a] \in Rows /\ row[a].next \in Int
<1> USE Constant
<1>1. now \in Nat /\ now \in 0..MaxTime
  BY DEF TypeOK
<1>2. \A r \in Rows : r.next \in Int
  BY DEF Rows
<1>3. \A t \in DOMAIN threads : threads[t] \in Threads /\ threads[t].due \in Int
  <2>1. \A t \in DOMAIN threads : threads[t] \in Threads
    BY DEF TypeOK
  <2> QED
    BY <2>1 DEF Threads
<1>4. \A j \in Jobs : /\ job[j] \in Works /\ job[j].at \in 0..MaxTime
                      /\ job[j].row \in Rows /\ job[j].thread \in 0..MaxThreads
  BY DEF TypeOK, Works
<1>5. \A d \in todo : /\ d.auto \in Automations /\ d.row \in Rows
                      /\ d = [auto |-> d.auto, row |-> d.row]
  BY DEF TypeOK
<1>6. \A a \in Automations : row[a] \in Rows
  BY DEF TypeOK
<1> QED
  BY <1>1, <1>2, <1>3, <1>4, <1>5, <1>6

\* The threads' turns and the clock.
LEMMA ThreadInv ==
    ASSUME IInv, NEW t \in DOMAIN threads, Turn(t) \/ Capture(t) \/ CaptureFails(t)
    PROVE  Whole' /\ \A a \in Automations : Own(a)'
<1>1. TypeOK
  BY DEF IInv
<1>2. /\ row' = row /\ now' = now /\ todo' = todo /\ job' = job /\ wanted' = wanted
      /\ loose' = loose /\ unsure' = unsure
  BY DEF Turn, TurnStarts, TurnEnds, Capture, CaptureFails
<1>3. Whole'
  <2>1. Owned'
    BY <1>2 DEF IInv, Owned
  <2>2. Placed'
    <3>1. DOMAIN threads' = DOMAIN threads /\ \A u \in DOMAIN threads : threads'[u].auto = threads[u].auto
      BY <1>1, ThreadSteps
    <3> QED
      BY <1>2, <3>1 DEF IInv, Placed
  <2>3. Timed'
    <3>1. \A j \in Jobs : job[j].pc = "start" => job[j].thread \in DOMAIN threads
      BY DEF IInv, Placed
    <3> QED
      BY <1>1, <1>2, <3>1, ThreadSteps DEF IInv, Timed, Runs
  <2>4. Fresh'
    <3>1. \A j \in Jobs : job[j].pc = "start" =>
            job[j].thread \in DOMAIN threads /\ threads[job[j].thread].turn = "none"
      BY DEF IInv, Placed, Fresh
    <3> QED
      BY <1>1, <1>2, <3>1, ThreadSteps DEF IInv, Fresh
  <2> QED
    BY <2>1, <2>2, <2>3, <2>4 DEF Whole
<1>4. ASSUME NEW a \in Automations PROVE Frame(a)
  <2>1. \A u \in DOMAIN threads : /\ threads'[u].turn = "none" <=> threads[u].turn = "none"
                                  /\ Busy(u)' => Busy(u)
    BY <1>1, ThreadSteps DEF Busy
  <2> QED
    BY <1>1, <1>2, <2>1, ThreadSteps DEF Frame
<1> QED
  BY <1>3, <1>4, FrameLemma

LEMMA ClockInv ==
    ASSUME IInv, Clock
    PROVE  Whole' /\ \A a \in Automations : Own(a)'
<1>1. /\ row' = row /\ todo' = todo /\ job' = job /\ wanted' = wanted
      /\ loose' = loose /\ unsure' = unsure /\ threads' = threads /\ now' = now + 1
  BY DEF Clock
<1>2. Owned' /\ Placed' /\ Fresh'
  BY <1>1 DEF IInv, Owned, Placed, Fresh
<1>3. Timed'
  BY <1>1, Numbers DEF IInv, Timed, Runs
<1>4. \A a \in Automations : Frame(a)
  BY <1>1 DEF Frame, Busy
<1> QED
  BY <1>2, <1>3, <1>4, FrameLemma DEF Whole

LEMMA CrashInv ==
    ASSUME IInv, Crash
    PROVE  Whole' /\ \A a \in Automations : Own(a)'
<1>1. TypeOK
  BY DEF IInv
<1>2. /\ row' = row /\ now' = now /\ todo' = {} /\ wanted' = wanted /\ loose' = loose
      /\ job' = [j \in Jobs |-> Idle]
      /\ unsure' = unsure \cup {job[j].auto : j \in {k \in Jobs : job[k].pc = "queued"}}
  BY DEF Crash
<1>3. \A j \in Jobs : job'[j] = Idle
  BY <1>2
<1>4. Idle.pc = "idle" /\ Idle.at = 0 /\ Idle.auto = None /\ 0 <= now
  BY <1>1 DEF Idle, TypeOK
<1>5. Owned' /\ Placed' /\ Fresh'
  BY <1>1, <1>2, <1>3, <1>4, CrashThreads DEF IInv, Owned, Placed, Fresh
<1>6. Timed'
  BY <1>1, <1>2, <1>3, <1>4, CrashThreads DEF IInv, Timed, Runs, Jobs
<1>7. ASSUME NEW a \in Automations PROVE Frame(a)
  <2>1. \A k \in Jobs : job'[k].auto # a
    BY <1>3, <1>4, Constant
  <2>2. \A k \in Jobs : job[k].auto = a /\ job[k].pc = "queued" => a \in unsure'
    BY <1>2
  <2>3. \A u \in DOMAIN threads : /\ threads'[u].turn = "none" <=> threads[u].turn = "none"
                                  /\ Busy(u)' => Busy(u)
    BY <1>1, CrashThreads DEF Busy
  <2>4. unsure \subseteq unsure'
    BY <1>2
  <2> QED
    BY <1>1, <1>2, <2>1, <2>2, <2>3, <2>4, CrashThreads DEF Frame
<1> QED
  BY <1>5, <1>6, <1>7, FrameLemma DEF Whole

\* Who reads a row that somebody holds leaves it loose.
LEMMA ReadsLemma ==
    ASSUME NEW A, Reads(A), NEW a \in A, a \notin loose'
    PROVE  a \notin loose /\ (\A j \in Jobs : job[j].auto # a) /\ (\A d \in todo : d.auto # a)
BY DEF Reads, Held

LEMMA CreateInv ==
    ASSUME IInv, NEW b \in Automations, NEW status \in {"active", "paused"}, Create(b, status)
    PROVE  Whole' /\ \A a \in Automations : Own(a)'
<1> USE Constant
<1> DEFINE r == [NoRow EXCEPT !.status = status, !.next = NextAt(status, now)]
<1>1. /\ row' = [row EXCEPT ![b] = r] /\ wanted' = [wanted EXCEPT ![b] = Says(row'[b])]
      /\ row[b].status = "none"
      /\ UNCHANGED <<now, todo, job, threads, loose, unsure>>
  BY DEF Create
<1>2. r.status # "none" /\ r.last = None
  BY DEF NoRow
<1> HIDE DEF r
<1>3. row'[b] = r /\ wanted'[b] = Says(r) /\ \A a \in Automations \ {b} : row'[a] = row[a] /\ wanted'[a] = wanted[a]
  BY <1>1 DEF IInv, TypeOK
<1>4. /\ \A j \in Jobs : job[j].auto # b
      /\ \A d \in todo : d.auto # b
      /\ \A t \in DOMAIN threads : threads[t].auto # b
  BY <1>1 DEF IInv, Owned, Placed, Assigned
<1>5. \A j \in Jobs : job[j].pc # "idle" => job[j].auto \in Automations
  BY DEF IInv, TypeOK, Assigned, Works, Automations, None
<1>6. Whole'
  <2>1. Owned'
    BY <1>1, <1>3, <1>4, <1>5, Numbers DEF IInv, Owned
  <2>2. Placed'
    <3>1. \A t \in DOMAIN threads : threads[t].auto \in Automations
      BY Numbers DEF IInv, Threads
    <3> QED
      BY <1>1, <1>2, <1>3, <1>4, <3>1 DEF IInv, Placed
  <2>3. Timed'
    BY <1>1 DEF IInv, Timed, Runs
  <2>4. Fresh'
    <3>1. \A j \in Jobs : job[j].pc \in {"start", "queued"} => job[j].thread # None
      BY DEF IInv, Placed, TypeOK, None
    <3> QED
      BY <1>1, <1>2, <1>3, <3>1 DEF IInv, Fresh
  <2> QED
    BY <2>1, <2>2, <2>3, <2>4 DEF Whole
<1>7. ASSUME NEW a \in Automations \ {b} PROVE Own(a)'
  <2>1. Frame(a)
    BY <1>1, <1>3 DEF Frame, Busy
  <2> QED
    BY <2>1, FrameLemma
<1>8. Own(b)'
  <2>1. RunsOf(b)' = {} /\ Noted(b)' = {}
    BY <1>1, <1>4 DEF RunsOf, Noted
  <2>2. Single(b)' /\ Kept(b)'
    BY <1>1, <1>3, <1>4 DEF Single, Kept
  <2>3. Sure(b)'
    BY <1>1, <1>3, <1>4, <2>1 DEF Sure, One, Apart, DueOnce, Follows
  <2> QED
    BY <2>2, <2>3 DEF Own
<1> QED
  BY <1>6, <1>7, <1>8

LEMMA DeleteInv ==
    ASSUME IInv, NEW b \in Automations, Delete(b)
    PROVE  Whole' /\ \A a \in Automations : Own(a)'
<1> USE Constant
<1>1. /\ row' = [row EXCEPT ![b] = [row[b] EXCEPT !.deleted = TRUE]]
      /\ wanted' = [wanted EXCEPT ![b] = [wanted[b] EXCEPT !.deleted = TRUE]]
      /\ Reads({b}) /\ loose \subseteq loose' /\ row[b].status # "none"
      /\ UNCHANGED <<now, todo, job, threads, unsure>>
  BY DEF Delete, Reads, Exists
<1>2. \A a \in Automations \ {b} : row'[a] = row[a] /\ wanted'[a] = wanted[a]
  BY <1>1 DEF IInv, TypeOK
<1>3. /\ row'[b].status = row[b].status /\ row'[b].last = row[b].last
      /\ row'[b].next = row[b].next
      /\ Says(row[b]) = wanted[b] => Says(row'[b]) = wanted'[b]
  <2>1. row'[b] = [row[b] EXCEPT !.deleted = TRUE] /\ row[b] \in Rows
    BY <1>1 DEF IInv, TypeOK
  <2>2. wanted'[b] = [wanted[b] EXCEPT !.deleted = TRUE]
    BY <1>1 DEF IInv, TypeOK
  <2>3. /\ row'[b].status = row[b].status /\ row'[b].last = row[b].last
        /\ row'[b].next = row[b].next /\ row'[b].prompt = row[b].prompt /\ row'[b].deleted = TRUE
    BY <2>1 DEF Rows
  <2>4. ASSUME Says(row[b]) = wanted[b] PROVE Says(row'[b]) = wanted'[b]
    <3>1. wanted[b].status = row[b].status /\ wanted[b].prompt = row[b].prompt /\ wanted[b] \in Told
      BY <2>4 DEF Says, IInv, TypeOK
    <3>2. wanted'[b] \in Told /\ wanted'[b].status = row[b].status
            /\ wanted'[b].prompt = row[b].prompt /\ wanted'[b].deleted = TRUE
      BY <2>2, <3>1 DEF Told
    <3>3. Says(row'[b]) = [status |-> row[b].status, deleted |-> TRUE, prompt |-> row[b].prompt]
      BY <2>3 DEF Says
    <3> QED
      BY <3>2, <3>3 DEF Told
  <2> QED
    BY <2>3, <2>4
<1>4. \A a \in Automations : row'[a].status = row[a].status /\ row'[a].last = row[a].last
  BY <1>2, <1>3
<1>5. Whole'
  <2>1. Owned'
    <3>1. \A j \in Jobs : job[j].pc # "idle" => job[j].auto \in Automations
      BY DEF IInv, TypeOK, Assigned, Works, Automations, None
    <3> QED
      BY <1>1, <1>4, <3>1, Numbers DEF IInv, Owned
  <2>2. Placed'
    <3>1. \A t \in DOMAIN threads : threads[t].auto \in Automations
      BY Numbers DEF IInv, Threads
    <3> QED
      BY <1>1, <1>4, <3>1 DEF IInv, Placed
  <2>3. Timed'
    BY <1>1 DEF IInv, Timed, Runs
  <2>4. Fresh'
    BY <1>1, <1>4 DEF IInv, Fresh
  <2> QED
    BY <2>1, <2>2, <2>3, <2>4 DEF Whole
<1>6. ASSUME NEW a \in Automations \ {b} PROVE Own(a)'
  <2>1. Frame(a)
    BY <1>1, <1>2 DEF Frame, Busy
  <2> QED
    BY <2>1, FrameLemma
<1>7. Own(b)'
  <2>1. ASSUME b \notin loose' PROVE Single(b)' /\ Kept(b)'
    <3>1. b \notin loose /\ (\A j \in Jobs : job[j].auto # b) /\ (\A d \in todo : d.auto # b)
      BY <1>1, <2>1, ReadsLemma
    <3> QED
      BY <1>1, <1>3, <3>1 DEF IInv, Own, Single, Kept
  <2>2. ASSUME b \notin unsure' PROVE Sure(b)'
    <3>1. One(b) /\ Apart(b) /\ DueOnce(b)
      BY <1>1, <2>2 DEF IInv, Own, Sure
    <3>2. One(b)' /\ Apart(b)'
      BY <1>1, <1>4, <3>1 DEF One, Apart, Runs, RunsOf, Busy, Pending
    <3>3. Noted(b)' = Noted(b)
      BY <1>1 DEF Noted, RunsOf, Started, Pending
    <3>4. DueOnce(b)'
      BY <1>1, <1>3, <3>1, <3>3 DEF DueOnce, Follows, Runs, RunsOf, Started
    <3> QED
      BY <3>2, <3>4 DEF Sure
  <2> QED
    BY <2>1, <2>2 DEF Own
<1> QED
  BY <1>5, <1>6, <1>7

\* A job takes up an automation, with its row: what of it only depends on the other
\* variables.  b is the automation that gets a holder.
Taken(j, b) ==
    /\ job[j].pc = "idle"
    /\ \A k \in Jobs \ {j} : job'[k] = job[k]
    /\ UNCHANGED <<row, now, threads, wanted>>
    /\ loose \subseteq loose' /\ unsure \subseteq unsure'
    /\ job'[j].auto = b

LEMMA TakenFrame ==
    ASSUME IInv, NEW j \in Jobs, NEW b \in Automations, Taken(j, b), todo' \subseteq todo,
           NEW a \in Automations \ {b}
    PROVE  Own(a)'
<1>1. job[j].auto = None /\ a # None
  BY Constant DEF IInv, Assigned, Taken
<1>2. Frame(a)
  BY <1>1 DEF Taken, Frame, Busy
<1> QED
  BY <1>2, FrameLemma

\* A run begins with row r, of which nobody else knows better or b is unsure.
LEMMA TakenRun ==
    ASSUME IInv, NEW j \in Jobs, NEW b \in Automations, Taken(j, b), todo' \subseteq todo,
           NEW r \in Rows, job'[j].pc = "create", job'[j].row = r, job'[j].at = now,
           ~Active(r.last), Unseen(b, r) => b \in unsure',
           b \notin loose' => /\ r = row[b] /\ \A k \in Jobs : job[k].auto # b
                              /\ \A d \in todo' : d.auto # b,
           b \notin unsure' => Follows(b, r.next)
    PROVE  Own(b)'
<1> USE Constant
<1>1. ASSUME b \notin loose' PROVE Single(b)' /\ Kept(b)'
  <2>1. Single(b) /\ Kept(b)
    BY <1>1 DEF IInv, Own, Taken
  <2> QED
    BY <1>1, <2>1 DEF Taken, Single, Kept, Runs
<1>2. ASSUME b \notin unsure' PROVE Sure(b)'
  <2>1. One(b) /\ Apart(b) /\ DueOnce(b) /\ ~Unseen(b, r)
    BY <1>2 DEF IInv, Own, Sure, Taken
  <2>2. /\ r.last = row[b].last /\ \A k \in Jobs : job[k].auto = b => ~Runs(k)
        /\ r.last # None => ~Busy(r.last)
    BY <2>1 DEF Unseen, Active, Busy
  <2>3. \A t : ~Pending(b, t) /\ ~Pending(b, t)'
    BY <2>2 DEF Pending, Runs, Taken
  <2>4. One(b)'
    BY <2>2 DEF Taken, One, Runs
  <2>5. Apart(b)'
    <3>1. \A t \in RunsOf(b) : Busy(t) => t = row[b].last
      BY <2>1, <2>3 DEF Apart
    <3> QED
      BY <2>2, <3>1 DEF Taken, Apart, Runs, RunsOf, Busy
  <2>6. Noted(b)' = Noted(b)
    BY <2>3 DEF Noted, RunsOf, Started, Taken
  <2>7. \A t \in RunsOf(b) : threads[t].due <= now
    BY DEF IInv, Timed, RunsOf
  <2>8. DueOnce(b)'
    BY <1>2, <2>1, <2>2, <2>6, <2>7 DEF Taken, DueOnce, Follows, Runs, RunsOf, Started
  <2> QED
    BY <2>4, <2>5, <2>8 DEF Sure
<1> QED
  BY <1>1, <1>2 DEF Own

LEMMA RunNowInv ==
    ASSUME IInv, NEW c \in Callers, NEW b \in Automations, RunNow(c, b)
    PROVE  Whole' /\ \A a \in Automations : Own(a)'
<1> USE Constant
<1>1. c \in Jobs /\ c # "tick" /\ TypeOK /\ Assigned /\ row[b] \in Rows /\ row[b].status # "none"
  BY DEF Jobs, IInv, TypeOK, RunNow, Exists
<1>2. /\ \A k \in Jobs \ {c} : job'[k] = job[k]
      /\ job'[c].pc = "create" /\ job'[c].auto = b /\ job'[c].row = row[b] /\ job'[c].at = now
  BY <1>1, BeginType DEF RunNow
<1>3. /\ Taken(c, b) /\ todo' = todo /\ Reads({b}) /\ ~Active(row[b].last)
      /\ Unseen(b, row[b]) => b \in unsure'
  BY <1>2 DEF RunNow, Begin, Reads, Taken
<1>4. Whole'
  <2>1. Owned'
    BY <1>1, <1>2, <1>3 DEF IInv, Owned, Taken
  <2>2. Placed'
    BY <1>1, <1>2, <1>3 DEF IInv, Placed, Taken
  <2>3. Timed'
    BY <1>1, <1>2, <1>3, Numbers DEF IInv, Timed, Taken, Runs, Jobs
  <2>4. Fresh'
    BY <1>2, <1>3 DEF IInv, Fresh, Taken
  <2> QED
    BY <2>1, <2>2, <2>3, <2>4 DEF Whole
<1>5. \A a \in Automations \ {b} : Own(a)'
  BY <1>1, <1>3, TakenFrame
<1>6. Own(b)'
  <2>1. b \notin loose' => (\A k \in Jobs : job[k].auto # b) /\ (\A d \in todo : d.auto # b)
    BY <1>3, ReadsLemma
  <2>2. b \notin unsure' => Follows(b, row[b].next)
    BY <1>3 DEF Taken, IInv, Own, Sure, DueOnce
  <2> QED
    BY <1>1, <1>2, <1>3, <2>1, <2>2, TakenRun
<1> QED
  BY <1>4, <1>5, <1>6

LEMMA UpdateReadsInv ==
    ASSUME IInv, NEW c \in Callers, NEW b \in Automations,
           NEW patch \in {"pause", "resume", "edit"}, UpdateReads(c, b, patch)
    PROVE  Whole' /\ \A a \in Automations : Own(a)'
<1> USE Constant
<1>1. c \in Jobs /\ c # "tick" /\ TypeOK /\ Assigned /\ row[b].status # "none"
  BY DEF Jobs, IInv, UpdateReads, Exists
<1>2. /\ \A k \in Jobs \ {c} : job'[k] = job[k]
      /\ job'[c].pc = "update" /\ job'[c].auto = b
      /\ job'[c].row.last = row[b].last /\ job'[c].row.status # "none"
      /\ job'[c].row.next \in {Never, now + 1}
  BY <1>1, UpdateType
<1>3. Taken(c, b) /\ todo' = todo /\ Reads({b}) /\ job' \in [Jobs -> Works]
  BY <1>1, <1>2, UpdateType DEF UpdateReads, Reads, Taken
<1>4. job'[c].at = 0
  BY <1>1 DEF UpdateReads, Idle, TypeOK
<1>5. Whole'
  <2>1. Owned'
    BY <1>1, <1>2, <1>3 DEF IInv, Owned, Taken
  <2>2. Placed'
    BY <1>1, <1>2, <1>3 DEF IInv, Placed, Taken
  <2>3. Timed'
    BY <1>1, <1>2, <1>3, <1>4, Numbers DEF IInv, Timed, Taken, Runs, Jobs
  <2>4. Fresh'
    BY <1>2, <1>3 DEF IInv, Fresh, Taken
  <2> QED
    BY <2>1, <2>2, <2>3, <2>4 DEF Whole
<1>6. \A a \in Automations \ {b} : Own(a)'
  BY <1>1, <1>3, TakenFrame
<1>7. Own(b)'
  <2>1. ASSUME b \notin loose' PROVE Single(b)' /\ Kept(b)'
    <3>1. b \notin loose /\ (\A k \in Jobs : job[k].auto # b) /\ (\A d \in todo : d.auto # b)
      BY <1>3, <2>1, ReadsLemma
    <3> QED
      BY <1>2, <1>3, <3>1 DEF IInv, Own, Taken, Single, Kept, Runs
  <2>2. ASSUME b \notin unsure' PROVE Sure(b)'
    <3>1. One(b) /\ Apart(b) /\ DueOnce(b)
      BY <1>3, <2>2 DEF IInv, Own, Sure, Taken
    <3>2. \A t : Pending(b, t)' <=> Pending(b, t)
      BY <1>2, <1>3 DEF Pending, Taken
    <3>3. \A k \in Jobs : job'[k].auto = b /\ Runs(k)' => job'[k] = job[k] /\ Runs(k)
      BY <1>2 DEF Runs
    <3>4. One(b)'
      BY <1>3, <3>1, <3>3 DEF One, Taken
    <3>5. Apart(b)'
      BY <1>3, <3>1, <3>2, <3>3 DEF Taken, Apart, RunsOf, Busy
    <3>6. Noted(b)' = Noted(b)
      BY <1>3, <3>2 DEF Noted, RunsOf, Started, Taken
    <3>7. \A due \in Noted(b) : due \in Int /\ due < now + 1
      BY <1>1, Numbers DEF IInv, Timed, Noted, RunsOf
    <3>8. DueOnce(b)'
      <4>1. ASSUME NEW k \in Jobs, job'[k].auto = b,
                   job'[k].pc = "update" => job'[k].row.last = row[b].last
            PROVE  job'[k].row.next = Never \/ \A due \in Noted(b) : due < job'[k].row.next
        <5>1. CASE k = c
          BY <1>2, <3>7, <5>1
        <5>2. CASE k # c
          BY <1>2, <3>1, <4>1, <5>2 DEF DueOnce, Follows
        <5> QED
          BY <5>1, <5>2
      <4>2. \A k \in Jobs : job'[k].auto = b /\ job'[k].pc = "start" => job'[k] = job[k]
        BY <1>2
      <4> QED
        BY <1>3, <3>1, <3>3, <3>6, <4>1, <4>2 DEF Taken, DueOnce, Follows, RunsOf, Started
    <3> QED
      BY <3>4, <3>5, <3>8 DEF Sure
  <2> QED
    BY <2>1, <2>2 DEF Own
<1> QED
  BY <1>5, <1>6, <1>7

LEMMA TickListsInv ==
    ASSUME IInv, TickLists
    PROVE  Whole' /\ \A a \in Automations : Own(a)'
<1> USE Constant
<1>1. /\ todo = {} /\ todo' = {[auto |-> a, row |-> row[a]] : a \in {b \in Automations : Due(b)}}
      /\ Reads({a \in Automations : Due(a)}) /\ loose \subseteq loose'
      /\ UNCHANGED <<row, now, job, threads, wanted, unsure>>
  BY DEF TickLists, Reads
<1>2. \A d \in todo' : d.auto \in Automations /\ d.row = row[d.auto] /\ Due(d.auto)
  BY <1>1
<1>3. \A d \in todo' : d.row.next <= now /\ d.row.status # "none"
  BY <1>2 DEF Due
<1>4. \A d, e \in todo' : d.auto = e.auto => d = e
  BY <1>1
<1>5. Whole'
  <2>1. Owned'
    BY <1>1, <1>2, <1>3 DEF IInv, Owned
  <2>2. Placed'
    BY <1>1, <1>2 DEF IInv, Placed
  <2>3. Timed'
    BY <1>1, <1>3 DEF IInv, Timed, Runs
  <2>4. Fresh'
    BY <1>1, <1>2 DEF IInv, Fresh
  <2> QED
    BY <2>1, <2>2, <2>3, <2>4 DEF Whole
<1>6. ASSUME NEW a \in Automations, ~Due(a) PROVE Own(a)'
  <2>1. Frame(a)
    BY <1>1, <1>2, <1>6 DEF Frame, Busy
  <2> QED
    BY <2>1, FrameLemma
<1>7. ASSUME NEW a \in Automations, Due(a) PROVE Own(a)'
  <2>1. ASSUME a \notin loose' PROVE Single(a)' /\ Kept(a)'
    <3>1. a \notin loose /\ (\A k \in Jobs : job[k].auto # a)
      BY <1>1, <1>7, <2>1, ReadsLemma
    <3> QED
      BY <1>1, <1>2, <1>4, <3>1 DEF IInv, Own, Single, Kept
  <2>2. ASSUME a \notin unsure' PROVE Sure(a)'
    <3>1. One(a) /\ Apart(a) /\ DueOnce(a)
      BY <1>1, <2>2 DEF IInv, Own, Sure
    <3>2. One(a)' /\ Apart(a)'
      BY <1>1, <3>1 DEF One, Apart, Runs, RunsOf, Busy, Pending
    <3>3. Noted(a)' = Noted(a)
      BY <1>1 DEF Noted, RunsOf, Started, Pending
    <3>4. DueOnce(a)'
      BY <1>1, <1>2, <3>1, <3>3 DEF DueOnce, Follows, Runs, RunsOf, Started
    <3> QED
      BY <3>2, <3>4 DEF Sure
  <2> QED
    BY <2>1, <2>2 DEF Own
<1> QED
  BY <1>5, <1>6, <1>7

LEMMA TickTakesInv ==
    ASSUME IInv, TickTakes
    PROVE  Whole' /\ \A a \in Automations : Own(a)'
<1> USE Constant
<1>1. PICK d \in todo : /\ todo' = todo \ {d}
                        /\ \/ Active(d.row.last) /\ UNCHANGED <<job, unsure>>
                           \/ ~Active(d.row.last) /\ Begin("tick", d.auto, d.row)
  BY DEF TickTakes
<1>2. "tick" \in Jobs /\ TypeOK /\ Assigned /\ d.auto \in Automations /\ d.row \in Rows
  BY <1>1 DEF Jobs, IInv, TypeOK
<1>3. /\ job["tick"].pc = "idle"
      /\ UNCHANGED <<row, now, threads, wanted, loose>>
  BY DEF TickTakes
<1>4. CASE Active(d.row.last) /\ UNCHANGED <<job, unsure>>
  <2>1. Whole'
    BY <1>1, <1>3, <1>4 DEF IInv, Whole, Owned, Placed, Timed, Fresh, Runs
  <2>2. \A a \in Automations : Frame(a)
    BY <1>1, <1>3, <1>4 DEF Frame, Busy
  <2> QED
    BY <2>1, <2>2, FrameLemma
<1>5. CASE ~Active(d.row.last) /\ Begin("tick", d.auto, d.row)
  <2> DEFINE b == d.auto
  <2>1. /\ \A k \in Jobs \ {"tick"} : job'[k] = job[k]
        /\ job'["tick"].pc = "create" /\ job'["tick"].auto = b /\ job'["tick"].row = d.row
        /\ job'["tick"].at = now
    BY <1>2, <1>5, BeginType
  <2>2. /\ Taken("tick", b)
        /\ Unseen(b, d.row) => b \in unsure'
    BY <1>3, <1>5, <2>1 DEF Begin, Taken
  <2>3. Whole'
    <3>1. Owned'
      BY <1>1, <1>2, <2>1, <2>2 DEF IInv, Owned, Taken
    <3>2. Placed'
      BY <1>1, <1>2, <2>1, <2>2 DEF IInv, Placed, Taken
    <3>3. Timed'
      BY <1>1, <1>2, <2>1, <2>2, Numbers DEF IInv, Timed, Taken, Runs
    <3>4. Fresh'
      BY <1>1, <2>1, <2>2 DEF IInv, Fresh, Taken
    <3> QED
      BY <3>1, <3>2, <3>3, <3>4 DEF Whole
  <2>4. \A a \in Automations \ {b} : Own(a)'
    BY <1>1, <1>2, <2>2, TakenFrame
  <2>5. Own(b)'
    <3>1. ASSUME b \notin loose'
          PROVE  /\ d.row = row[b] /\ \A k \in Jobs : job[k].auto # b
                 /\ \A e \in todo' : e.auto # b
      BY <1>1, <1>2, <1>3, <3>1 DEF IInv, Own, Single, Kept
    <3>2. ASSUME b \notin unsure' PROVE Follows(b, d.row.next)
      BY <1>1, <1>2, <2>2, <3>2 DEF Taken, Unseen, IInv, Own, Sure, DueOnce
    <3> QED
      BY <1>1, <1>2, <1>5, <2>1, <2>2, <3>1, <3>2, TakenRun
  <2> QED
    BY <2>3, <2>4, <2>5
<1> QED
  BY <1>1, <1>4, <1>5

\* The thread of a run is created; nothing has started in it.
LEMMA CreateThreadInv ==
    ASSUME IInv, NEW j \in Jobs, CreateThread(j)
    PROVE  Whole' /\ \A a \in Automations : Own(a)'
<1> USE Constant
<1> PICK b : b = job[j].auto
  OBVIOUS
<1> PICK n : n = Len(threads')
  OBVIOUS
<1> DEFINE th == [auto |-> b, turn |-> "none", open |-> FALSE, repo |-> b \in Repositories,
                  due |-> IF j = "tick" THEN job[j].row.next ELSE Never]
<1>1. TypeOK /\ Assigned
  BY DEF IInv
<1>2. /\ job[j].pc = "create" /\ n = Len(threads) + 1 /\ n \in 0..MaxThreads
      /\ job' = [job EXCEPT ![j] = Going(job[j], "start", n)]
  BY <1>1, GoesOn
<1>3. /\ \A k \in Jobs \ {j} : job'[k] = job[k]
      /\ job'[j].auto = b /\ job'[j].row = job[j].row /\ job'[j].at = job[j].at
      /\ job'[j].pc = "start" /\ job'[j].thread = n
  BY <1>1, <1>2, JobGoesOn
<1>4. threads' = Append(threads, th) /\ UNCHANGED <<row, now, todo, wanted, loose, unsure>>
  BY DEF CreateThread
<1>5. /\ DOMAIN threads' = DOMAIN threads \cup {n} /\ n \notin DOMAIN threads /\ n # None
      /\ threads'[n] = th /\ \A t \in DOMAIN threads : threads'[t] = threads[t]
  <2> HIDE DEF th
  <2>1. threads \in Seq(Threads) /\ Len(threads) \in Nat /\ DOMAIN threads = 1..Len(threads)
    BY <1>1 DEF TypeOK
  <2>2. Len(threads') = Len(threads) + 1 /\ DOMAIN threads' = 1..Len(threads) + 1
    BY <1>2, <1>4, <2>1
  <2>3. threads'[n] = th /\ \A t \in DOMAIN threads : threads'[t] = threads[t]
    BY <1>2, <1>4, <2>1
  <2> QED
    BY <1>2, <2>1, <2>2, <2>3 DEF None
<1>6. /\ threads'[n].auto = b /\ threads'[n].turn = "none"
      /\ threads'[n].due = IF j = "tick" THEN job[j].row.next ELSE Never
  BY <1>5
<1> HIDE DEF th
<1>7. b \in Automations /\ row[b].status # "none"
  BY <1>1, <1>2 DEF IInv, Owned, Assigned, TypeOK, Works, Automations, None
<1>8. threads'[n].due <= now /\ threads'[n].due <= job[j].at
  <2>1. now \in Nat /\ job[j].at \in Nat /\ job[j].at <= now /\ job[j].row.next \in Int
    BY <1>1, Numbers DEF IInv, Timed
  <2>2. j = "tick" => job[j].row.next <= job[j].at
    BY <1>2 DEF IInv, Timed, Runs
  <2> QED
    BY <1>6, <2>1, <2>2 DEF Never
<1>9. Whole'
  <2>1. Owned'
    BY <1>1, <1>2, <1>3, <1>4 DEF IInv, Owned
  <2>2. Placed'
    <3>1. Placed
      BY DEF IInv
    <3>2. \A t \in DOMAIN threads : t \in DOMAIN threads' /\ threads'[t].auto = threads[t].auto
      BY <1>5
    <3>3. \A t \in DOMAIN threads' : row'[threads'[t].auto].status # "none"
      BY <1>4, <1>5, <1>6, <1>7, <3>1 DEF Placed
    <3>4. \A k \in Jobs : job'[k].pc \in {"start", "queued"} =>
              job'[k].thread \in DOMAIN threads' /\ threads'[job'[k].thread].auto = job'[k].auto
      BY <1>3, <1>5, <1>6, <3>1, <3>2 DEF Placed
    <3>5. \A k \in Jobs : job'[k].pc # "idle" =>
              job[k].pc # "idle" /\ job'[k].row = job[k].row /\ job'[k].auto = job[k].auto
      BY <1>2, <1>3
    <3>6. \A t, a : t \in DOMAIN threads /\ threads[t].auto = a
                      => t \in DOMAIN threads' /\ threads'[t].auto = a
      BY <3>2
    <3>7. \A a \in Automations : row'[a].last # None =>
              row'[a].last \in DOMAIN threads' /\ threads'[row'[a].last].auto = a
      BY <1>4, <3>1, <3>6 DEF Placed
    <3>8. \A k \in Jobs : job'[k].pc # "idle" /\ job'[k].row.last # None =>
              job'[k].row.last \in DOMAIN threads' /\ threads'[job'[k].row.last].auto = job'[k].auto
      <4>1. \A k \in Jobs : job[k].pc # "idle" /\ job[k].row.last # None =>
                job[k].row.last \in DOMAIN threads' /\ threads'[job[k].row.last].auto = job[k].auto
        BY <3>1, <3>6 DEF Placed
      <4> QED
        BY <3>5, <4>1
    <3>9. \A d \in todo' : d.row.last # None =>
              d.row.last \in DOMAIN threads' /\ threads'[d.row.last].auto = d.auto
      BY <1>4, <3>1, <3>6 DEF Placed
    <3> QED
      BY <3>3, <3>4, <3>7, <3>8, <3>9 DEF Placed
  <2>3. Timed'
    BY <1>2, <1>3, <1>4, <1>5, <1>8 DEF IInv, Placed, Timed, Runs
  <2>4. Fresh'
    <3>1. \A k \in Jobs : job[k].pc \in {"start", "queued"} =>
              job[k].thread \in DOMAIN threads /\ job[k].thread # n
      BY <1>5 DEF IInv, Placed
    <3>2. /\ \A a \in Automations : row[a].last # n
          /\ \A k \in Jobs : job[k].pc # "idle" => job[k].row.last # n
          /\ \A d \in todo : d.row.last # n
      BY <1>5 DEF IInv, Placed
    <3>3. \A k \in Jobs \ {j} : job'[k].pc = "start" => threads'[job'[k].thread].turn = "none"
      BY <1>3, <1>5, <3>1 DEF IInv, Fresh
    <3>4. \A k, l \in Jobs : /\ job'[k].pc \in {"start", "queued"} /\ job'[l].pc \in {"start", "queued"}
                             /\ job'[k].thread = job'[l].thread
                             => k = l
      BY <1>3, <3>1 DEF IInv, Fresh
    <3>5. \A k \in Jobs : job'[k].pc # "idle" => job[k].pc # "idle" /\ job'[k].row = job[k].row
      BY <1>2, <1>3
    <3>6. ASSUME NEW k \in Jobs, job'[k].pc \in {"start", "queued"}
          PROVE  /\ \A a \in Automations : row[a].last # job'[k].thread
                 /\ \A l \in Jobs : job[l].pc # "idle" => job[l].row.last # job'[k].thread
                 /\ \A d \in todo : d.row.last # job'[k].thread
      <4>1. CASE k = j
        BY <1>3, <3>2, <4>1
      <4>2. CASE k # j
        BY <1>3, <3>6, <4>2 DEF IInv, Fresh
      <4> QED
        BY <4>1, <4>2
    <3>7. \A k \in Jobs : job'[k].pc = "start" => threads'[job'[k].thread].turn = "none"
      BY <1>3, <1>6, <3>3
    <3>8. ASSUME NEW k \in Jobs, job'[k].pc \in {"start", "queued"}
          PROVE  /\ \A a \in Automations : row'[a].last # job'[k].thread
                 /\ \A l \in Jobs : job'[l].pc # "idle" => job'[l].row.last # job'[k].thread
                 /\ \A d \in todo' : d.row.last # job'[k].thread
      BY <1>4, <3>5, <3>6, <3>8
    <3> QED
      BY <3>4, <3>7, <3>8 DEF Fresh
  <2> QED
    BY <2>1, <2>2, <2>3, <2>4 DEF Whole
<1>10. ASSUME NEW a \in Automations \ {b} PROVE Own(a)'
  <2>1. Frame(a)
    BY <1>3, <1>4, <1>5, <1>6 DEF Frame, Busy
  <2> QED
    BY <2>1, FrameLemma
<1>11. Own(b)'
  <2>0. Runs(j) /\ \A k \in Jobs : job'[k].auto = b => job[k].auto = b
    BY <1>2, <1>3 DEF Runs
  <2>1. ASSUME b \notin loose' PROVE Single(b)' /\ Kept(b)'
    <3>1. Single(b) /\ Kept(b)
      BY <1>4, <1>7, <2>1 DEF IInv, Own
    <3> QED
      BY <1>3, <1>4, <2>0, <3>1 DEF Single, Kept, Runs
  <2>2. ASSUME b \notin unsure' PROVE Sure(b)'
    <3>1. One(b) /\ Apart(b) /\ DueOnce(b)
      BY <1>4, <1>7, <2>2 DEF IInv, Own, Sure
    <3>2. \A k \in Jobs : k # j /\ job[k].auto = b => ~Runs(k)
      BY <2>0, <3>1 DEF One
    <3>3. row[b].last # None => row[b].last \in DOMAIN threads
      BY <1>7 DEF IInv, Placed
    <3>4. \A t : ~Pending(b, t) /\ ~Pending(b, t)'
      BY <1>2, <1>3, <3>2 DEF Pending, Runs
    <3>5. \A t \in RunsOf(b)' : Busy(t)' \/ Started(t)' =>
              /\ t \in RunsOf(b) /\ threads'[t] = threads[t]
              /\ Busy(t)' => Busy(t)
              /\ Started(t)' => Started(t)
      BY <1>5, <1>6 DEF RunsOf, Busy, Started
    <3>6. \A k \in Jobs : job'[k].auto = b /\ Runs(k)' => k = j
      BY <1>3, <3>2 DEF Runs
    <3>7. One(b)'
      BY <1>3, <1>4, <2>0, <3>1, <3>6 DEF One
    <3>8. Apart(b)'
      <4>1. \A t \in RunsOf(b)' : Busy(t)' => t = row'[b].last
        BY <1>4, <3>1, <3>4, <3>5 DEF Apart
      <4>2. row[b].last # None => threads'[row[b].last].turn \notin {"queued", "running"}
        BY <1>5, <2>0, <3>1, <3>3 DEF Apart, Busy
      <4> QED
        BY <1>4, <4>1, <4>2 DEF Apart, Busy
    <3>9. Noted(b)' \subseteq Noted(b)
      BY <3>4, <3>5 DEF Noted
    <3>10. DueOnce(b)'
      <4>1. \A t \in RunsOf(b)' : Started(t)' => threads'[t].due <= job[j].at
        BY <2>0, <3>1, <3>5 DEF DueOnce
      <4>2. \A t, u \in RunsOf(b)' :
                Started(t)' /\ Started(u)' /\ threads'[t].due = threads'[u].due => t = u
        BY <3>1, <3>5 DEF DueOnce
      <4>3. ASSUME NEW k \in Jobs, job'[k].auto = b,
                   job'[k].pc = "update" => job'[k].row.last = row[b].last
            PROVE  Follows(b, job'[k].row.next)
        <5>1. CASE k = j
          BY <1>2, <1>3, <3>1, <5>1 DEF DueOnce
        <5>2. CASE k # j
          BY <1>3, <3>1, <4>3, <5>2 DEF DueOnce
        <5> QED
          BY <5>1, <5>2
      <4>4. \A k \in Jobs : job'[k].auto = b /\ job'[k].pc = "start" =>
                threads'[job'[k].thread].due \in {Never, job'[k].row.next}
        BY <1>3, <1>6, <3>6 DEF Runs
      <4>5. \A k \in Jobs : job'[k].auto = b /\ Runs(k)' =>
                \A t \in RunsOf(b)' : Started(t)' => threads'[t].due <= job'[k].at
        BY <1>3, <3>6, <4>1
      <4> QED
        BY <1>4, <3>1, <3>9, <4>2, <4>3, <4>4, <4>5 DEF DueOnce, Follows
    <3> QED
      BY <3>7, <3>8, <3>10 DEF Sure
  <2> QED
    BY <2>1, <2>2 DEF Own
<1> QED
  BY <1>9, <1>10, <1>11

\* The turn is accepted: until the row is written, the run alone knows of it.
LEMMA StartTurnInv ==
    ASSUME IInv, NEW j \in Jobs, StartTurn(j)
    PROVE  Whole' /\ \A a \in Automations : Own(a)'
<1> USE Constant
<1> PICK b : b = job[j].auto
  OBVIOUS
<1> PICK n : n = job[j].thread
  OBVIOUS
<1>1. TypeOK /\ Assigned
  BY DEF IInv
<1>2. /\ job[j].pc = "start" /\ n \in 0..MaxThreads
      /\ job' = [job EXCEPT ![j] = Going(job[j], "queued", n)]
  BY <1>1, GoesOn
<1>3. /\ \A k \in Jobs \ {j} : job'[k] = job[k]
      /\ job'[j].auto = b /\ job'[j].row = job[j].row /\ job'[j].at = job[j].at
      /\ job'[j].pc = "queued" /\ job'[j].thread = n
  BY <1>1, <1>2, JobGoesOn
<1>4. /\ threads' = [threads EXCEPT ![n].turn = "queued"]
      /\ UNCHANGED <<row, now, todo, wanted, loose, unsure>>
  BY DEF StartTurn
<1>5. n \in DOMAIN threads /\ threads[n].auto = b
  BY <1>2 DEF IInv, Placed
<1>6. /\ DOMAIN threads' = DOMAIN threads
      /\ threads'[n].turn = "queued" /\ threads'[n].auto = b /\ threads'[n].due = threads[n].due
      /\ \A t \in DOMAIN threads \ {n} : threads'[t] = threads[t]
  <2>1. threads[n] \in Threads
    BY <1>1, <1>5, Numbers
  <2>2. threads'[n] = [threads[n] EXCEPT !.turn = "queued"]
    BY <1>4, <1>5
  <2> QED
    BY <1>4, <1>5, <2>1, <2>2 DEF Threads
<1>7. b \in Automations
  BY <1>1, <1>2 DEF Assigned, TypeOK, Works, Automations, None
<1>8. Whole'
  <2>1. Owned'
    BY <1>1, <1>2, <1>3, <1>4 DEF IInv, Owned
  <2>2. Placed'
    <3>1. Placed
      BY DEF IInv
    <3>2. \A t \in DOMAIN threads : threads'[t].auto = threads[t].auto
      BY <1>5, <1>6
    <3>3. \A k \in Jobs : job'[k].pc \in {"start", "queued"} =>
              job'[k].thread \in DOMAIN threads /\ threads[job'[k].thread].auto = job'[k].auto
      BY <1>3, <1>5, <3>1 DEF Placed
    <3>4. \A k \in Jobs : job'[k].pc # "idle" =>
              job[k].pc # "idle" /\ job'[k].row = job[k].row /\ job'[k].auto = job[k].auto
      BY <1>2, <1>3
    <3> QED
      <4>1. DOMAIN threads' = DOMAIN threads
        BY <1>6
      <4> QED
        BY <1>4, <3>1, <3>2, <3>3, <3>4, <4>1 DEF Placed
  <2>3. Timed'
    <3>1. \A t \in DOMAIN threads : threads'[t].due = threads[t].due
      BY <1>5, <1>6
    <3>2. \A k \in Jobs : job'[k].pc = "start" => job[k].pc = "start" /\ job'[k] = job[k]
      BY <1>3
    <3>3. \A k \in Jobs : job'[k].at = job[k].at
      BY <1>3
    <3>4. /\ Runs("tick")' => Runs("tick") /\ job'["tick"].row = job["tick"].row
          /\ job'["tick"].pc # "update"
      BY <1>2, <1>3 DEF IInv, Timed, Runs, Jobs
    <3>5. \A k \in Jobs : job[k].pc = "start" => job[k].thread \in DOMAIN threads
      BY DEF IInv, Placed
    <3> QED
      BY <1>4, <1>6, <3>1, <3>2, <3>3, <3>4, <3>5 DEF IInv, Timed, Jobs
  <2>4. Fresh'
    <3>1. \A k \in Jobs : /\ job'[k].pc \in {"start", "queued"} => job[k].pc \in {"start", "queued"}
                          /\ job'[k].pc = "start" => job[k].pc = "start" /\ k # j
                          /\ job'[k].pc # "idle" => job[k].pc # "idle"
                          /\ job'[k].thread = job[k].thread /\ job'[k].row = job[k].row
      BY <1>2, <1>3
    <3>2. ASSUME NEW k \in Jobs, job'[k].pc = "start"
          PROVE  threads'[job[k].thread].turn = "none"
      <4>1. job[k].thread \in DOMAIN threads /\ threads[job[k].thread].turn = "none"
        BY <3>1, <3>2 DEF IInv, Placed, Fresh
      <4>2. job[k].thread # n
        BY <1>2, <3>1, <3>2 DEF IInv, Fresh
      <4> QED
        BY <1>6, <4>1, <4>2
    <3> QED
      BY <1>4, <3>1, <3>2 DEF IInv, Fresh
  <2> QED
    BY <2>1, <2>2, <2>3, <2>4 DEF Whole
<1>9. ASSUME NEW a \in Automations \ {b} PROVE Own(a)'
  <2>1. Frame(a)
    BY <1>3, <1>4, <1>5, <1>6 DEF Frame, Busy
  <2> QED
    BY <2>1, FrameLemma
<1>10. Own(b)'
  <2>0. Runs(j) /\ \A k \in Jobs : job'[k].auto = b => job[k].auto = b
    BY <1>2, <1>3 DEF Runs
  <2>1. ASSUME b \notin loose' PROVE Single(b)' /\ Kept(b)'
    <3>1. Single(b) /\ Kept(b)
      BY <1>4, <1>7, <2>1 DEF IInv, Own
    <3> QED
      BY <1>3, <1>4, <2>0, <3>1 DEF Single, Kept, Runs
  <2>2. ASSUME b \notin unsure' PROVE Sure(b)'
    <3>1. One(b) /\ Apart(b) /\ DueOnce(b)
      BY <1>4, <1>7, <2>2 DEF IInv, Own, Sure
    <3>2. \A k \in Jobs : k # j /\ job[k].auto = b => ~Runs(k)
      BY <2>0, <3>1 DEF One
    <3>3. \A t : ~Pending(b, t) /\ (Pending(b, t)' <=> t = n)
      BY <1>2, <1>3, <3>2 DEF Pending, Runs
    <3>4. /\ threads[n].turn = "none" /\ row[b].last # n
          /\ threads[n].due \in {Never, job[j].row.next}
      BY <1>2, <1>7, <3>1 DEF IInv, Fresh, DueOnce
    <3>5. RunsOf(b)' = RunsOf(b)
      BY <1>5, <1>6 DEF RunsOf
    <3>6. \A k \in Jobs : job'[k].auto = b /\ Runs(k)' => k = j
      BY <1>3, <3>2 DEF Runs
    <3>7. One(b)'
      BY <1>3, <1>4, <2>0, <3>1, <3>6 DEF One
    <3>8. Apart(b)'
      <4>1. \A t \in RunsOf(b) : t # n => (Busy(t)' <=> Busy(t))
        BY <1>6 DEF Busy, RunsOf
      <4>2. row[b].last # None => row[b].last \in RunsOf(b)
        BY <1>7 DEF IInv, Placed, RunsOf
      <4>3. \A t \in RunsOf(b) : Busy(t)' => t = row'[b].last \/ Pending(b, t)'
        BY <1>4, <3>1, <3>3, <4>1 DEF Apart
      <4>4. row[b].last # None => threads'[row[b].last].turn \notin {"queued", "running"}
        <5>1. row[b].last # None => ~Busy(row[b].last)
          BY <2>0, <3>1 DEF Apart
        <5> QED
          BY <1>6, <3>4, <4>2, <5>1 DEF Busy, RunsOf
      <4> QED
        BY <1>4, <3>5, <4>3, <4>4 DEF Apart, Busy
    <3>9. /\ \A t \in RunsOf(b) : threads'[t].due = threads[t].due /\ threads[t].due \in Int
          /\ \A t \in RunsOf(b) : t # n => (Started(t)' <=> Started(t))
      BY <1>1, <1>6, Numbers DEF Started, RunsOf
    <3>10. Noted(b)' \subseteq Noted(b)
      BY <3>3, <3>5, <3>9 DEF Noted
    <3>11. DueOnce(b)'
      <4>1. \A t \in RunsOf(b) : Started(t)' => threads[t].due <= job[j].at
        <5>1. threads[n].due <= job[j].at
          BY <1>2 DEF IInv, Timed
        <5>2. \A t \in RunsOf(b) : Started(t) => threads[t].due <= job[j].at
          BY <2>0, <3>1 DEF DueOnce
        <5> QED
          BY <3>9, <5>1, <5>2
      <4>2. \A t, u \in RunsOf(b) : Started(t)' /\ Started(u)' /\ threads[t].due = threads[u].due => t = u
        <5>1. \A t, u \in RunsOf(b) : t # n /\ u # n /\ Started(t)' /\ Started(u)'
                    /\ threads[t].due = threads[u].due => t = u
          BY <3>1, <3>9 DEF DueOnce
        <5>2. ASSUME NEW t \in RunsOf(b), t # n, Started(t)', Started(n)'
              PROVE  threads[t].due # threads[n].due
          <6>1. threads[n].due = job[j].row.next /\ job[j].row.next # Never
            BY <1>6, <3>4, <5>2 DEF Started
          <6>2. threads[t].due \in Noted(b)
            BY <3>3, <3>9, <5>2 DEF Noted
          <6>3. threads[t].due < job[j].row.next
            BY <1>2, <3>1, <6>1, <6>2 DEF DueOnce, Follows
          <6>4. job[j].row.next \in Int /\ threads[t].due \in Int
            BY <1>1, <3>9, <5>2, Numbers
          <6> QED
            BY <6>1, <6>3, <6>4
        <5> QED
          BY <5>1, <5>2
      <4>3. ASSUME NEW k \in Jobs, job'[k].auto = b,
                   job'[k].pc = "update" => job'[k].row.last = row[b].last
            PROVE  Follows(b, job'[k].row.next)
        <5>1. CASE k = j
          BY <1>2, <1>3, <3>1, <5>1 DEF DueOnce
        <5>2. CASE k # j
          BY <1>3, <3>1, <4>3, <5>2 DEF DueOnce
        <5> QED
          BY <5>1, <5>2
      <4>4. \A k \in Jobs : ~(job'[k].auto = b /\ job'[k].pc = "start")
        BY <1>3, <3>6 DEF Runs
      <4>5. \A k \in Jobs : job'[k].auto = b /\ Runs(k)' =>
                \A t \in RunsOf(b)' : Started(t)' => threads'[t].due <= job'[k].at
        BY <1>3, <3>5, <3>6, <3>9, <4>1
      <4>6. \A t, u \in RunsOf(b)' :
                Started(t)' /\ Started(u)' /\ threads'[t].due = threads'[u].due => t = u
        BY <3>5, <3>9, <4>2
      <4> QED
        BY <1>4, <3>1, <3>10, <4>3, <4>4, <4>5, <4>6 DEF DueOnce, Follows
    <3> QED
      BY <3>7, <3>8, <3>11 DEF Sure
  <2> QED
    BY <2>1, <2>2 DEF Own
<1> QED
  BY <1>8, <1>9, <1>10

\* A refused command, or the write of a run that fails: the run has failed.
LEMMA FailsInv ==
    ASSUME IInv, NEW j \in Jobs, Rejected(j) \/ (WriteFails(j) /\ job[j].pc = "queued")
    PROVE  Whole' /\ \A a \in Automations : Own(a)'
<1> USE Constant
<1> PICK b : b = job[j].auto
  OBVIOUS
<1>1. TypeOK /\ Assigned
  BY DEF IInv
<1>2. /\ job[j].pc \in {"create", "start", "queued"}
      /\ job' = [job EXCEPT ![j] = Going(job[j], "failed", job[j].thread)]
      /\ job[j].thread \in 0..MaxThreads
  BY <1>1, GoesOn DEF Rejected
<1>3. /\ \A k \in Jobs \ {j} : job'[k] = job[k]
      /\ job'[j].auto = b /\ job'[j].row = job[j].row /\ job'[j].at = job[j].at
      /\ job'[j].pc = "failed"
  BY <1>1, <1>2, JobGoesOn
<1>4. /\ UNCHANGED <<row, now, todo, threads, wanted, loose>> /\ unsure \subseteq unsure'
      /\ job[j].pc = "queued" => b \in unsure'
  BY DEF Rejected, WriteFails
<1>5. b \in Automations
  BY <1>1, <1>2 DEF Assigned, TypeOK, Works, Automations, None
<1>6. Whole'
  <2>1. Owned'
    BY <1>1, <1>2, <1>3, <1>4 DEF IInv, Owned
  <2>2. Placed'
    <3>1. Placed
      BY DEF IInv
    <3>2. \A k \in Jobs : /\ job'[k].pc \in {"start", "queued"} =>
                              job[k].pc \in {"start", "queued"} /\ job'[k] = job[k]
                          /\ job'[k].pc # "idle" =>
                              /\ job[k].pc # "idle" /\ job'[k].row = job[k].row
                              /\ job'[k].auto = job[k].auto
      BY <1>2, <1>3
    <3> QED
      BY <1>4, <3>1, <3>2 DEF Placed
  <2>3. Timed'
    BY <1>2, <1>3, <1>4 DEF IInv, Timed, Runs
  <2>4. Fresh'
    <3>1. \A k \in Jobs : /\ job'[k].pc \in {"start", "queued"} => job'[k] = job[k]
                          /\ job'[k].pc # "idle" => job[k].pc # "idle" /\ job'[k].row = job[k].row
      BY <1>2, <1>3
    <3> QED
      BY <1>4, <3>1 DEF IInv, Fresh
  <2> QED
    BY <2>1, <2>2, <2>3, <2>4 DEF Whole
<1>7. ASSUME NEW a \in Automations \ {b} PROVE Own(a)'
  <2>1. Frame(a)
    BY <1>3, <1>4 DEF Frame, Busy
  <2> QED
    BY <2>1, FrameLemma
<1>8. Own(b)'
  <2>0. Runs(j) /\ \A k \in Jobs : /\ job'[k].auto = b => job[k].auto = b
                                   /\ Runs(k)' => Runs(k)
                                   /\ job'[k].row = job[k].row /\ job'[k].at = job[k].at
    BY <1>2, <1>3 DEF Runs
  <2>1. ASSUME b \notin loose' PROVE Single(b)' /\ Kept(b)'
    <3>1. Single(b) /\ Kept(b)
      BY <1>4, <1>5, <2>1 DEF IInv, Own
    <3> QED
      BY <1>4, <2>0, <3>1 DEF Single, Kept
  <2>2. ASSUME b \notin unsure' PROVE Sure(b)'
    <3>1. One(b) /\ Apart(b) /\ DueOnce(b) /\ job[j].pc # "queued"
      BY <1>4, <1>5, <2>2 DEF IInv, Own, Sure
    <3>2. \A t : Pending(b, t)' <=> Pending(b, t)
      BY <1>3, <3>1 DEF Pending
    <3>3. Noted(b)' = Noted(b)
      BY <1>4, <3>2 DEF Noted, RunsOf, Started
    <3>4. One(b)'
      BY <1>4, <2>0, <3>1 DEF One
    <3>5. Apart(b)'
      BY <1>4, <2>0, <3>1, <3>2 DEF Apart, RunsOf, Busy
    <3>6. DueOnce(b)'
      <4>1. \A k \in Jobs : job'[k].pc = "start" => job'[k] = job[k]
        BY <1>3
      <4>2. ASSUME NEW k \in Jobs, job'[k].auto = b,
                   job'[k].pc = "update" => job'[k].row.last = row[b].last
            PROVE  Follows(b, job'[k].row.next)
        <5>1. CASE k = j
          BY <1>2, <1>3, <3>1, <5>1 DEF DueOnce
        <5>2. CASE k # j
          BY <1>3, <3>1, <4>2, <5>2 DEF DueOnce
        <5> QED
          BY <5>1, <5>2
      <4> QED
        BY <1>4, <2>0, <3>1, <3>3, <4>1, <4>2 DEF DueOnce, Follows, RunsOf, Started
    <3> QED
      BY <3>4, <3>5, <3>6 DEF Sure
  <2> QED
    BY <2>1, <2>2 DEF Own
<1> QED
  BY <1>6, <1>7, <1>8

\* A write that fails otherwise: the job, or the whole tick, ends.
LEMMA AbortedInv ==
    ASSUME IInv, NEW j \in Jobs, WriteFails(j), job[j].pc # "queued"
    PROVE  Whole' /\ \A a \in Automations : Own(a)'
<1> USE Constant
<1>1. TypeOK /\ Assigned
  BY DEF IInv
<1>2. /\ job' = [job EXCEPT ![j] = Idle] /\ todo' \subseteq todo
      /\ UNCHANGED <<row, now, threads, wanted, loose, unsure>>
  BY DEF WriteFails, Aborted
<1>3. job'[j] = Idle /\ \A k \in Jobs \ {j} : job'[k] = job[k]
  BY <1>1, <1>2, JobEnds
<1>4. Idle.pc = "idle" /\ Idle.at = 0 /\ Idle.auto = None /\ 0 <= now
  BY <1>1 DEF Idle, TypeOK
<1>5. Whole'
  <2>1. Owned'
    BY <1>2, <1>3, <1>4 DEF IInv, Owned
  <2>2. Placed'
    BY <1>2, <1>3, <1>4 DEF IInv, Placed
  <2>3. Timed'
    BY <1>2, <1>3, <1>4 DEF IInv, Timed, Runs
  <2>4. Fresh'
    BY <1>2, <1>3, <1>4 DEF IInv, Fresh
  <2> QED
    BY <2>1, <2>2, <2>3, <2>4 DEF Whole
<1>6. ASSUME NEW a \in Automations PROVE Own(a)'
  <2>1. Frame(a)
    BY <1>2, <1>3, <1>4 DEF Frame, Busy
  <2> QED
    BY <2>1, FrameLemma
<1> QED
  BY <1>5, <1>6

\* What the user is told changes for b at most.
ToldOf(b) == \A a \in Automations \ {b} : wanted'[a] = wanted[a]

\* A job ends and writes r to b's row: what that needs of r.
LEMMA WrittenInv ==
    ASSUME IInv, NEW j \in Jobs, job[j].pc # "idle", NEW r \in Rows, NEW b \in Automations,
           b = job[j].auto, row' = [row EXCEPT ![b] = r], job' = [job EXCEPT ![j] = Idle],
           UNCHANGED <<now, todo, threads, loose>>, unsure \subseteq unsure',
           ToldOf(b),
           r.status # "none",
           r.last # None => r.last \in DOMAIN threads /\ threads[r.last].auto = b,
           \A k \in Jobs \ {j} : job[k].pc \in {"start", "queued"} => job[k].thread # r.last,
           Single(b) /\ Kept(b) => Says(r) = wanted'[b],
           b \notin unsure' => Sure(b)'
    PROVE  Whole' /\ \A a \in Automations : Own(a)'
<1> USE Constant
<1>1. TypeOK /\ Assigned
  BY DEF IInv
<1>2. job'[j] = Idle /\ \A k \in Jobs \ {j} : job'[k] = job[k]
  BY <1>1, JobEnds
<1>3. row'[b] = r /\ \A a \in Automations \ {b} : row'[a] = row[a] /\ wanted'[a] = wanted[a]
  BY <1>1 DEF TypeOK, ToldOf
<1>4. Idle.pc = "idle" /\ Idle.at = 0 /\ Idle.auto = None /\ 0 <= now
  BY <1>1 DEF Idle, TypeOK
<1>5. Whole'
  <2>1. Owned'
    <3>1. \A k \in Jobs : job[k].pc # "idle" => job[k].auto \in Automations
      BY <1>1 DEF TypeOK, Assigned, Works, Automations, None
    <3> QED
      BY <1>1, <1>2, <1>3, <1>4, <3>1, Numbers DEF IInv, Owned
  <2>2. Placed'
    <3>1. \A t \in DOMAIN threads : threads[t].auto \in Automations
      BY <1>1, Numbers DEF Threads
    <3> QED
      BY <1>2, <1>3, <1>4, <3>1 DEF IInv, Placed
  <2>3. Timed'
    BY <1>2, <1>3, <1>4 DEF IInv, Timed, Runs
  <2>4. Fresh'
    <3>1. \A k \in Jobs : /\ job'[k].pc # "idle" => k # j /\ job'[k] = job[k]
                          /\ job'[k].pc = "start" => k # j /\ job'[k] = job[k]
                          /\ job'[k].pc \in {"start", "queued"} => k # j /\ job'[k] = job[k]
      BY <1>2, <1>4
    <3>2. \A k \in Jobs : job'[k].pc \in {"start", "queued"} =>
              \A a \in Automations : row'[a].last # job'[k].thread
      BY <1>3, <3>1 DEF IInv, Fresh
    <3> QED
      BY <3>1, <3>2 DEF IInv, Fresh
  <2> QED
    BY <2>1, <2>2, <2>3, <2>4 DEF Whole
<1>6. ASSUME NEW a \in Automations \ {b} PROVE Own(a)'
  <2>1. Frame(a)
    BY <1>2, <1>3, <1>4 DEF Frame, Busy
  <2> QED
    BY <2>1, FrameLemma
<1>7. Own(b)'
  <2>1. ASSUME b \notin loose' PROVE Single(b)' /\ Kept(b)'
    <3>1. Single(b) /\ Kept(b)
      BY <2>1 DEF IInv, Own
    <3>2. (\A k \in Jobs : job'[k].auto # b) /\ (\A d \in todo : d.auto # b)
      BY <1>2, <1>4, <3>1 DEF Single
    <3> QED
      BY <1>3, <3>1, <3>2 DEF Single, Kept
  <2> QED
    BY <2>1 DEF Own
<1> QED
  BY <1>5, <1>6, <1>7

\* The three writes: of a run, of a run that failed, of an update.
LEMMA WritesInv ==
    ASSUME IInv, NEW j \in Jobs, MarkQueued(j) \/ MarkFailed(j) \/ UpdateWrites(j)
    PROVE  Whole' /\ \A a \in Automations : Own(a)'
<1> USE Constant
<1> PICK b : b = job[j].auto
  OBVIOUS
<1> PICK q : q = job[j].row
  OBVIOUS
<1> PICK at : at = job[j].at
  OBVIOUS
<1>1. TypeOK /\ Assigned
  BY DEF IInv
<1>2. /\ job[j].pc # "idle" /\ q \in Rows /\ at \in 0..MaxTime /\ job[j].thread \in 0..MaxThreads
      /\ job' = [job EXCEPT ![j] = Idle] /\ UNCHANGED <<now, todo, threads, loose>>
      /\ unsure \subseteq unsure'
  BY <1>1, Numbers DEF MarkQueued, MarkFailed, UpdateWrites
<1>3. b \in Automations
  BY <1>1, <1>2 DEF Assigned, TypeOK, Works, Automations, None
<1>4. q.status # "none" /\ (q.last # None => q.last \in DOMAIN threads /\ threads[q.last].auto = b)
  BY <1>2 DEF IInv, Owned, Placed
<1>5. \A t \in DOMAIN threads : threads[t].due \in Int /\ t # None
  BY <1>1, Numbers DEF TypeOK, None
<1>6. job'[j] = Idle /\ \A k \in Jobs \ {j} : job'[k] = job[k]
  BY <1>1, <1>2, JobEnds
<1>7. \A k \in Jobs : job'[k].auto = b => k # j /\ job'[k] = job[k]
  BY <1>3, <1>6, IdleType
<1>8. /\ RunsOf(b)' = RunsOf(b) /\ Says(q) = Says(q)'
      /\ \A t : (Busy(t)' <=> Busy(t)) /\ (Started(t)' <=> Started(t))
  BY <1>2 DEF RunsOf, Busy, Started, Says
<1>9. \A k \in Jobs \ {j} : job[k].pc \in {"start", "queued"} => job[k].thread # q.last
  BY <1>2 DEF IInv, Fresh
<1>10. ASSUME Single(b), Kept(b), Runs(j) PROVE Says(q) = wanted[b]
  BY <1>10 DEF Kept
<1>11. b \notin unsure' => One(b) /\ Apart(b) /\ DueOnce(b)
  BY <1>2, <1>3 DEF IInv, Own, Sure
\* When a run ends, no other is under way, and every time started has come.
<1>12. ASSUME b \notin unsure', Runs(j)
       PROVE  /\ q.last = row[b].last /\ \A k \in Jobs : job'[k].auto = b => ~Runs(k)'
              /\ \A k \in Jobs : job'[k].auto = b => job'[k].pc = "update" /\ job'[k] = job[k]
              /\ \A t \in RunsOf(b) : Busy(t) => job[j].pc = "queued" /\ t = job[j].thread
              /\ \A t \in RunsOf(b) : Started(t) => threads[t].due < at + 1
              /\ \A t : ~Pending(b, t)'
  <2>1. \A k \in Jobs : job[k].auto = b /\ Runs(k) => k = j
    BY <1>11, <1>12 DEF One
  <2>2. \A k \in Jobs : job'[k].auto = b => ~Runs(k)'
    BY <1>7, <2>1 DEF Runs
  <2>3. ASSUME NEW k \in Jobs, job'[k].auto = b PROVE job'[k].pc = "update" /\ job'[k] = job[k]
    <3>1. /\ job'[k] = job[k] /\ ~Runs(k) /\ job[k].pc # "idle" /\ job[k] \in Works
      BY <1>1, <1>3, <1>7, <2>1, <2>3 DEF Assigned, TypeOK
    <3> QED
      BY <3>1 DEF Works, Runs
  <2>4. ASSUME NEW t \in RunsOf(b), Busy(t) PROVE job[j].pc = "queued" /\ t = job[j].thread
    <3>1. t # row[b].last
      BY <1>5, <1>11, <1>12, <2>4 DEF Apart, RunsOf
    <3>2. Pending(b, t)
      BY <1>11, <1>12, <2>4, <3>1 DEF Apart
    <3> QED
      BY <2>1, <3>2 DEF Pending, Runs
  <2>5. ASSUME NEW t \in RunsOf(b), Started(t) PROVE threads[t].due < at + 1
    <3>1. threads[t].due <= at
      BY <1>11, <1>12, <2>5 DEF DueOnce
    <3> QED
      BY <1>2, <1>5, <3>1 DEF RunsOf
  <2>6. q.last = row[b].last
    BY <1>11, <1>12 DEF One
  <2>7. \A t : ~Pending(b, t)'
    BY <2>2 DEF Pending, Runs
  <2> QED
    BY <2>2, <2>3, <2>4, <2>5, <2>6, <2>7
<1>13. ASSUME b \notin unsure', Runs(j), row'[b].next \in {Never, at + 1},
              \A t \in RunsOf(b) : Busy(t) => t = row'[b].last,
              \A d \in todo : d.auto = b => d.row.last # row'[b].last \/ Follows(b, d.row.next)',
              \A k \in Jobs : job'[k].auto = b =>
                    job'[k].row.last # row'[b].last \/ Follows(b, job[k].row.next)'
       PROVE  Sure(b)'
  <2>1. One(b)'
    BY <1>12, <1>13 DEF One
  <2>2. Apart(b)'
    <3>1. \A k \in Jobs : job'[k].auto = b => ~Runs(k)'
      BY <1>12, <1>13
    <3>2. \A t \in RunsOf(b)' : Busy(t)' => t = row'[b].last
      BY <1>8, <1>13
    <3> QED
      BY <3>1, <3>2 DEF Apart
  <2>3. \A due \in Noted(b)' : due < at + 1
    BY <1>2, <1>8, <1>12, <1>13 DEF Noted
  <2>4. Follows(b, row[b].next)'
    BY <1>13, <2>3 DEF Follows
  <2>5. \A k \in Jobs : job'[k].auto = b => job'[k].pc = "update" /\ ~Runs(k)'
    BY <1>12, <1>13
  <2>6. \A t, u \in RunsOf(b) : Started(t) /\ Started(u) /\ threads[t].due = threads[u].due => t = u
    BY <1>11, <1>13 DEF DueOnce
  <2>7. DueOnce(b)'
    <3>1. \A d \in todo' : d.auto = b /\ d.row.last = row'[b].last => Follows(b, d.row.next)'
      BY <1>2, <1>13
    <3>2. \A t, u \in RunsOf(b)' :
              Started(t)' /\ Started(u)' /\ threads'[t].due = threads'[u].due => t = u
      BY <1>2, <1>8, <2>6
    <3>3. \A k \in Jobs : job'[k].auto = b /\ (job'[k].pc = "update" => job'[k].row.last = row'[b].last)
              => Follows(b, job[k].row.next)'
      BY <1>13, <2>5
    <3>4. \A k \in Jobs : job'[k].auto = b => job'[k].pc # "start" /\ ~Runs(k)'
      BY <2>5
    <3> QED
      BY <2>4, <3>1, <3>2, <3>3, <3>4 DEF DueOnce
  <2> QED
    BY <2>1, <2>2, <2>7 DEF Sure
<1>14. CASE MarkQueued(j)
  <2>0. PICK r : r = QueuedRow(q, at, job[j].thread)
    OBVIOUS
  <2>1. /\ r \in Rows /\ r.status = q.status /\ r.last = job[j].thread /\ r.next \in {Never, at + 1}
        /\ Says(r) = Says(q)
    BY <1>2, <2>0, NextAtType DEF QueuedRow, Rows, Says
  <2>2. /\ job[j].pc = "queued" /\ row' = [row EXCEPT ![b] = r] /\ wanted' = wanted /\ Runs(j)
    BY <1>14, <2>0 DEF MarkQueued, Runs
  <2>3. r.last \in DOMAIN threads /\ threads[r.last].auto = b
    BY <2>1, <2>2 DEF IInv, Placed
  <2>4. Single(b) /\ Kept(b) => Says(r) = wanted'[b]
    BY <1>10, <2>1, <2>2
  <2>5. \A k \in Jobs \ {j} : job[k].pc \in {"start", "queued"} => job[k].thread # r.last
    BY <2>1, <2>2 DEF IInv, Fresh
  <2>6. ASSUME b \notin unsure' PROVE Sure(b)'
    <3>1. row'[b] = r
      BY <1>1, <1>3, <2>2 DEF TypeOK
    <3>2. \A d \in todo : d.row.last # r.last
      BY <2>1, <2>2 DEF IInv, Fresh
    <3>3. \A k \in Jobs : job'[k].auto = b => job'[k].row.last # r.last
      <4>1. \A k \in Jobs : job'[k].auto = b => job[k].pc # "idle" /\ job'[k] = job[k]
        BY <1>1, <1>3, <1>7 DEF Assigned
      <4> QED
        BY <2>1, <2>2, <4>1 DEF IInv, Fresh
    <3>4. \A t \in RunsOf(b) : Busy(t) => t = r.last
      BY <1>12, <2>1, <2>2, <2>6
    <3> QED
      BY <1>13, <2>1, <2>2, <2>6, <3>1, <3>2, <3>3, <3>4
  <2>7. ToldOf(b) /\ r.status # "none"
    BY <1>4, <2>1, <2>2 DEF ToldOf
  <2> QED
    BY <1>2, <1>3, <2>1, <2>2, <2>3, <2>4, <2>5, <2>6, <2>7, WrittenInv
<1>15. CASE MarkFailed(j)
  <2>0. PICK r : r = [q EXCEPT !.next = NextAt(q.status, at)]
    OBVIOUS
  <2>1. /\ r \in Rows /\ r.status = q.status /\ r.last = q.last /\ r.next \in {Never, at + 1}
        /\ Says(r) = Says(q)
    BY <1>2, <2>0, NextAtType DEF Rows, Says
  <2>2. /\ job[j].pc = "failed" /\ row' = [row EXCEPT ![b] = r] /\ wanted' = wanted /\ Runs(j)
    BY <1>15, <2>0 DEF MarkFailed, Runs
  <2>3. Single(b) /\ Kept(b) => Says(r) = wanted'[b]
    BY <1>10, <2>1, <2>2
  <2>4. ASSUME b \notin unsure' PROVE Sure(b)'
    <3>1. row'[b] = r /\ r.last = row[b].last
      BY <1>1, <1>3, <1>12, <2>1, <2>2, <2>4 DEF TypeOK
    <3>2. Noted(b)' \subseteq Noted(b)
      <4>1. \A k \in Jobs : job[k].auto = b /\ Runs(k) => k = j
        BY <1>11, <2>2, <2>4 DEF One
      <4>2. \A t : ~Pending(b, t)
        BY <2>2, <4>1 DEF Pending, Runs
      <4> QED
        BY <1>2, <1>8, <4>2 DEF Noted
    <3>3. \A d \in todo : d.auto = b => d.row.last # r.last \/ Follows(b, d.row.next)'
      BY <1>11, <2>4, <3>1, <3>2 DEF DueOnce, Follows
    <3>4. \A k \in Jobs : job'[k].auto = b => job'[k].row.last # r.last \/ Follows(b, job[k].row.next)'
      BY <1>7, <1>11, <2>4, <3>1, <3>2 DEF DueOnce, Follows
    <3>5. \A t \in RunsOf(b) : Busy(t) => t = r.last
      BY <1>12, <2>2, <2>4
    <3> QED
      BY <1>13, <2>1, <2>2, <2>4, <3>1, <3>3, <3>4, <3>5
  <2>5. /\ r.last # None => r.last \in DOMAIN threads /\ threads[r.last].auto = b
        /\ \A k \in Jobs \ {j} : job[k].pc \in {"start", "queued"} => job[k].thread # r.last
        /\ r.status # "none" /\ ToldOf(b)
    BY <1>4, <1>9, <2>1, <2>2 DEF ToldOf
  <2> QED
    BY <1>2, <1>3, <2>1, <2>2, <2>3, <2>4, <2>5, WrittenInv
<1>16. CASE UpdateWrites(j)
  <2>0. PICK r : r = q
    OBVIOUS
  <2>1. /\ job[j].pc = "update" /\ row' = [row EXCEPT ![b] = q]
        /\ wanted' = [wanted EXCEPT ![b] = Says(q)]
        /\ b \notin unsure' => q.last = row[b].last
    BY <1>16 DEF UpdateWrites
  <2>2. wanted'[b] = Says(q) /\ ToldOf(b)
    BY <1>1, <1>3, <2>1 DEF TypeOK, ToldOf
  <2>3. ASSUME b \notin unsure' PROVE Sure(b)'
    <3>1. row'[b] = q /\ row'[b].last = row[b].last
      BY <1>1, <1>3, <2>1, <2>3 DEF TypeOK
    <3>2. \A t : Pending(b, t)' <=> Pending(b, t)
      BY <1>6, <1>7, <2>1 DEF Pending
    <3>3. \A k \in Jobs : job'[k].auto = b => job'[k] = job[k] /\ (Runs(k)' <=> Runs(k))
      BY <1>7 DEF Runs
    <3>4. One(b)'
      BY <1>11, <2>3, <3>1, <3>3 DEF One
    <3>5. Apart(b)'
      BY <1>8, <1>11, <2>3, <3>1, <3>2, <3>3 DEF Apart
    <3>6. Noted(b)' = Noted(b)
      BY <1>2, <1>8, <3>2 DEF Noted
    <3>7. Follows(b, q.next)
      BY <1>11, <2>1, <2>3 DEF DueOnce
    <3>8. DueOnce(b)'
      <4>1. DueOnce(b) /\ Follows(b, q.next)
        BY <1>11, <2>3, <3>7
      <4>2. \A next : Follows(b, next)' <=> Follows(b, next)
        BY <3>6 DEF Follows
      <4>3. Follows(b, row[b].next)'
        BY <3>1, <4>1, <4>2
      <4>4. \A d \in todo' : d.auto = b /\ d.row.last = row'[b].last => Follows(b, d.row.next)'
        BY <1>2, <3>1, <4>1, <4>2 DEF DueOnce
      <4>5. \A k \in Jobs : job'[k].auto = b /\ (job'[k].pc = "update" => job'[k].row.last = row'[b].last)
                => Follows(b, job[k].row.next)'
        BY <3>1, <3>3, <4>1, <4>2 DEF DueOnce
      <4>6. \A k \in Jobs : job'[k].auto = b /\ job'[k].pc = "start" =>
                threads'[job'[k].thread].due \in {Never, job'[k].row.next}
        BY <1>2, <3>3, <4>1 DEF DueOnce
      <4>7. \A k \in Jobs : job'[k].auto = b /\ Runs(k)' =>
                \A t \in RunsOf(b)' : Started(t)' => threads'[t].due <= job'[k].at
        BY <1>2, <1>8, <3>3, <4>1 DEF DueOnce
      <4>8. \A t, u \in RunsOf(b)' :
                Started(t)' /\ Started(u)' /\ threads'[t].due = threads'[u].due => t = u
        BY <1>2, <1>8, <4>1 DEF DueOnce
      <4> QED
        BY <4>3, <4>4, <4>5, <4>6, <4>7, <4>8 DEF DueOnce
    <3> QED
      BY <3>4, <3>5, <3>8 DEF Sure
  <2>4. /\ r.last # None => r.last \in DOMAIN threads /\ threads[r.last].auto = b
        /\ \A k \in Jobs \ {j} : job[k].pc \in {"start", "queued"} => job[k].thread # r.last
        /\ r.status # "none"
    BY <1>4, <1>9, <2>0
  <2>5. r \in Rows /\ row' = [row EXCEPT ![b] = r]
    BY <1>2, <2>0, <2>1
  <2>6. Single(b) /\ Kept(b) => Says(r) = wanted'[b]
    BY <2>0, <2>2
  <2> QED
    BY <1>2, <1>3, <2>2, <2>3, <2>4, <2>5, <2>6, WrittenInv
<1> QED
  BY <1>14, <1>15, <1>16

LEMMA StepInv == IInv /\ [Next]_vars => IInv'
<1> SUFFICES ASSUME IInv, [Next]_vars PROVE IInv'
  OBVIOUS
<1>1. TypeOK' /\ Assigned'
  BY TypeStep DEF IInv
<1>2. Whole' /\ \A a \in Automations : Own(a)'
  <2>1. CASE \E a \in Automations : \E status \in {"active", "paused"} : Create(a, status)
    BY <2>1, CreateInv
  <2>2. CASE \E a \in Automations : Delete(a)
    BY <2>2, DeleteInv
  <2>3. CASE \E a \in Automations, c \in Callers :
                \/ RunNow(c, a)
                \/ \E patch \in {"pause", "resume", "edit"} : UpdateReads(c, a, patch)
    BY <2>3, RunNowInv, UpdateReadsInv
  <2>4. CASE Tick
    BY <2>4, TickListsInv, TickTakesInv DEF Tick
  <2>5. CASE \/ \E c \in Callers : UpdateWrites(c)
             \/ \E j \in Jobs : MarkQueued(j) \/ MarkFailed(j)
    BY <2>5, WritesInv DEF Jobs
  <2>6. CASE \E j \in Jobs : CreateThread(j) \/ StartTurn(j)
    BY <2>6, CreateThreadInv, StartTurnInv
  <2>7. CASE \E j \in Jobs : Rejected(j) \/ WriteFails(j)
    BY <2>7, FailsInv, AbortedInv
  <2>8. CASE Clock
    BY <2>8, ClockInv
  <2>9. CASE \E t \in DOMAIN threads : Turn(t) \/ Capture(t) \/ CaptureFails(t)
    BY <2>9, ThreadInv
  <2>10. CASE Crash
    BY <2>10, CrashInv
  <2>11. CASE UNCHANGED vars
    <3>1. Whole'
      BY <2>11 DEF vars, IInv, Whole, Owned, Placed, Timed, Fresh, Runs
    <3>2. \A a \in Automations : Frame(a)
      BY <2>11 DEF vars, Frame, Busy
    <3> QED
      BY <3>1, <3>2, FrameLemma
  <2> QED
    BY <2>1, <2>2, <2>3, <2>4, <2>5, <2>6, <2>7, <2>8, <2>9, <2>10, <2>11 DEF Next, Run
<1> QED
  BY <1>1, <1>2 DEF IInv, Whole

LEMMA Invariant == Spec => []IInv
BY InitInv, StepInv, PTL DEF Spec

\* What the user was told an automation says, no run takes back unless it overlapped:
\* a run writes the whole row as it was read.
THEOREM AutomationEditsAreKept == Spec => []EditsAreKept
<1>1. IInv => EditsAreKept
  BY DEF IInv, Own, Kept, EditsAreKept
<1> QED
  BY <1>1, Invariant, PTL

\* Two runs of an automation are never under way together, unless a run began that could
\* not see one before it, or the row lost track of one (unsure).
THEOREM AutomationRunsDoNotOverlap == Spec => []RunsDoNotOverlap
<1>1. IInv => RunsDoNotOverlap
  <2> SUFFICES ASSUME IInv, NEW a \in Automations \ unsure,
                      NEW t \in RunsOf(a), NEW u \in RunsOf(a), Busy(t), Busy(u)
               PROVE  t = u
    BY DEF RunsDoNotOverlap, Busy
  <2>1. One(a) /\ Apart(a)
    BY DEF IInv, Own, Sure
  <2>2. t # None /\ u # None
    BY DEF IInv, TypeOK, RunsOf, None
  <2>3. CASE t = row[a].last /\ Pending(a, u)
    BY <2>1, <2>2, <2>3 DEF Apart, Pending, Runs
  <2>4. CASE u = row[a].last /\ Pending(a, t)
    BY <2>1, <2>2, <2>4 DEF Apart, Pending, Runs
  <2>5. CASE Pending(a, t) /\ Pending(a, u)
    BY <2>1, <2>5 DEF One, Pending, Runs
  <2> QED
    BY <2>1, <2>3, <2>4, <2>5 DEF Apart
<1> QED
  BY <1>1, Invariant, PTL

\* A time that has come starts one turn, through refused commands, aborted ticks and
\* crashes, with the same exceptions.
THEOREM AutomationRunsOncePerTime == Spec => []OneTurnPerDueTime
<1>1. IInv => OneTurnPerDueTime
  BY DEF IInv, Own, Sure, DueOnce, OneTurnPerDueTime, Started, RunsOf
<1> QED
  BY <1>1, Invariant, PTL
=============================================================================

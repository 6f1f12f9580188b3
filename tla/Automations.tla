---------------------------- MODULE Automations ----------------------------
(***************************************************************************)
(* Scheduled automations.  Every 30 seconds the scheduler lists the due     *)
(* rows and runs them one after the other; a user's runNow does the same    *)
(* for one row.  A run creates a thread, starts its turn and writes the     *)
(* whole row back as it was read, with the next time and the thread.        *)
(* update is a read and a write of the row as well, delete sets one column. *)
(* Nothing serialises them.  Whether the previous run is still active is    *)
(* asked of the engine's read model, where a turn that ended stays open     *)
(* until its checkpoint is captured.                                        *)
(*                                                                          *)
(* Time is counted in periods of the schedules.                             *)
(***************************************************************************)
EXTENDS Integers, Sequences

CONSTANTS N,            \* automations
          Callers,      \* users' requests that run at the same time
          Repositories, \* automations whose workspace is a git repository
          MaxTime, MaxThreads, MaxEdits,
          MaxFaults     \* refused commands, failed writes and captures, crashes

ASSUME AutomationConstants ==
    /\ N \in Nat /\ MaxTime \in Nat /\ MaxThreads \in Nat
    /\ MaxEdits \in Nat /\ MaxFaults \in Nat
    /\ Repositories \subseteq 1..N /\ "tick" \notin Callers

Automations == 1..N
Jobs == {"tick"} \cup Callers
None == 0
Never == -1

Rows == [status : {"none", "active", "paused"}, deleted : BOOLEAN,
         prompt : 0..MaxEdits, next : -1..MaxTime + 1, last : 0..MaxThreads]
Works == [pc : {"idle", "create", "start", "queued", "failed", "update"},
          auto : 0..N, row : Rows, thread : 0..MaxThreads, at : 0..MaxTime]
Threads == [auto : Automations, turn : {"none", "queued", "running", "done"},
            open : BOOLEAN, repo : BOOLEAN, due : -1..MaxTime + 1]
Told == [status : {"none", "active", "paused"}, deleted : BOOLEAN, prompt : 0..MaxEdits]

VARIABLES
    row,      \* the automations table
    now,
    todo,     \* the due rows the tick has listed and not run
    job,      \* the run or the update of each job: its row as it was read
    threads,  \* the automations' threads and their turn; open: in the read
              \* model the latest turn has no completedAt
    edits,
    faults,
    wanted,   \* auxiliary: what the user was told the row says
    loose,    \* auxiliary: automations two jobs worked on at the same time
    unsure    \* auxiliary: automations of which a run began blind to another
              \* (Unseen), or whose row lost track of one

vars == <<row, now, todo, job, threads, edits, faults, wanted, loose, unsure>>

NoRow == [status |-> "none", deleted |-> FALSE, prompt |-> 0, next |-> Never,
          last |-> None]
Says(r) == [status |-> r.status, deleted |-> r.deleted, prompt |-> r.prompt]
Idle == [pc |-> "idle", auto |-> None, row |-> NoRow, thread |-> None, at |-> 0]

Init ==
    /\ row = [a \in Automations |-> NoRow]
    /\ now = 0 /\ todo = {} /\ threads = <<>> /\ edits = 0 /\ faults = 0
    /\ job = [j \in Jobs |-> Idle]
    /\ wanted = [a \in Automations |-> Says(NoRow)]
    /\ loose = {} /\ unsure = {}
-----------------------------------------------------------------------------
\* Slip: the minute that is running counts as well.
NextAtOnce(status, t) == IF status = "active" THEN t ELSE Never

\* computeNextAutomationRunAt: the first time after t.
NextAt(status, t) == IF status = "active" THEN t + 1 ELSE Never

Exists(a) == row[a].status # "none" /\ ~row[a].deleted
Due(a) == Exists(a) /\ row[a].status = "active" /\ row[a].next # Never /\ row[a].next <= now

\* hasActiveAutomationTurn, of the read model.
Active(t) == t # None /\ (threads[t].turn = "running" \/ threads[t].open)

\* A job works on a, or is about to, with a row it has read.
Held(a) == (\E j \in Jobs : job[j].auto = a) \/ (\E d \in todo : d.auto = a)

\* Jobs that read the rows of A now: do they overlap others?
Reads(A) == loose' = loose \cup {a \in A : Held(a)}

\* Job j runs an automation.
Runs(j) == job[j].pc \in {"create", "start", "queued", "failed"}

\* What a run of a with row r does not see when it asks whether the last is active: a run
\* that was noted since r was read, one that is not noted yet, a turn that waits to be run.
Unseen(a, r) ==
    \/ r.last # row[a].last
    \/ \E j \in Jobs : job[j].auto = a /\ Runs(j)
    \/ r.last # None /\ threads[r.last].turn = "queued"
-----------------------------------------------------------------------------
(* The user's requests.                                                    *)

Create(a, status) ==
    /\ row[a].status = "none"
    /\ row' = [row EXCEPT ![a] = [NoRow EXCEPT !.status = status,
                                              !.next = NextAt(status, now)]]
    /\ wanted' = [wanted EXCEPT ![a] = Says(row'[a])]
    /\ UNCHANGED <<now, todo, job, threads, edits, faults, loose, unsure>>

Patched(r, patch) ==
    CASE patch = "pause" -> [r EXCEPT !.status = "paused"]
      [] patch = "resume" -> [r EXCEPT !.status = "active"]
      [] patch = "edit" -> [r EXCEPT !.prompt = edits + 1]

\* update: read, merge, and then write.
UpdateReads(c, a, patch) ==
    /\ job[c].pc = "idle" /\ Exists(a) /\ edits < MaxEdits
    /\ edits' = edits + 1
    /\ LET r == Patched(row[a], patch) IN
        job' = [job EXCEPT ![c] = [Idle EXCEPT !.pc = "update", !.auto = a,
                    !.row = [r EXCEPT !.next = NextAt(r.status, now)]]]
    /\ Reads({a})
    /\ UNCHANGED <<row, now, todo, threads, faults, wanted, unsure>>

UpdateWrites(c) ==
    /\ job[c].pc = "update"
    /\ row' = [row EXCEPT ![job[c].auto] = job[c].row]
    /\ wanted' = [wanted EXCEPT ![job[c].auto] = Says(job[c].row)]
    /\ job' = [job EXCEPT ![c] = Idle]
    /\ unsure' = IF job[c].row.last # row[job[c].auto].last
                 THEN unsure \cup {job[c].auto} ELSE unsure
    /\ UNCHANGED <<now, todo, threads, edits, faults, loose>>

Delete(a) ==
    /\ Exists(a)
    /\ row' = [row EXCEPT ![a].deleted = TRUE]
    /\ wanted' = [wanted EXCEPT ![a].deleted = TRUE]
    /\ Reads({a})
    /\ UNCHANGED <<now, todo, job, threads, edits, faults, unsure>>
-----------------------------------------------------------------------------
(* Runs.                                                                   *)

\* runAutomation's check has passed for row r.
Begin(j, a, r) ==
    /\ job' = [job EXCEPT ![j] = [Idle EXCEPT !.pc = "create", !.auto = a, !.row = r,
                                              !.at = now]]
    /\ unsure' = IF Unseen(a, r) THEN unsure \cup {a} ELSE unsure

RunNow(c, a) ==
    /\ job[c].pc = "idle" /\ Exists(a) /\ ~Active(row[a].last)
    /\ Begin(c, a, row[a])
    /\ Reads({a})
    /\ UNCHANGED <<row, now, todo, threads, edits, faults, wanted>>

\* listDue.
TickLists ==
    /\ job["tick"].pc = "idle" /\ todo = {} /\ \E a \in Automations : Due(a)
    /\ todo' = {[auto |-> a, row |-> row[a]] : a \in {b \in Automations : Due(b)}}
    /\ Reads({a \in Automations : Due(a)})
    /\ UNCHANGED <<row, now, job, threads, edits, faults, wanted, unsure>>

\* Ordered by next_run_at and id.
Earliest(d) ==
    \A e \in todo : \/ d.row.next < e.row.next
                    \/ d.row.next = e.row.next /\ d.auto <= e.auto

TickTakes ==
    /\ job["tick"].pc = "idle"
    /\ \E d \in todo :
        /\ Earliest(d)
        /\ todo' = todo \ {d}
        /\ \/ Active(d.row.last) /\ UNCHANGED <<job, unsure>>
           \/ ~Active(d.row.last) /\ Begin("tick", d.auto, d.row)
    /\ UNCHANGED <<row, now, threads, edits, faults, wanted, loose>>

CreateThread(j) ==
    /\ job[j].pc = "create" /\ Len(threads) < MaxThreads
    /\ threads' = Append(threads, [auto |-> job[j].auto, turn |-> "none", open |-> FALSE,
                                   repo |-> job[j].auto \in Repositories,
                                   due |-> IF j = "tick" THEN job[j].row.next ELSE Never])
    /\ job' = [job EXCEPT ![j].pc = "start", ![j].thread = Len(threads')]
    /\ UNCHANGED <<row, now, todo, edits, faults, wanted, loose, unsure>>

StartTurn(j) ==
    /\ job[j].pc = "start"
    /\ threads' = [threads EXCEPT ![job[j].thread].turn = "queued"]
    /\ job' = [job EXCEPT ![j].pc = "queued"]
    /\ UNCHANGED <<row, now, todo, edits, faults, wanted, loose, unsure>>

\* The engine refuses one of the two commands; the thread may be left without a turn.
Rejected(j) ==
    /\ job[j].pc \in {"create", "start"} /\ faults < MaxFaults
    /\ faults' = faults + 1
    /\ job' = [job EXCEPT ![j].pc = "failed"]
    /\ UNCHANGED <<row, now, todo, threads, edits, wanted, loose, unsure>>

\* Slip: the thread of the run is not noted.
QueuedRowForgets(r, t, thread) ==
    [r EXCEPT !.next = NextAt(r.status, t)]

QueuedRow(r, t, thread) ==
    [r EXCEPT !.next = NextAt(r.status, t), !.last = thread]

MarkQueued(j) ==
    /\ job[j].pc = "queued"
    /\ row' = [row EXCEPT ![job[j].auto] = QueuedRow(job[j].row, job[j].at, job[j].thread)]
    /\ job' = [job EXCEPT ![j] = Idle]
    /\ UNCHANGED <<now, todo, threads, edits, faults, wanted, loose, unsure>>

\* Slip: an automation that failed is not scheduled again.
MarkFailedPauses(j) ==
    /\ job[j].pc = "failed"
    /\ row' = [row EXCEPT ![job[j].auto] =
                [job[j].row EXCEPT !.next = Never, !.status = "paused"]]
    /\ job' = [job EXCEPT ![j] = Idle]
    /\ UNCHANGED <<now, todo, threads, edits, faults, wanted, loose, unsure>>

MarkFailed(j) ==
    /\ job[j].pc = "failed"
    /\ row' = [row EXCEPT ![job[j].auto] =
                [job[j].row EXCEPT !.next = NextAt(job[j].row.status, job[j].at)]]
    /\ job' = [job EXCEPT ![j] = Idle]
    /\ UNCHANGED <<now, todo, threads, edits, faults, wanted, loose, unsure>>

\* Slip: the scheduler's fiber ends with the failure.
AbortedDies(j) == [Idle EXCEPT !.pc = "dead"]

\* A failure ends the request, or the whole tick, until the next one.
Aborted(j) == Idle

\* An upsert fails.  That of a run is caught once: its turn is on its way, and the
\* row will not say so.
WriteFails(j) ==
    /\ job[j].pc \in {"queued", "failed", "update"} /\ faults < MaxFaults
    /\ faults' = faults + 1
    /\ IF job[j].pc = "queued"
       THEN /\ job' = [job EXCEPT ![j].pc = "failed"]
            /\ unsure' = unsure \cup {job[j].auto} /\ UNCHANGED todo
       ELSE /\ job' = [job EXCEPT ![j] = Aborted(j)]
            /\ todo' = IF j = "tick" THEN {} ELSE todo
            /\ UNCHANGED unsure
    /\ UNCHANGED <<row, now, threads, edits, wanted, loose>>
-----------------------------------------------------------------------------
(* Time, the threads' turns, crashes.                                      *)

Clock ==
    /\ now < MaxTime /\ now' = now + 1
    /\ UNCHANGED <<row, todo, job, threads, edits, faults, wanted, loose, unsure>>

TurnStarts(t) ==
    /\ threads[t].turn = "queued"
    /\ threads' = [threads EXCEPT ![t].turn = "running", ![t].open = TRUE]
    /\ UNCHANGED <<row, now, todo, job, edits, faults, wanted, loose, unsure>>

\* The turn ends, or cannot be sent.  The session is set; latestTurn is not.
TurnEnds(t) ==
    /\ threads[t].turn \in {"queued", "running"}
    /\ threads' = [threads EXCEPT ![t].turn = "done"]
    /\ UNCHANGED <<row, now, todo, job, edits, faults, wanted, loose, unsure>>

\* The checkpoint of the turn, in a git repository, completes latestTurn.
Capture(t) ==
    /\ threads[t].turn = "done" /\ threads[t].open /\ threads[t].repo
    /\ threads' = [threads EXCEPT ![t].open = FALSE]
    /\ UNCHANGED <<row, now, todo, job, edits, faults, wanted, loose, unsure>>

CaptureFails(t) ==
    /\ threads[t].turn = "done" /\ threads[t].open /\ threads[t].repo
    /\ faults < MaxFaults
    /\ faults' = faults + 1
    /\ threads' = [threads EXCEPT ![t].repo = FALSE]
    /\ UNCHANGED <<row, now, todo, job, edits, wanted, loose, unsure>>

\* The read model comes back from the tables, where the running turn is interrupted
\* and every turn that ended is complete; a turn that waits is sent again.
Crash ==
    /\ faults < MaxFaults
    /\ faults' = faults + 1
    /\ todo' = {} /\ job' = [j \in Jobs |-> Idle]
    /\ threads' = [t \in DOMAIN threads |->
                    [threads[t] EXCEPT !.turn = IF @ = "running" THEN "done" ELSE @,
                                       !.open = FALSE]]
    /\ unsure' = unsure \cup {job[j].auto : j \in {k \in Jobs : job[k].pc = "queued"}}
    /\ UNCHANGED <<row, now, edits, wanted, loose>>

Run(j) == CreateThread(j) \/ StartTurn(j) \/ MarkQueued(j) \/ MarkFailed(j)
Tick == TickLists \/ TickTakes
Turn(t) == TurnStarts(t) \/ TurnEnds(t)

Next ==
    \/ \E a \in Automations :
        \/ \E status \in {"active", "paused"} : Create(a, status)
        \/ Delete(a)
        \/ \E c \in Callers :
            \/ RunNow(c, a)
            \/ \E patch \in {"pause", "resume", "edit"} : UpdateReads(c, a, patch)
    \/ \E c \in Callers : UpdateWrites(c)
    \/ Tick
    \/ \E j \in Jobs : Run(j) \/ Rejected(j) \/ WriteFails(j)
    \/ Clock
    \/ \E t \in DOMAIN threads : Turn(t) \/ Capture(t) \/ CaptureFails(t)
    \/ Crash

Spec == Init /\ [][Next]_vars

\* Fibers go on, turns end, and what ended in a repository is captured.
Fairness ==
    /\ WF_vars(Tick)
    /\ \A j \in Jobs : WF_vars(Run(j) \/ UpdateWrites(j))
    /\ \A t \in 1..MaxThreads : WF_vars(t \in DOMAIN threads /\ (Turn(t) \/ Capture(t)))

FairSpec == Spec /\ Fairness
-----------------------------------------------------------------------------
\* Every variable has its type.
TypeOK ==
    /\ row \in [Automations -> Rows] /\ now \in 0..MaxTime
    /\ todo \subseteq [auto : Automations, row : Rows]
    /\ job \in [Jobs -> Works]
    /\ threads \in Seq(Threads) /\ Len(threads) <= MaxThreads
    /\ edits \in 0..MaxEdits /\ faults \in 0..MaxFaults
    /\ wanted \in [Automations -> Told]
    /\ loose \subseteq Automations /\ unsure \subseteq Automations

\* What the user was told a row says, prompt, status or that it is deleted, no run
\* takes back, unless it worked on the row at the same time.
EditsAreKept ==
    \A a \in Automations \ loose : Says(row[a]) = wanted[a]

RunsOf(a) == {t \in DOMAIN threads : threads[t].auto = a}

\* Two runs of an automation are never under way together, through refused commands,
\* aborted ticks and updates of the row.  Not promised (unsure), since the code has it: a
\* run that began beside another not yet noted, after another was noted in a row read
\* before, or while the last turn was still queued; an update that wrote back the last run
\* it had read before; a crash or a lost write between the turn and its note.
RunsDoNotOverlap ==
    \A a \in Automations \ unsure :
        \A t, u \in {s \in RunsOf(a) : threads[s].turn \in {"queued", "running"}} : t = u

\* A time that has come starts one turn, through refused commands, aborted ticks, failed
\* captures and crashes before the turn was queued; with the same exceptions.
OneTurnPerDueTime ==
    \A a \in Automations \ unsure :
        \A t, u \in {s \in RunsOf(a) : threads[s].turn # "none" /\ threads[s].due # Never} :
            threads[t].due = threads[u].due => t = u

DueAt(a, t) == Due(a) /\ row[a].next = t

\* The last run ended and the read model will never say so.
Forgotten(a) ==
    /\ row[a].last # None /\ threads[row[a].last].turn = "done"
    /\ threads[row[a].last].open /\ ~threads[row[a].last].repo

\* A due automation is run, or noted as failed, whatever failed before; but for a
\* last run whose end went unnoticed.
DueIsServed ==
    \A a \in Automations : \A t \in 0..MaxTime :
        DueAt(a, t) ~> (~DueAt(a, t) \/ Forgotten(a) \/ Len(threads) = MaxThreads)
=============================================================================

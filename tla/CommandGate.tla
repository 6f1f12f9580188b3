---------------------------- MODULE CommandGate ----------------------------
(***************************************************************************)
(* The gate of the server runtime: commands that arrive before the server  *)
(* is ready wait in a bounded queue, those that arrive later run at once,  *)
(* and a failed startup refuses them all.  A caller reads the readiness    *)
(* and acts on it in separate steps, and its connection may go away.       *)
(***************************************************************************)
EXTENDS Integers, Sequences, Functions

CONSTANTS Callers, NoCaller,
          Capacity      \* STARTUP_COMMAND_QUEUE_CAPACITY (1000)

ASSUME GateConstants == NoCaller \notin Callers /\ Capacity \in Nat \ {0}

VARIABLES
    readiness,  \* commandReadinessState
    ready,      \* the deferred commandReady
    startup,    \* where the startup is
    queue,      \* commandQueue: the callers whose commands it holds
    worker,     \* the caller whose command the command worker holds
    pc,         \* where each caller is
    running,    \* the callers whose command is being run
    ran         \* the callers whose command has been run, and how

vars == <<readiness, ready, startup, queue, worker, pc, running, ran>>

Init ==
    /\ readiness = "pending" /\ ready = "pending" /\ startup = "starting"
    /\ queue = <<>> /\ worker = NoCaller
    /\ pc = [c \in Callers |-> "new"] /\ running = {}
    /\ ran = [c \in Callers |-> 0]
-----------------------------------------------------------------------------
\* signalCommandReady and failCommandReady set the state, then the deferred.
SetReadiness(r) ==
    /\ startup = "starting" /\ startup' = "settling"
    /\ readiness' = r
    /\ UNCHANGED <<ready, queue, worker, pc, running, ran>>

\* Slip: the deferred is succeeded whatever the startup came to.
SettleReadyAlways ==
    /\ startup = "settling" /\ startup' = "over"
    /\ ready' = "ready"
    /\ UNCHANGED <<readiness, queue, worker, pc, running, ran>>

SettleReady ==
    /\ startup = "settling" /\ startup' = "over"
    /\ ready' = readiness
    /\ UNCHANGED <<readiness, queue, worker, pc, running, ran>>
-----------------------------------------------------------------------------
\* enqueueCommand.
ReadReadiness(c) ==
    /\ pc[c] = "new"
    /\ pc' = [pc EXCEPT ![c] = CASE readiness = "ready"   -> "direct"
                                 [] readiness = "failed"  -> "refused"
                                 [] readiness = "pending" -> "offering"]
    /\ UNCHANGED <<readiness, ready, startup, queue, worker, running, ran>>

RunDirect(c) ==
    /\ pc[c] = "direct"
    /\ running' = running \cup {c} /\ pc' = [pc EXCEPT ![c] = "running"]
    /\ UNCHANGED <<readiness, ready, startup, queue, worker, ran>>

\* The offer waits while the queue is full.
Offer(c) ==
    /\ pc[c] = "offering" /\ Len(queue) < Capacity
    /\ queue' = Append(queue, c) /\ pc' = [pc EXCEPT ![c] = "waiting"]
    /\ UNCHANGED <<readiness, ready, startup, worker, running, ran>>

EndDirect(c) ==
    /\ pc[c] = "running"
    /\ running' = running \ {c} /\ ran' = [ran EXCEPT ![c] = @ + 1]
    /\ pc' = [pc EXCEPT ![c] = "answered"]
    /\ UNCHANGED <<readiness, ready, startup, queue, worker>>

\* The caller is interrupted: an offer that waits is withdrawn and a command
\* it runs itself is stopped, but a queued one stays in the queue.
Interrupt(c) ==
    /\ pc[c] \in {"direct", "running", "offering", "waiting"}
    /\ pc' = [pc EXCEPT ![c] = "gone"]
    /\ running' = IF pc[c] = "running" THEN running \ {c} ELSE running
    /\ UNCHANGED <<readiness, ready, startup, queue, worker, ran>>
-----------------------------------------------------------------------------
\* The command worker.
Take ==
    /\ worker = NoCaller /\ queue # <<>>
    /\ worker' = Head(queue) /\ queue' = Tail(queue)
    /\ UNCHANGED <<readiness, ready, startup, pc, running, ran>>

Answer(c, a) == pc' = [pc EXCEPT ![c] = IF @ = "waiting" THEN a ELSE @]

RunQueued ==
    /\ worker # NoCaller /\ worker \notin running /\ ready = "ready"
    /\ running' = running \cup {worker}
    /\ UNCHANGED <<readiness, ready, startup, queue, worker, pc, ran>>

\* Slip: the worker keeps the command it ran.
EndQueuedKeepsCommand ==
    /\ worker \in running
    /\ running' = running \ {worker} /\ ran' = [ran EXCEPT ![worker] = @ + 1]
    /\ Answer(worker, "answered")
    /\ UNCHANGED <<readiness, ready, startup, queue, worker>>

\* The command's exit, success or failure, settles the caller's deferred.
EndQueued ==
    /\ worker \in running
    /\ running' = running \ {worker} /\ ran' = [ran EXCEPT ![worker] = @ + 1]
    /\ Answer(worker, "answered") /\ worker' = NoCaller
    /\ UNCHANGED <<readiness, ready, startup, queue>>

\* Slip: the failure of the startup does not settle the caller's deferred.
RefuseQueuedSilently ==
    /\ worker # NoCaller /\ ready = "failed"
    /\ worker' = NoCaller
    /\ UNCHANGED <<readiness, ready, startup, queue, pc, running, ran>>

RefuseQueued ==
    /\ worker # NoCaller /\ ready = "failed"
    /\ Answer(worker, "refused") /\ worker' = NoCaller
    /\ UNCHANGED <<readiness, ready, startup, queue, running, ran>>

Startup == SetReadiness("ready") \/ SetReadiness("failed")
Worker  == Take \/ RunQueued \/ EndQueued \/ RefuseQueued
Proceed(c) == RunDirect(c) \/ Offer(c) \/ EndDirect(c)

Next ==
    \/ Startup \/ SettleReady \/ Worker
    \/ \E c \in Callers : ReadReadiness(c) \/ Proceed(c) \/ Interrupt(c)

Spec == Init /\ [][Next]_vars

\* Fibers run, commands end, an offer that waits is completed when there is
\* room; the startup may hang, but what it began it ends.
FairSpec ==
    /\ Spec /\ WF_vars(SettleReady) /\ WF_vars(Worker)
    /\ \A c \in Callers : WF_vars(Proceed(c))
-----------------------------------------------------------------------------
(* Properties.                                                              *)

\* The type of every variable; the deferred settles the way the state was set.
TypeOK ==
    /\ readiness \in {"pending", "ready", "failed"}
    /\ ready \in {"pending", readiness}
    /\ startup \in {"starting", "settling", "over"}
    /\ queue \in Seq(Callers) /\ worker \in Callers \cup {NoCaller}
    /\ pc \in [Callers -> {"new", "direct", "running", "offering", "waiting",
                           "answered", "refused", "gone"}]
    /\ running \subseteq Callers /\ ran \in [Callers -> Nat]

\* No command runs before the server is ready, and none ever if its startup
\* failed, however the readiness changes between a caller's read of it and
\* its offer ("enqueueCommand waits for readiness and then drains queued work",
\* "enqueueCommand fails queued work when readiness fails").
RunsOnlyWhenReady ==
    \A c \in Callers : c \in running \/ ran[c] > 0 => readiness = "ready"

\* A command runs at most once, and a caller is answered only after it ran; a
\* refused caller's command never runs.
RunsOnce ==
    \A c \in Callers :
        /\ ran[c] <= 1
        /\ pc[c] = "answered" => ran[c] = 1 /\ c \notin running
        /\ pc[c] = "refused" => ran[c] = 0 /\ c \notin running

\* Once the startup is over no caller is left behind in the queue, or in front
\* of it while it is full: each is answered or refused.
NoCallerIsStranded ==
    \A c \in Callers :
        (startup = "over" /\ pc[c] \in {"offering", "waiting", "direct"})
            ~> pc[c] \in {"answered", "refused", "gone"}

\* The queue holds no more than its capacity, and each command once: queued,
\* in the worker's hands or with its caller.
QueueHoldsWaiting ==
    /\ Len(queue) <= Capacity
    /\ IsInjective(queue) /\ worker \notin Range(queue)
    /\ \A c \in Range(queue) : pc[c] \in {"waiting", "gone"}
    /\ \A c \in Callers : pc[c] = "waiting" => c = worker \/ c \in Range(queue)
=============================================================================

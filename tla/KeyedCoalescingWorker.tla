----------------------- MODULE KeyedCoalescingWorker -----------------------
(***************************************************************************)
(* The keyed worker of packages/shared that keeps only the latest value per *)
(* key; terminals persist their history through it.  Callers enqueue and   *)
(* wait for a key to drain while one worker fiber takes keys, processes    *)
(* them and, after a failure, cleans up in two steps.  Each step is one     *)
(* transaction of the code.                                                *)
(*                                                                         *)
(* A value is its number in the order of enqueue; values of one key that   *)
(* were merged are processed together.                                     *)
(***************************************************************************)
EXTENDS Integers, Sequences, Functions

CONSTANTS Keys, NoKey,
          MaxValues     \* bound: values enqueued

ASSUME WorkerConstants == NoKey \notin Keys /\ MaxValues \in Nat

VARIABLES
    sent,      \* the key of each value ever enqueued
    queue,     \* the transactional queue of keys
    latest,    \* latestByKey: the values merged and not taken yet
    queued,    \* queuedKeys
    active,    \* activeKeys
    pc, key, value,   \* the worker: where it is, its key and values
    done,      \* values processed
    failed,    \* values whose processing failed
    draining   \* keys with a caller waiting in drainKey

state  == <<latest, queued, active>>
worker == <<pc, key, value>>
vars   == <<sent, queue, state, worker, done, failed, draining>>

Init ==
    /\ sent = <<>> /\ queue = <<>>
    /\ latest = [k \in Keys |-> {}] /\ queued = {} /\ active = {}
    /\ pc = "take" /\ key = NoKey /\ value = {}
    /\ done = {} /\ failed = {} /\ draining = {}
-----------------------------------------------------------------------------
\* Merging the value and offering the key, unless it is queued or active, are
\* one transaction.
Enqueue(k) ==
    /\ Len(sent) < MaxValues
    /\ sent' = Append(sent, k)
    /\ latest' = [latest EXCEPT ![k] = @ \cup {Len(sent) + 1}]
    /\ IF k \in queued \cup active
       THEN UNCHANGED <<queue, queued>>
       ELSE queue' = Append(queue, k) /\ queued' = queued \cup {k}
    /\ UNCHANGED <<active, worker, done, failed, draining>>

\* Slip: a key that is being processed counts as idle.
IdleWhileActive(k) == latest[k] = {} /\ k \notin queued

Idle(k) == latest[k] = {} /\ k \notin queued /\ k \notin active

DrainCall(k) ==
    /\ k \notin draining /\ draining' = draining \cup {k}
    /\ UNCHANGED <<sent, queue, state, worker, done, failed>>

DrainReturn(k) ==
    /\ k \in draining /\ Idle(k)
    /\ draining' = draining \ {k}
    /\ UNCHANGED <<sent, queue, state, worker, done, failed>>
-----------------------------------------------------------------------------
\* Taking a key and reading its state are two transactions.
Take ==
    /\ pc = "take" /\ queue # <<>>
    /\ key' = Head(queue) /\ queue' = Tail(queue)
    /\ pc' = "taken"
    /\ UNCHANGED <<sent, state, value, done, failed, draining>>

\* The key is not queued any more; a value it has is taken and the key active.
Begin ==
    /\ pc = "taken"
    /\ queued' = queued \ {key}
    /\ IF latest[key] = {}
       THEN pc' = "take" /\ key' = NoKey /\ UNCHANGED <<latest, active, value>>
       ELSE /\ value' = latest[key]
            /\ latest' = [latest EXCEPT ![key] = {}]
            /\ active' = active \cup {key}
            /\ pc' = "process" /\ key' = key
    /\ UNCHANGED <<sent, queue, done, failed, draining>>

ProcessSucceeds ==
    /\ pc = "process" /\ pc' = "finish"
    /\ done' = done \cup value /\ value' = {}
    /\ UNCHANGED <<sent, queue, state, key, failed, draining>>

ProcessFails ==
    /\ pc = "process" /\ pc' = "cleanup"
    /\ failed' = failed \cup value /\ value' = {}
    /\ UNCHANGED <<sent, queue, state, key, done, draining>>

\* Slip: the newest value is taken and the ones it replaces are left behind.
FinishTakesNewest ==
    /\ pc = "finish"
    /\ IF latest[key] = {}
       THEN /\ active' = active \ {key}
            /\ pc' = "take" /\ key' = NoKey /\ UNCHANGED <<latest, value>>
       ELSE /\ value' = {i \in latest[key] : \A j \in latest[key] : j <= i}
            /\ latest' = [latest EXCEPT ![key] = @ \ value']
            /\ pc' = "process" /\ UNCHANGED <<active, key>>
    /\ UNCHANGED <<sent, queue, queued, done, failed, draining>>

\* What was enqueued for the key meanwhile is processed next, ahead of the
\* keys in the queue.
Finish ==
    /\ pc = "finish"
    /\ IF latest[key] = {}
       THEN /\ active' = active \ {key}
            /\ pc' = "take" /\ key' = NoKey /\ UNCHANGED <<latest, value>>
       ELSE /\ value' = latest[key]
            /\ latest' = [latest EXCEPT ![key] = {}]
            /\ pc' = "process" /\ UNCHANGED <<active, key>>
    /\ UNCHANGED <<sent, queue, queued, done, failed, draining>>

\* Slip: a key with work left is not queued again after a failure.
CleanupForgets ==
    /\ pc = "cleanup"
    /\ active' = active \ {key} /\ pc' = "take" /\ key' = NoKey
    /\ UNCHANGED <<sent, queue, latest, queued, value, done, failed, draining>>

\* Slip: the failed key stays active.
CleanupKeepsActive ==
    /\ pc = "cleanup" /\ pc' = "take" /\ key' = NoKey
    /\ UNCHANGED <<sent, queue, state, value, done, failed, draining>>

\* cleanupFailedKey: the state is changed in one transaction, the key offered
\* again in the next.
Cleanup ==
    /\ pc = "cleanup"
    /\ active' = active \ {key}
    /\ IF latest[key] # {} /\ key \notin queued
       THEN queued' = queued \cup {key} /\ pc' = "requeue" /\ key' = key
       ELSE pc' = "take" /\ key' = NoKey /\ UNCHANGED queued
    /\ UNCHANGED <<sent, queue, latest, value, done, failed, draining>>

\* Slip: the worker does not let go of the key it offers.
RequeueKeepsKey ==
    /\ pc = "requeue" /\ pc' = "take"
    /\ queue' = Append(queue, key) /\ key' = key
    /\ UNCHANGED <<sent, state, value, done, failed, draining>>

Requeue ==
    /\ pc = "requeue" /\ pc' = "take"
    /\ queue' = Append(queue, key) /\ key' = NoKey
    /\ UNCHANGED <<sent, state, value, done, failed, draining>>

Work == Take \/ Begin \/ ProcessSucceeds \/ ProcessFails \/ Finish \/ Cleanup \/ Requeue

Next ==
    \/ Work
    \/ \E k \in Keys : Enqueue(k) \/ DrainCall(k) \/ DrainReturn(k)

Spec == Init /\ [][Next]_vars

\* The worker fiber runs while it has work (its process returns or fails), and
\* a waiting drain is woken when the state it read changes.
FairSpec == Spec /\ WF_vars(Work) /\ \A k \in Keys : WF_vars(DrainReturn(k))
-----------------------------------------------------------------------------
(* Properties.                                                              *)

Values == 1..Len(sent)

\* The type of every variable.
TypeOK ==
    /\ sent \in Seq(Keys) /\ queue \in Seq(Keys)
    /\ latest \in [Keys -> SUBSET Nat]
    /\ queued \subseteq Keys /\ active \subseteq Keys
    /\ pc \in {"take", "taken", "process", "finish", "cleanup", "requeue"}
    /\ key \in IF pc = "take" THEN {NoKey} ELSE Keys
    /\ value \subseteq Nat /\ done \subseteq Nat /\ failed \subseteq Nat
    /\ draining \subseteq Keys

\* No value is stranded: while one waits its key is queued, or active in the
\* worker, which looks again before it lets go of the key; a queued key is in
\* the queue once, or in the worker's hands.
NothingStranded ==
    /\ \A k \in Keys : latest[k] # {} => k \in queued \cup active
    /\ active = IF pc \in {"process", "finish", "cleanup"} THEN {key} ELSE {}
    /\ queued = Range(queue) \cup IF pc \in {"taken", "requeue"} THEN {key} ELSE {}
    /\ pc \in {"taken", "requeue"} => key \notin Range(queue)
    /\ IsInjective(queue)

\* "drainKey() resolves only when that key has no queued, pending, or active
\* work left": when it may, every value enqueued for the key was processed,
\* with success or not, exactly once.
DrainMeansDone ==
    /\ \A k \in Keys : Idle(k) =>
          \A i \in Values : sent[i] = k => i \in done \cup failed
    /\ done \cap failed = {}
    /\ value \cap (done \cup failed) = {}

\* "keeps only the latest value per key ... merged atomically": through queue,
\* merges, retaken keys and failures the worker is a CoalescingQueue.  What waits
\* for a key is taken whole, one key at a time, no value is left behind or taken
\* twice, and drainKey returns when all values of its key have ended.
CQ == INSTANCE CoalescingQueue
        WITH waiting <- latest, running <- value, ended <- done \cup failed
ImplementsCoalescingQueue == CQ!Spec

\* A caller of drainKey returns once no more values come: no failure of the
\* processor leaves a key active, or queued without an entry in the queue.
DrainResolves == \A k \in Keys : (k \in draining) ~> (k \notin draining)
=============================================================================

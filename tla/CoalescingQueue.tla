-------------------------- MODULE CoalescingQueue --------------------------
(***************************************************************************)
(* What the keyed worker promises those who use it, and nothing of how the *)
(* keys are queued: the values of a key wait together, everything that     *)
(* waits for a key is taken at once, one key is processed at a time, each  *)
(* value ends once, and a drain returns when all values enqueued for its   *)
(* key have ended.                                                         *)
(***************************************************************************)
EXTENDS Naturals, Sequences

CONSTANT Keys

VARIABLES
    sent,      \* the key of each value ever enqueued
    waiting,   \* the values of each key that were not taken yet
    running,   \* the values being processed, all of one key
    ended,     \* the values processed, with success or not
    draining   \* keys with a caller waiting for them to drain

vars == <<sent, waiting, running, ended, draining>>

Init ==
    /\ sent = <<>> /\ waiting = [k \in Keys |-> {}]
    /\ running = {} /\ ended = {} /\ draining = {}

Enqueue(k) ==
    /\ sent' = Append(sent, k)
    /\ waiting' = [waiting EXCEPT ![k] = @ \cup {Len(sent) + 1}]
    /\ UNCHANGED <<running, ended, draining>>

\* A key waits until it is taken, and is then taken with all its values.
Begin(k) ==
    /\ running = {} /\ waiting[k] # {}
    /\ running' = waiting[k]
    /\ waiting' = [waiting EXCEPT ![k] = {}]
    /\ UNCHANGED <<sent, ended, draining>>

End ==
    /\ running # {} /\ running' = {}
    /\ ended' = ended \cup running
    /\ UNCHANGED <<sent, waiting, draining>>

DrainCall(k) ==
    /\ k \notin draining /\ draining' = draining \cup {k}
    /\ UNCHANGED <<sent, waiting, running, ended>>

DrainReturn(k) ==
    /\ k \in draining
    /\ \A i \in 1..Len(sent) : sent[i] = k => i \in ended
    /\ draining' = draining \ {k}
    /\ UNCHANGED <<sent, waiting, running, ended>>

Next ==
    \/ End
    \/ \E k \in Keys : Enqueue(k) \/ Begin(k) \/ DrainCall(k) \/ DrainReturn(k)

Spec == Init /\ [][Next]_vars
=============================================================================

---------------------------- MODULE CommandLog ----------------------------
(***************************************************************************)
(* What the orchestration engine promises the callers of dispatch, and     *)
(* nothing of how it keeps the promise: an append-only event log, one      *)
(* final outcome per command id, and answers that report that outcome.     *)
(*                                                                         *)
(* A command is accepted at most once, all of its events are appended in   *)
(* one step, and an "accepted" answer always names the last of them, no    *)
(* matter how many requests carry the same command id.  A request that is  *)
(* not answered "accepted" says nothing about the log: the caller may send *)
(* the same command id again.                                              *)
(***************************************************************************)
EXTENDS Integers, Sequences, FiniteSets

CONSTANTS Commands,     \* command ids a caller may send
          Requests,     \* single calls of dispatch
          NoCommand,    \* the command of a request that was not made yet
          MaxEvents     \* the most events one command is decided into

VARIABLES log,          \* the committed events, each as the command it is of
          outcome,      \* the receipt of each command
          request,      \* the command each request carries
          answer        \* what each request was answered

vars == <<log, outcome, request, answer>>

NoOutcome   == [status |-> "none", seq |-> 0]
Unanswered  == [status |-> "none", seq |-> 0]
Errors      == {"invariant", "storage", "previouslyRejected", "lost"}
Pending     == {r \in Requests : request[r] # NoCommand
                                   /\ answer[r] = Unanswered}
EventsOf(c, n) == [i \in 1..n |-> c]

Init ==
    /\ log \in Seq(Commands \cup {NoCommand})
    /\ \A i \in DOMAIN log : log[i] \notin Commands
    /\ outcome = [c \in Commands |-> NoOutcome]
    /\ request = [r \in Requests |-> NoCommand]
    /\ answer = [r \in Requests |-> Unanswered]

Submit(r, c) ==
    /\ request[r] = NoCommand
    /\ request' = [request EXCEPT ![r] = c]
    /\ UNCHANGED <<log, outcome, answer>>

\* All events of a command and its outcome become visible in one step.
Accept(r) ==
    /\ r \in Pending
    /\ outcome[request[r]] = NoOutcome
    /\ \E n \in 1..MaxEvents :
          /\ log' = log \o EventsOf(request[r], n)
          /\ outcome' = [outcome EXCEPT ![request[r]] =
                            [status |-> "accepted", seq |-> Len(log) + n]]
    /\ UNCHANGED <<request, answer>>

Reject(r) ==
    /\ r \in Pending
    /\ outcome[request[r]] = NoOutcome
    /\ outcome'[request[r]].status = "rejected"
    /\ outcome' = [outcome EXCEPT ![request[r]] = outcome'[request[r]]]
    /\ UNCHANGED <<log, request, answer>>

Confirm(r) ==
    /\ r \in Pending
    /\ outcome[request[r]].status = "accepted"
    /\ answer' = [answer EXCEPT ![r] = outcome[request[r]]]
    /\ UNCHANGED <<log, outcome, request>>

\* A request is refused, or several at once lose their caller.
Refuse(R) ==
    /\ R \subseteq Pending
    /\ \E e \in Errors :
       /\ e = "previouslyRejected" =>
             \A r \in R : outcome[request[r]].status = "rejected"
       /\ answer' = [r \in Requests |->
           IF r \in R THEN [status |-> e, seq |-> 0] ELSE answer[r]]
    /\ UNCHANGED <<log, outcome, request>>

Next ==
    \/ \E r \in Requests, c \in Commands : Submit(r, c)
    \/ \E r \in Requests : Accept(r) \/ Reject(r) \/ Confirm(r)
    \/ \E R \in SUBSET Requests : Refuse(R)

Spec == Init /\ [][Next]_vars
=============================================================================

-------------------------- MODULE EventEngineProofs --------------------------
(***************************************************************************)
(* Theorems about EventEngine, for every value of its constants, the last   *)
(* one that it implements CommandLog.                                      *)
(***************************************************************************)
EXTENDS EventEngine, TLAPS

LEMMA UpToProperties ==
    ASSUME NEW n \in Nat
    PROVE  /\ UpTo(n) \in EventNumbers
           /\ Len(UpTo(n)) = n
           /\ Append(UpTo(n), n + 1) = UpTo(n + 1)
BY DEF UpTo, EventNumbers

LEMMA ProjectionTypes ==
    ASSUME NEW m \in Models, NEW P \in Projections, NEW S, NEW k \in Nat
    PROVE  /\ ProjectEvent(m, k) \in Models
           /\ Advance(P, S, k) \in Projections
           /\ EmptyModel \in Models
           /\ EmptyProj \in Projections
<1>1. ProjectEvent(m, k) \in Models
  BY DEF ProjectEvent, Models, EventNumbers
<1>2. Advance(P, S, k) \in Projections
  BY DEF Advance, Projections, EventNumbers
<1>3. EmptyModel \in Models /\ EmptyProj \in Projections
  BY DEF EmptyModel, EmptyProj, Models, Projections, EventNumbers
<1>4. QED BY <1>1, <1>2, <1>3

LEMMA ProjectEventsType ==
    ASSUME NEW m \in Models, NEW a \in Nat, NEW b \in Nat, a <= b
    PROVE  ProjectEvents(m, a + 1, b) \in Models
<1>1. [i \in 1..(b - (a + 1) + 1) |-> (a + 1) + i - 1] \in Seq(Nat)
  OBVIOUS
<1>2. QED BY <1>1 DEF ProjectEvents, Models, EventNumbers

LEMMA CopiesType ==
    ASSUME NEW S, NEW x \in S, NEW n \in Nat
    PROVE  [i \in 1..n |-> x] \in Seq(S)
OBVIOUS

LEMMA EmptyModelType == EmptyModel \in Models /\ EmptyProj \in Projections
BY DEF EmptyModel, EmptyProj, Models, Projections, EventNumbers

LEMMA NoTxType ==
    NoTx \in [todo : Nat, done : Nat, sent : Nat, model : Models, proj : Projections]
BY EmptyModelType DEF NoTx
LEMMA InitTypeOK == Init => TypeOK
<1> SUFFICES ASSUME Init PROVE TypeOK
  OBVIOUS
<1>1. \A n \in Nat : UpTo(n) \in EventNumbers
  BY UpToProperties
<1>2. EmptyModel \in Models /\ EmptyProj \in Projections
  BY EmptyModelType
<1>3. log \in Seq(Commands \cup {NoCommand})
  BY EngineConstants DEF Init
<1>4. proj \in Projections
  BY <1>1, <1>2, EngineConstants DEF Init, Projections
<1>5. QED
  BY <1>2, <1>3, <1>4, NoTxType, EngineConstants
     DEF Init, TypeOK, NoReceipt, Unanswered, NoReplay, Phases, EventNumbers

LEMMA NextTypeOK == TypeOK /\ [Next]_vars => TypeOK'
<1> SUFFICES ASSUME TypeOK, [Next]_vars PROVE TypeOK'
  OBVIOUS
<1> USE DEF TypeOK, Phases
<1>1. CASE BeginBootstrap
  <2>1. replay' \in [next : Nat, last : Nat]
    <3>1. PICK m \in 0..Len(log) : replay' = [next |-> m + 1, last |-> ReadTo(m)]
      BY <1>1 DEF BeginBootstrap
    <3>2. ReadTo(m) \in Nat
      BY EngineConstants DEF ReadTo
    <3> QED
      BY <3>1, <3>2
  <2> QED
    BY <1>1, <2>1 DEF BeginBootstrap, db, worker, callers
<1>2. CASE BootstrapEvent
  <2>1. proj' \in Projections
    BY <1>2, ProjectionTypes, EmptyModelType DEF BootstrapEvent
  <2>2. replay' \in [next : Nat, last : Nat]
    BY <1>2 DEF BootstrapEvent
  <2>3. QED
    BY <1>2, <2>1, <2>2 DEF BootstrapEvent, worker, callers
<1>3. CASE LoadSnapshot
  <2>1. model' \in Models
    BY <1>3 DEF LoadSnapshot, Models, Projections
  <2>2. QED
    BY <1>3, <2>1 DEF LoadSnapshot, db, worker, callers
<1>4. CASE Take
  <2>1. Head(queue) \in Requests /\ request[Head(queue)] \in Commands /\ queue' \in Seq(Requests)
    BY <1>4 DEF Take
  <2>2. \A i \in DOMAIN queue' : request'[queue'[i]] \in Commands
    <3>1. /\ queue \in Seq(Requests) /\ queue # <<>>
          /\ queue' = Tail(queue) /\ request' = request
      BY <1>4 DEF Take, callers
    <3>2. \A i \in DOMAIN Tail(queue) :
             i + 1 \in DOMAIN queue /\ Tail(queue)[i] = queue[i + 1]
      BY <3>1
    <3> QED
      BY <3>1, <3>2
  <2>3. start' \in Nat
    BY <1>4 DEF Take, Models
  <2>4. QED
    BY <1>4, <2>1, <2>2, <2>3, EngineConstants DEF Take, db, callers
<1>5. CASE LookupFails
  BY <1>5, EngineConstants, NoTxType DEF LookupFails, db, worker, callers, Fail, Settle, Refused, Unanswered, NoReceipt
<1>6. CASE ReceiptHit
  BY <1>6, EngineConstants, NoTxType DEF ReceiptHit, db, worker, callers, Fail, Settle, Refused, Unanswered, NoReceipt
<1>7. CASE DecideRejects
  BY <1>7, EngineConstants, NoTxType DEF DecideRejects, db, worker, callers, Fail, Settle, Refused, Unanswered, NoReceipt
<1>8. CASE DecideEvents
  BY <1>8, EngineConstants, NoTxType DEF DecideEvents, db, worker, callers, Fail, Settle, Refused, Unanswered, NoReceipt
<1>9. CASE TxAppend
  <2>1. Len(log) + tx.done + 1 \in Nat
    OBVIOUS
  <2>2. /\ ProjectEvent(tx.model, Len(log) + tx.done + 1) \in Models
        /\ Advance(tx.proj, Projectors, Len(log) + tx.done + 1) \in Projections
    BY <2>1, ProjectionTypes
  <2>3. tx' \in [todo : Nat, done : Nat, sent : Nat, model : Models, proj : Projections]
    <3>1. tx.todo - 1 \in Nat /\ tx.done + 1 \in Nat /\ tx.todo > 0
      BY <1>9 DEF TxAppend
    <3>2. tx' = [todo |-> tx.todo - 1, done |-> tx.done + 1, sent |-> tx.sent,
                 model |-> ProjectEvent(tx.model, Len(log) + tx.done + 1),
                 proj |-> Advance(tx.proj, Projectors, Len(log) + tx.done + 1)]
      BY <1>9 DEF TxAppend
    <3>3. QED
      BY <2>2, <3>1, <3>2
  <2>4. QED
    BY <1>9, <2>3 DEF TxAppend, db, callers
<1>10. CASE TxFails
  BY <1>10, EngineConstants, NoTxType DEF TxFails, db, worker, callers, Fail, Settle, Refused, Unanswered, NoReceipt
<1>11. CASE TxEmpty
  BY <1>11, EngineConstants, NoTxType DEF TxEmpty, db, worker, callers, Fail, Settle, Refused, Unanswered, NoReceipt
<1>12. CASE TxCommit
  <2>1. [i \in 1..tx.done |-> request[cur]] \in Seq(Commands \cup {NoCommand})
    <3>1. cur \in Requests /\ tx.done \in Nat
      BY <1>12 DEF TxCommit
    <3>2. request[cur] \in Commands \cup {NoCommand}
      BY <3>1
    <3>3. QED
      BY <3>1, <3>2, CopiesType
  <2>2. log' \in Seq(Commands \cup {NoCommand})
    BY <1>12, <2>1 DEF TxCommit
  <2>3. receipts' \in [Commands -> [status : {"none", "accepted", "rejected"}, seq : Nat]]
    BY <1>12 DEF TxCommit
  <2>4. QED
    BY <1>12, <2>2, <2>3, SMTT(30) DEF TxCommit, worker, callers
<1>13. CASE InstallModel
  BY <1>13, EngineConstants, NoTxType DEF InstallModel, db, worker, callers, Fail, Settle, Refused, Unanswered, NoReceipt
<1>14. CASE Publish
  <2>1. Len(log) - tx.done + tx.sent + 1 \in Nat
    BY <1>14, SMTT(30) DEF Publish
  <2>2. published' \in EventNumbers
    BY <1>14, <2>1 DEF Publish, EventNumbers
  <2>3. tx' \in [todo : Nat, done : Nat, sent : Nat, model : Models, proj : Projections]
    <3>1. tx' = [todo |-> tx.todo, done |-> tx.done, sent |-> tx.sent + 1,
                 model |-> tx.model, proj |-> tx.proj]
      BY <1>14 DEF Publish
    <3>2. QED
      BY <3>1
  <2>4. QED
    BY <1>14, <2>2, <2>3 DEF Publish, db, callers
<1>15. CASE AnswerAccepted
  BY <1>15, EngineConstants, NoTxType DEF AnswerAccepted, db, worker, callers, Fail, Settle, Refused, Unanswered, NoReceipt
<1>16. CASE Reconcile
  <2>1. start \in Nat /\ Len(log) \in Nat /\ ReplayLimit \in Nat
    BY EngineConstants
  <2>2. model' \in Models /\ published' \in EventNumbers
    <3> DEFINE last == IF start + ReplayLimit < Len(log) THEN start + ReplayLimit ELSE Len(log)
    <3>1. last \in Nat
      BY <2>1
    <3>2. CASE last <= start
      BY <1>16, <3>2 DEF ReadTo, Reconcile
    <3>3. CASE start <= last /\ ~(last <= start)
      <4>1. ProjectEvents(model, start + 1, last) \in Models
        BY <2>1, <3>1, <3>3, ProjectEventsType
      <4>2. [i \in 1..(last - start) |-> start + i] \in Seq(Nat)
        BY <2>1, <3>1, <3>3
      <4>3. published \o [i \in 1..(last - start) |-> start + i] \in EventNumbers
        BY <4>2 DEF EventNumbers
      <4>4. QED
        BY <1>16, <3>3, <4>1, <4>3 DEF ReadTo, Reconcile
    <3>4. QED
      BY <2>1, <3>1, <3>2, <3>3
  <2>3. QED
    BY <1>16, <2>2 DEF ReadTo, Reconcile, AfterReconcile, db, worker, callers
<1>17. CASE ReconcileFails
  BY <1>17 DEF ReconcileFails, AfterReconcile, db, worker, callers
<1>18. CASE RecordRejection
  <2>1. receipts' \in [Commands -> [status : {"none", "accepted", "rejected"}, seq : Nat]]
    BY <1>18 DEF RecordRejection, Models
  <2>2. QED
    BY <1>18, <2>1 DEF RecordRejection, worker, callers
<1>19. CASE RecordFails
  BY <1>19, EngineConstants, NoTxType DEF RecordFails, db, worker, callers, Fail, Settle, Refused, Unanswered, NoReceipt
<1>20. CASE Refuse
  BY <1>20, EngineConstants, NoTxType DEF Refuse, db, worker, callers, Fail, Settle, Refused, Unanswered, NoReceipt
<1>21. CASE Crash
  <2>1. answer' \in [Requests -> [status : {"none", "accepted", "invariant", "storage",
                                           "previouslyRejected", "lost"}, seq : Nat]]
    BY <1>21 DEF Crash, Refused
  <2>2. EmptyModel \in Models
    BY EmptyModelType
  <2>3. crashes' \in 0..MaxCrashes
    BY <1>21, EngineConstants DEF Crash
  <2>4. replay' \in [next : Nat, last : Nat] /\ published' \in EventNumbers
    BY <1>21 DEF Crash, NoReplay, EventNumbers
  <2>5. tx' \in [todo : Nat, done : Nat, sent : Nat, model : Models, proj : Projections]
    BY <1>21, NoTxType DEF Crash
  <2>6. queue' \in Seq(Requests) /\ \A i \in DOMAIN queue' : request'[queue'[i]] \in Commands
    BY <1>21 DEF Crash
  <2>7. QED
    BY <1>21, <2>1, <2>2, <2>3, <2>4, <2>5, <2>6, EngineConstants DEF Crash, db
<1>22. CASE \E r \in Requests, c \in Commands : Dispatch(r, c)
  <2>1. PICK r \in Requests, c \in Commands : Dispatch(r, c)
    BY <1>22
  <2>2. request' \in [Requests -> Commands \cup {NoCommand}]
    BY <2>1 DEF Dispatch
  <2>3. \A q \in Requests : request[q] \in Commands => request'[q] \in Commands
    BY <2>1 DEF Dispatch
  <2>4. queue' \in Seq(Requests)
    BY <2>1 DEF Dispatch
  <2>5. \A i \in DOMAIN queue' : request'[queue'[i]] \in Commands
    BY <2>1, <2>3, SMTT(30) DEF Dispatch
  <2>6. QED
    BY <2>1, <2>2, <2>3, <2>4, <2>5 DEF Dispatch, db
<1>23. CASE UNCHANGED vars
  BY <1>23 DEF vars, db, worker, callers
<1> QED
  BY <1>1, <1>2, <1>3, <1>4, <1>5, <1>6, <1>7, <1>8, <1>9, <1>10, <1>11, <1>12, <1>13, <1>14, <1>15, <1>16, <1>17, <1>18, <1>19, <1>20, <1>21, <1>22, <1>23 DEF Next, Boot, Work

\* Every variable keeps its type, and the worker holds an envelope exactly
\* between taking it and settling its Deferred.
THEOREM EngineTypeCorrect == Spec => []TypeOK
<1>1. Init => TypeOK
  BY InitTypeOK
<1>2. TypeOK /\ [Next]_vars => TypeOK'
  BY NextTypeOK
<1>3. QED
  BY <1>1, <1>2, PTL DEF Spec
-----------------------------------------------------------------------------
(* The inductive invariant.  It holds when no database is older than one    *)
(* replay: a longer one leaves a new projector behind after the boot, and   *)
(* everything below with it.                                                *)

OneReplay == OldEvents <= ReplayLimit

\* Every table is the fold of a prefix of the log, and at most one replay of
\* the log, or nothing, is missing from it.
DatabaseOK ==
    /\ \A p \in Projectors : /\ proj[p].rows = UpTo(proj[p].cursor)
                             /\ proj[p].cursor <= Len(log)
    /\ \/ Len(log) <= ReplayLimit
       \/ \A p \in Projectors : proj[p].cursor = Len(log)

BootOK ==
    phase = "boot" => /\ replay.last = Len(log) /\ replay.next <= Len(log) + 1
                      /\ \A p \in Projectors : replay.next <= proj[p].cursor + 1

\* The states a transaction will install are the fold of the log it extends.
IsFold(m, P, n) ==
    /\ m = [seq |-> n, tables |-> [p \in Projectors |-> UpTo(n)]]
    /\ P = [p \in Projectors |-> [cursor |-> n, rows |-> UpTo(n)]]

FoldOK ==
    /\ Up => IsFold(model, proj, Len(log)) \/ phase = "committed"
    /\ phase = "tx" => IsFold(tx.model, tx.proj, Len(log) + tx.done) /\ tx.sent = 0
    /\ phase = "committed" => /\ IsFold(tx.model, proj, Len(log)) /\ tx.sent = 0
                              /\ model = [seq |-> Len(log) - tx.done,
                                          tables |-> [p \in Projectors |->
                                                          UpTo(Len(log) - tx.done)]]
    /\ phase \in {"lookup", "tx", "failing"} => start = Len(log)

From(a, n) == [i \in 1..n |-> a + i]
Unpublished == IF phase \in {"committed", "publish"} THEN tx.done - tx.sent ELSE 0

StreamOK ==
    IF Up THEN /\ 0 <= Unpublished
               /\ published = From(bootLen, Len(published))
               /\ bootLen + Len(published) = Len(log) - Unpublished
          ELSE published = <<>>

DecisionOK ==
    /\ \/ phase = "tx"
       \/ phase \in {"failing", "record"} /\ err = "invariant"
       => receipts[request[cur]] = NoReceipt
    /\ phase = "record" => err = "invariant"
    /\ phase \in {"committed", "publish"} =>
           receipts[request[cur]] = [status |-> "accepted", seq |-> Len(log)]

ReceiptOK == ReceiptMatchesLog /\ DecisionOK

AnswerOK ==
    /\ AcceptedIsVisible
    /\ \A r \in Requests :
          answer[r].status = "accepted" =>
              request[r] \in Commands /\ receipts[request[r]] = answer[r]

IInv == TypeOK /\ DatabaseOK /\ BootOK /\ FoldOK /\ StreamOK /\ ReceiptOK /\ AnswerOK
LEMMA FromProperties ==
    ASSUME NEW a \in Nat, NEW n \in Nat
    PROVE  /\ Len(From(a, n)) = n
           /\ Append(From(a, n), a + n + 1) = From(a, n + 1)
        /\ From(a, 0) = <<>>
BY DEF From

\* With one replay the worker always starts at the end of the log, so
\* reconciling after a failure finds nothing to project or to publish.
LEMMA ReconcileIsQuiet ==
    ASSUME TypeOK, FoldOK, Reconcile
    PROVE  UNCHANGED <<db, model, published, bootLen, queue, cur, start, tx, err,
                       request, answer>> /\ phase' = AfterReconcile /\ phase = "failing"
<1>1. start = Len(log) /\ Len(log) \in Nat /\ ReplayLimit \in Nat
  BY EngineConstants DEF TypeOK, FoldOK, ReadTo, Reconcile
<1>2. ~(start + ReplayLimit < Len(log))
  BY <1>1
<1>3. UNCHANGED <<model, published>>
  BY <1>1, <1>2 DEF ReadTo, Reconcile
<1>4. QED
  BY <1>3 DEF ReadTo, Reconcile, db, worker, callers

LEMMA OneMorePublished ==
    ASSUME NEW b \in Nat, NEW n \in Nat, NEW l \in Nat, NEW done \in Nat, NEW sent \in Nat,
           sent < done, b + n = l - (done - sent)
    PROVE  b + (n + 1) = l - (done - (sent + 1)) /\ 0 <= done - (sent + 1)
OBVIOUS

LEMMA NextDatabaseOK ==
    ASSUME OneReplay, TypeOK, DatabaseOK, BootOK, FoldOK, [Next]_vars
    PROVE  DatabaseOK' /\ BootOK'
<1> USE DEF TypeOK, DatabaseOK, BootOK
<1>1. CASE BeginBootstrap
  <2>1. PICK m \in 0..Len(log) :
          /\ IsMinCursor(m)
          /\ replay' = [next |-> m + 1,
                        last |-> IF m + ReplayLimit < Len(log)
                                 THEN m + ReplayLimit ELSE Len(log)]
    BY <1>1 DEF ReadTo, BeginBootstrap
  <2>2. replay'.last = Len(log)
    BY <2>1, EngineConstants, SMTT(30) DEF IsMinCursor
  <2>3. \A p \in Projectors : replay'.next <= proj[p].cursor + 1
    BY <2>1 DEF IsMinCursor, Projections
  <2>4. QED
    BY <1>1, <2>1, <2>2, <2>3 DEF ReadTo, BeginBootstrap, db
<1>2. CASE BootstrapEvent
  <2> DEFINE k == replay.next
  <2>1. k \in Nat /\ k <= Len(log) /\ replay' = [replay EXCEPT !.next = k + 1]
    BY <1>2 DEF BootstrapEvent
  <2>2. \A p \in Projectors :
           IF proj[p].cursor < k
           THEN proj'[p] = [cursor |-> k, rows |-> Append(proj[p].rows, k)]
           ELSE proj'[p] = proj[p]
    BY <1>2 DEF BootstrapEvent, Advance
  <2>3. \A p \in Projectors : proj[p].cursor < k => proj[p].cursor = k - 1
    BY <1>2, <2>1, SMTT(30) DEF BootstrapEvent, Projections
  <2>a. /\ \A p \in Projectors : /\ proj[p].cursor \in Nat
                                 /\ proj[p].rows = UpTo(proj[p].cursor)
                                 /\ proj[p].cursor <= Len(log)
        /\ Len(log) \in Nat
    BY DEF Projections
  <2> HIDE DEF TypeOK, DatabaseOK, BootOK, k
  <2>4. ASSUME NEW p \in Projectors
        PROVE  /\ proj'[p].rows = UpTo(proj'[p].cursor)
               /\ proj'[p].cursor <= Len(log) /\ k + 1 <= proj'[p].cursor + 1
    <3>1. CASE proj[p].cursor < k
      <4>1. k - 1 \in Nat /\ proj[p].rows = UpTo(k - 1)
        BY <2>a, <2>1, <2>3, <3>1
      <4>2. Append(UpTo(k - 1), (k - 1) + 1) = UpTo((k - 1) + 1)
        BY <4>1, UpToProperties
      <4>3. proj'[p].cursor = k /\ proj'[p].rows = Append(UpTo(k - 1), k)
        <5>1. proj'[p] = [cursor |-> k, rows |-> Append(proj[p].rows, k)]
          BY <2>2, <3>1
        <5>2. QED
          BY <4>1, <5>1
      <4>4. (k - 1) + 1 = k
        BY <2>1
      <4>5. QED
        BY <2>1, <4>2, <4>3, <4>4
    <3>2. CASE ~(proj[p].cursor < k)
      <4>1. proj'[p] = proj[p]
        BY <2>2, <3>2
      <4>2. QED
        BY <2>1, <2>a, <3>2, <4>1
    <3>3. QED
      BY <3>1, <3>2
  <2>6. (\A p \in Projectors : proj[p].cursor = Len(log))
          => (\A p \in Projectors : proj'[p].cursor = Len(log))
    <3>1. SUFFICES ASSUME \A p \in Projectors : proj[p].cursor = Len(log),
                          NEW p \in Projectors
                   PROVE  proj'[p].cursor = Len(log)
      OBVIOUS
    <3>2. ~(proj[p].cursor < k)
      BY <2>1, <2>a, <3>1
    <3>3. QED
      BY <2>2, <3>1, <3>2
  <2>7. UNCHANGED <<log, phase>> /\ phase = "boot"
    BY <1>2 DEF BootstrapEvent
  <2>8. DatabaseOK'
    BY <2>4, <2>6, <2>7 DEF DatabaseOK
  <2>9. BootOK'
    <3>1. replay'.next = k + 1 /\ replay'.last = Len(log)
      BY <2>1, <2>7 DEF TypeOK, BootOK
    <3>2. QED
      BY <2>1, <2>4, <2>7, <3>1, <2>a DEF BootOK
  <2>10. QED
    BY <2>8, <2>9
<1>3. CASE LoadSnapshot
  BY <1>3, EngineConstants DEF LoadSnapshot, db, worker, callers, Fail, Settle
<1>4. CASE Take
  BY <1>4, EngineConstants DEF Take, db, worker, callers, Fail, Settle
<1>5. CASE LookupFails
  BY <1>5, EngineConstants DEF LookupFails, db, worker, callers, Fail, Settle
<1>6. CASE ReceiptHit
  BY <1>6, EngineConstants DEF ReceiptHit, db, worker, callers, Fail, Settle
<1>7. CASE DecideRejects
  BY <1>7, EngineConstants DEF DecideRejects, db, worker, callers, Fail, Settle
<1>8. CASE DecideEvents
  BY <1>8, EngineConstants DEF DecideEvents, db, worker, callers, Fail, Settle
<1>9. CASE TxAppend
  BY <1>9, EngineConstants DEF TxAppend, db, worker, callers, Fail, Settle
<1>10. CASE TxFails
  BY <1>10, EngineConstants DEF TxFails, db, worker, callers, Fail, Settle
<1>11. CASE TxEmpty
  BY <1>11, EngineConstants DEF TxEmpty, db, worker, callers, Fail, Settle
<1>12. CASE TxCommit
  <2>1. IsFold(tx.model, tx.proj, Len(log) + tx.done)
    BY <1>12 DEF TxCommit, FoldOK
  <2>2. Len(log') = Len(log) + tx.done /\ proj' = tx.proj
    BY <1>12 DEF TxCommit
  <2>3. \A p \in Projectors :
           proj'[p].cursor = Len(log') /\ proj'[p].rows = UpTo(Len(log'))
    BY <2>1, <2>2 DEF IsFold
  <2>4. Len(log') \in Nat
    BY <2>2
  <2>5. DatabaseOK'
    BY <2>3, <2>4
  <2>6. QED
    BY <1>12, <2>5 DEF TxCommit
<1>13. CASE InstallModel
  BY <1>13, EngineConstants DEF InstallModel, db, worker, callers, Fail, Settle
<1>14. CASE Publish
  BY <1>14, EngineConstants DEF Publish, db, worker, callers, Fail, Settle
<1>15. CASE AnswerAccepted
  BY <1>15, EngineConstants DEF AnswerAccepted, db, worker, callers, Fail, Settle
<1>16. CASE Reconcile
  BY <1>16, ReconcileIsQuiet DEF db, AfterReconcile
<1>17. CASE ReconcileFails
  BY <1>17 DEF ReconcileFails, db, AfterReconcile
<1>18. CASE RecordRejection
  BY <1>18, EngineConstants DEF RecordRejection, db, worker, callers, Fail, Settle
<1>19. CASE RecordFails
  BY <1>19, EngineConstants DEF RecordFails, db, worker, callers, Fail, Settle
<1>20. CASE Refuse
  BY <1>20, EngineConstants DEF Refuse, db, worker, callers, Fail, Settle
<1>21. CASE Crash
  BY <1>21, EngineConstants DEF Crash, db, worker, callers, Fail, Settle
<1>22. CASE \E r \in Requests, c \in Commands : Dispatch(r, c)
  BY <1>22, EngineConstants DEF Dispatch, db, worker, callers, Fail, Settle
<1>23. CASE UNCHANGED vars
  BY <1>23 DEF vars, db, worker, callers, Fail, Settle
<1> QED
  BY <1>1, <1>2, <1>3, <1>4, <1>5, <1>6, <1>7, <1>8, <1>9, <1>10, <1>11, <1>12, <1>13, <1>14, <1>15, <1>16, <1>17, <1>18, <1>19, <1>20, <1>21, <1>22, <1>23 DEF Next, Boot, Work

LEMMA NextFoldOK ==
    ASSUME OneReplay, TypeOK, DatabaseOK, BootOK, FoldOK, [Next]_vars
    PROVE  FoldOK'
<1> USE DEF TypeOK, FoldOK, Up
<1>1. CASE BeginBootstrap
  BY <1>1 DEF BeginBootstrap, db, worker, callers, Fail, Settle, AfterReconcile
<1>2. CASE BootstrapEvent
  BY <1>2 DEF BootstrapEvent, db, worker, callers, Fail, Settle, AfterReconcile
<1>3. CASE LoadSnapshot
  <2>1. replay.last = Len(log) /\ replay.next > replay.last /\ phase = "boot"
    BY <1>3 DEF LoadSnapshot, BootOK
  <2>2. \A p \in Projectors : proj[p].cursor = Len(log) /\ proj[p].rows = UpTo(Len(log))
    <3>1. \A p \in Projectors : replay.next <= proj[p].cursor + 1 /\ proj[p].cursor <= Len(log)
      BY <2>1 DEF BootOK, DatabaseOK
    <3>2. \A p \in Projectors : proj[p].cursor = Len(log)
      BY <2>1, <3>1 DEF Projections
    <3>3. QED
      BY <3>2 DEF DatabaseOK
  <2>3. PICK m \in 0..Len(log) :
          IsMinCursor(m) /\ model' = [seq |-> m, tables |-> [p \in Projectors |-> proj[p].rows]]
    BY <1>3 DEF LoadSnapshot
  <2>4. m = Len(log)
    BY <2>2, <2>3 DEF IsMinCursor
  <2>5. proj = [p \in Projectors |-> [cursor |-> Len(log), rows |-> UpTo(Len(log))]]
    BY <2>2 DEF Projections
  <2>6. IsFold(model', proj, Len(log))
    BY <2>2, <2>3, <2>4, <2>5 DEF IsFold
  <2>7. QED
    BY <1>3, <2>6 DEF LoadSnapshot, db
<1>4. CASE Take
  <2>1. model.seq = Len(log)
    BY <1>4 DEF Take, IsFold
  <2>2. QED
    BY <1>4, <2>1 DEF Take, db
<1>5. CASE LookupFails
  BY <1>5 DEF LookupFails, db, worker, callers, Fail, Settle, AfterReconcile
<1>6. CASE ReceiptHit
  BY <1>6 DEF ReceiptHit, db, worker, callers, Fail, Settle, AfterReconcile
<1>7. CASE DecideRejects
  BY <1>7 DEF DecideRejects, db, worker, callers, Fail, Settle, AfterReconcile
<1>8. CASE DecideEvents
  BY <1>8 DEF DecideEvents, db, worker, callers, Fail, Settle, AfterReconcile
<1>9. CASE TxAppend
  <2> DEFINE n == Len(log) + tx.done
  <2>1. n \in Nat /\ IsFold(tx.model, tx.proj, n) /\ tx.sent = 0
    BY <1>9 DEF TxAppend
  <2>2. /\ tx'.model = ProjectEvent(tx.model, n + 1)
        /\ tx'.proj = Advance(tx.proj, Projectors, n + 1)
        /\ tx'.done = tx.done + 1 /\ tx'.sent = tx.sent
    BY <1>9 DEF TxAppend
  <2>3. Append(UpTo(n), n + 1) = UpTo(n + 1)
    BY <2>1, UpToProperties
  <2> HIDE DEF TypeOK, FoldOK
  <2>4. tx'.model = [seq |-> n + 1, tables |-> [p \in Projectors |-> UpTo(n + 1)]]
    <3>1. \A p \in Projectors : Append(tx.model.tables[p], n + 1) = UpTo(n + 1)
      BY <2>1, <2>3 DEF IsFold
    <3>2. QED
      BY <2>2, <3>1 DEF ProjectEvent
  <2>5. tx'.proj = [p \in Projectors |-> [cursor |-> n + 1, rows |-> UpTo(n + 1)]]
    <3>1. \A p \in Projectors : Append(tx.proj[p].rows, n + 1) = UpTo(n + 1)
      BY <2>1, <2>3 DEF IsFold
    <3>2. QED
      BY <2>2, <3>1 DEF Advance
  <2>6. Len(log) + tx'.done = n + 1
    BY <2>2 DEF TypeOK
  <2>7. IsFold(tx'.model, tx'.proj, Len(log) + tx'.done)
    BY <2>4, <2>5, <2>6 DEF IsFold
  <2>8. QED
    BY <1>9, <2>1, <2>2, <2>7 DEF TxAppend, db, FoldOK
<1>10. CASE TxFails
  BY <1>10 DEF TxFails, db, worker, callers, Fail, Settle, AfterReconcile
<1>11. CASE TxEmpty
  BY <1>11 DEF TxEmpty, db, worker, callers, Fail, Settle, AfterReconcile
<1>12. CASE TxCommit
  <2>1. IsFold(tx.model, tx.proj, Len(log) + tx.done) /\ tx.sent = 0
    BY <1>12 DEF TxCommit
  <2>2. Len(log') = Len(log) + tx.done /\ proj' = tx.proj
    BY <1>12 DEF TxCommit
  <2>3. IsFold(tx'.model, proj', Len(log'))
    BY <1>12, <2>1, <2>2 DEF TxCommit, worker
  <2>4. model = [seq |-> Len(log), tables |-> [p \in Projectors |-> UpTo(Len(log))]]
    BY <1>12 DEF TxCommit, IsFold
  <2>5. Len(log') - tx.done = Len(log) /\ UNCHANGED <<model, tx>> /\ phase' = "committed"
    BY <1>12, <2>2 DEF TxCommit, worker
  <2>6. QED
    BY <2>1, <2>3, <2>4, <2>5
<1>13. CASE InstallModel
  BY <1>13 DEF InstallModel, db, worker, callers, Fail, Settle, AfterReconcile
<1>14. CASE Publish
  BY <1>14 DEF Publish, db, worker, callers, Fail, Settle, AfterReconcile
<1>15. CASE AnswerAccepted
  BY <1>15 DEF AnswerAccepted, db, worker, callers, Fail, Settle, AfterReconcile
<1>16. CASE Reconcile
  BY <1>16, ReconcileIsQuiet DEF db, AfterReconcile
<1>17. CASE ReconcileFails
  BY <1>17 DEF ReconcileFails, db, worker, callers, Fail, Settle, AfterReconcile
<1>18. CASE RecordRejection
  BY <1>18 DEF RecordRejection, db, worker, callers, Fail, Settle, AfterReconcile
<1>19. CASE RecordFails
  BY <1>19 DEF RecordFails, db, worker, callers, Fail, Settle, AfterReconcile
<1>20. CASE Refuse
  BY <1>20 DEF Refuse, db, worker, callers, Fail, Settle, AfterReconcile
<1>21. CASE Crash
  BY <1>21 DEF Crash, db, worker, callers, Fail, Settle, AfterReconcile
<1>22. CASE \E r \in Requests, c \in Commands : Dispatch(r, c)
  BY <1>22 DEF Dispatch, db, worker, callers, Fail, Settle, AfterReconcile
<1>23. CASE UNCHANGED vars
  BY <1>23 DEF vars, db, worker, callers, Fail, Settle, AfterReconcile
<1> QED
  BY <1>1, <1>2, <1>3, <1>4, <1>5, <1>6, <1>7, <1>8, <1>9, <1>10, <1>11, <1>12, <1>13, <1>14, <1>15, <1>16, <1>17, <1>18, <1>19, <1>20, <1>21, <1>22, <1>23 DEF Next, Boot, Work

LEMMA NextStreamOK ==
    ASSUME TypeOK, FoldOK, StreamOK, [Next]_vars
    PROVE  StreamOK'
<1> USE DEF TypeOK, StreamOK, Up, Unpublished
<1>1. CASE BeginBootstrap
  BY <1>1 DEF BeginBootstrap, db, worker, callers, Fail, Settle, AfterReconcile
<1>2. CASE BootstrapEvent
  BY <1>2 DEF BootstrapEvent, db, worker, callers, Fail, Settle, AfterReconcile
<1>3. CASE LoadSnapshot
  <2>1. published' = <<>> /\ bootLen' = Len(log) /\ log' = log /\ phase' = "idle"
    BY <1>3 DEF LoadSnapshot, db
  <2>2. Len(log) \in Nat
    OBVIOUS
  <2>3. From(Len(log), 0) = <<>> /\ Len(published') = 0
    BY <2>1, <2>2, FromProperties
  <2>4. QED
    BY <2>1, <2>2, <2>3
<1>4. CASE Take
  BY <1>4 DEF Take, db, worker, callers, Fail, Settle, AfterReconcile
<1>5. CASE LookupFails
  BY <1>5 DEF LookupFails, db, worker, callers, Fail, Settle, AfterReconcile
<1>6. CASE ReceiptHit
  BY <1>6 DEF ReceiptHit, db, worker, callers, Fail, Settle, AfterReconcile
<1>7. CASE DecideRejects
  BY <1>7 DEF DecideRejects, db, worker, callers, Fail, Settle, AfterReconcile
<1>8. CASE DecideEvents
  BY <1>8 DEF DecideEvents, db, worker, callers, Fail, Settle, AfterReconcile
<1>9. CASE TxAppend
  BY <1>9 DEF TxAppend, db, worker, callers, Fail, Settle, AfterReconcile
<1>10. CASE TxFails
  BY <1>10 DEF TxFails, db, worker, callers, Fail, Settle, AfterReconcile
<1>11. CASE TxEmpty
  BY <1>11 DEF TxEmpty, db, worker, callers, Fail, Settle, AfterReconcile
<1>12. CASE TxCommit
  <2>1. Len(log') = Len(log) + tx.done /\ tx.sent = 0
    BY <1>12 DEF TxCommit, FoldOK
  <2>2. Unpublished' = tx.done /\ Unpublished = 0
    BY <1>12, <2>1 DEF TxCommit, worker
  <2>3. /\ UNCHANGED <<published, bootLen>> /\ tx.done \in Nat /\ Len(log) \in Nat
        /\ phase' = "committed" /\ phase = "tx"
    BY <1>12 DEF TxCommit
  <2>4. bootLen + Len(published) = Len(log) /\ bootLen + Len(published) \in Nat
    BY <2>2, <2>3
  <2>5. Len(log') - Unpublished' = bootLen + Len(published) /\ 0 <= Unpublished'
    <3>1. (Len(log) + tx.done) - tx.done = Len(log) /\ 0 <= tx.done
      BY <2>3
    <3>2. QED
      BY <2>1, <2>2, <2>4, <3>1
  <2>6. QED
    BY <2>3, <2>5
<1>13. CASE InstallModel
  BY <1>13 DEF InstallModel, db, worker, callers, Fail, Settle, AfterReconcile
<1>14. CASE Publish
  <2> DEFINE n == Len(published)
  <2>1. /\ phase = "publish" /\ phase' = "publish"
        /\ UNCHANGED <<log, bootLen>> /\ tx.sent < tx.done
        /\ tx'.sent = tx.sent + 1 /\ tx'.done = tx.done
    BY <1>14 DEF Publish, db
  <2>2. n \in Nat /\ Len(log) - tx.done + tx.sent + 1 = bootLen + n + 1
    BY <2>1, SMTT(30) DEF EventNumbers
  <2>3. published' = Append(From(bootLen, n), bootLen + n + 1)
    BY <1>14, <2>1, <2>2 DEF Publish
  <2>4. published' = From(bootLen, n + 1) /\ Len(published') = n + 1
    <3>1. bootLen \in Nat /\ n \in Nat /\ n + 1 \in Nat
      BY <2>2
    <3>2. Append(From(bootLen, n), bootLen + n + 1) = From(bootLen, n + 1)
      BY <3>1, FromProperties
    <3>3. Len(From(bootLen, n + 1)) = n + 1
      BY <3>1, FromProperties
    <3>4. QED
      BY <2>3, <3>2, <3>3
  <2>5. bootLen + (n + 1) = Len(log) - (tx.done - (tx.sent + 1)) /\ 0 <= tx.done - (tx.sent + 1)
    <3>1. bootLen + n = Len(log) - (tx.done - tx.sent)
      BY <2>1
    <3>2. /\ bootLen \in Nat /\ n \in Nat /\ Len(log) \in Nat
          /\ tx.done \in Nat /\ tx.sent \in Nat /\ tx.sent < tx.done
      BY <2>1, <2>2
    <3>3. PICK b \in Nat, l \in Nat, d \in Nat, t \in Nat :
             b = bootLen /\ l = Len(log) /\ d = tx.done /\ t = tx.sent
      BY <3>2
    <3>4. PICK m \in Nat : m = n
      BY <3>2
    <3>5. b + m = l - (d - t) /\ t < d
      BY <3>1, <3>2, <3>3, <3>4
    <3>6. b + (m + 1) = l - (d - (t + 1)) /\ 0 <= d - (t + 1)
      BY <3>5, OneMorePublished
    <3>7. QED
      BY <3>3, <3>4, <3>6
  <2>6. QED
    BY <2>1, <2>4, <2>5
<1>15. CASE AnswerAccepted
  BY <1>15 DEF AnswerAccepted, db, worker, callers, Fail, Settle, AfterReconcile
<1>16. CASE Reconcile
  BY <1>16, ReconcileIsQuiet DEF db, AfterReconcile
<1>17. CASE ReconcileFails
  BY <1>17 DEF ReconcileFails, db, worker, callers, Fail, Settle, AfterReconcile
<1>18. CASE RecordRejection
  BY <1>18 DEF RecordRejection, db, worker, callers, Fail, Settle, AfterReconcile
<1>19. CASE RecordFails
  BY <1>19 DEF RecordFails, db, worker, callers, Fail, Settle, AfterReconcile
<1>20. CASE Refuse
  BY <1>20 DEF Refuse, db, worker, callers, Fail, Settle, AfterReconcile
<1>21. CASE Crash
  BY <1>21 DEF Crash, db, worker, callers, Fail, Settle, AfterReconcile
<1>22. CASE \E r \in Requests, c \in Commands : Dispatch(r, c)
  BY <1>22 DEF Dispatch, db, worker, callers, Fail, Settle, AfterReconcile
<1>23. CASE UNCHANGED vars
  BY <1>23 DEF vars, db, worker, callers, Fail, Settle, AfterReconcile
<1> QED
  BY <1>1, <1>2, <1>3, <1>4, <1>5, <1>6, <1>7, <1>8, <1>9, <1>10, <1>11, <1>12, <1>13, <1>14, <1>15, <1>16, <1>17, <1>18, <1>19, <1>20, <1>21, <1>22, <1>23 DEF Next, Boot, Work

LEMMA NextReceiptMatchesLog ==
    ASSUME TypeOK, ReceiptOK, [Next]_vars
    PROVE  ReceiptMatchesLog'
<1>1. CASE TxCommit
  <2>0. PICK c \in Commands : c = request[cur]
    BY <1>1 DEF TxCommit, TypeOK, Phases
  <2> DEFINE n == Len(log)
  <2>1. /\ c \in Commands /\ n \in Nat /\ tx.done \in Nat \ {0}
        /\ receipts[c] = NoReceipt
    BY <1>1, <2>0 DEF TxCommit, TypeOK, ReceiptOK, DecisionOK, Phases
  <2>2. /\ log' = log \o [i \in 1..tx.done |-> c]
        /\ receipts' = [receipts EXCEPT ![c] = [status |-> "accepted", seq |-> n + tx.done]]
    BY <1>1, <2>0 DEF TxCommit
  <2>3. /\ Len(log') = n + tx.done
        /\ \A i \in 1..n : log'[i] = log[i]
        /\ \A i \in (n + 1)..(n + tx.done) : log'[i] = c
    BY <2>1, <2>2 DEF TypeOK
  <2>4. EventsOf(c) = {}
    BY <2>1 DEF ReceiptOK, ReceiptMatchesLog, NoReceipt
  <2>5. EventsOf(c)' = (n + 1)..(n + tx.done)
    <3>1. DOMAIN log' = 1..(n + tx.done) /\ DOMAIN log = 1..n
      BY <2>1, <2>2, <2>3 DEF TypeOK
    <3>2. EventsOf(c)' = {i \in DOMAIN log' : log'[i] = c}
      BY DEF EventsOf
    <3>3. \A i \in 1..n : log[i] # c
      BY <2>4, <3>1 DEF EventsOf
    <3>4. QED
      BY <2>1, <2>3, <3>1, <3>2, <3>3
  <2>6. ASSUME NEW d \in Commands, d # c
        PROVE  EventsOf(d)' = EventsOf(d) /\ receipts'[d] = receipts[d]
    <3>1. DOMAIN log' = 1..(n + tx.done) /\ DOMAIN log = 1..n
      BY <2>1, <2>2, <2>3 DEF TypeOK
    <3>2. receipts'[d] = receipts[d]
      BY <2>1, <2>2, <2>6 DEF TypeOK
    <3>3. \A i \in 1..(n + tx.done) : log'[i] = d <=> (i \in 1..n /\ log[i] = d)
      BY <2>1, <2>3, <2>6
    <3>4. QED
      BY <2>1, <3>1, <3>2, <3>3 DEF EventsOf
  <2>7. /\ receipts'[c].status = "accepted" /\ receipts'[c].seq = n + tx.done
        /\ n + 1 \in 1..(n + tx.done)
    BY <2>1, <2>2 DEF TypeOK
  <2>8. \E first \in 1..receipts'[c].seq : EventsOf(c)' = first..receipts'[c].seq
    BY <2>5, <2>7
  <2>9. QED
    <3>1. SUFFICES ASSUME NEW d \in Commands
                   PROVE  IF receipts'[d].status = "accepted"
                          THEN \E first \in 1..receipts'[d].seq :
                                   EventsOf(d)' = first..receipts'[d].seq
                          ELSE EventsOf(d)' = {}
      BY DEF ReceiptMatchesLog
    <3>2. CASE d = c
      BY <3>2, <2>7, <2>8
    <3>3. CASE d # c
      BY <3>3, <2>6 DEF ReceiptOK, ReceiptMatchesLog
    <3>4. QED
      BY <3>2, <3>3
<1>2. CASE RecordRejection
  <2>0. PICK c \in Commands : c = request[cur]
    BY <1>2 DEF RecordRejection, TypeOK, Phases
  <2>1. c \in Commands /\ receipts[c] = NoReceipt
    BY <1>2, <2>0 DEF RecordRejection, TypeOK, ReceiptOK, DecisionOK, Phases
  <2>2. /\ log' = log /\ receipts'[c].status = "rejected"
        /\ \A d \in Commands : d # c => receipts'[d] = receipts[d]
    BY <1>2, <2>0, <2>1 DEF RecordRejection, TypeOK
  <2>3. EventsOf(c) = {}
    BY <2>1 DEF ReceiptOK, ReceiptMatchesLog, NoReceipt
  <2>4. QED
    BY <2>2, <2>3 DEF ReceiptOK, ReceiptMatchesLog, EventsOf
<1>3. CASE UNCHANGED <<log, receipts>>
  BY <1>3 DEF ReceiptOK, ReceiptMatchesLog, EventsOf
<1>4. TxCommit \/ RecordRejection \/ UNCHANGED <<log, receipts>>
  BY DEF Next, Boot, Work, vars, db, BeginBootstrap, BootstrapEvent, LoadSnapshot, Take,
         LookupFails, ReceiptHit, DecideRejects, DecideEvents, TxAppend, TxFails, TxEmpty,
         InstallModel, Publish, AnswerAccepted, Reconcile, ReconcileFails, RecordFails,
         Refuse, Crash, Dispatch, Fail
<1>5. QED
  BY <1>1, <1>2, <1>3, <1>4

LEMMA NextDecisionOK ==
    ASSUME TypeOK, ReceiptOK, [Next]_vars
    PROVE  DecisionOK'
<1> USE DEF TypeOK, ReceiptOK, DecisionOK, Phases
<1>1. CASE BeginBootstrap
  BY <1>1 DEF BeginBootstrap, db, worker, callers, Fail, Settle, AfterReconcile
<1>2. CASE BootstrapEvent
  BY <1>2 DEF BootstrapEvent, db, worker, callers, Fail, Settle, AfterReconcile
<1>3. CASE LoadSnapshot
  BY <1>3 DEF LoadSnapshot, db, worker, callers, Fail, Settle, AfterReconcile
<1>4. CASE Take
  BY <1>4 DEF Take, db, worker, callers, Fail, Settle, AfterReconcile
<1>5. CASE LookupFails
  BY <1>5 DEF LookupFails, db, worker, callers, Fail, Settle, AfterReconcile
<1>6. CASE ReceiptHit
  BY <1>6 DEF ReceiptHit, db, worker, callers, Fail, Settle, AfterReconcile
<1>7. CASE DecideRejects
  BY <1>7 DEF DecideRejects, db, worker, callers, Fail, Settle, AfterReconcile
<1>8. CASE DecideEvents
  BY <1>8 DEF DecideEvents, db, worker, callers, Fail, Settle, AfterReconcile
<1>9. CASE TxAppend
  BY <1>9 DEF TxAppend, db, worker, callers, Fail, Settle, AfterReconcile
<1>10. CASE TxFails
  BY <1>10 DEF TxFails, db, worker, callers, Fail, Settle, AfterReconcile
<1>11. CASE TxEmpty
  BY <1>11 DEF TxEmpty, db, worker, callers, Fail, Settle, AfterReconcile
<1>12. CASE TxCommit
  BY <1>12 DEF TxCommit, db, worker, callers, Fail, Settle, AfterReconcile
<1>13. CASE InstallModel
  BY <1>13 DEF InstallModel, db, worker, callers, Fail, Settle, AfterReconcile
<1>14. CASE Publish
  BY <1>14 DEF Publish, db, worker, callers, Fail, Settle, AfterReconcile
<1>15. CASE AnswerAccepted
  BY <1>15 DEF AnswerAccepted, db, worker, callers, Fail, Settle, AfterReconcile
<1>16. CASE Reconcile
  BY <1>16 DEF Reconcile, db, worker, callers, Fail, Settle, AfterReconcile
<1>17. CASE ReconcileFails
  BY <1>17 DEF ReconcileFails, db, worker, callers, Fail, Settle, AfterReconcile
<1>18. CASE RecordRejection
  BY <1>18 DEF RecordRejection, db, worker, callers, Fail, Settle, AfterReconcile
<1>19. CASE RecordFails
  BY <1>19 DEF RecordFails, db, worker, callers, Fail, Settle, AfterReconcile
<1>20. CASE Refuse
  BY <1>20 DEF Refuse, db, worker, callers, Fail, Settle, AfterReconcile
<1>21. CASE Crash
  BY <1>21 DEF Crash, db, worker, callers, Fail, Settle, AfterReconcile
<1>22. CASE \E r \in Requests, c \in Commands : Dispatch(r, c)
  <2>1. PICK r \in Requests, c \in Commands : Dispatch(r, c)
    BY <1>22
  <2>2. cur \in Requests => r # cur /\ request'[cur] = request[cur]
    BY <2>1, EngineConstants DEF Dispatch
  <2>3. QED
    BY <2>1, <2>2 DEF Dispatch, db
<1>23. CASE UNCHANGED vars
  BY <1>23 DEF vars, db, worker, callers
<1> QED
  BY <1>1, <1>2, <1>3, <1>4, <1>5, <1>6, <1>7, <1>8, <1>9, <1>10, <1>11, <1>12, <1>13, <1>14, <1>15, <1>16, <1>17, <1>18, <1>19, <1>20, <1>21, <1>22, <1>23 DEF Next, Boot, Work



\* The answers and receipts a step leaves alone keep what AnswerOK says of
\* them, as long as the model and the stream do not shrink.
LEMMA AnswersKept ==
    ASSUME TypeOK, AnswerOK,
           \A r \in Requests : answer'[r].status = "accepted" =>
               /\ answer'[r] = answer[r]
               /\ request'[r] = request[r] /\ receipts'[request[r]] = receipts[request[r]]
           ,
           Up' => /\ Up
                  /\ model'.seq >= model.seq
                  /\ bootLen' + Len(published') >= bootLen + Len(published),
           model'.seq \in Nat, bootLen' + Len(published') \in Nat
    PROVE  AnswerOK'
<1>1. ASSUME NEW r \in Requests, answer'[r].status = "accepted"
      PROVE  /\ request'[r] \in Commands /\ receipts'[request'[r]] = answer'[r]
             /\ Up' => /\ answer'[r].seq <= model'.seq
                       /\ answer'[r].seq <= bootLen' + Len(published')
  <2>1. /\ answer'[r] = answer[r] /\ answer[r].status = "accepted"
        /\ request'[r] = request[r] /\ receipts'[request[r]] = receipts[request[r]]
    BY <1>1
  <2>2. request[r] \in Commands /\ receipts[request[r]] = answer[r]
    BY <2>1 DEF AnswerOK
  <2>3. ASSUME Up'
        PROVE  /\ answer'[r].seq <= model'.seq
               /\ answer'[r].seq <= bootLen' + Len(published')
    <3>1. answer[r].seq <= model.seq /\ answer[r].seq <= bootLen + Len(published)
      BY <2>1, <2>3 DEF AnswerOK, AcceptedIsVisible
    <3>2. /\ answer[r].seq \in Nat /\ model.seq \in Nat /\ bootLen + Len(published) \in Nat
      BY SMTT(30) DEF TypeOK, Models, EventNumbers
    <3>3. QED
      BY <2>1, <2>3, <3>1, <3>2
  <2>4. QED
    BY <2>1, <2>2, <2>3
<1>2. QED
  BY <1>1 DEF AnswerOK, AcceptedIsVisible


\* A receipt of an accepted command names an event of the log.
LEMMA AcceptedInLog ==
    ASSUME TypeOK, ReceiptMatchesLog, NEW c \in Commands, receipts[c].status = "accepted"
    PROVE  receipts[c].seq <= Len(log)
<1>1. PICK first \in 1..receipts[c].seq : EventsOf(c) = first..receipts[c].seq
  BY DEF ReceiptMatchesLog
<1>2. receipts[c].seq \in EventsOf(c)
  BY <1>1 DEF TypeOK
<1>3. QED
  BY <1>2 DEF EventsOf, TypeOK

LEMMA CursorTypes ==
    TypeOK => model.seq \in Nat /\ bootLen + Len(published) \in Nat /\ Len(log) \in Nat
<1> SUFFICES ASSUME TypeOK PROVE model.seq \in Nat /\ bootLen + Len(published) \in Nat
                                /\ Len(log) \in Nat
  OBVIOUS
<1>1. model.seq \in Nat
  BY DEF TypeOK, Models
<1>2. published \in Seq(Nat) /\ bootLen \in Nat /\ Len(log) \in Nat
  BY DEF TypeOK, EventNumbers
<1>3. Len(published) \in Nat
  BY <1>2
<1>4. QED
  BY <1>1, <1>2, <1>3

LEMMA NextAnswerOK ==
    ASSUME TypeOK, TypeOK', FoldOK, FoldOK', StreamOK, StreamOK', ReceiptOK, AnswerOK, [Next]_vars
    PROVE  AnswerOK'
<1>1. model'.seq \in Nat /\ bootLen' + Len(published') \in Nat
  <2>1. model' \in Models /\ published' \in Seq(Nat) /\ bootLen' \in Nat
    BY DEF TypeOK, EventNumbers
  <2>2. model'.seq \in Nat /\ Len(published') \in Nat
    BY <2>1 DEF Models
  <2>3. QED
    BY <2>1, <2>2
<1>2. model.seq \in Nat /\ bootLen + Len(published) \in Nat /\ Len(log) \in Nat
  BY CursorTypes
<1>3. CASE /\ UNCHANGED <<receipts, request, answer, model, published, bootLen>>
           /\ Up' => Up
  BY <1>1, <1>2, <1>3, AnswersKept
<1>4. CASE LoadSnapshot
  <2>1. UNCHANGED <<receipts, request, answer, log>>
    BY <1>4 DEF LoadSnapshot, db, callers
  <2>2. bootLen' + Len(published') = Len(log) /\ model'.seq = Len(log)
    <3>1. phase' = "idle"
      BY <1>4 DEF LoadSnapshot
    <3>2. QED
      BY <1>1, <1>2, <2>1, <3>1 DEF FoldOK, StreamOK, IsFold, Unpublished, Up
  <2>3. QED
    BY <2>1, <2>2, AcceptedInLog DEF AnswerOK, AcceptedIsVisible, ReceiptOK
<1>5. CASE ReceiptHit
  <2>1. /\ phase = "lookup" /\ cur \in Requests /\ request[cur] \in Commands
        /\ UNCHANGED <<receipts, request, model, published, bootLen>>
        /\ answer' = [answer EXCEPT ![cur] =
               IF receipts[request[cur]].status = "accepted"
               THEN receipts[request[cur]] ELSE Refused("previouslyRejected")]
    BY <1>5 DEF ReceiptHit, Settle, TypeOK, db
  <2>2. model.seq = Len(log) /\ bootLen + Len(published) = Len(log)
    BY <1>2, <2>1 DEF FoldOK, IsFold, StreamOK, Unpublished, Up
  <2>3. receipts[request[cur]].status = "accepted" => receipts[request[cur]].seq <= Len(log)
    BY <2>1, AcceptedInLog DEF ReceiptOK
  <2>4. ASSUME NEW r \in Requests, answer'[r].status = "accepted"
        PROVE  /\ request'[r] \in Commands /\ receipts'[request'[r]] = answer'[r]
               /\ answer'[r].seq <= model.seq /\ answer'[r].seq <= bootLen + Len(published)
    <3>1. CASE r = cur
      <4>1. answer'[r] = receipts[request[cur]] /\ receipts[request[cur]].status = "accepted"
        BY <2>1, <2>4, <3>1 DEF Refused, TypeOK
      <4>2. QED
        BY <2>1, <2>2, <2>3, <3>1, <4>1
    <3>2. CASE r # cur
      <4>1. answer'[r] = answer[r]
        BY <2>1, <3>2 DEF TypeOK
      <4>2. QED
        BY <2>1, <2>4, <4>1 DEF AnswerOK, AcceptedIsVisible, Up
    <3>3. QED
      BY <3>1, <3>2
  <2>5. QED
    BY <2>1, <2>4 DEF AnswerOK, AcceptedIsVisible
<1>6. CASE AnswerAccepted
  <2>1. /\ phase = "publish" /\ cur \in Requests /\ request[cur] \in Commands
        /\ UNCHANGED <<receipts, request, model, published, bootLen>> /\ tx.sent = tx.done
        /\ answer' = [answer EXCEPT ![cur] = [status |-> "accepted", seq |-> Len(log)]]
    BY <1>6 DEF AnswerAccepted, Settle, TypeOK, db
  <2>2. model.seq = Len(log) /\ bootLen + Len(published) = Len(log)
    <3>1. tx.sent \in Nat /\ tx.done - tx.sent = 0
      BY <2>1 DEF TypeOK
    <3>2. QED
      BY <1>2, <2>1, <3>1 DEF FoldOK, IsFold, StreamOK, Unpublished, Up
  <2>3. receipts[request[cur]] = [status |-> "accepted", seq |-> Len(log)]
    BY <2>1 DEF ReceiptOK, DecisionOK
  <2>4. ASSUME NEW r \in Requests, answer'[r].status = "accepted"
        PROVE  /\ request'[r] \in Commands /\ receipts'[request'[r]] = answer'[r]
               /\ answer'[r].seq <= model.seq /\ answer'[r].seq <= bootLen + Len(published)
    <3>1. CASE r = cur
      <4>1. answer'[r] = [status |-> "accepted", seq |-> Len(log)]
        BY <2>1, <3>1 DEF TypeOK
      <4>2. QED
        BY <1>2, <2>1, <2>2, <2>3, <3>1, <4>1
    <3>2. CASE r # cur
      <4>1. answer'[r] = answer[r]
        BY <2>1, <3>2 DEF TypeOK
      <4>2. QED
        BY <2>1, <2>4, <4>1 DEF AnswerOK, AcceptedIsVisible, Up
    <3>3. QED
      BY <3>1, <3>2
  <2>5. QED
    BY <2>1, <2>4 DEF AnswerOK, AcceptedIsVisible
<1>7. CASE TxCommit \/ RecordRejection
  <2>1. /\ request[cur] \in Commands /\ receipts[request[cur]] = NoReceipt
        /\ UNCHANGED <<request, answer, model, published, bootLen>> /\ Up
        /\ \A c \in Commands : c # request[cur] => receipts'[c] = receipts[c]
    <3>1. /\ phase \in {"tx", "record"} /\ cur \in Requests /\ request[cur] \in Commands
          /\ UNCHANGED <<request, answer, model, published, bootLen>>
      BY <1>7 DEF TxCommit, RecordRejection, TypeOK, callers
    <3>2. receipts[request[cur]] = NoReceipt
      BY <3>1 DEF ReceiptOK, DecisionOK
    <3>3. \A c \in Commands : c # request[cur] => receipts'[c] = receipts[c]
      <4>1. \E x : receipts' = [receipts EXCEPT ![request[cur]] = x]
        BY <1>7 DEF TxCommit, RecordRejection
      <4>2. DOMAIN receipts = Commands
        BY DEF TypeOK
      <4> QED
        BY <4>1, <4>2
    <3> QED
      BY <3>1, <3>2, <3>3 DEF Up
  <2>2. \A r \in Requests : answer[r].status = "accepted" =>
            request[r] \in Commands /\ request[r] # request[cur]
    BY <2>1 DEF AnswerOK, NoReceipt
  <2>3. QED
    BY <1>1, <1>2, <2>1, <2>2, AnswersKept
<1>8. CASE InstallModel
  <2>1. model'.seq = Len(log) /\ model.seq = Len(log) - tx.done /\ Up
        /\ UNCHANGED <<receipts, request, answer, published, bootLen>>
    BY <1>8 DEF InstallModel, FoldOK, IsFold, Up, db, callers
  <2>2. model'.seq >= model.seq
    <3>1. tx.done \in Nat
      BY DEF TypeOK
    <3>2. QED
      BY <1>2, <2>1, <3>1
  <2>3. QED
    BY <1>1, <1>2, <2>1, <2>2, AnswersKept
<1>9. CASE Publish
  <2>1. /\ UNCHANGED <<receipts, request, answer, model, bootLen>> /\ Up
        /\ Len(published') = Len(published) + 1
    BY <1>9 DEF Publish, TypeOK, EventNumbers, Up, db, callers
  <2>2. bootLen' + Len(published') >= bootLen + Len(published)
    BY <2>1 DEF TypeOK, EventNumbers
  <2>3. QED
    BY <1>1, <1>2, <2>1, <2>2, AnswersKept
<1>10. CASE Refuse
  <2>1. /\ UNCHANGED <<receipts, request, model, published, bootLen>> /\ Up
        /\ answer' = [answer EXCEPT ![cur] = Refused(err)] /\ err # "accepted"
        /\ cur \in Requests
    BY <1>10 DEF Refuse, Settle, TypeOK, Up, db
  <2>2. \A r \in Requests : answer'[r].status = "accepted" => answer'[r] = answer[r]
    BY <2>1 DEF Refused, TypeOK
  <2>3. QED
    BY <1>1, <1>2, <2>1, <2>2, AnswersKept
<1>11. CASE Crash
  <2>1. UNCHANGED <<receipts, request>> /\ ~Up'
    BY <1>11 DEF Crash, db, Up
  <2>2. \A r \in Requests : answer'[r].status = "accepted" => answer'[r] = answer[r]
    BY <1>11 DEF Crash, Refused
  <2>3. QED
    BY <1>1, <2>1, <2>2, AnswersKept
<1>12. CASE \E r \in Requests, c \in Commands : Dispatch(r, c)
  <2>1. PICK q \in Requests, c \in Commands : Dispatch(q, c)
    BY <1>12
  <2>2. UNCHANGED <<receipts, answer, model, published, bootLen>> /\ Up
    BY <2>1 DEF Dispatch, db
  <2>3. \A r \in Requests : answer[r].status = "accepted" => request'[r] = request[r]
    BY <2>1, EngineConstants DEF Dispatch, AnswerOK, TypeOK
  <2>4. QED
    BY <1>1, <1>2, <2>2, <2>3, AnswersKept
<1>13. CASE Reconcile
  BY <1>3, <1>13, ReconcileIsQuiet DEF db, Up
<1>14. \/ UNCHANGED <<receipts, request, answer, model, published, bootLen>> /\ (Up' => Up)
       \/ LoadSnapshot \/ ReceiptHit \/ AnswerAccepted \/ TxCommit \/ RecordRejection
       \/ InstallModel \/ Publish \/ Refuse \/ Crash \/ Reconcile
       \/ \E r \in Requests, c \in Commands : Dispatch(r, c)
  BY DEF Next, Boot, Work, vars, db, worker, callers, Up, BeginBootstrap, BootstrapEvent, Take,
         LookupFails, DecideRejects, DecideEvents, TxAppend, TxFails, TxEmpty,
         ReconcileFails, RecordFails, Fail
<1>15. QED
  BY <1>3, <1>4, <1>5, <1>6, <1>7, <1>8, <1>9, <1>10, <1>11, <1>12, <1>13, <1>14

LEMMA InitReceiptOK == Init => ReceiptOK
<1> SUFFICES ASSUME Init PROVE ReceiptOK
  OBVIOUS
<1>1. PICK n \in 0..OldEvents : log = [i \in 1..n |-> NoCommand]
  BY DEF Init
<1>2. \A c \in Commands : EventsOf(c) = {}
  BY <1>1, EngineConstants DEF EventsOf
<1>3. QED
  BY <1>2 DEF Init, ReceiptOK, ReceiptMatchesLog, DecisionOK, NoReceipt

\* The invariant, for every number of callers, commands, projectors and
\* crashes and every length of the log, as long as no database starts with
\* more events than one replay covers.
THEOREM EngineInvariant == OneReplay /\ Spec => []IInv
<1> SUFFICES ASSUME OneReplay PROVE Spec => []IInv
  OBVIOUS
<1>1. Init => IInv
  <2> SUFFICES ASSUME Init PROVE IInv
    OBVIOUS
  <2>1. TypeOK
    BY InitTypeOK
  <2>2. PICK n \in 0..OldEvents, S \in SUBSET NewProjectors :
           /\ log = [i \in 1..n |-> NoCommand]
           /\ proj = [p \in Projectors |->
                  IF p \in S THEN EmptyProj[p] ELSE [cursor |-> n, rows |-> UpTo(n)]]
    BY DEF Init
  <2>3. n \in Nat /\ Len(log) = n /\ n <= ReplayLimit
    BY <2>2, EngineConstants DEF OneReplay
  <2>4. DatabaseOK
    <3>1. UpTo(0) = <<>>
      BY DEF UpTo
    <3>2. QED
      BY <2>2, <2>3, <3>1 DEF DatabaseOK, EmptyProj
  <2>5. BootOK /\ FoldOK /\ StreamOK /\ AnswerOK
    BY DEF Init, BootOK, FoldOK, StreamOK, AnswerOK, AcceptedIsVisible, Up, Unanswered
  <2>6. ReceiptOK
    BY InitReceiptOK
  <2>7. QED
    BY <2>1, <2>4, <2>5, <2>6 DEF IInv
<1>2. IInv /\ [Next]_vars => IInv'
  BY NextTypeOK, NextDatabaseOK, NextFoldOK, NextStreamOK, NextReceiptMatchesLog,
     NextDecisionOK, NextAnswerOK DEF IInv, ReceiptOK
<1>3. QED
  BY <1>1, <1>2, PTL DEF Spec

\* Exactly once: a command id is accepted exactly when all its events are in
\* the log, next to each other and once, whatever crashed or was retried.
\* This does not depend on the projections: no assumption on their replay.
THEOREM EngineExactlyOnce == Spec => []ReceiptMatchesLog
<1>1. Init => ReceiptOK
  BY InitReceiptOK
<1>2. TypeOK /\ ReceiptOK /\ [Next]_vars => ReceiptOK'
  BY NextReceiptMatchesLog, NextDecisionOK DEF ReceiptOK
<1>3. ReceiptOK => ReceiptMatchesLog
  BY DEF ReceiptOK
<1>4. QED
  BY <1>1, <1>2, <1>3, EngineTypeCorrect, PTL DEF Spec

\* Commands are decided against the fold of the whole log.
THEOREM EngineReadModelIsFold == OneReplay /\ Spec => []ReadModelIsFold
<1>1. IInv => ReadModelIsFold
  <2>1. SUFFICES ASSUME IInv, Up PROVE ReadModelIsFold
    BY DEF ReadModelIsFold
  <2>2. CASE phase = "committed"
    BY <2>1, <2>2 DEF IInv, FoldOK, IsFold, ReadModelIsFold
  <2>3. CASE phase # "committed"
    BY <2>1, <2>3 DEF IInv, FoldOK, IsFold, ReadModelIsFold
  <2>4. QED
    BY <2>2, <2>3
<1>2. QED
  BY <1>1, EngineInvariant, PTL

\* The hot stream is the log since the boot, in order and without a gap.
THEOREM EnginePublishedInOrder == OneReplay /\ Spec => []PublishedInOrder
<1>1. IInv => PublishedInOrder
  <2>1. SUFFICES ASSUME IInv, Up
                 PROVE  /\ published = [i \in 1..Len(published) |-> bootLen + i]
                        /\ bootLen + Len(published) <= Len(log)
    BY DEF PublishedInOrder
  <2>2. /\ published = [i \in 1..Len(published) |-> bootLen + i]
        /\ 0 <= Unpublished /\ bootLen + Len(published) = Len(log) - Unpublished
    BY <2>1 DEF IInv, StreamOK, From
  <2>3. Unpublished \in Int /\ Len(log) \in Nat
    BY <2>1 DEF IInv, TypeOK, Unpublished
  <2>4. QED
    BY <2>2, <2>3
<1>2. QED
  BY <1>1, EngineInvariant, PTL

\* A caller answered "accepted" finds its events in the read model and on
\* the stream.
THEOREM EngineAcceptedIsVisible == OneReplay /\ Spec => []AcceptedIsVisible
<1>1. IInv => AcceptedIsVisible
  BY DEF IInv, AnswerOK
<1>2. QED
  BY <1>1, EngineInvariant, PTL

\* No receipt is ever rewritten.
THEOREM EngineReceiptIsFinal == Spec => ReceiptIsFinal
<1>1. TypeOK /\ ReceiptOK /\ [Next]_vars =>
          \A c \in Commands : receipts[c] # NoReceipt => receipts'[c] = receipts[c]
  <2> SUFFICES ASSUME TypeOK, ReceiptOK, [Next]_vars,
                      NEW c \in Commands, receipts[c] # NoReceipt
               PROVE  receipts'[c] = receipts[c]
    OBVIOUS
  <2>1. CASE TxCommit \/ RecordRejection
    <3>1. receipts[request[cur]] = NoReceipt /\ request[cur] \in Commands
      BY <2>1 DEF TxCommit, RecordRejection, TypeOK, ReceiptOK, DecisionOK
    <3>2. QED
      BY <2>1, <3>1 DEF TxCommit, RecordRejection, TypeOK
  <2>2. TxCommit \/ RecordRejection \/ UNCHANGED receipts
    BY DEF Next, Boot, Work, vars, db, BeginBootstrap, BootstrapEvent, LoadSnapshot, Take,
           LookupFails, ReceiptHit, DecideRejects, DecideEvents, TxAppend, TxFails, TxEmpty,
           InstallModel, Publish, AnswerAccepted, Reconcile, ReconcileFails, RecordFails,
           Refuse, Crash, Dispatch, Fail
  <2>3. QED
    BY <2>1, <2>2
<1>2. Init => ReceiptOK
  BY InitReceiptOK
<1>3. TypeOK /\ ReceiptOK /\ [Next]_vars => ReceiptOK'
  BY NextReceiptMatchesLog, NextDecisionOK DEF ReceiptOK
<1>4. QED
  BY <1>1, <1>2, <1>3, EngineTypeCorrect, PTL DEF Spec, ReceiptIsFinal
-----------------------------------------------------------------------------
(* EventEngine implements CommandLog: every step of the engine is a step   *)
(* of the abstract log, or leaves what callers can observe alone.  Nothing *)
(* is assumed about the projections, so the promise holds whatever the     *)
(* bootstrap replays.                                                      *)

\* Every envelope is of a caller that is still waiting, and held once.
CallersOK ==
    /\ cur \in Requests => answer[cur] = Unanswered
    /\ \A i \in DOMAIN queue : answer[queue[i]] = Unanswered /\ queue[i] # cur
    /\ \A i, j \in DOMAIN queue : queue[i] = queue[j] => i = j
    /\ \A r \in Requests : request[r] = NoCommand => answer[r] = Unanswered
    /\ phase = "tx" => tx.done + tx.todo <= MaxEvents
    /\ phase \in {"failing", "record", "refuse"} => err # "none"

RInv == TypeOK /\ ReceiptOK /\ CallersOK

LEMMA NextCallersOK ==
    ASSUME TypeOK, ReceiptOK, CallersOK, [Next]_vars
    PROVE  CallersOK'
<1> USE DEF CallersOK, Phases
<1>1. CASE BeginBootstrap
  BY <1>1, EngineConstants DEF BeginBootstrap, TypeOK, db, worker, callers, Fail, Settle, AfterReconcile, DecisionOK, ReceiptOK
<1>2. CASE BootstrapEvent
  BY <1>2, EngineConstants DEF BootstrapEvent, TypeOK, db, worker, callers, Fail, Settle, AfterReconcile, DecisionOK, ReceiptOK
<1>3. CASE LoadSnapshot
  BY <1>3, EngineConstants DEF LoadSnapshot, TypeOK, db, worker, callers, Fail, Settle, AfterReconcile, DecisionOK, ReceiptOK
<1>4. CASE Take
  <2>1. /\ cur' = queue[1] /\ queue # <<>> /\ phase' = "lookup"
        /\ UNCHANGED <<request, answer, tx, err>>
        /\ Len(queue) >= 1
    BY <1>4 DEF Take, callers, TypeOK
  <2>2. /\ DOMAIN queue' = 1..(Len(queue) - 1)
        /\ \A i \in DOMAIN queue' : queue'[i] = queue[i + 1] /\ i + 1 \in DOMAIN queue
    BY <1>4 DEF Take, TypeOK
  <2>3. 1 \in DOMAIN queue
    BY <2>1 DEF TypeOK
  <2>4. \A i, j \in DOMAIN queue' : queue'[i] = queue'[j] => i = j
    BY <2>1, <2>2
  <2>5. \A i \in DOMAIN queue' : answer'[queue'[i]] = Unanswered /\ queue'[i] # cur'
    BY <2>1, <2>2, <2>3 DEF Unanswered
  <2>6. QED
    BY <2>1, <2>3, <2>4, <2>5 DEF Unanswered
<1>5. CASE LookupFails
  BY <1>5, EngineConstants DEF LookupFails, TypeOK, db, worker, callers, Fail, Settle, AfterReconcile, DecisionOK, ReceiptOK
<1>6. CASE ReceiptHit
  BY <1>6, EngineConstants DEF ReceiptHit, TypeOK, db, worker, callers, Fail, Settle, AfterReconcile, DecisionOK, ReceiptOK
<1>7. CASE DecideRejects
  BY <1>7, EngineConstants DEF DecideRejects, TypeOK, db, worker, callers, Fail, Settle, AfterReconcile, DecisionOK, ReceiptOK
<1>8. CASE DecideEvents
  BY <1>8, EngineConstants DEF DecideEvents, TypeOK, db, worker, callers, Fail, Settle, AfterReconcile, DecisionOK, ReceiptOK
<1>9. CASE TxAppend
  BY <1>9, EngineConstants DEF TxAppend, TypeOK, db, worker, callers, Fail, Settle, AfterReconcile, DecisionOK, ReceiptOK
<1>10. CASE TxFails
  BY <1>10, EngineConstants DEF TxFails, TypeOK, db, worker, callers, Fail, Settle, AfterReconcile, DecisionOK, ReceiptOK
<1>11. CASE TxEmpty
  BY <1>11, EngineConstants DEF TxEmpty, TypeOK, db, worker, callers, Fail, Settle, AfterReconcile, DecisionOK, ReceiptOK
<1>12. CASE TxCommit
  BY <1>12, EngineConstants DEF TxCommit, TypeOK, db, worker, callers, Fail, Settle, AfterReconcile, DecisionOK, ReceiptOK
<1>13. CASE InstallModel
  BY <1>13, EngineConstants DEF InstallModel, TypeOK, db, worker, callers, Fail, Settle, AfterReconcile, DecisionOK, ReceiptOK
<1>14. CASE Publish
  BY <1>14, EngineConstants DEF Publish, TypeOK, db, worker, callers, Fail, Settle, AfterReconcile, DecisionOK, ReceiptOK
<1>15. CASE AnswerAccepted
  BY <1>15, EngineConstants DEF AnswerAccepted, TypeOK, db, worker, callers, Fail, Settle, AfterReconcile, DecisionOK, ReceiptOK
<1>16. CASE Reconcile
  BY <1>16, EngineConstants DEF Reconcile, TypeOK, db, worker, callers, Fail, Settle, AfterReconcile, DecisionOK, ReceiptOK
<1>17. CASE ReconcileFails
  BY <1>17, EngineConstants DEF ReconcileFails, TypeOK, db, worker, callers, Fail, Settle, AfterReconcile, DecisionOK, ReceiptOK
<1>18. CASE RecordRejection
  BY <1>18, EngineConstants DEF RecordRejection, TypeOK, db, worker, callers, Fail, Settle, AfterReconcile, DecisionOK, ReceiptOK
<1>19. CASE RecordFails
  BY <1>19, EngineConstants DEF RecordFails, TypeOK, db, worker, callers, Fail, Settle, AfterReconcile, DecisionOK, ReceiptOK
<1>20. CASE Refuse
  BY <1>20, EngineConstants DEF Refuse, TypeOK, db, worker, callers, Fail, Settle, AfterReconcile, DecisionOK, ReceiptOK
<1>21. CASE Crash
  <2>1. queue' = <<>> /\ cur' = NoRequest /\ request' = request /\ phase' = "down"
    BY <1>21 DEF Crash
  <2>2. \A r \in Requests : request[r] = NoCommand => answer'[r] = answer[r]
    BY <1>21 DEF Crash, Pending
  <2>3. QED
    BY <2>1, <2>2, EngineConstants
<1>22. CASE \E r \in Requests, c \in Commands : Dispatch(r, c)
  <2>1. PICK r \in Requests, c \in Commands : Dispatch(r, c)
    BY <1>22
  <2>2. /\ request[r] = NoCommand /\ answer[r] = Unanswered /\ queue' = Append(queue, r)
        /\ UNCHANGED <<answer, cur, phase, tx, err>>
    BY <2>1 DEF Dispatch
  <2>3. r # cur /\ \A i \in DOMAIN queue : queue[i] # r
    BY <2>1, <2>2, EngineConstants DEF TypeOK
  <2>4. /\ DOMAIN queue' = 1..(Len(queue) + 1) /\ DOMAIN queue = 1..Len(queue)
        /\ Len(queue) \in Nat
        /\ queue'[Len(queue) + 1] = r /\ \A i \in DOMAIN queue : queue'[i] = queue[i]
    BY <2>2, SMTT(30) DEF TypeOK
  <2>5. \A i, j \in DOMAIN queue' : queue'[i] = queue'[j] => i = j
    BY <2>3, <2>4
  <2>6. \A i \in DOMAIN queue' : answer[queue'[i]] = Unanswered /\ queue'[i] # cur
    BY <2>2, <2>3, <2>4
  <2>7. \A q \in Requests : request'[q] = NoCommand => answer[q] = Unanswered
    BY <2>1, <2>2 DEF Dispatch, TypeOK
  <2>8. QED
    BY <2>2, <2>5, <2>6, <2>7
<1>23. CASE UNCHANGED vars
  BY <1>23 DEF vars, db, worker, callers
<1> QED
  BY <1>1, <1>2, <1>3, <1>4, <1>5, <1>6, <1>7, <1>8, <1>9, <1>10, <1>11, <1>12, <1>13, <1>14, <1>15, <1>16, <1>17, <1>18, <1>19, <1>20, <1>21, <1>22, <1>23 DEF Next, Boot, Work

LEMMA InitCallersOK == Init => CallersOK
BY EngineConstants DEF Init, CallersOK, Unanswered

LEMMA InitRefines == Init => CL!Init
<1> SUFFICES ASSUME Init PROVE CL!Init
  OBVIOUS
<1>1. TypeOK
  BY InitTypeOK
<1>2. \A i \in DOMAIN log : log[i] \notin Commands
  BY EngineConstants DEF Init
<1>3. QED
  BY <1>1, <1>2 DEF Init, TypeOK, CL!Init, CL!NoOutcome, NoReceipt, CL!Unanswered, Unanswered

\* The observable steps of the engine, each with its step of CommandLog.
LEMMA NextRefines ==
    ASSUME RInv, [Next]_vars
    PROVE  [CL!Next]_(CL!vars)
<1> USE DEF RInv
<1>1. CASE TxCommit
  <2>1. /\ cur \in Requests /\ answer[cur] = Unanswered /\ request[cur] \in Commands
        /\ receipts[request[cur]] = NoReceipt /\ tx.done \in 1..MaxEvents
    BY <1>1, EngineConstants DEF TxCommit, TypeOK, ReceiptOK, DecisionOK, CallersOK, Phases
  <2>2. /\ log' = log \o CL!EventsOf(request[cur], tx.done)
        /\ receipts' = [receipts EXCEPT ![request[cur]] =
                           [status |-> "accepted", seq |-> Len(log) + tx.done]]
        /\ UNCHANGED <<request, answer>>
    BY <1>1 DEF TxCommit, CL!EventsOf, callers
  <2>3. CL!Accept(cur)
    BY <2>1, <2>2, EngineConstants DEF CL!Accept, CL!Pending, CL!NoOutcome, NoReceipt,
                                       CL!Unanswered, Unanswered
  <2>4. QED
    BY <2>1, <2>3 DEF CL!Next
<1>2. CASE RecordRejection
  <2>1. /\ cur \in Requests /\ answer[cur] = Unanswered /\ request[cur] \in Commands
        /\ receipts[request[cur]] = NoReceipt
    BY <1>2 DEF RecordRejection, TypeOK, ReceiptOK, DecisionOK, CallersOK, Phases
  <2>2. /\ receipts' = [receipts EXCEPT ![request[cur]] =
                           [status |-> "rejected", seq |-> model.seq]]
        /\ receipts'[request[cur]] = [status |-> "rejected", seq |-> model.seq]
        /\ UNCHANGED <<log, request, answer>>
    BY <1>2, <2>1 DEF RecordRejection, callers, TypeOK
  <2>r. receipts' = [receipts EXCEPT ![request[cur]] = receipts'[request[cur]]]
    BY <2>2
  <2>3. CL!Reject(cur)
    BY <2>1, <2>2, <2>r, EngineConstants DEF CL!Reject, CL!Pending, CL!NoOutcome, NoReceipt,
                                       CL!Unanswered, Unanswered
  <2>4. QED
    BY <2>1, <2>3 DEF CL!Next
<1>3. CASE ReceiptHit \/ AnswerAccepted \/ Refuse
  <2>1. /\ cur \in Requests /\ cur \in CL!Pending /\ request[cur] \in Commands
        /\ UNCHANGED <<log, receipts, request>>
    BY <1>3, EngineConstants DEF ReceiptHit, AnswerAccepted, Refuse, TypeOK, CallersOK, Phases,
                                 db, CL!Pending, CL!Unanswered, Unanswered
  <2>2. CASE /\ receipts[request[cur]].status = "accepted"
             /\ answer' = [answer EXCEPT ![cur] = receipts[request[cur]]]
    <3>1. CL!Confirm(cur)
      BY <2>1, <2>2 DEF CL!Confirm
    <3>2. QED
      BY <2>1, <3>1 DEF CL!Next
  <2>3. CASE \E e \in CL!Errors :
                /\ e = "previouslyRejected" => receipts[request[cur]].status = "rejected"
                /\ answer' = [answer EXCEPT ![cur] = Refused(e)]
    <3>1. PICK e \in CL!Errors :
                /\ e = "previouslyRejected" => receipts[request[cur]].status = "rejected"
                /\ answer' = [answer EXCEPT ![cur] = Refused(e)]
      BY <2>3
    <3>2. answer' = [r \in Requests |->
                        IF r \in {cur} THEN [status |-> e, seq |-> 0] ELSE answer[r]]
      BY <2>1, <3>1 DEF Refused, TypeOK
    <3>3. CL!Refuse({cur})
      BY <2>1, <3>1, <3>2 DEF CL!Refuse
    <3>4. QED
      BY <2>1, <3>3 DEF CL!Next
  <2>4. CASE AnswerAccepted
    <3>1. /\ receipts[request[cur]] = [status |-> "accepted", seq |-> Len(log)]
          /\ receipts[request[cur]].status = "accepted"
      BY <2>4 DEF AnswerAccepted, ReceiptOK, DecisionOK
    <3>2. answer' = [answer EXCEPT ![cur] = receipts[request[cur]]]
      BY <2>4, <3>1 DEF AnswerAccepted, Settle
    <3>3. QED
      BY <2>2, <3>1, <3>2
  <2>5. CASE Refuse
    <3>1. err \in CL!Errors /\ err # "previouslyRejected"
      BY <2>5 DEF Refuse, CallersOK, TypeOK, CL!Errors
    <3>2. QED
      BY <2>3, <2>5, <3>1 DEF Refuse, Settle
  <2>6. CASE ReceiptHit
    <3>1. CASE receipts[request[cur]].status = "accepted"
      BY <2>2, <2>6, <3>1 DEF ReceiptHit, Settle
    <3>2. CASE receipts[request[cur]].status # "accepted"
      <4>1. receipts[request[cur]].status = "rejected"
        BY <2>1, <2>6, <3>2 DEF ReceiptHit, TypeOK
      <4>2. "previouslyRejected" \in CL!Errors
        BY DEF CL!Errors
      <4>3. QED
        BY <2>3, <2>6, <3>2, <4>1, <4>2 DEF ReceiptHit, Settle
    <3>3. QED
      BY <3>1, <3>2
  <2>7. QED
    BY <1>3, <2>4, <2>5, <2>6
<1>4. CASE Crash
  <2>1. UNCHANGED <<log, receipts, request>>
    BY <1>4 DEF Crash, db
  <2>2. "lost" \in CL!Errors /\ Pending = CL!Pending /\ Pending \in SUBSET Requests
    BY DEF CL!Errors, Pending, CL!Pending, Unanswered, CL!Unanswered
  <2>3. answer' = [r \in Requests |->
                      IF r \in Pending THEN [status |-> "lost", seq |-> 0] ELSE answer[r]]
    BY <1>4 DEF Crash, Refused
  <2>4. CL!Refuse(Pending)
    BY <2>1, <2>2, <2>3 DEF CL!Refuse
  <2>5. QED
    BY <2>2, <2>4 DEF CL!Next
<1>5. CASE \E r \in Requests, c \in Commands : Dispatch(r, c)
  <2>1. PICK r \in Requests, c \in Commands : Dispatch(r, c)
    BY <1>5
  <2>2. CL!Submit(r, c)
    BY <2>1 DEF Dispatch, db, CL!Submit
  <2>3. QED
    BY <2>2 DEF CL!Next
<1>6. CASE UNCHANGED <<log, receipts, request, answer>>
  BY <1>6 DEF CL!vars
<1>7. \/ TxCommit \/ RecordRejection \/ ReceiptHit \/ AnswerAccepted \/ Refuse \/ Crash
      \/ (\E r \in Requests, c \in Commands : Dispatch(r, c))
      \/ UNCHANGED <<log, receipts, request, answer>>
  BY DEF Next, Boot, Work, vars, db, callers, BeginBootstrap, BootstrapEvent, LoadSnapshot, Take,
         LookupFails, DecideRejects, DecideEvents, TxAppend, TxFails, TxEmpty,
         InstallModel, Publish, Reconcile, ReconcileFails, RecordFails, Fail
<1>8. QED
  BY <1>1, <1>2, <1>3, <1>4, <1>5, <1>6, <1>7

\* The engine keeps the promise of CommandLog to its callers.
THEOREM EngineImplementsCommandLog == Spec => ImplementsCommandLog
<1>1. Init => RInv
  BY InitTypeOK, InitReceiptOK, InitCallersOK DEF RInv
<1>2. RInv /\ [Next]_vars => RInv'
  BY NextTypeOK, NextReceiptMatchesLog, NextDecisionOK, NextCallersOK DEF RInv, ReceiptOK
<1>3. RInv /\ [Next]_vars => [CL!Next]_(CL!vars)
  BY NextRefines
<1>4. QED
  BY <1>1, <1>2, <1>3, InitRefines, PTL DEF Spec, ImplementsCommandLog, CL!Spec
=============================================================================

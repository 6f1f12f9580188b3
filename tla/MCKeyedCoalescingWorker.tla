---------------------- MODULE MCKeyedCoalescingWorker ----------------------
(***************************************************************************)
(* KeyedCoalescingWorker on a small instance.                              *)
(***************************************************************************)
EXTENDS KeyedCoalescingWorker, TLC
=============================================================================

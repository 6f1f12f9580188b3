---------------------- MODULE MCOrchestrationRecovery ----------------------
(***************************************************************************)
(* OrchestrationRecovery on a small instance.                              *)
(***************************************************************************)
EXTENDS OrchestrationRecovery, TLC
=============================================================================

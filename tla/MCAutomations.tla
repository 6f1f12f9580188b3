--------------------------- MODULE MCAutomations ---------------------------
(* Model checking of Automations. *)
EXTENDS Automations
=============================================================================

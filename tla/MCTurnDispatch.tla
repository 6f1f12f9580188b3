--------------------------- MODULE MCTurnDispatch ---------------------------
(* The instances of TurnDispatch that TLC checks.                          *)
EXTENDS TurnDispatch
=============================================================================

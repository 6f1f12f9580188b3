--------------------------- MODULE MCCommandGate ---------------------------
(***************************************************************************)
(* CommandGate on a small instance.                                        *)
(***************************************************************************)
EXTENDS CommandGate, TLC
=============================================================================

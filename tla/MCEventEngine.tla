--------------------------- MODULE MCEventEngine ---------------------------
(***************************************************************************)
(* EventEngine on a small instance.  The calls of dispatch are             *)
(* interchangeable; the symmetry is used only where no liveness is checked.*)
(***************************************************************************)
EXTENDS EventEngine, TLC

RequestSymmetry == Permutations(Requests)
=============================================================================

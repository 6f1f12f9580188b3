------------------------ MODULE MCThreadCheckpoints ------------------------
(* The instances of ThreadCheckpoints that TLC checks.                     *)
EXTENDS ThreadCheckpoints
=============================================================================

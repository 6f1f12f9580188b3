--------------------------- MODULE MCThreadGoals ---------------------------
(* ThreadGoals on a small instance.                                        *)
EXTENDS ThreadGoals
=============================================================================

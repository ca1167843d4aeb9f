--------------------------- MODULE MCNewsPipeline ---------------------------
EXTENDS NewsPipeline
(* Headlines are numbers: the constants of the .cfg files suffice.         *)
=============================================================================

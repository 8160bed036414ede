---------------------------- MODULE MCOnlineBuild ----------------------------
(* Small instance of OnlineBuild: one generatable and one blocked intent,  *)
(* two builds in the directory, at most two attempts.  repair_attempts     *)
(* is negative (one attempt) or falsy (settings decide: two attempts).      *)
EXTENDS OnlineBuild

MCBudgets == {-1, 0}
=============================================================================

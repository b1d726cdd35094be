----------------------------- MODULE MCConsole -----------------------------
(* One case, looked at twice, and one other analyst.                      *)
EXTENDS Console
=============================================================================

------------------------------ MODULE MCAccess ------------------------------
(* Two requests at a time, one client, and the script; a key is locked     *)
(* after two failures in one tick of the clock.  An auditor is to these    *)
(* definitions what an analyst is.                                         *)
EXTENDS Access, TLC
Symmetric == Permutations(Threads) \cup Permutations(Passwords)
=============================================================================

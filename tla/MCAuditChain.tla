---------------------------- MODULE MCAuditChain ----------------------------
(***************************************************************************)
(* A small instance of AuditChain: two kinds of event, batches of up to    *)
(* two, up to four rows, damaged up to twice.  Two events that differ are  *)
(* enough to tell an alteration, two damages to hide one by another.       *)
(***************************************************************************)
EXTENDS AuditChain

CONSTANTS view, decision

MCContents == {view, decision}
=============================================================================

--------------------------- MODULE MCCaseWorkflow ---------------------------
(***************************************************************************)
(* A small instance of CaseWorkflow: a customer with two transactions and  *)
(* one document, requests for up to two transactions, engines that find    *)
(* nothing, something to look at, a status observation or a double posting *)
(* with one, and a model that gives answers of each kind.                  *)
(***************************************************************************)
EXTENDS CaseWorkflow

CONSTANTS tx1, tx2, doc

MCHistory   == <<tx1, tx2>>
MCDocuments == {doc}
MCKycSigns  == {{}, {"dob"}, {"others", "notFirst"}, {"instruction"}}

Finding(rule, severity) == [rule |-> rule, severity |-> severity]
MCFindings == { {}, {Finding("REC-005", "medium")}, {Finding("REC-009", "medium")},
                {Finding("REC-002", "high"), Finding("REC-010", "medium")} }

Answer(action, claims, grounded) ==
    [action |-> action, claims |-> claims, grounded |-> grounded]
MCInvestigations ==
    { Answer("CLEAR", {"supported"}, TRUE),
      Answer("CLEAR", {"supported"}, FALSE),
      Answer("CLEAR", {"unverifiable"}, TRUE),
      Answer("CLEAR", {"supported", "unsupported"}, TRUE),
      Answer("REVIEW", {"supported", "unverifiable"}, TRUE),
      Answer("ESCALATE", {"unsupported"}, TRUE),
      Answer("ESCALATE", {"supported"}, TRUE) }
=============================================================================

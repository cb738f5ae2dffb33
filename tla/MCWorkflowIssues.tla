--------------------------- MODULE MCWorkflowIssues ---------------------------
(* Instances of WorkflowIssues for TLC. *)
EXTENDS WorkflowIssues

One == {1}
Two == {1, 2}
=============================================================================

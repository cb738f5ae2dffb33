----------------------------- MODULE StateMachine -----------------------------
(* The workflow states of an issue and the transitions between them         *)
(* (server/workflow/state-machine.ts).                                      *)

WorkflowState == {"backlog", "in-progress", "needs-input-blocking", "needs-input-async",
                  "ready-for-review", "done", "rejected"}
Untracked == "untracked"

ValidTransitions ==
    [s \in WorkflowState \cup {Untracked} |->
        IF s = "in-progress" THEN WorkflowState \ {"backlog", "in-progress"}
        ELSE IF s = "done" THEN {"in-progress"}
        ELSE IF s \in {"rejected", Untracked} THEN {}
        ELSE {"in-progress", "done", "rejected"}]

(* States a label on GitHub stands for; anybody can label an issue there.   *)
LabelState == {"backlog", "in-progress", "ready-for-review", "done", "rejected"}
=============================================================================

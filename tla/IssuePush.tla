------------------------------ MODULE IssuePush ------------------------------
(***************************************************************************)
(* One workflow issue as its row shows it, as HQ has it and as GitHub has  *)
(* it.  A click posts a transition from what the row shows; HQ answers at  *)
(* once and pushes the label, and the closing of a finished issue, to      *)
(* GitHub in the background, one gh call at a time and without looking at  *)
(* other pushes (workflow/github-sync.ts, routes/workflow.ts).             *)
(***************************************************************************)
EXTENDS Naturals, Sequences, FiniteSets, StateMachine

CONSTANTS
    MaxClicks,              \* bound on the operator's requests
    MaxMoves,               \* bound on what the daemon and people on GitHub do
    MaxCallFailures         \* bound on failed gh calls and restarts of HQ

ASSUME PushAssumption == {MaxClicks, MaxMoves, MaxCallFailures} \subseteq Nat

VARIABLES
    row,                    \* the state in the row, as last fetched
    asked,                  \* does the row know a pending question?
    state,                  \* WorkflowIssue.state at HQ
    ghLabels, ghClosed,     \* hq: labels and state on GitHub
    pushes,                 \* label pushes under way
    closings,               \* closeIssue calls under way
    exact,                  \* history: label of the last push, if it ran alone and no call failed
    clicks, moves, callFailures

ipVars == <<row, asked, state, ghLabels, ghClosed, pushes, closings, exact, clicks, moves, callFailures>>
githubVars == <<ghLabels, ghClosed>>

NoLabel == "none"
HQ_LABELS == <<"backlog", "in-progress", "ready-for-review", "done", "rejected">>
StateToLabel(s) == IF s \in {"needs-input-blocking", "needs-input-async"} THEN "in-progress" ELSE s

IpTypeOK ==
    /\ {row, state} \subseteq WorkflowState \cup {Untracked} /\ asked \in BOOLEAN
    /\ ghLabels \subseteq LabelState /\ ghClosed \in BOOLEAN
    /\ \A p \in pushes : p.label \in LabelState /\ p.todo \in Seq(LabelState)
    /\ closings \in 0 .. MaxClicks
    /\ exact \in LabelState \cup {NoLabel}

(* POST issues has created the issue with its label, or without when the   *)
(* repository has no such label, and synced.                               *)
IpInit ==
    /\ state = "backlog" /\ row = "backlog" /\ asked = FALSE
    /\ ghLabels \in {{"backlog"}, {}} /\ ghClosed = FALSE
    /\ pushes = {} /\ closings = 0 /\ exact = NoLabel
    /\ clicks = 0 /\ moves = 0 /\ callFailures = 0

Click == clicks < MaxClicks /\ clicks' = clicks + 1 /\ UNCHANGED <<moves, callFailures>>
Moved == moves < MaxMoves /\ moves' = moves + 1 /\ UNCHANGED <<clicks, callFailures>>
Fault == callFailures < MaxCallFailures /\ callFailures' = callFailures + 1 /\ UNCHANGED <<clicks, moves>>
NoBound == UNCHANGED <<clicks, moves, callFailures>>

-----------------------------------------------------------------------------
(* The row and the edit modal. *)

(* RowActions: the transitions a row offers, HQ's rules or not.            *)
Offered(s, question) ==
    CASE s = "ready-for-review" -> {"done", "rejected", "in-progress"}
      [] s \in {"needs-input-blocking", "needs-input-async"} ->
            IF question THEN {"rejected"} ELSE {"in-progress", "rejected"}
      [] s = "backlog" -> {"in-progress", "done", "rejected"}
      [] s = "in-progress" -> {"ready-for-review", "backlog", "done", "rejected"}
      [] OTHER -> {}

(* EditIssueModal: any row opens it.                                       *)
OfferedByModal(s) == IF s \in {"done", "rejected", Untracked} THEN {} ELSE {"done", "rejected"}

Refetched ==
    /\ row' = state /\ asked' \in (IF state \in {"needs-input-blocking", "needs-input-async"} THEN BOOLEAN ELSE {FALSE})
    /\ UNCHANGED <<state, githubVars, pushes, closings, exact>> /\ NoBound

-----------------------------------------------------------------------------
(* HQ. *)

(* syncLabelToGitHub, called and not awaited: every label but its own.     *)
OtherLabels(l) ==
    LET at == CHOOSE i \in 1 .. 5 : HQ_LABELS[i] = l
    IN  [i \in 1 .. 4 |-> HQ_LABELS[IF i < at THEN i ELSE i + 1]]
Labels(to) ==
    [label |-> StateToLabel(to), nth |-> clicks, alone |-> pushes = {},
     todo |-> OtherLabels(StateToLabel(to))]

(* PUT state.  422 if the issue moved on since the row was fetched.        *)
PutState(to) ==
    /\ Click
    /\ to \in Offered(row, asked) \cup OfferedByModal(row) /\ state # Untracked
    /\ IF to \in ValidTransitions[state]
       THEN /\ state' = to
            /\ pushes' = {[p EXCEPT !.alone = FALSE] : p \in pushes} \cup {Labels(to)}
            /\ closings' = closings + (IF to \in {"done", "rejected"} THEN 1 ELSE 0)
            /\ exact' = NoLabel
       ELSE UNCHANGED <<state, pushes, closings, exact>>
    /\ UNCHANGED <<row, asked, githubVars>>

(* A dispatch and the daemon's reports move the issue and push nothing.    *)
Dispatched ==
    /\ Moved
    /\ row \in {"backlog", "in-progress", "done"}
    /\ state \in {"backlog", "done"} /\ state' = "in-progress"
    /\ UNCHANGED <<row, asked, githubVars, pushes, closings, exact>>

Reported(to) ==
    /\ Moved
    /\ to \in {"in-progress", "needs-input-blocking", "needs-input-async", "ready-for-review"} \cap ValidTransitions[state]
    /\ state' = to
    /\ UNCHANGED <<row, asked, githubVars, pushes, closings, exact>>

(* Everything under way is gone; the store has been saved.                 *)
Restarted ==
    /\ Fault
    /\ pushes # {} \/ closings > 0
    /\ pushes' = {} /\ closings' = 0
    /\ UNCHANGED <<row, asked, state, githubVars, exact>>

(* syncIssues for this issue, on request and after an edit: a tracked open *)
(* issue keeps its state, one that is new takes that of its first label,   *)
(* a closed one becomes done, and done and rejected ones are forgotten.    *)
Synced ==
    /\ \/ ~ghClosed /\ state # Untracked /\ UNCHANGED state
       \/ ~ghClosed /\ state = Untracked /\ state' \in (IF ghLabels = {} THEN {"backlog"} ELSE ghLabels)
       \/ ghClosed /\ state \notin {"done", "rejected", Untracked} /\ state' = "done"
       \/ ghClosed /\ state \in {"done", "rejected", Untracked} /\ state' = Untracked
    /\ UNCHANGED <<row, asked, githubVars, pushes, closings, exact>> /\ NoBound

-----------------------------------------------------------------------------
(* gh. *)

Stepped(p, q) == pushes' = (pushes \ {p}) \cup {q}

(* removeLabel; a failed call is taken for a label that is not there.      *)
RemoveLabelOnlyPrevious(p) ==
    /\ p \in pushes /\ p.todo # << >>
    /\ \/ ghLabels' = ghLabels \ {Head(p.todo)} /\ Stepped(p, [p EXCEPT !.todo = << >>]) /\ NoBound
       \/ Fault /\ UNCHANGED ghLabels /\ Stepped(p, [p EXCEPT !.todo = Tail(@), !.alone = FALSE])
    /\ UNCHANGED <<row, asked, state, ghClosed, closings, exact>>
RemoveLabel(p) ==
    /\ p \in pushes /\ p.todo # << >>
    /\ \/ ghLabels' = ghLabels \ {Head(p.todo)} /\ Stepped(p, [p EXCEPT !.todo = Tail(@)]) /\ NoBound
       \/ Fault /\ UNCHANGED ghLabels /\ Stepped(p, [p EXCEPT !.todo = Tail(@), !.alone = FALSE])
    /\ UNCHANGED <<row, asked, state, ghClosed, closings, exact>>

AddLabel(p) ==
    /\ p \in pushes /\ p.todo = << >>
    /\ pushes' = pushes \ {p}
    /\ \/ ghLabels' = ghLabels \cup {p.label} /\ exact' = (IF p.alone THEN p.label ELSE NoLabel) /\ NoBound
       \/ Fault /\ UNCHANGED <<ghLabels, exact>>
    /\ UNCHANGED <<row, asked, state, ghClosed, closings>>

CloseIssue ==
    /\ closings > 0 /\ closings' = closings - 1
    /\ \/ ghClosed' = TRUE /\ NoBound
       \/ Fault /\ UNCHANGED ghClosed
    /\ UNCHANGED <<row, asked, state, ghLabels, pushes, exact>>

(* Somebody labels, closes or reopens the issue.                           *)
EditedOnGitHub ==
    /\ Moved
    /\ \/ \E l \in LabelState : ghLabels' = ghLabels \cup {l} /\ UNCHANGED ghClosed
       \/ ghClosed' = ~ghClosed /\ UNCHANGED ghLabels
    /\ exact' = NoLabel /\ pushes' = {[p EXCEPT !.alone = FALSE] : p \in pushes}
    /\ UNCHANGED <<row, asked, state, closings>>

IpNext ==
    \/ Refetched \/ Dispatched \/ Restarted \/ Synced \/ CloseIssue \/ EditedOnGitHub
    \/ \E to \in WorkflowState : PutState(to) \/ Reported(to)
    \/ \E p \in pushes : RemoveLabel(p) \/ AddLabel(p)

IpSpec == IpInit /\ [][IpNext]_ipVars

-----------------------------------------------------------------------------
(* Properties. *)

(* Whatever labels the issue had, a push that ran alone and whose calls    *)
(* all succeeded leaves exactly its label on GitHub, and only one label    *)
(* per issue: a new HQ that syncs would give the issue that state again.   *)
SequentialPushesAreExact == exact # NoLabel => ghLabels = {exact}
=============================================================================

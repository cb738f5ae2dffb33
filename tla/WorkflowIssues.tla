---------------------------- MODULE WorkflowIssues ----------------------------
(***************************************************************************)
(* The issues of one project in HQ's workflow store, and everything that   *)
(* moves them:                                                             *)
(*   operator  routes/workflow.ts: state, sync, dispatch, answer           *)
(*   daemon    workflow/daemon-events.ts: progress, completion, questions  *)
(*   timers    workflow/elicitation-store.ts, plugin.ts                    *)
(*   GitHub    workflow/github-sync.ts merges its open issues              *)
(*                                                                         *)
(* A handler is atomic up to its next await.  Two kinds of handler read    *)
(* the store before an await and write what they read after it: a sync     *)
(* keeps the issues (`syncs'), a start or reset of the coordinator keeps   *)
(* the record that also holds the dispatches (`held').                     *)
(***************************************************************************)
EXTENDS Naturals, Sequences, StateMachine

CONSTANTS
    Issues,         \* issue numbers
    Questions,      \* elicitation ids
    SyncId,         \* overlapping syncs
    HolderId,       \* overlapping starts and resets of the coordinator
    NoIssue,        \* the issueNumber of a question about none
    MaxDispatches,  \* bound on the dispatch records
    MaxTimers,      \* bound on the armed timers of one elicitation id
    MaxEvents       \* bound on requests and reports

ASSUME BoundAssumption == {MaxDispatches, MaxTimers, MaxEvents} \subseteq Nat
ASSUME IssueAssumption == NoIssue \notin Issues

VARIABLES
    board,          \* state of each issue in the store
    dispatches,     \* dispatch records of the coordinator record
    active,         \* is the coordinator's status "active"?
    syncs,          \* syncs that await GitHub, and the issues they saw
    held,           \* coordinator calls that await, and the dispatches they saw
    about,          \* the issue number the daemon gives with a question
    entries,        \* status of each id in ElicitationStore.elicitations
    timers,         \* armed timeouts per elicitation id
    handle,         \* does timeoutTimers still hold the newest of them?
    restarted,      \* history: has HQ restarted?
    events          \* requests and reports so far

issueVars  == <<board, syncs>>
coordVars  == <<dispatches, active, held>>
askVars    == <<entries, timers, handle>>
vars       == <<issueVars, coordVars, askVars, about, restarted, events>>

-----------------------------------------------------------------------------
Board == [Issues -> WorkflowState \cup {Untracked}]

(* stateMachine.transition followed by store.updateIssue, where an invalid *)
(* transition throws and is ignored.                                       *)
MovedTo(i, to) == IF to \in ValidTransitions[board[i]] THEN [board EXCEPT ![i] = to] ELSE board

-----------------------------------------------------------------------------
(* coordinator-state.ts *)

Record == [issue : Issues, status : {"pending", "in-progress", "completed"}]
IsActive(r) == r.status \in {"pending", "in-progress"}

(* Mutants: only a pending record keeps a second one out; the record       *)
(* starts in a status nothing here takes up.                               *)
AddDispatchPendingOnly(i) ==
    IF \E k \in DOMAIN dispatches : dispatches[k].issue = i /\ dispatches[k].status = "pending"
    THEN dispatches
    ELSE Append(dispatches, [issue |-> i, status |-> "pending"])

AddDispatchDispatched(i) ==
    IF \E k \in DOMAIN dispatches : dispatches[k].issue = i /\ IsActive(dispatches[k])
    THEN dispatches
    ELSE Append(dispatches, [issue |-> i, status |-> "dispatched"])

AddDispatch(i) ==
    IF \E k \in DOMAIN dispatches : dispatches[k].issue = i /\ IsActive(dispatches[k])
    THEN dispatches
    ELSE Append(dispatches, [issue |-> i, status |-> "pending"])

UpdateDispatchStatus(i, to) ==
    [k \in DOMAIN dispatches |->
        IF dispatches[k].issue = i THEN [dispatches[k] EXCEPT !.status = to] ELSE dispatches[k]]

(* The last of getActiveDispatches.                                        *)
IsLastActive(k) ==
    /\ k \in DOMAIN dispatches /\ IsActive(dispatches[k])
    /\ \A j \in DOMAIN dispatches : IsActive(dispatches[j]) => j <= k

-----------------------------------------------------------------------------
EntryStatus == {"none", "pending", "answered", "timeout"}
NoSync == [busy |-> FALSE, seen |-> [i \in Issues |-> Untracked]]
NoHold == [busy |-> FALSE, seen |-> << >>]

TypeOK ==
    /\ board \in Board
    /\ dispatches \in Seq(Record)
    /\ active \in BOOLEAN
    /\ syncs \in [SyncId -> [busy : BOOLEAN, seen : Board]]
    /\ held \in [HolderId -> [busy : BOOLEAN, seen : Seq(Record)]]
    /\ about \in [Questions -> Issues \cup {NoIssue}]
    /\ entries \in [Questions -> EntryStatus]
    /\ timers \in [Questions -> Nat]
    /\ handle \in [Questions -> BOOLEAN]
    /\ restarted \in BOOLEAN /\ events \in 0 .. MaxEvents

Init ==
    /\ board = [i \in Issues |-> Untracked]
    /\ dispatches = << >> /\ active = FALSE
    /\ syncs = [s \in SyncId |-> NoSync]
    /\ held = [h \in HolderId |-> NoHold]
    /\ about \in [Questions -> Issues \cup {NoIssue}]
    /\ entries = [e \in Questions |-> "none"]
    /\ timers = [e \in Questions |-> 0]
    /\ handle = [e \in Questions |-> FALSE]
    /\ restarted = FALSE /\ events = 0

Event == events < MaxEvents /\ events' = events + 1 /\ UNCHANGED <<about, restarted>>
NoEvent == UNCHANGED <<about, restarted, events>>

-----------------------------------------------------------------------------
(* Operator. *)

(* Mutant: the state is written without asking the state machine.          *)
SetStateUnchecked(i, to) ==
    /\ Event
    /\ board[i] # Untracked
    /\ board' = [board EXCEPT ![i] = to]
    /\ UNCHANGED <<syncs, coordVars, askVars>>

(* PUT issues/:number/state; an invalid transition is answered with 422.   *)
SetState(i, to) ==
    /\ Event
    /\ to \in ValidTransitions[board[i]]
    /\ board' = MovedTo(i, to)
    /\ UNCHANGED <<syncs, coordVars, askVars>>

(* POST dispatch/:issueNumber.  A message that cannot be sent is answered  *)
(* with 503 and leaves issue and record as they are after a success.       *)
DispatchIssue(i) ==
    /\ Event
    /\ board[i] \in {"backlog", "in-progress", "done"}
    /\ active
    /\ board' = MovedTo(i, "in-progress")
    /\ dispatches' = AddDispatch(i) /\ Len(dispatches') <= MaxDispatches
    /\ UNCHANGED <<syncs, active, held, askVars>>

(* POST sync, and the sync that ends issue creation and editing: the map   *)
(* of existing issues is taken, then GitHub is asked.                      *)
SyncStart(s) ==
    /\ Event
    /\ ~syncs[s].busy
    /\ syncs' = [syncs EXCEPT ![s] = [busy |-> TRUE, seen |-> board]]
    /\ UNCHANGED <<board, coordVars, askVars>>

(* syncIssues: what GitHub lists as open keeps the state it was seen with  *)
(* or takes that of its label; other unfinished issues become done, and    *)
(* finished ones are no longer tracked.                                    *)
Merged(seen, open, label) ==
    [i \in Issues |->
        IF i \in open THEN IF seen[i] = Untracked THEN label[i] ELSE seen[i]
        ELSE IF seen[i] \in {Untracked, "done", "rejected"} THEN Untracked ELSE "done"]

(* GitHub answers and setIssues replaces the list.                         *)
SyncApply(s) ==
    /\ syncs[s].busy
    /\ LET seen == syncs[s].seen IN
       \E open \in SUBSET Issues :
       \E label \in [{i \in open : seen[i] = Untracked} -> LabelState] :
           board' = Merged(seen, open, label)
    /\ syncs' = [syncs EXCEPT ![s] = NoSync]
    /\ NoEvent /\ UNCHANGED <<coordVars, askVars>>

(* The gh command fails: 502.                                              *)
SyncFails(s) ==
    /\ syncs[s].busy
    /\ syncs' = [syncs EXCEPT ![s] = NoSync]
    /\ NoEvent /\ UNCHANGED <<board, coordVars, askVars>>

-----------------------------------------------------------------------------
(* Coordinator record (Coordinator models its status in full). *)

(* Auto-start, start and reset set a status other than active and keep the *)
(* record while the agent is looked up, a reset 500 ms longer.             *)
HoldRecord(h) ==
    /\ Event
    /\ ~held[h].busy
    /\ held' = [held EXCEPT ![h] = [busy |-> TRUE, seen |-> dispatches]]
    /\ active' = FALSE
    /\ UNCHANGED <<issueVars, dispatches, askVars>>

(* The message could not be sent, or a reset starts anew: the record that  *)
(* was kept is written back, its dispatches included.                      *)
WriteBack(h) ==
    /\ held[h].busy
    /\ dispatches' = held[h].seen /\ active' = FALSE
    /\ held' = [held EXCEPT ![h] = NoHold]
    /\ NoEvent /\ UNCHANGED <<issueVars, askVars>>

(* The message was sent, or the daemon is gone when a reset would start.   *)
LetGo(h) ==
    /\ held[h].busy
    /\ held' = [held EXCEPT ![h] = NoHold]
    /\ NoEvent /\ UNCHANGED <<issueVars, dispatches, active, askVars>>

(* workflow:coordinator-started; coordinator-crashed and the stop route.   *)
CoordinatorStarted ==
    /\ Event
    /\ active' = TRUE
    /\ UNCHANGED <<issueVars, dispatches, held, askVars>>

CoordinatorDown ==
    /\ Event
    /\ active /\ active' = FALSE
    /\ UNCHANGED <<issueVars, dispatches, held, askVars>>

-----------------------------------------------------------------------------
(* Reports of the daemon. *)

(* workflow:progress.                                                      *)
Progress(i) ==
    /\ Event
    /\ dispatches' = UpdateDispatchStatus(i, "in-progress")
    /\ UNCHANGED <<issueVars, active, held, askVars>>

(* workflow:issue-completed.                                               *)
IssueCompleted(i) ==
    /\ Event
    /\ board' = IF board[i] = "in-progress" THEN MovedTo(i, "ready-for-review") ELSE board
    /\ dispatches' = UpdateDispatchStatus(i, "completed")
    /\ UNCHANGED <<syncs, active, held, askVars>>

(* Mutant: the issue of the first active dispatch is moved.                *)
ToolCompletedFirst ==
    /\ Event
    /\ \E k \in DOMAIN dispatches : \E j \in DOMAIN dispatches :
          /\ IsLastActive(k)
          /\ IsActive(dispatches[j])
          /\ \A l \in DOMAIN dispatches : IsActive(dispatches[l]) => j <= l
          /\ dispatches' = UpdateDispatchStatus(dispatches[k].issue, "completed")
          /\ board' = MovedTo(dispatches[j].issue, "done")
    /\ UNCHANGED <<syncs, active, held, askVars>>

(* copilot:tool-invocation: report_progress with status completed, which   *)
(* names no issue.                                                         *)
ToolCompleted ==
    /\ Event
    /\ \E k \in DOMAIN dispatches :
          LET i == dispatches[k].issue IN
          /\ IsLastActive(k)
          /\ dispatches' = UpdateDispatchStatus(i, "completed")
          /\ board' = IF board[i] \in {"done", "rejected"} THEN board ELSE MovedTo(i, "done")
    /\ UNCHANGED <<syncs, active, held, askVars>>

-----------------------------------------------------------------------------
(* Elicitations. *)

(* Mutant: only an id that is not in the store gets a timer.               *)
RequestedTimerOnce(e) ==
    /\ Event
    /\ timers[e] < MaxTimers
    /\ entries' = [entries EXCEPT ![e] = "pending"]
    /\ IF entries[e] = "none"
       THEN /\ timers' = [timers EXCEPT ![e] = @ + 1]
            /\ handle' = [handle EXCEPT ![e] = TRUE]
       ELSE UNCHANGED <<timers, handle>>
    /\ UNCHANGED <<board, syncs, coordVars>>

(* workflow:elicitation-requested: elicitationStore.add overwrites what is *)
(* there and arms another timer; the issue, if any, is blocked.            *)
ElicitationRequested(e) ==
    /\ Event
    /\ timers[e] < MaxTimers
    /\ entries' = [entries EXCEPT ![e] = "pending"]
    /\ timers' = [timers EXCEPT ![e] = @ + 1]
    /\ handle' = [handle EXCEPT ![e] = TRUE]
    /\ LET i == about[e] IN
       board' = IF i # NoIssue /\ board[i] = "in-progress"
                THEN MovedTo(i, "needs-input-blocking") ELSE board
    /\ UNCHANGED <<syncs, coordVars>>

(* An answer or a timeout unblocks the issue the question was about.       *)
Unblock(i) ==
    board' = IF i # NoIssue /\ board[i] = "needs-input-blocking"
             THEN MovedTo(i, "in-progress") ELSE board

(* POST elicitation/:id/respond, elicitationStore.answer.                  *)
Answer(e) ==
    /\ Event
    /\ entries[e] = "pending"
    /\ entries' = [entries EXCEPT ![e] = "answered"]
    /\ timers' = [timers EXCEPT ![e] = IF handle[e] THEN @ - 1 ELSE @]
    /\ handle' = [handle EXCEPT ![e] = FALSE]
    /\ Unblock(about[e])
    /\ UNCHANGED <<syncs, coordVars>>

(* Mutant: the timeout only notifies the browsers.                         *)
TimeoutNotifiesOnly(e) ==
    /\ timers[e] > 0
    /\ timers' = [timers EXCEPT ![e] = @ - 1]
    /\ IF entries[e] = "pending"
       THEN /\ entries' = [entries EXCEPT ![e] = "timeout"]
            /\ handle' = [handle EXCEPT ![e] = FALSE]
       ELSE UNCHANGED <<entries, handle>>
    /\ NoEvent /\ UNCHANGED <<issueVars, coordVars>>

(* handleTimeout and the callback of plugin.ts.                            *)
HandleTimeout(e) ==
    /\ timers[e] > 0
    /\ timers' = [timers EXCEPT ![e] = @ - 1]
    /\ IF entries[e] = "pending"
       THEN /\ entries' = [entries EXCEPT ![e] = "timeout"]
            /\ handle' = [handle EXCEPT ![e] = FALSE]
            /\ Unblock(about[e])
       ELSE UNCHANGED <<entries, handle, board>>
    /\ NoEvent /\ UNCHANGED <<syncs, coordVars>>

(* cleanupResolved, an hour after the answer or the timeout.               *)
CleanupResolved(e) ==
    /\ entries[e] \in {"answered", "timeout"}
    /\ entries' = [entries EXCEPT ![e] = "none"]
    /\ handle' = [handle EXCEPT ![e] = FALSE]
    /\ NoEvent /\ UNCHANGED <<issueVars, coordVars, timers>>

-----------------------------------------------------------------------------
(* An orderly restart of HQ: onClose flushes the store and load reads it,  *)
(* with the coordinator idle; elicitations are in memory only.             *)
HqRestart ==
    /\ ~restarted /\ restarted' = TRUE
    /\ active' = FALSE
    /\ syncs' = [s \in SyncId |-> NoSync]
    /\ held' = [h \in HolderId |-> NoHold]
    /\ entries' = [e \in Questions |-> "none"]
    /\ timers' = [e \in Questions |-> 0]
    /\ handle' = [e \in Questions |-> FALSE]
    /\ UNCHANGED <<board, dispatches, about, events>>

Next ==
    \/ \E i \in Issues :
         \/ \E to \in WorkflowState : SetState(i, to)
         \/ DispatchIssue(i) \/ Progress(i) \/ IssueCompleted(i)
    \/ \E s \in SyncId : SyncStart(s) \/ SyncApply(s) \/ SyncFails(s)
    \/ \E h \in HolderId : HoldRecord(h) \/ WriteBack(h) \/ LetGo(h)
    \/ CoordinatorStarted \/ CoordinatorDown \/ ToolCompleted
    \/ \E e \in Questions :
         ElicitationRequested(e) \/ Answer(e) \/ HandleTimeout(e) \/ CleanupResolved(e)
    \/ HqRestart

Spec == Init /\ [][Next]_vars

(* A timer that is armed fires.                                            *)
FairSpec == Spec /\ \A e \in Questions : WF_vars(HandleTimeout(e))

-----------------------------------------------------------------------------
(* The records of one issue tell one story: they share their status, or    *)
(* the earlier ones are completed and the last waits to be taken up.  So   *)
(* an issue has at most one pending dispatch, and a completion leaves no   *)
(* forgotten record that a later report would complete instead of its own. *)
Agree(d) ==
    \A j, k \in DOMAIN d :
        j < k /\ d[j].issue = d[k].issue =>
            d[j].status = d[k].status \/ (d[j].status = "completed" /\ d[k].status = "pending")

RecordsAgree == Agree(dispatches)

(* A question that waits at HQ has the timer that resolves it, also when   *)
(* it is asked twice, answered, cleaned up and asked again.                *)
PendingHasTimer ==
    \A e \in Questions : entries[e] = "pending" => handle[e] /\ timers[e] > 0

(* Whatever completes a dispatch moves the issue on: no step but the       *)
(* writing back of an old record completes the dispatch of an issue that   *)
(* stays in progress.                                                      *)
CompletedWorkMovesOn ==
    [][\A k \in DOMAIN dispatches \cap DOMAIN dispatches' :
          LET i == dispatches[k].issue IN
          /\ IsActive(dispatches[k]) /\ dispatches'[k].status = "completed"
          /\ ~\E h \in HolderId : WriteBack(h)
          => board'[i] # "in-progress"]_vars

(* A rejected issue comes back only through a sync that saw it before the  *)
(* rejection: no report, dispatch, answer or timeout of work that went on  *)
(* meanwhile revives it.                                                   *)
OnlyStaleSyncRevives ==
    [][\A i \in Issues :
          board[i] = "rejected" /\ board'[i] \notin {"rejected", Untracked} =>
              \E s \in SyncId : SyncApply(s) /\ syncs[s].seen[i] # "rejected"]_vars

(* state-machine.test.ts:265 "rejected is terminal - cannot transition     *)
(* out": an issue once rejected is rejected for as long as it is tracked.  *)
RejectedIsTerminal ==
    [][\A i \in Issues : board[i] = "rejected" => board'[i] \in {"rejected", Untracked}]_vars

(* plugin.ts:66 "Elicitation timeout handler: notify clients and           *)
(* transition issue back": a blocked issue with an open question is        *)
(* released, unless HQ restarts and forgets the question.                  *)
BlockedIsReleased ==
    \A e \in Questions, i \in Issues :
        entries[e] = "pending" /\ about[e] = i /\ board[i] = "needs-input-blocking"
            ~> board[i] # "needs-input-blocking" \/ restarted
=============================================================================

------------------------- MODULE WorkflowIssuesProofs -------------------------
(***************************************************************************)
(* Theorems about WorkflowIssues, for any issues, elicitation ids, number  *)
(* of overlapping syncs and coordinator calls, and bounds.                 *)
(***************************************************************************)
EXTENDS WorkflowIssues, TLAPS

(* The two operations on dispatch records build lists of records.          *)
LEMMA UpdateTyped ==
    ASSUME dispatches \in Seq(Record), NEW i \in Issues,
           NEW to \in {"pending", "in-progress", "completed"}
    PROVE  UpdateDispatchStatus(i, to) \in Seq(Record)
<1>1. \A k \in DOMAIN dispatches :
        (IF dispatches[k].issue = i THEN [dispatches[k] EXCEPT !.status = to] ELSE dispatches[k])
            \in Record
  <2>1. \A k \in DOMAIN dispatches : dispatches[k] \in Record
    OBVIOUS
  <2>2. \A r \in Record : [r EXCEPT !.status = to] \in Record
    BY DEF Record
  <2> QED BY <2>1, <2>2
<1>2. UpdateDispatchStatus(i, to) \in [1 .. Len(dispatches) -> Record]
  BY <1>1 DEF UpdateDispatchStatus
<1>3. Len(dispatches) \in Nat
  OBVIOUS
<1> QED BY <1>2, <1>3

LEMMA AddTyped ==
    ASSUME dispatches \in Seq(Record), NEW i \in Issues
    PROVE  AddDispatch(i) \in Seq(Record)
<1>1. [issue |-> i, status |-> "pending"] \in Record
  BY DEF Record
<1> QED BY <1>1 DEF AddDispatch

(* The state machine and the merge of a sync stay within the states.       *)
LEMMA MovedTyped ==
    ASSUME board \in Board, NEW i \in Issues, NEW to \in WorkflowState
    PROVE  MovedTo(i, to) \in Board
BY DEF MovedTo, Board

LEMMA MergedTyped ==
    ASSUME NEW seen \in Board, NEW open \in SUBSET Issues,
           NEW label \in [{i \in open : seen[i] = Untracked} -> LabelState]
    PROVE  Merged(seen, open, label) \in Board
<1> DEFINE m(i) == IF i \in open THEN IF seen[i] = Untracked THEN label[i] ELSE seen[i]
                   ELSE IF seen[i] \in {Untracked, "done", "rejected"} THEN Untracked ELSE "done"
<1>1. LabelState \subseteq WorkflowState /\ "done" \in WorkflowState
  BY DEF LabelState, WorkflowState
<1>2. ASSUME NEW i \in Issues PROVE m(i) \in WorkflowState \cup {Untracked}
  <2>1. seen[i] \in WorkflowState \cup {Untracked}
    BY DEF Board
  <2>2. i \in open /\ seen[i] = Untracked => label[i] \in LabelState
    OBVIOUS
  <2> QED BY <1>1, <2>1, <2>2
<1> HIDE DEF m
<1>3. [i \in Issues |-> m(i)] \in Board
  BY <1>2 DEF Board
<1> QED BY <1>3 DEF Merged, m

-----------------------------------------------------------------------------
LEMMA IdleTyped ==
    /\ NoSync \in [busy : BOOLEAN, seen : Board]
    /\ NoHold \in [busy : BOOLEAN, seen : Seq(Record)]
BY DEF NoSync, NoHold, Board

LEMMA InitTyped == Init => TypeOK
<1> SUFFICES ASSUME Init PROVE TypeOK
  OBVIOUS
<1>0. board \in Board
  <2>1. board = [i \in Issues |-> Untracked]
    BY DEF Init
  <2> QED BY <2>1 DEF Board
<1>1. dispatches \in Seq(Record) /\ active \in BOOLEAN
  <2>1. << >> \in Seq(Record)
    OBVIOUS
  <2>2. dispatches = << >> /\ active = FALSE
    BY DEF Init
  <2>3. active \in BOOLEAN
    BY <2>2
  <2> QED BY <2>1, <2>2, <2>3
<1>2. /\ syncs \in [SyncId -> [busy : BOOLEAN, seen : Board]]
      /\ held \in [HolderId -> [busy : BOOLEAN, seen : Seq(Record)]]
  BY IdleTyped DEF Init
<1>3. /\ about \in [Questions -> Issues \cup {NoIssue}]
      /\ entries \in [Questions -> EntryStatus]
      /\ timers \in [Questions -> Nat] /\ handle \in [Questions -> BOOLEAN]
  BY DEF Init, EntryStatus
<1>4. restarted \in BOOLEAN /\ events \in 0 .. MaxEvents
  <2>1. MaxEvents \in Nat
    BY BoundAssumption
  <2>2. restarted \in BOOLEAN
    BY DEF Init
  <2>3. events \in 0 .. MaxEvents
    <3>1. events = 0
      BY DEF Init
    <3> QED BY <2>1, <3>1
  <2> QED BY <2>2, <2>3
<1> QED BY <1>0, <1>1, <1>2, <1>3, <1>4 DEF TypeOK

(* Exactly the pending elicitations have the handle of a timer, and it is  *)
(* armed; a leftover timer of an earlier question has none.                *)
TimerInv ==
    \A e \in Questions :
        (handle[e] <=> entries[e] = "pending") /\ (handle[e] => timers[e] > 0)

(* Every step keeps the types; TimerInv keeps an answer from disarming a   *)
(* timer that is not there.                                                *)
LEMMA NextTyped == TypeOK /\ TimerInv /\ [Next]_vars => TypeOK'
<1> SUFFICES ASSUME TypeOK, TimerInv, [Next]_vars PROVE TypeOK'
  OBVIOUS
<1> USE DEF TypeOK, issueVars, coordVars, askVars, NoEvent
<1>e. ASSUME Event PROVE /\ events' \in 0 .. MaxEvents /\ restarted' \in BOOLEAN
                         /\ about' \in [Questions -> Issues \cup {NoIssue}]
  BY <1>e, BoundAssumption DEF Event
<1>s. /\ "in-progress" \in WorkflowState /\ "ready-for-review" \in WorkflowState
      /\ "done" \in WorkflowState /\ "needs-input-blocking" \in WorkflowState
  BY DEF WorkflowState
<1>u. ASSUME NEW i \in Issues \cup {NoIssue}, Unblock(i) PROVE board' \in Board
  BY <1>u, <1>s, MovedTyped DEF Unblock
<1>1. ASSUME NEW i \in Issues, NEW to \in WorkflowState, SetState(i, to) PROVE TypeOK'
  BY <1>1, <1>e, MovedTyped DEF SetState
<1>2. ASSUME NEW i \in Issues, DispatchIssue(i) PROVE TypeOK'
  BY <1>2, <1>e, <1>s, MovedTyped, AddTyped DEF DispatchIssue
<1>3. ASSUME NEW i \in Issues, Progress(i) PROVE TypeOK'
  BY <1>3, <1>e, UpdateTyped DEF Progress
<1>4. ASSUME NEW i \in Issues, IssueCompleted(i) PROVE TypeOK'
  BY <1>4, <1>e, <1>s, MovedTyped, UpdateTyped DEF IssueCompleted
<1>5. ASSUME NEW s \in SyncId, SyncStart(s) PROVE TypeOK'
  BY <1>5, <1>e DEF SyncStart
<1>6. ASSUME NEW s \in SyncId, SyncApply(s) PROVE TypeOK'
  <2>1. NoSync \in [busy : BOOLEAN, seen : Board]
    BY IdleTyped
  <2>2. syncs[s].seen \in Board
    OBVIOUS
  <2>3. board' \in Board
    BY <1>6, <2>2, MergedTyped, SMTT(30) DEF SyncApply
  <2> QED BY <1>6, <2>1, <2>3 DEF SyncApply
<1>7. ASSUME NEW s \in SyncId, SyncFails(s) PROVE TypeOK'
  <2>1. NoSync \in [busy : BOOLEAN, seen : Board]
    BY IdleTyped
  <2> QED BY <1>7, <2>1 DEF SyncFails
<1>8. ASSUME NEW h \in HolderId, HoldRecord(h) PROVE TypeOK'
  BY <1>8, <1>e DEF HoldRecord
<1>9. ASSUME NEW h \in HolderId, WriteBack(h) \/ LetGo(h) PROVE TypeOK'
  <2>1. NoHold \in [busy : BOOLEAN, seen : Seq(Record)]
    BY IdleTyped
  <2>2. held[h].seen \in Seq(Record)
    OBVIOUS
  <2> QED BY <1>9, <2>1, <2>2 DEF WriteBack, LetGo
<1>10. ASSUME CoordinatorStarted \/ CoordinatorDown PROVE TypeOK'
  BY <1>10, <1>e DEF CoordinatorStarted, CoordinatorDown
<1>11. ASSUME ToolCompleted PROVE TypeOK'
  <2> PICK k \in DOMAIN dispatches :
        LET i == dispatches[k].issue IN
        /\ IsLastActive(k)
        /\ dispatches' = UpdateDispatchStatus(i, "completed")
        /\ board' = IF board[i] \in {"done", "rejected"} THEN board ELSE MovedTo(i, "done")
    BY <1>11 DEF ToolCompleted
  <2>1. dispatches[k] \in Record /\ dispatches[k].issue \in Issues
    <3>1. dispatches[k] \in Record
      OBVIOUS
    <3> QED BY <3>1 DEF Record
  <2>2. board' \in Board /\ dispatches' \in Seq(Record)
    BY <2>1, <1>s, MovedTyped, UpdateTyped
  <2>3. Event /\ UNCHANGED <<syncs, active, held, askVars>>
    BY <1>11 DEF ToolCompleted
  <2> QED BY <2>2, <2>3, <1>e
<1>12. ASSUME NEW e \in Questions, ElicitationRequested(e) PROVE TypeOK'
  <2>1. board' \in Board
    <3>1. about[e] \in Issues \cup {NoIssue}
      OBVIOUS
    <3>2. board' = IF about[e] # NoIssue /\ board[about[e]] = "in-progress"
                   THEN MovedTo(about[e], "needs-input-blocking") ELSE board
      BY <1>12 DEF ElicitationRequested
    <3> QED BY <3>1, <3>2, <1>s, MovedTyped
  <2>2. entries' \in [Questions -> EntryStatus]
    BY <1>12 DEF ElicitationRequested, EntryStatus
  <2>3. timers' \in [Questions -> Nat] /\ handle' \in [Questions -> BOOLEAN]
    BY <1>12 DEF ElicitationRequested
  <2> QED BY <2>1, <2>2, <2>3, <1>12, <1>e DEF ElicitationRequested
<1>13. ASSUME NEW e \in Questions, Answer(e) PROVE TypeOK'
  <2>1. board' \in Board
    BY <1>13, <1>u DEF Answer
  <2>2. entries' \in [Questions -> EntryStatus] /\ handle' \in [Questions -> BOOLEAN]
    BY <1>13 DEF Answer, EntryStatus
  <2>3. (IF handle[e] THEN timers[e] - 1 ELSE timers[e]) \in Nat
    BY DEF TimerInv
  <2>4. timers' \in [Questions -> Nat]
    BY <1>13, <2>3 DEF Answer
  <2> QED BY <2>1, <2>2, <2>4, <1>13, <1>e DEF Answer
<1>14. ASSUME NEW e \in Questions, HandleTimeout(e) PROVE TypeOK'
  <2>1. board' \in Board
    BY <1>14, <1>u DEF HandleTimeout
  <2>2. entries' \in [Questions -> EntryStatus] /\ handle' \in [Questions -> BOOLEAN]
    BY <1>14 DEF HandleTimeout, EntryStatus
  <2>3. timers' \in [Questions -> Nat]
    BY <1>14 DEF HandleTimeout
  <2> QED BY <2>1, <2>2, <2>3, <1>14 DEF HandleTimeout
<1>15. ASSUME NEW e \in Questions, CleanupResolved(e) PROVE TypeOK'
  BY <1>15 DEF CleanupResolved, EntryStatus
<1>16. ASSUME HqRestart PROVE TypeOK'
  BY <1>16, IdleTyped DEF HqRestart, EntryStatus
<1>17. ASSUME UNCHANGED vars PROVE TypeOK'
  BY <1>17 DEF vars
<1> QED
  BY <1>1, <1>2, <1>3, <1>4, <1>5, <1>6, <1>7, <1>8, <1>9, <1>10, <1>11, <1>12, <1>13,
     <1>14, <1>15, <1>16, <1>17 DEF Next

-----------------------------------------------------------------------------
LEMMA NextTimer == TypeOK /\ TimerInv /\ [Next]_vars => TimerInv'
<1> SUFFICES ASSUME TypeOK, TimerInv, [Next]_vars PROVE TimerInv'
  OBVIOUS
<1> USE DEF TypeOK, TimerInv, issueVars, coordVars, askVars
<1>1. ASSUME NEW e \in Questions, ElicitationRequested(e) PROVE TimerInv'
  BY <1>1 DEF ElicitationRequested
<1>2. ASSUME NEW e \in Questions, Answer(e) PROVE TimerInv'
  BY <1>2 DEF Answer
<1>3. ASSUME NEW e \in Questions, HandleTimeout(e) PROVE TimerInv'
  BY <1>3 DEF HandleTimeout
<1>4. ASSUME NEW e \in Questions, CleanupResolved(e) PROVE TimerInv'
  BY <1>4 DEF CleanupResolved
<1>5. ASSUME HqRestart PROVE TimerInv'
  BY <1>5 DEF HqRestart
<1>6. ASSUME UNCHANGED askVars PROVE TimerInv'
  BY <1>6
<1> QED
  BY <1>1, <1>2, <1>3, <1>4, <1>5, <1>6
     DEF Next, vars, SetState, DispatchIssue, Progress, IssueCompleted, SyncStart, SyncApply,
         SyncFails, HoldRecord, WriteBack, LetGo, CoordinatorStarted, CoordinatorDown,
         ToolCompleted

-----------------------------------------------------------------------------
(* What the two list operations do to a list whose records agree.          *)
LEMMA UpdateAgrees ==
    ASSUME dispatches \in Seq(Record), Agree(dispatches), NEW i \in Issues,
           NEW to \in {"pending", "in-progress", "completed"}
    PROVE  Agree(UpdateDispatchStatus(i, to))
<1> DEFINE u == UpdateDispatchStatus(i, to)
<1>1. DOMAIN u = DOMAIN dispatches
  BY DEF UpdateDispatchStatus
<1>2. ASSUME NEW k \in DOMAIN dispatches
      PROVE  /\ u[k].issue = dispatches[k].issue
             /\ u[k].status = IF dispatches[k].issue = i THEN to ELSE dispatches[k].status
  <2>1. dispatches[k] \in Record
    OBVIOUS
  <2>2. u[k] = IF dispatches[k].issue = i THEN [dispatches[k] EXCEPT !.status = to]
               ELSE dispatches[k]
    BY DEF UpdateDispatchStatus
  <2> QED BY <2>1, <2>2 DEF Record
<1> HIDE DEF u
<1>3. Agree(u)
  BY <1>1, <1>2 DEF Agree
<1> QED BY <1>3 DEF u

LEMMA AddAgrees ==
    ASSUME dispatches \in Seq(Record), Agree(dispatches), NEW i \in Issues
    PROVE  Agree(AddDispatch(i))
<1> DEFINE r == [issue |-> i, status |-> "pending"]
           d == Append(dispatches, r)
<1>1. CASE \E k \in DOMAIN dispatches : dispatches[k].issue = i /\ IsActive(dispatches[k])
  BY <1>1 DEF AddDispatch
<1>2. CASE ~\E k \in DOMAIN dispatches : dispatches[k].issue = i /\ IsActive(dispatches[k])
  <2>1. AddDispatch(i) = d
    BY <1>2 DEF AddDispatch
  <2>2. DOMAIN d = 1 .. Len(dispatches) + 1 /\ DOMAIN dispatches = 1 .. Len(dispatches)
    OBVIOUS
  <2>3. d[Len(dispatches) + 1] = r /\ \A k \in DOMAIN dispatches : d[k] = dispatches[k]
    OBVIOUS
  <2>4. ASSUME NEW j \in DOMAIN dispatches, dispatches[j].issue = i
        PROVE  dispatches[j].status = "completed"
    <3>1. dispatches[j] \in Record
      OBVIOUS
    <3> QED BY <1>2, <2>4, <3>1 DEF Record, IsActive
  <2>5. r.issue = i /\ r.status = "pending" /\ Len(dispatches) \in Nat
    OBVIOUS
  <2> HIDE DEF d, r
  <2>6. Agree(d)
    BY <2>2, <2>3, <2>4, <2>5 DEF Agree
  <2> QED BY <2>1, <2>6
<1> QED BY <1>1, <1>2

(* The records agree, and so do those that a call under way would write    *)
(* back.                                                                   *)
RecordsInv == Agree(dispatches) /\ \A h \in HolderId : Agree(held[h].seen)

LEMMA NextRecords == TypeOK /\ RecordsInv /\ [Next]_vars => RecordsInv'
<1> SUFFICES ASSUME TypeOK, RecordsInv, [Next]_vars PROVE RecordsInv'
  OBVIOUS
<1> USE DEF RecordsInv, issueVars, coordVars
<1>t. /\ dispatches \in Seq(Record) /\ Agree(dispatches)
      /\ held \in [HolderId -> [busy : BOOLEAN, seen : Seq(Record)]]
      /\ \A h \in HolderId : Agree(held[h].seen)
  BY DEF TypeOK
<1>n. Agree(NoHold.seen)
  BY DEF NoHold, Agree
<1>u. ASSUME Agree(dispatches'), UNCHANGED held PROVE RecordsInv'
  BY <1>t, <1>u
<1>1. ASSUME NEW i \in Issues, DispatchIssue(i) PROVE RecordsInv'
  BY <1>1, <1>t, <1>u, AddAgrees DEF DispatchIssue
<1>2. ASSUME NEW i \in Issues, Progress(i) PROVE RecordsInv'
  BY <1>2, <1>t, <1>u, UpdateAgrees DEF Progress
<1>3. ASSUME NEW i \in Issues, IssueCompleted(i) PROVE RecordsInv'
  BY <1>3, <1>t, <1>u, UpdateAgrees DEF IssueCompleted
<1>4. ASSUME ToolCompleted PROVE RecordsInv'
  <2> PICK k \in DOMAIN dispatches :
        dispatches' = UpdateDispatchStatus(dispatches[k].issue, "completed")
    BY <1>4 DEF ToolCompleted
  <2>1. dispatches[k] \in Record
    BY <1>t
  <2>2. dispatches[k].issue \in Issues
    BY <2>1 DEF Record
  <2>3. UNCHANGED held
    BY <1>4 DEF ToolCompleted
  <2>4. Agree(dispatches')
    BY <1>t, <2>2, UpdateAgrees
  <2> QED BY <1>u, <2>3, <2>4
<1>5. ASSUME NEW h \in HolderId, HoldRecord(h) PROVE RecordsInv'
  BY <1>5, <1>t DEF HoldRecord
<1>6. ASSUME NEW h \in HolderId, WriteBack(h) PROVE RecordsInv'
  BY <1>6, <1>t, <1>n DEF WriteBack
<1>7. ASSUME NEW h \in HolderId, LetGo(h) PROVE RecordsInv'
  BY <1>7, <1>t, <1>n DEF LetGo
<1>8. ASSUME HqRestart PROVE RecordsInv'
  BY <1>8, <1>t, <1>n DEF HqRestart
<1>9. ASSUME UNCHANGED <<dispatches, held>> PROVE RecordsInv'
  BY <1>9
<1> QED
  BY <1>1, <1>2, <1>3, <1>4, <1>5, <1>6, <1>7, <1>8, <1>9
     DEF Next, vars, SetState, SyncStart, SyncApply, SyncFails, CoordinatorStarted,
         CoordinatorDown, ElicitationRequested, Answer, HandleTimeout, CleanupResolved

-----------------------------------------------------------------------------
IInv == TypeOK /\ TimerInv /\ RecordsInv

(* The inductive invariant: types, timers of the open questions, and the   *)
(* agreement of the records in the store and in the calls under way.       *)
LEMMA Inductive == Spec => []IInv
<1>1. Init => IInv
  <2> SUFFICES ASSUME Init PROVE IInv
    OBVIOUS
  <2>1. TimerInv
    BY DEF Init, TimerInv
  <2>2. dispatches = << >> /\ \A h \in HolderId : held[h].seen = << >>
    BY DEF Init, NoHold
  <2>3. RecordsInv
    BY <2>2 DEF RecordsInv, Agree
  <2> QED BY InitTyped, <2>1, <2>3 DEF IInv
<1>2. IInv /\ [Next]_vars => IInv'
  BY NextTyped, NextTimer, NextRecords DEF IInv
<1> QED BY <1>1, <1>2, PTL DEF Spec

(* Type correctness.                                                       *)
THEOREM TypeCorrect == Spec => []TypeOK
BY Inductive, PTL DEF IInv

(* The dispatch records of an issue always agree (coordinator-state.ts:85, *)
(* "Dedup").                                                               *)
THEOREM RecordsAlwaysAgree == Spec => []RecordsAgree
<1>1. IInv => RecordsAgree
  BY DEF IInv, RecordsInv, RecordsAgree
<1> QED BY <1>1, Inductive, PTL

(* A question that waits at HQ is always going to time out                 *)
(* (elicitation-store.ts:69).                                              *)
THEOREM PendingAlwaysHasTimer == Spec => []PendingHasTimer
<1>1. IInv => PendingHasTimer
  BY DEF IInv, TimerInv, PendingHasTimer
<1> QED BY <1>1, Inductive, PTL

-----------------------------------------------------------------------------
(* What the state machine allows: nothing leaves "rejected", every         *)
(* unfinished state can become done, and in-progress can become            *)
(* ready-for-review.                                                       *)
LEMMA TransitionFacts ==
    /\ ValidTransitions["rejected"] = {}
    /\ \A s \in WorkflowState \ {"done", "rejected"} : "done" \in ValidTransitions[s]
    /\ "ready-for-review" \in ValidTransitions["in-progress"]
<1>1. "rejected" \in WorkflowState /\ "in-progress" \in WorkflowState
  BY DEF WorkflowState
<1>2. ValidTransitions["rejected"] = {}
  BY <1>1 DEF ValidTransitions, Untracked
<1>3. ValidTransitions["in-progress"] = WorkflowState \ {"backlog", "in-progress"}
  BY <1>1 DEF ValidTransitions
<1>4. \A s \in {"backlog", "needs-input-blocking", "needs-input-async", "ready-for-review"} :
        ValidTransitions[s] = {"in-progress", "done", "rejected"}
  BY DEF ValidTransitions, WorkflowState, Untracked
<1> QED BY <1>2, <1>3, <1>4 DEF WorkflowState

LEMMA MovedKeepsRejected ==
    ASSUME board \in Board, NEW i \in Issues, NEW to, NEW j \in Issues, board[j] = "rejected"
    PROVE  MovedTo(i, to)[j] = "rejected"
<1>1. CASE i = j
  BY <1>1, TransitionFacts DEF MovedTo
<1>2. CASE i # j
  BY <1>2 DEF MovedTo, Board
<1> QED BY <1>1, <1>2

(* The step OnlyStaleSyncRevives is about.                                 *)
Revival(i) == board[i] = "rejected" /\ board'[i] \notin {"rejected", Untracked}

LEMMA RevivalIsSync ==
    ASSUME TypeOK, Next, NEW j \in Issues, Revival(j)
    PROVE  \E s \in SyncId : SyncApply(s) /\ syncs[s].seen[j] # "rejected"
<1>t. board \in Board /\ about \in [Questions -> Issues \cup {NoIssue}]
  BY DEF TypeOK
<1>r. board[j] = "rejected" /\ board'[j] # "rejected" /\ board'[j] # Untracked
  BY DEF Revival
<1> USE DEF issueVars
<1>m. ASSUME NEW i \in Issues, NEW to, board' = MovedTo(i, to) PROVE FALSE
  BY <1>m, <1>t, <1>r, MovedKeepsRejected
<1>q. ASSUME NEW i \in Issues \cup {NoIssue}, Unblock(i) PROVE FALSE
  BY <1>q, <1>r, <1>m DEF Unblock
<1>1. ASSUME NEW i \in Issues, NEW to \in WorkflowState, SetState(i, to) PROVE FALSE
  BY <1>1, <1>m DEF SetState
<1>2. ASSUME NEW i \in Issues, DispatchIssue(i) PROVE FALSE
  BY <1>2, <1>m DEF DispatchIssue
<1>3. ASSUME NEW i \in Issues, IssueCompleted(i) PROVE FALSE
  BY <1>3, <1>m, <1>r DEF IssueCompleted
<1>4. ASSUME ToolCompleted PROVE FALSE
  <2> PICK k \in DOMAIN dispatches :
        board' = IF board[dispatches[k].issue] \in {"done", "rejected"} THEN board
                 ELSE MovedTo(dispatches[k].issue, "done")
    BY <1>4 DEF ToolCompleted
  <2>1. dispatches[k] \in Record
    BY DEF TypeOK
  <2>2. dispatches[k].issue \in Issues
    BY <2>1 DEF Record
  <2> QED BY <2>2, <1>m, <1>r
<1>5. ASSUME NEW e \in Questions, ElicitationRequested(e) PROVE FALSE
  <2>1. board' = IF about[e] # NoIssue /\ board[about[e]] = "in-progress"
                 THEN MovedTo(about[e], "needs-input-blocking") ELSE board
    BY <1>5 DEF ElicitationRequested
  <2> QED BY <2>1, <1>t, <1>m, <1>r
<1>6. ASSUME NEW e \in Questions, Answer(e) \/ HandleTimeout(e) PROVE FALSE
  <2>1. Unblock(about[e]) \/ board' = board
    BY <1>6 DEF Answer, HandleTimeout
  <2> QED BY <2>1, <1>t, <1>q, <1>r
<1>7. ASSUME NEW s \in SyncId, SyncApply(s)
      PROVE  syncs[s].seen[j] # "rejected"
  <2>1. PICK open \in SUBSET Issues :
          \E label \in [{i \in open : syncs[s].seen[i] = Untracked} -> LabelState] :
             board' = Merged(syncs[s].seen, open, label)
    BY <1>7 DEF SyncApply
  <2>2. PICK label : board' = Merged(syncs[s].seen, open, label)
    BY <2>1
  <2> SUFFICES ASSUME syncs[s].seen[j] = "rejected" PROVE FALSE
    OBVIOUS
  <2>3. board'[j] \in {"rejected", Untracked}
    BY <2>2 DEF Merged, Untracked
  <2> QED BY <2>3, <1>r
<1>8. ASSUME UNCHANGED board PROVE FALSE
  BY <1>8, <1>r
<1> QED
  BY <1>1, <1>2, <1>3, <1>4, <1>5, <1>6, <1>7, <1>8
     DEF Next, Progress, SyncStart, SyncFails, HoldRecord, WriteBack, LetGo,
         CoordinatorStarted, CoordinatorDown, CleanupResolved, HqRestart

(* A rejected issue comes back only through a sync that saw it before the  *)
(* rejection (github-sync.ts:77).                                          *)
THEOREM RevivedByStaleSyncOnly == Spec => OnlyStaleSyncRevives
<1>1. IInv /\ [Next]_vars =>
        [\A i \in Issues :
           board[i] = "rejected" /\ board'[i] \notin {"rejected", Untracked} =>
              \E s \in SyncId : SyncApply(s) /\ syncs[s].seen[i] # "rejected"]_vars
  BY RevivalIsSync DEF IInv, Revival
<1> QED BY <1>1, Inductive, PTL DEF Spec, OnlyStaleSyncRevives

-----------------------------------------------------------------------------
(* A step that completes the active dispatch of issue i at place k.        *)
Completes(i, k) ==
    /\ k \in DOMAIN dispatches \cap DOMAIN dispatches'
    /\ dispatches[k].issue = i /\ IsActive(dispatches[k])
    /\ dispatches'[k].status = "completed"

LEMMA CompletionMovesOn ==
    ASSUME TypeOK, Next, NEW i \in Issues, NEW k, Completes(i, k),
           ~\E h \in HolderId : WriteBack(h)
    PROVE  board'[i] # "in-progress"
<1>t. dispatches \in Seq(Record) /\ board \in Board
  BY DEF TypeOK
<1>c. /\ k \in DOMAIN dispatches /\ k \in DOMAIN dispatches'
      /\ dispatches[k].issue = i /\ IsActive(dispatches[k])
      /\ dispatches'[k].status = "completed"
  BY DEF Completes
<1>r. dispatches[k] \in Record /\ dispatches[k].status # "completed"
  BY <1>t, <1>c DEF IsActive
<1> USE DEF coordVars
<1>1. ASSUME NEW j \in Issues, DispatchIssue(j) PROVE FALSE
  <2>1. dispatches' = AddDispatch(j)
    BY <1>1 DEF DispatchIssue
  <2>2. dispatches'[k] = dispatches[k]
    BY <2>1, <1>t, <1>c DEF AddDispatch
  <2> QED BY <2>2, <1>c, <1>r
<1>2. ASSUME NEW j \in Issues, NEW to, dispatches' = UpdateDispatchStatus(j, to)
      PROVE  j = i /\ to = "completed"
  <2>1. dispatches'[k] = IF i = j THEN [dispatches[k] EXCEPT !.status = to] ELSE dispatches[k]
    BY <1>2, <1>c DEF UpdateDispatchStatus
  <2>2. i = j
    BY <2>1, <1>c, <1>r
  <2>3. dispatches'[k].status = to
    BY <2>1, <2>2, <1>r DEF Record
  <2> QED BY <2>2, <2>3, <1>c
<1>3. ASSUME NEW j \in Issues, Progress(j) PROVE FALSE
  BY <1>2, <1>3 DEF Progress
<1>4. ASSUME NEW j \in Issues, IssueCompleted(j) PROVE board'[i] # "in-progress"
  <2>1. j = i /\ board' = IF board[i] = "in-progress" THEN MovedTo(i, "ready-for-review") ELSE board
    BY <1>2, <1>4 DEF IssueCompleted
  <2>2. CASE board[i] = "in-progress"
    <3>1. board' = [board EXCEPT ![i] = "ready-for-review"]
      BY <2>1, <2>2, TransitionFacts DEF MovedTo
    <3> QED BY <3>1, <1>t DEF Board
  <2>3. CASE board[i] # "in-progress"
    BY <2>1, <2>3
  <2> QED BY <2>2, <2>3
<1>5. ASSUME ToolCompleted PROVE board'[i] # "in-progress"
  <2> PICK l \in DOMAIN dispatches :
        LET j == dispatches[l].issue IN
        /\ dispatches' = UpdateDispatchStatus(j, "completed")
        /\ board' = IF board[j] \in {"done", "rejected"} THEN board ELSE MovedTo(j, "done")
    BY <1>5 DEF ToolCompleted
  <2>1. dispatches[l] \in Record
    BY <1>t
  <2>2. dispatches[l].issue \in Issues
    BY <2>1 DEF Record
  <2>3. board' = IF board[i] \in {"done", "rejected"} THEN board ELSE MovedTo(i, "done")
    BY <2>2, <1>2
  <2>4. CASE board[i] = "in-progress"
    <3>1. "in-progress" \in WorkflowState \ {"done", "rejected"}
      BY DEF WorkflowState
    <3>2. board' = [board EXCEPT ![i] = "done"]
      BY <2>3, <2>4, <3>1, TransitionFacts DEF MovedTo
    <3> QED BY <3>2, <1>t DEF Board
  <2>5. CASE board[i] # "in-progress"
    <3>1. board' \in {board, [board EXCEPT ![i] = "done"]}
      BY <2>3 DEF MovedTo
    <3> QED BY <2>5, <3>1, <1>t DEF Board
  <2> QED BY <2>4, <2>5
<1>6. ASSUME UNCHANGED dispatches PROVE FALSE
  BY <1>6, <1>c, <1>r
<1> QED
  BY <1>1, <1>3, <1>4, <1>5, <1>6
     DEF Next, SetState, SyncStart, SyncApply, SyncFails, HoldRecord, LetGo,
         CoordinatorStarted, CoordinatorDown, ElicitationRequested, Answer,
         HandleTimeout, CleanupResolved, HqRestart

(* Work that a report completes is not left in progress                    *)
(* (daemon-events.ts:254, 362).                                            *)
THEOREM CompletedWorkAlwaysMovesOn == Spec => CompletedWorkMovesOn
<1> DEFINE A ==
      \A k \in DOMAIN dispatches \cap DOMAIN dispatches' :
          LET i == dispatches[k].issue IN
          /\ IsActive(dispatches[k]) /\ dispatches'[k].status = "completed"
          /\ ~\E h \in HolderId : WriteBack(h)
          => board'[i] # "in-progress"
<1>1. IInv /\ Next => A
  <2> SUFFICES ASSUME IInv, Next,
                      NEW k \in DOMAIN dispatches \cap DOMAIN dispatches',
                      IsActive(dispatches[k]), dispatches'[k].status = "completed",
                      ~\E h \in HolderId : WriteBack(h)
               PROVE  board'[dispatches[k].issue] # "in-progress"
    OBVIOUS
  <2>1. TypeOK
    BY DEF IInv
  <2>2. dispatches[k] \in Record
    BY <2>1 DEF TypeOK
  <2>3. dispatches[k].issue \in Issues
    BY <2>2 DEF Record
  <2>4. Completes(dispatches[k].issue, k)
    BY DEF Completes
  <2> QED BY <2>1, <2>3, <2>4, CompletionMovesOn
<1>2. IInv /\ [Next]_vars => [A]_vars
  BY <1>1
<1> QED BY <1>2, Inductive, PTL DEF Spec, CompletedWorkMovesOn
=============================================================================

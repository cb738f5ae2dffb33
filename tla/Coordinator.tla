---------------------------- MODULE Coordinator -----------------------------
(***************************************************************************)
(* The coordinator of one project as HQ and its daemon see it together:    *)
(*   HQ      src/src/server/workflow/daemon-events.ts, coordinator-state.ts*)
(*           store.ts and routes/workflow.ts (start, stop, reset)          *)
(*   daemon  CoordinatorSession, fed by message-router.ts                  *)
(*   link    what DaemonLink provides: FIFO messages between a registered  *)
(*           socket's ends, lost when the link breaks; HQ may notice a     *)
(*           break late and then sends into the void ("half").             *)
(*                                                                         *)
(* HQ handlers read the coordinator record, await the agent lookup and     *)
(* then use what they read; each such call is a record in `calls'.         *)
(***************************************************************************)
EXTENDS CoordinatorSession

CONSTANTS
    CallId,       \* bound on overlapping HQ calls
    MaxEvents     \* bound on operator requests and failures

ASSUME EventAssumption == MaxEvents \in Nat

VARIABLES
    status,       \* coordinator.status in the workflow store
    sid,          \* coordinator.sessionId in the workflow store
    savedSid,     \* coordinator.sessionId in the last flushed state
    link,         \* "up", "half" (only HQ still has the socket), "down"
    toDaemon,     \* messages in flight to the daemon
    calls,        \* HQ handlers between their read and their send
    events,       \* operator requests and failures so far
    failed        \* history: has the link broken or a process restarted?

hqVars == <<status, sid, savedSid, link, toDaemon, calls>>
history == <<events, failed>>
vars   == <<cvars, hqVars, history>>

NoCall == [kind |-> "none", sid |-> None]
CallKinds == {"none", "start", "resetLookup", "resetTimer"}
Command == [type : {"start", "stop"}, sid : Sessions \cup {None}]

TypeOK ==
    /\ CTypeOK
    /\ status \in {"idle", "starting", "active", "crashed"}
    /\ sid \in Sessions \cup {None}
    /\ savedSid \in Sessions \cup {None}
    /\ link \in {"up", "half", "down"}
    /\ toDaemon \in Seq(Command)
    /\ calls \in [CallId -> [kind : CallKinds, sid : Sessions \cup {None}]]
    /\ events \in 0 .. MaxEvents /\ failed \in BOOLEAN

Init ==
    /\ CInit
    /\ status = "idle" /\ sid = None /\ savedSid = None
    /\ link = "down" /\ toDaemon = << >>
    /\ calls = [k \in CallId |-> NoCall]
    /\ events = 0 /\ failed = FALSE

(* One more operator request or failure.                                   *)
OneMore == events < MaxEvents /\ events' = events + 1
Event == OneMore /\ UNCHANGED failed
LinkEvent == OneMore /\ failed' = TRUE

FreeCall(k) == calls[k] = NoCall /\ \A j \in CallId : j < k => calls[j] # NoCall
Call(k, kind, s) == calls' = [calls EXCEPT ![k] = [kind |-> kind, sid |-> s]]

(* registry.sendToDaemon: TRUE whenever the entry's socket looks open.     *)
CanSend == link # "down"
Sent(type, s) == IF link = "up" THEN Append(toDaemon, [type |-> type, sid |-> s])
                 ELSE toDaemon

-----------------------------------------------------------------------------
(* Link. *)

(* coordinatorStarting, by a caller that goes on to look up the agent.     *)
Startable == status \notin {"active", "starting"}
BeginStart ==
    /\ status' = "starting"
    /\ \E k \in CallId : FreeCall(k) /\ Call(k, "start", sid)

(* The daemon registers: HQ's daemon:connected handler auto-starts the     *)
(* coordinator unless it believes it is already running.                   *)
DaemonConnected ==
    /\ link # "up"
    /\ link' = "up" /\ online' = TRUE
    /\ toDaemon' = << >>
    /\ IF Startable THEN BeginStart ELSE UNCHANGED <<status, calls>>
    /\ UNCHANGED <<sessionVars, toHq, sid, savedSid, history>>

(* The connection breaks; messages in flight are lost.                     *)
LinkLost ==
    /\ link = "up" /\ LinkEvent
    /\ link' \in {"half", "down"} /\ online' = FALSE
    /\ toDaemon' = << >> /\ toHq' = << >>
    /\ UNCHANGED <<sessionVars, status, sid, savedSid, calls>>

(* HQ notices (close event, heartbeat timeout).  Nothing of the            *)
(* coordinator's state follows daemon:disconnected.                        *)
HqNotices ==
    /\ link = "half" /\ link' = "down"
    /\ UNCHANGED <<cvars, status, sid, savedSid, toDaemon, calls, history>>

(* The daemon process restarts: CoordinatorSessionManager starts anew.     *)
DaemonRestart ==
    /\ LinkEvent
    /\ cstate' = "stopped" /\ csid' = None /\ stopped' = FALSE
    /\ health' = FALSE /\ timer' = FALSE /\ leaked' = 0
    /\ starts' = [i \in StartId |-> Idle]
    /\ ready' = FALSE
    /\ online' = FALSE /\ toHq' = << >> /\ toDaemon' = << >>
    /\ link' \in IF link = "up" THEN {"half", "down"} ELSE {link}
    /\ UNCHANGED <<nextSid, status, sid, savedSid, calls>>

(* HQ restarts: WorkflowStore.load keeps the saved session id, idle.       *)
HqRestart ==
    /\ LinkEvent
    /\ status' = "idle" /\ sid' = savedSid
    /\ calls' = [k \in CallId |-> NoCall]
    /\ link' = "down" /\ online' = FALSE
    /\ toDaemon' = << >> /\ toHq' = << >>
    /\ UNCHANGED <<sessionVars, savedSid>>

(* The workflow store's periodic flush.                                    *)
HqFlush ==
    /\ savedSid # sid /\ savedSid' = sid
    /\ UNCHANGED <<cvars, status, sid, link, toDaemon, calls, history>>

-----------------------------------------------------------------------------
(* HQ handlers. *)

(* POST coordinator/start.                                                 *)
ApiStart ==
    /\ Event /\ CanSend /\ Startable
    /\ BeginStart
    /\ UNCHANGED <<cvars, sid, savedSid, link, toDaemon>>

(* The agent lookup of a start settles: send, or put the record read       *)
(* before the lookup back as idle.                                         *)
StartSends(k) ==
    /\ calls[k].kind = "start"
    /\ calls' = [calls EXCEPT ![k] = NoCall]
    /\ IF CanSend
       THEN toDaemon' = Sent("start", calls[k].sid) /\ UNCHANGED <<status, sid>>
       ELSE status' = "idle" /\ sid' = calls[k].sid /\ UNCHANGED toDaemon
    /\ UNCHANGED <<cvars, savedSid, link, history>>

(* POST coordinator/stop.                                                  *)
ApiStop ==
    /\ Event /\ status # "idle"
    /\ status' = "idle"
    /\ toDaemon' = Sent("stop", None)
    /\ UNCHANGED <<cvars, sid, savedSid, link, calls>>

(* POST coordinator/reset, up to its agent lookup ...                      *)
ApiReset ==
    /\ Event
    /\ status' = "idle" /\ sid' = None
    /\ toDaemon' = Sent("stop", None)
    /\ \E k \in CallId : FreeCall(k) /\ Call(k, "resetLookup", None)
    /\ UNCHANGED <<cvars, savedSid, link>>

(* ... the lookup settles and a 500 ms timer is set ...                    *)
ResetLookup(k) ==
    /\ calls[k].kind = "resetLookup"
    /\ Call(k, "resetTimer", None)
    /\ UNCHANGED <<cvars, status, sid, savedSid, link, toDaemon, history>>

(* ... which restarts from the record cleared at the beginning.            *)
ResetTimer(k) ==
    /\ calls[k].kind = "resetTimer"
    /\ calls' = [calls EXCEPT ![k] = NoCall]
    /\ IF CanSend
       THEN status' = "starting" /\ sid' = None /\ toDaemon' = Sent("start", None)
       ELSE UNCHANGED <<status, sid, toDaemon>>
    /\ UNCHANGED <<cvars, savedSid, link, history>>

(* Mutants of the started handler: the session id is not recorded; the     *)
(* message counts only while HQ is starting the coordinator.               *)
HqReceiveNoSession ==
    /\ toHq # << >> /\ toHq' = Tail(toHq)
    /\ status' = IF Head(toHq).type = "started" THEN "active" ELSE "crashed"
    /\ UNCHANGED <<sessionVars, online, sid, savedSid, link, toDaemon, calls, history>>

HqReceiveOnlyStarting ==
    /\ toHq # << >> /\ toHq' = Tail(toHq)
    /\ LET m == Head(toHq) IN
       IF m.type = "crashed" THEN status' = "crashed" /\ UNCHANGED sid
       ELSE IF status = "starting" THEN status' = "active" /\ sid' = m.sid
       ELSE UNCHANGED <<status, sid>>
    /\ UNCHANGED <<sessionVars, online, savedSid, link, toDaemon, calls, history>>

(* workflow:coordinator-started and workflow:coordinator-crashed.          *)
HqReceive ==
    /\ toHq # << >> /\ toHq' = Tail(toHq)
    /\ LET m == Head(toHq) IN
       IF m.type = "started" THEN status' = "active" /\ sid' = m.sid
       ELSE status' = "crashed" /\ UNCHANGED sid
    /\ UNCHANGED <<sessionVars, online, savedSid, link, toDaemon, calls, history>>

-----------------------------------------------------------------------------
(* Daemon. *)

(* MessageRouter: workflow:start-coordinator, workflow:stop-coordinator.   *)
DaemonReceive ==
    /\ toDaemon # << >> /\ toDaemon' = Tail(toDaemon)
    /\ LET m == Head(toDaemon) IN
       IF m.type = "start" THEN StartCommand(m.sid) ELSE StopCommand
    /\ UNCHANGED <<status, sid, savedSid, link, calls, history>>

(* Session creation and resumption fail only as often as events allow.     *)
Settles(i) ==
    /\ WaitReady(i) \/ ResumeOk(i) \/ CreateOk(i)
    /\ UNCHANGED <<hqVars, history>>

Fails(i) ==
    /\ Event
    /\ WaitTimeout(i) \/ ResumeFails(i) \/ CreateFails(i)
    /\ UNCHANGED hqVars

Timer == RestartTimer /\ UNCHANGED <<hqVars, history>>
Sdk   == SdkReady /\ UNCHANGED <<hqVars, history>>

-----------------------------------------------------------------------------
Next ==
    \/ DaemonConnected \/ LinkLost \/ HqNotices \/ DaemonRestart \/ HqRestart \/ HqFlush
    \/ ApiStart \/ ApiStop \/ ApiReset
    \/ \E k \in CallId : StartSends(k) \/ ResetLookup(k) \/ ResetTimer(k)
    \/ HqReceive \/ DaemonReceive
    \/ \E i \in StartId : Settles(i) \/ Fails(i)
    \/ Timer \/ Sdk

Spec == Init /\ [][Next]_vars

(* Awaited calls settle, timers fire, messages arrive and the daemon       *)
(* reconnects (DaemonLink!EventuallyEstablished).                          *)
Fairness ==
    /\ WF_vars(DaemonConnected) /\ WF_vars(HqReceive) /\ WF_vars(DaemonReceive)
    /\ \A k \in CallId : WF_vars(StartSends(k) \/ ResetLookup(k) \/ ResetTimer(k))
    /\ \A i \in StartId : WF_vars(Settles(i))
    /\ WF_vars(Timer) /\ WF_vars(Sdk)

FairSpec == Spec /\ Fairness

-----------------------------------------------------------------------------
(* Through stops, resets, lost messages and restarts of either process,    *)
(* every session either side holds, saves or is about to resume is one the *)
(* SDK really created, and an HQ that shows active knows which.            *)
SessionsExist ==
    /\ status = "active" => sid # None
    /\ {sid, savedSid, csid} \subseteq 0 .. nextSid - 1
    /\ \A i \in InFlight : starts[i].resume < nextSid

(* Nothing is under way on either side.                                    *)
Quiet ==
    /\ link = "up" /\ toHq = << >> /\ toDaemon = << >>
    /\ \A k \in CallId : calls[k] = NoCall
    /\ InFlight = {} /\ ~timer /\ leaked = 0

(* When nothing is under way the two sides agree.  An HQ that shows idle   *)
(* never hides a coordinator that runs or is about to: whatever the order  *)
(* of stops, starts, resets, crashes and failures of the link, the stop    *)
(* took effect or its undoing was reported.  As long as link and processes *)
(* hold, both sides mean the same session by "active", and an HQ that      *)
(* shows a crash does not hide a coordinator that recovered.               *)
QuietAgreement ==
    Quiet =>
    /\ status = "idle" => cstate = "stopped"
    /\ ~failed /\ cstate = "active" => status # "crashed" /\ (status = "active" => csid = sid)

(* daemon-events.ts:73 "coordinator already running, skip auto-start": a   *)
(* daemon that connects while the record says active, and so is not        *)
(* auto-started, runs the coordinator or is bringing it up again, unless   *)
(* it was told to stop.  No start is on its way to it: HQ has no call      *)
(* pending, and a new connection has no messages in flight.                *)
SkipMeansRunning ==
    [][DaemonConnected /\ status = "active" /\ (\A k \in CallId : calls[k] = NoCall) /\ ~stopped
        => cstate \in {"active", "starting"} \/ InFlight # {} \/ timer \/ leaked > 0]_vars

(* routes/workflow.ts:384 "start/resume coordinator", 485 "reset - clear   *)
(* sessionId and create fresh session": a coordinator HQ is starting comes *)
(* up or crashes; it does not stay "starting", which every later start     *)
(* takes for an answer.                                                    *)
StartingResolves == status = "starting" ~> status # "starting"

(* Once failures stop, a crashed coordinator that nobody stops runs again, *)
(* also when its starts overlap with starts and stops from HQ.             *)
CrashRecovers ==
    cstate = "crashed" /\ ~stopped ~> cstate \in {"active", "stopped"} \/ stopped
=============================================================================

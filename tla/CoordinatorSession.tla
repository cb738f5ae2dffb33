------------------------- MODULE CoordinatorSession -------------------------
(***************************************************************************)
(* CoordinatorSessionManager, the daemon's autonomous issue worker         *)
(* (src/src/daemon/copilot/coordinator.ts).                                *)
(*                                                                         *)
(* start() is asynchronous: it waits for the SDK and then for a session to *)
(* be resumed or created, and in between HQ may send stop or another       *)
(* start, and restart timers may fire.  Every call of start() that passed  *)
(* its guard is a record in `starts' until it succeeds or crashes.         *)
(*                                                                         *)
(* Sessions are numbered in the order they are created.  Delays, the       *)
(* counters reported to the operator and the health ping itself (it only   *)
(* refreshes lastSeenAt at HQ) are left out; the timers are kept.          *)
(***************************************************************************)
EXTENDS Naturals, Sequences

CONSTANTS
    StartId,      \* bound on overlapping start() calls
    MaxSession,   \* bound on sessions the SDK creates
    MaxOut        \* bound on messages in flight to HQ

ASSUME SessionAssumption == MaxSession \in Nat /\ MaxOut \in Nat

VARIABLES
    cstate,       \* _state
    csid,         \* _sessionId (0 is null)
    stopped,      \* stopped
    health,       \* is healthTimer armed?
    timer,        \* is the timer in restartTimer armed?
    leaked,       \* armed restart timers that restartTimer no longer refers to
    starts,       \* start() calls past their guard
    ready,        \* CopilotManager.isReady
    nextSid,      \* the next session the SDK creates
    online,       \* is the socket to HQ open at the daemon?
    toHq          \* messages in flight to HQ

sessionVars == <<cstate, csid, stopped, health, timer, leaked, starts, ready,
                 nextSid>>
cvars == <<sessionVars, online, toHq>>

None == 0
Sessions == 1 .. MaxSession
Idle == [phase |-> "none", resume |-> None]
Phases == {"waiting", "resuming", "creating"}
StartRecord == [phase : Phases \cup {"none"}, resume : Sessions \cup {None}]
Message == [type : {"started", "crashed"}, sid : Sessions \cup {None}]

CTypeOK ==
    /\ cstate \in {"stopped", "starting", "active", "crashed"}
    /\ csid \in Sessions \cup {None}
    /\ stopped \in BOOLEAN /\ health \in BOOLEAN /\ timer \in BOOLEAN
    /\ leaked \in Nat
    /\ starts \in [StartId -> StartRecord]
    /\ ready \in BOOLEAN
    /\ nextSid \in 1 .. MaxSession + 1
    /\ online \in BOOLEAN
    /\ toHq \in Seq(Message)

CInit ==
    /\ cstate = "stopped" /\ csid = None /\ stopped = FALSE
    /\ health = FALSE /\ timer = FALSE /\ leaked = 0
    /\ starts = [i \in StartId |-> Idle]
    /\ ready = FALSE
    /\ nextSid = 1
    /\ online = FALSE /\ toHq = << >>

InFlight == {i \in StartId : starts[i] # Idle}

(* sendToHq = DaemonClient.send: dropped unless the socket is open.        *)
SendToHq(type, sid) ==
    IF online
    THEN Len(toHq) < MaxOut /\ toHq' = Append(toHq, [type |-> type, sid |-> sid])
    ELSE UNCHANGED toHq

SessionPhase(resume) == IF resume = None THEN "creating" ELSE "resuming"

(* Mutant of start(): it also returns early after a crash, as if a crashed *)
(* coordinator were still running.                                         *)
StartCallNotAfterCrash(resume) ==
    IF cstate # "stopped"
    THEN UNCHANGED <<cstate, stopped, starts>>
    ELSE /\ \E i \in StartId :
              /\ i \notin InFlight
              /\ starts' = [starts EXCEPT ![i] =
                     [phase |-> SessionPhase(resume), resume |-> resume]]
         /\ cstate' = "starting" /\ stopped' = FALSE

(* start(resume): returns at once while active or starting.                *)
StartCall(resume) ==
    IF cstate \in {"active", "starting"}
    THEN UNCHANGED <<cstate, stopped, starts>>
    ELSE /\ \E i \in StartId :
              /\ i \notin InFlight /\ \A j \in StartId : j < i => j \in InFlight
              /\ starts' = [starts EXCEPT ![i] =
                     [phase  |-> IF ready THEN SessionPhase(resume) ELSE "waiting",
                      resume |-> resume]]
         /\ cstate' = "starting" /\ stopped' = FALSE

(* The start-coordinator message, with or without a session to resume.     *)
StartCommand(resume) ==
    /\ StartCall(resume)
    /\ UNCHANGED <<csid, health, timer, leaked, ready, nextSid, online, toHq>>

(* Mutant of stop(): HQ's word for it, "idle", as the state.                *)
StopCommandIdle ==
    /\ stopped' = TRUE
    /\ health' = FALSE /\ timer' = FALSE
    /\ cstate' = "idle"
    /\ UNCHANGED <<csid, leaked, starts, ready, nextSid, online, toHq>>

(* stop(): an in-flight start() is not told.                               *)
StopCommand ==
    /\ stopped' = TRUE
    /\ health' = FALSE /\ timer' = FALSE
    /\ cstate' = "stopped"
    /\ UNCHANGED <<csid, leaked, starts, ready, nextSid, online, toHq>>

(* Mutants of handleCrash: no restart is scheduled; the state stays        *)
(* "starting".                                                             *)
HandleCrashNoRestart(i) ==
    /\ starts' = [starts EXCEPT ![i] = Idle]
    /\ cstate' = "crashed"
    /\ SendToHq("crashed", csid)
    /\ UNCHANGED <<csid, stopped, health, timer, leaked, ready, nextSid, online>>

HandleCrashKeepsState(i) ==
    /\ starts' = [starts EXCEPT ![i] = Idle]
    /\ SendToHq("crashed", csid)
    /\ timer' = TRUE
    /\ UNCHANGED <<cstate, csid, stopped, health, leaked, ready, nextSid, online>>

(* handleCrash for call i; scheduleRestart overwrites restartTimer.        *)
HandleCrash(i) ==
    /\ starts' = [starts EXCEPT ![i] = Idle]
    /\ cstate' = "crashed"
    /\ SendToHq("crashed", csid)
    /\ IF stopped
       THEN UNCHANGED <<timer, leaked>>
       ELSE /\ timer' = TRUE
            /\ leaked' = IF timer THEN leaked + 1 ELSE leaked
    /\ UNCHANGED <<csid, stopped, health, ready, nextSid, online>>

(* The SDK came up during the wait ...                                     *)
WaitReady(i) ==
    /\ starts[i].phase = "waiting" /\ ready
    /\ starts' = [starts EXCEPT ![i].phase = SessionPhase(starts[i].resume)]
    /\ UNCHANGED <<cstate, csid, stopped, health, timer, leaked, ready, nextSid, online, toHq>>

(* ... or 20 polls found it not ready.                                     *)
WaitTimeout(i) ==
    /\ starts[i].phase = "waiting" /\ ~ready
    /\ HandleCrash(i)

(* The tail of start() once a session is there.                            *)
Started(i, sid) ==
    /\ starts' = [starts EXCEPT ![i] = Idle]
    /\ csid' = sid /\ cstate' = "active" /\ health' = TRUE
    /\ SendToHq("started", sid)
    /\ UNCHANGED <<stopped, timer, leaked, ready, online>>

ResumeOk(i) ==
    /\ starts[i].phase = "resuming"
    /\ Started(i, starts[i].resume)
    /\ UNCHANGED nextSid

(* A failed resume falls back to a new session.                            *)
ResumeFails(i) ==
    /\ starts[i].phase = "resuming"
    /\ starts' = [starts EXCEPT ![i].phase = "creating"]
    /\ UNCHANGED <<cstate, csid, stopped, health, timer, leaked, ready, nextSid, online, toHq>>

CreateOk(i) ==
    /\ starts[i].phase = "creating" /\ nextSid <= MaxSession
    /\ Started(i, nextSid)
    /\ nextSid' = nextSid + 1

CreateFails(i) ==
    /\ starts[i].phase = "creating"
    /\ HandleCrash(i)

(* A restart timer fires: start(this._sessionId).                          *)
RestartTimer ==
    /\ \/ timer /\ timer' = FALSE /\ UNCHANGED leaked
       \/ leaked > 0 /\ leaked' = leaked - 1 /\ UNCHANGED timer
    /\ StartCall(csid)
    /\ UNCHANGED <<csid, health, ready, nextSid, online, toHq>>

(* CopilotManager.start() completed.                                       *)
SdkReady ==
    /\ ~ready /\ ready' = TRUE
    /\ UNCHANGED <<cstate, csid, stopped, health, timer, leaked, starts, nextSid, online, toHq>>

Outcome(i) == WaitReady(i) \/ WaitTimeout(i) \/ ResumeOk(i) \/ ResumeFails(i)
              \/ CreateOk(i) \/ CreateFails(i)

-----------------------------------------------------------------------------
(* A crashed coordinator that nobody stopped is being retried: a restart   *)
(* timer is armed or a start is under way (auto-restart, 293-340).         *)
CrashIsRetried ==
    cstate = "crashed" /\ ~stopped => timer \/ leaked > 0 \/ InFlight # {}

(* No state is a dead end: while "starting" the call that will settle it   *)
(* is there, so the early return in start() never swallows the only        *)
(* attempt, and an active coordinator has a session and the health timer   *)
(* that reports it, whatever stops and starts overlapped.                  *)
StateIsBacked ==
    /\ cstate = "starting" => InFlight # {}
    /\ cstate = "active" => csid # None /\ health

(* coordinator-dispatch.test.ts:245 "does not retry after stop()" and      *)
(* :287 "stops health heartbeats after stop()": a coordinator told to stop *)
(* has no timer left that would report or restart it.                      *)
StopHolds == stopped => ~health /\ ~timer /\ leaked = 0
=============================================================================

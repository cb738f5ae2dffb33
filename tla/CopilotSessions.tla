---------------------------- MODULE CopilotSessions ----------------------------
(***************************************************************************)
(* HQ's view of a daemon's Copilot sessions: the aggregator                *)
(* (server/copilot-aggregator), the routes that send commands              *)
(* (routes/copilot-sessions.ts) and the answers they await, composed with  *)
(* the daemon's CopilotManager over one ordered link.                      *)
(*                                                                         *)
(* HQ has no state of its own for a session: it shows what the events say. *)
(* The properties ask whether that stays true when commands, turns, lost   *)
(* links and crashes interleave.                                           *)
(***************************************************************************)
EXTENDS CopilotManager

VARIABLES
    shown,          \* CopilotSessionAggregator.sessions
    tombstones,     \* sessions removed here
    pending,        \* pendingRequests: request ids that routes await
    questions,      \* elicitations HQ's store holds open: id -> session
    replaced        \* history: was a link replaced before HQ noticed its loss?

aggVars == <<shown, tombstones, pending, questions, replaced>>
csVars == <<cmVars, aggVars>>

Status == {"idle", "active", "error", "ended"}
Phase == {"idle", "thinking", "tool", "subagent", "waiting", "error"}
Shown == [status : Status, phase : Phase, tool : BOOLEAN, subagent : BOOLEAN,
          waiting : Elicit \cup {None}]
Ids == Session \cup {Unknown}

AggTypeOK ==
    /\ shown \in [Ids -> Shown \cup {None}]
    /\ tombstones \subseteq Session /\ pending \subseteq 1..MaxCommands
    /\ questions \in [Elicit -> Session \cup {None}]
    /\ replaced \in BOOLEAN

CsTypeOK == CmTypeOK /\ AggTypeOK

CsInit ==
    /\ CmInit
    /\ shown = [s \in Ids |-> None]
    /\ tombstones = {} /\ pending = {}
    /\ questions = [e \in Elicit |-> None]
    /\ replaced = FALSE

-----------------------------------------------------------------------------
(* What an event does to a session. *)

(* createDefaultActivity, in a session the first event creates.            *)
Stub == [status |-> "idle", phase |-> "idle", tool |-> FALSE, subagent |-> FALSE,
         waiting |-> None]

(* handleSessionEvent: the status.                                         *)
StatusAfter(old, type) ==
    CASE type \in {"session.idle", "session.start", "assistant.message"} -> "idle"
      [] type = "session.error" -> "error"
      [] type \in {"user.message", "tool.execution_start"} -> "active"
      [] OTHER -> old

(* derivePhase, as the phase of a view. *)
Derived(v) ==
    [v EXCEPT !.phase = IF v.waiting # None THEN "waiting" ELSE IF v.subagent THEN "subagent"
                        ELSE IF v.tool THEN "tool" ELSE "idle"]

(* updateActivity for turns, tools, subagents and the end of a turn, which *)
(* leaves the subagents alone; usage and background tasks are left out.    *)
Worked(v, type) ==
    CASE type = "assistant.turn_start" -> [v EXCEPT !.phase = "thinking", !.tool = FALSE]
      [] type = "tool.execution_start" -> [v EXCEPT !.phase = "tool", !.tool = TRUE]
      [] type = "tool.execution_complete" -> Derived([v EXCEPT !.tool = FALSE])
      [] type = "subagent.started" -> [v EXCEPT !.phase = "subagent", !.subagent = TRUE]
      [] type = "subagent.completed" -> Derived([v EXCEPT !.subagent = FALSE])
      [] type = "session.idle" -> [v EXCEPT !.phase = "idle", !.tool = FALSE, !.waiting = None]
      [] type = "session.error" -> [v EXCEPT !.phase = "error"]
      [] OTHER -> v

(* updateActivity for the waiting states.                                  *)
Questioned(v, type, arg) ==
    CASE type = "elicitation.requested" -> [v EXCEPT !.phase = "waiting", !.waiting = arg]
      [] type = "elicitation.completed" -> Derived([v EXCEPT !.waiting = None])
      [] OTHER -> v

(* A shutdown ends a session that is shown; any other event of a session   *)
(* that is not shown, removed or not, creates it.                          *)
HandleSessionEvent(m) ==
    LET old == IF shown[m.s] = None THEN Stub ELSE shown[m.s]
        new == [Worked(Questioned(old, m.type, m.arg), m.type) EXCEPT !.status = StatusAfter(old.status, m.type)]
    IN  shown' = [shown EXCEPT ![m.s] =
                    IF m.type # "session.shutdown" THEN new
                    ELSE IF @ = None THEN None ELSE [Stub EXCEPT !.status = "ended"]]

(* copilot-aggregator/plugin.ts: the event first, then whoever awaits the  *)
(* request it carries; a question goes to the elicitation store.  HQ has   *)
(* the daemon delete a session whose error says that it is corrupted.      *)
Receive(corrupted) ==
    /\ link = "up" /\ up # <<>>
    /\ LET m == Head(up)
       IN  /\ IF corrupted
              THEN /\ m.type = "session.error" /\ m.s \in Session /\ commands < MaxCommands
                   /\ down' = Append(down, Command("delete", m.s, None))
                   /\ commands' = commands + 1
              ELSE UNCHANGED <<down, commands>>
           /\ IF m.kind = "event" THEN HandleSessionEvent(m) ELSE UNCHANGED shown
           /\ pending' = pending \ {m.arg}
           /\ questions' = IF m.kind = "question" THEN [questions EXCEPT ![m.arg] = m.s]
                           ELSE questions
    /\ up' = Tail(up)
    /\ UNCHANGED <<link, startVars, sdkVars, trackVars, loads, deletedIds, jobs,
                   relayed, tombstones, replaced>>

-----------------------------------------------------------------------------
(* The routes. *)

(* sendToDaemon: 502 once HQ knows the link is down, a dead socket before. *)
SendToDaemon(c) == down' = IF link = "up" THEN Append(down, c) ELSE down

Sends(op, s, arg) ==
    /\ commands < MaxCommands /\ link # "gone"
    /\ commands' = commands + 1
    /\ SendToDaemon(Command(op, s, arg))
    /\ UNCHANGED <<up, link, startVars, sdkVars, trackVars, loads, deletedIds, jobs, relayed>>

Req == commands + 1

(* send, abort, disconnect, and the setters: answered at once.             *)
PostAtOnce(op, s) == shown[s] # None /\ Sends(op, s, None) /\ UNCHANGED aggVars
PostPrompt(s) == PostAtOnce("prompt", s)
PostAbort(s) == PostAtOnce("abort", s)
PostDisconnect(s) == PostAtOnce("disconnect", s)
PostSetting(s) == PostAtOnce("setter", s)

(* resume carries a request id that no route awaits.                       *)
PostResume(s) ==
    /\ shown[s] # None
    /\ Sends("resume", s, Req)
    /\ UNCHANGED aggVars

(* The routes that await the daemon's answer: GET mode and plan, GET and   *)
(* POST agent, models, GET and POST sessions of a daemon.                  *)
Awaits(op, s) ==
    /\ Sends(op, s, Req)
    /\ pending' = pending \cup {Req}
    /\ UNCHANGED <<shown, tombstones, questions, replaced>>

AskMode(s) == shown[s] # None /\ Awaits("query", s)
AskAgent(s) == shown[s] # None /\ Awaits("agent", s)
AskList == Awaits("list", None)
PostCreate == Awaits("create", None)

(* waitForResponse gives up after ten seconds.                             *)
TimeOut ==
    /\ \E req \in pending : pending' = pending \ {req}
    /\ UNCHANGED <<cmVars, shown, tombstones, questions, replaced>>

(* delete: the command first, then removeSession.                          *)
PostDelete(s) ==
    /\ shown[s] # None
    /\ Sends("delete", s, None)
    /\ tombstones' = tombstones \cup {s}
    /\ shown' = [shown EXCEPT ![s] = None]
    /\ UNCHANGED <<pending, questions, replaced>>

(* The answer to an elicitation (routes/workflow.ts); the store's record   *)
(* is closed whether it reaches the daemon or not.                         *)
PostReply(e) ==
    /\ questions[e] # None /\ link # "gone"
    /\ questions' = [questions EXCEPT ![e] = None]
    /\ SendToDaemon(Command("reply", questions[e], e))
    /\ UNCHANGED <<up, link, startVars, sdkVars, trackVars, loads, deletedIds, jobs,
                   relayed, commands, shown, tombstones, pending, replaced>>

(* removeDaemon, when HQ sees the link close.                              *)
RemoveDaemon == shown' = [s \in Ids |-> None]

HqLosesLink(noticed) ==
    /\ LinkLost(noticed)
    /\ IF noticed THEN RemoveDaemon ELSE UNCHANGED shown
    /\ UNCHANGED <<tombstones, pending, questions, replaced>>

HqNotices ==
    /\ link = "stale" /\ link' = "gone"
    /\ RemoveDaemon
    /\ UNCHANGED <<up, down, startVars, sdkVars, trackVars, loads, deletedIds, jobs,
                   relayed, commands, tombstones, pending, questions, replaced>>

(* A connection that replaces a lost one HQ still holds leaves the         *)
(* sessions as they were (registry.register emits no disconnect).          *)
HqReconnects ==
    /\ Reconnect
    /\ replaced' = (replaced \/ link = "stale")
    /\ UNCHANGED <<shown, tombstones, pending, questions>>

(* The daemon's process ends: an uncaught failure, or any other cause.     *)
DaemonDies ==
    /\ \/ Crash
       \/ \E s \in Session : LoadFails(s) /\ link' # link
       \/ \E j \in jobs : AbortFails(j)
    /\ RemoveDaemon
    /\ UNCHANGED <<tombstones, pending, questions, replaced>>

DaemonSteps ==
    /\ CmStep \/ \E s \in Session : LoadFails(s) /\ link' = link
    /\ UNCHANGED aggVars

CsNext ==
    \/ DaemonSteps \/ TimeOut \/ DaemonDies \/ HqNotices \/ HqReconnects
    \/ \E corrupted \in BOOLEAN : Receive(corrupted)
    \/ \E noticed \in BOOLEAN : HqLosesLink(noticed)
    \/ \E s \in Session :
          \/ PostPrompt(s) \/ PostAbort(s) \/ PostDisconnect(s) \/ PostSetting(s)
          \/ PostResume(s) \/ PostDelete(s) \/ AskMode(s) \/ AskAgent(s)
    \/ AskList \/ PostCreate
    \/ \E e \in Elicit : PostReply(e)

CsSpec == CsInit /\ [][CsNext]_csVars

-----------------------------------------------------------------------------
(* Properties. *)

(* Nothing is under way: no message, no handler that awaits the SDK.       *)
CsQuiet == link = "up" /\ up = <<>> /\ down = <<>> /\ jobs = {} /\ \A s \in Session : loads[s] = "none"

(* While links are not replaced unnoticed: once everything under way has   *)
(* arrived, a session HQ shows at work ("active", a turn or a tool) is one *)
(* the daemon tracks and the SDK has a turn in.  handleDisconnect and      *)
(* handleDeleteSession owe it to the events they make up, removeDaemon to  *)
(* forgetting the sessions of a lost daemon.                               *)
ShownWorkIsReal ==
    CsQuiet /\ ~replaced =>
        \A s \in Session :
            shown[s] # None /\ (shown[s].status = "active" \/ shown[s].phase \in {"thinking", "tool", "subagent"})
                => s \in tracked /\ turn[s] # "none"

(* A session HQ shows waiting for an elicitation can be answered: the      *)
(* daemon still holds the question, so an answer will not be dropped as    *)
(* "unknown/expired" (elicitation.ts) and leave the session waiting.       *)
WaitingIsAnswerable ==
    CsQuiet /\ ~replaced =>
        \A s \in Session : shown[s] # None /\ shown[s].waiting # None => relayed[shown[s].waiting] = s
=============================================================================

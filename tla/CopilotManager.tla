---------------------------- MODULE CopilotManager ----------------------------
(***************************************************************************)
(* The Copilot sessions of one daemon (daemon/copilot/manager.ts), the SDK *)
(* they run in, and the daemon's end of the link to HQ.                    *)
(*                                                                         *)
(* A command is handled until its next await; `jobs' are the handlers that *)
(* await the SDK.  A session is `tracked' while it is in activeSessions,   *)
(* and `listeners' counts the session.on() handlers that forward its       *)
(* events.  sessionLoadPromises is `loads'.  A rejection nobody catches    *)
(* ends the process (cli.ts).                                              *)
(***************************************************************************)
EXTENDS Naturals, Sequences, FiniteSets

CONSTANTS
    Session,        \* SDK session ids
    Elicit,         \* elicitation ids
    Unknown,        \* the id "unknown" of a session that was not created
    None,
    MaxCommands,    \* bound on commands, coordinator calls, lost links and crashes
    MaxQueue        \* bound on the messages under way when the SDK speaks

ASSUME ManagerAssumption ==
    /\ {MaxCommands, MaxQueue} \subseteq Nat
    /\ Unknown \notin Session /\ None \notin Session \cup Elicit \cup {Unknown}

VARIABLES
    up, down,       \* messages under way to HQ and to the daemon
    link,           \* "up", "gone" (HQ noticed) or "stale" (it did not)
    sdkStarted,     \* CopilotManager.started
    starting,       \* calls of start() that await client.start()
    polling,        \* calls of start() that await the first poll
    lifecycle,      \* client.on() handlers installed
    pollTimers,     \* poll intervals that run
    registry,       \* sessions the SDK keeps
    created,        \* history: sessions the SDK ever created
    turn,           \* what the SDK does in each session
    tracked, listeners, loads,
    deletedIds,     \* deletedSessionIds: hidden from the list
    jobs,           \* handlers that await the SDK
    relayed,        \* pendingElicitations: id -> session or None
    asked,          \* history: elicitation ids used
    commands        \* commands and faults so far; also the newest request id

linkVars == <<up, down, link>>
startVars == <<sdkStarted, starting, polling, lifecycle, pollTimers>>
sdkVars == <<registry, created, turn, asked>>
trackVars == <<tracked, listeners>>
cmVars == <<linkVars, startVars, sdkVars, trackVars, loads, deletedIds, jobs,
            relayed, commands>>

-----------------------------------------------------------------------------
(* Messages.  `arg' is the request id or the elicitation id they carry.    *)
Event(s, type, arg) == [kind |-> "event", s |-> s, type |-> type, arg |-> arg]
Answer(req) == [kind |-> "answer", s |-> None, type |-> None, arg |-> req]
Question(s, e) == [kind |-> "question", s |-> s, type |-> None, arg |-> e]
Command(op, s, arg) == [op |-> op, s |-> s, arg |-> arg]

SdkEvents == {"user.message", "assistant.turn_start", "tool.execution_start",
              "tool.execution_complete", "subagent.started", "subagent.completed",
              "elicitation.requested",
              "assistant.message", "session.idle", "session.error"}
EventTypes == SdkEvents \cup {"session.start", "session.shutdown",
                "elicitation.completed", "session.created", "session.deleted"}
Needing == {"prompt", "setter", "query", "agent"}
Ops == Needing \cup {"create", "resume", "abort", "disconnect", "delete", "list", "reply"}
Arg == {None} \cup Elicit \cup 1..MaxCommands

Job == [op : Ops \cup {"coordinator"}, s : Session \cup {None}, arg : Arg,
        phase : {"create", "select", "wait", "lacks", "sdk", "disconnect", "delete"}]

CmTypeOK ==
    /\ up \in Seq([kind : {"event", "answer", "question"}, s : Session \cup {None, Unknown},
                   type : EventTypes \cup {None}, arg : Arg])
    /\ down \in Seq([op : Ops, s : Session \cup {None}, arg : Arg])
    /\ link \in {"up", "gone", "stale"}
    /\ sdkStarted \in BOOLEAN
    /\ {starting, polling, lifecycle, pollTimers} \subseteq 0..(MaxCommands + 1)
    /\ registry \subseteq created /\ created \subseteq Session
    /\ turn \in [Session -> {"none", "asked", "thinking", "tool", "subagent", "waiting", "said"}]
    /\ tracked \subseteq Session /\ deletedIds \subseteq Session
    /\ listeners \in [Session -> Nat]
    /\ loads \in [Session -> {"none", "lookup", "attach", "resume"}]
    /\ jobs \subseteq Job
    /\ relayed \in [Elicit -> Session \cup {None}] /\ asked \subseteq Elicit
    /\ commands \in 0..MaxCommands

(* A daemon that has just started, connected and been authenticated.       *)
CmInit ==
    /\ up = <<>> /\ down = <<>> /\ link = "up"
    /\ sdkStarted = FALSE /\ starting = 1 /\ polling = 0 /\ lifecycle = 1 /\ pollTimers = 0
    /\ registry = {} /\ created = {} /\ asked = {}
    /\ turn = [s \in Session |-> "none"]
    /\ tracked = {} /\ listeners = [s \in Session |-> 0]
    /\ loads = [s \in Session |-> "none"] /\ deletedIds = {} /\ jobs = {}
    /\ relayed = [e \in Elicit |-> None]
    /\ commands = 0

-----------------------------------------------------------------------------
(* DaemonWebSocketClient.send: what is sent on a closed socket is dropped. *)
SendAll(msgs) == up' = IF link = "up" THEN up \o msgs ELSE up
SendToHq(m) == SendAll(<<m>>)
Times(n, m) == [i \in 1..n |-> m]

(* Client-level events are forwarded by every client.on() handler, unless  *)
(* the session is tracked.                                                 *)
Lifecycle(s, type) == Times(IF s \in tracked THEN 0 ELSE lifecycle, Event(s, type, None))

TrackKeepsOldListener(s) ==
    /\ tracked' = tracked \cup {s}
    /\ listeners' = [listeners EXCEPT ![s] = @ + 1]

(* trackSession replaces the session's handler.                            *)
Track(s) ==
    /\ tracked' = tracked \cup {s}
    /\ listeners' = [listeners EXCEPT ![s] = @ - (IF s \in tracked THEN 1 ELSE 0) + 1]

Untrack(s) ==
    /\ tracked' = tracked \ {s}
    /\ listeners' = [listeners EXCEPT ![s] = @ - (IF s \in tracked THEN 1 ELSE 0)]

(* The process exits; HQ sees the socket close.  The SDK keeps the         *)
(* sessions on disk, no turn survives.                                     *)
Crash ==
    /\ commands < MaxCommands
    /\ commands' = commands + 1 /\ link' = "gone" /\ up' = <<>> /\ down' = <<>>
    /\ sdkStarted' = FALSE /\ starting' = 0 /\ polling' = 0
    /\ lifecycle' = 0 /\ pollTimers' = 0
    /\ turn' = [s \in Session |-> "none"]
    /\ tracked' = {} /\ listeners' = [s \in Session |-> 0]
    /\ loads' = [s \in Session |-> "none"] /\ deletedIds' = {} /\ jobs' = {}
    /\ relayed' = [e \in Elicit |-> None]
    /\ UNCHANGED <<registry, created, asked>>

(* start(), called on every authentication, up to its first await.         *)
StartCalled ==
    /\ starting' = starting + (IF sdkStarted THEN 0 ELSE 1)
    /\ lifecycle' = lifecycle + (IF sdkStarted THEN 0 ELSE 1)
    /\ UNCHANGED <<sdkStarted, polling, pollTimers>>

ClientStarted(ok) ==
    /\ starting > 0
    /\ starting' = starting - 1
    /\ sdkStarted' = (ok \/ sdkStarted)
    /\ polling' = polling + (IF ok THEN 1 ELSE 0)
    /\ UNCHANGED <<linkVars, lifecycle, pollTimers, sdkVars, trackVars, loads,
                   deletedIds, jobs, relayed, commands>>

(* The first poll is over, and the interval replaces this.pollTimer.       *)
FirstPolled ==
    /\ polling > 0
    /\ polling' = polling - 1 /\ pollTimers' = pollTimers + 1
    /\ UNCHANGED <<linkVars, sdkStarted, starting, lifecycle, sdkVars, trackVars,
                   loads, deletedIds, jobs, relayed, commands>>

(* The link is lost with what is under way.                                *)
LinkLost(noticed) ==
    /\ link = "up" /\ commands < MaxCommands
    /\ commands' = commands + 1 /\ up' = <<>> /\ down' = <<>>
    /\ link' = IF noticed THEN "gone" ELSE "stale"
    /\ UNCHANGED <<startVars, sdkVars, trackVars, loads, deletedIds, jobs, relayed>>

Reconnect ==
    /\ link # "up"
    /\ link' = "up" /\ StartCalled
    /\ UNCHANGED <<up, down, sdkVars, trackVars, loads, deletedIds, jobs,
                   relayed, commands>>

-----------------------------------------------------------------------------
(* Commands, up to their first await. *)

NewJob(op, s, arg, phase) == jobs' = jobs \cup {[op |-> op, s |-> s, arg |-> arg, phase |-> phase]}

(* getOrAttachSession: the tracked session, the load under way, or a new   *)
(* load; all but a resume first look the session up.                       *)
Attach(m) ==
    /\ NewJob(m.op, m.s, m.arg, IF m.s \in tracked THEN "sdk" ELSE "wait")
    /\ loads' = IF m.s \in tracked \/ loads[m.s] # "none" THEN loads
                ELSE [loads EXCEPT ![m.s] = IF m.op = "resume" THEN "resume" ELSE "lookup"]
    /\ UNCHANGED <<up, deletedIds, relayed>>

HandleAbort(m) ==
    /\ jobs' = IF m.s \in tracked
               THEN jobs \cup {[op |-> "abort", s |-> m.s, arg |-> None, phase |-> "sdk"]}
               ELSE jobs
    /\ UNCHANGED <<up, loads, deletedIds, relayed>>

HandleDisconnect(m) ==
    /\ jobs' = IF m.s \in tracked
               THEN jobs \cup {[op |-> "disconnect", s |-> m.s, arg |-> None, phase |-> "disconnect"]}
               ELSE jobs
    /\ UNCHANGED <<up, loads, deletedIds, relayed>>

HandleDelete(m) ==
    /\ deletedIds' = deletedIds \cup {m.s}
    /\ NewJob("delete", m.s, None, IF m.s \in tracked THEN "disconnect" ELSE "delete")
    /\ UNCHANGED <<up, loads, relayed>>

HandleCreate(m) ==
    /\ NewJob("create", None, m.arg, "create")
    /\ UNCHANGED <<up, loads, deletedIds, relayed>>

(* listModels, pollSessions for HQ: nothing before the SDK has started.    *)
HandleList(m) ==
    /\ IF sdkStarted THEN NewJob("list", None, m.arg, "sdk") ELSE UNCHANGED jobs
    /\ UNCHANGED <<up, loads, deletedIds, relayed>>

(* ElicitationRelay.handleElicitationResponse.                             *)
HandleReply(m) ==
    LET live == relayed[m.arg] # None /\ m.s \in tracked
    IN  /\ relayed' = [relayed EXCEPT ![m.arg] = None]
        /\ IF live
           THEN /\ SendToHq(Event(m.s, "elicitation.completed", m.arg))
                /\ NewJob("reply", m.s, None, "sdk")
           ELSE UNCHANGED <<up, jobs>>
        /\ UNCHANGED <<loads, deletedIds>>

HandleMessage ==
    /\ link = "up" /\ down # <<>>
    /\ LET m == Head(down)
       IN  \/ m.op \in Needing \cup {"resume"} /\ Attach(m)
           \/ m.op = "abort" /\ HandleAbort(m)
           \/ m.op = "disconnect" /\ HandleDisconnect(m)
           \/ m.op = "delete" /\ HandleDelete(m)
           \/ m.op = "create" /\ HandleCreate(m)
           \/ m.op = "list" /\ HandleList(m)
           \/ m.op = "reply" /\ HandleReply(m)
    /\ down' = Tail(down)
    /\ UNCHANGED <<link, startVars, sdkVars, trackVars, commands>>

(* createCoordinatorSession and resumeCoordinatorSession; the latter does  *)
(* not go through sessionLoadPromises.                                     *)
CoordinatorCalls(s) ==
    /\ sdkStarted /\ commands < MaxCommands
    /\ commands' = commands + 1
    /\ NewJob("coordinator", s, None, IF s = None THEN "create" ELSE "sdk")
    /\ UNCHANGED <<linkVars, startVars, sdkVars, trackVars, loads, deletedIds, relayed>>

-----------------------------------------------------------------------------
(* Loading a session. *)

LoadEnds(s, phase) ==
    /\ loads' = [loads EXCEPT ![s] = "none"]
    /\ jobs' = {IF j.s = s /\ j.phase = "wait" THEN [j EXCEPT !.phase = phase] ELSE j : j \in jobs}

(* findKnownSession.                                                       *)
LookupFinds(s) ==
    /\ loads[s] = "lookup" /\ sdkStarted /\ s \in registry
    /\ loads' = [loads EXCEPT ![s] = "attach"]
    /\ UNCHANGED <<linkVars, startVars, sdkVars, trackVars, deletedIds, jobs, relayed, commands>>

LoadSucceeds(s) ==
    /\ loads[s] \in {"attach", "resume"} /\ sdkStarted /\ s \in registry
    /\ Track(s) /\ LoadEnds(s, "sdk")
    /\ UNCHANGED <<linkVars, startVars, sdkVars, deletedIds, relayed, commands>>

(* A load started by a resume throws at all who wait for it; the others    *)
(* do not catch it.                                                        *)
LoadFails(s) ==
    /\ loads[s] # "none"
    /\ IF loads[s] = "resume" /\ \E j \in jobs : j.s = s /\ j.phase = "wait" /\ j.op # "resume"
       THEN Crash
       ELSE /\ LoadEnds(s, "lacks")
            /\ UNCHANGED <<linkVars, startVars, sdkVars, trackVars, deletedIds, relayed, commands>>

(* What a handler sends when it got no session.                            *)
Lacks(j) ==
    /\ j.phase = "lacks"
    /\ jobs' = jobs \ {j}
    /\ SendAll(CASE j.op \in {"prompt", "resume"} -> <<Event(j.s, "session.error", j.arg)>>
                 [] j.op = "agent" -> <<Answer(j.arg)>>
                 [] OTHER -> <<>>)
    /\ UNCHANGED <<down, link, startVars, sdkVars, trackVars, loads, deletedIds,
                   relayed, commands>>

-----------------------------------------------------------------------------
(* Answers of the SDK. *)

Sdk(j) == j.phase = "sdk" /\ jobs' = jobs \ {j}

(* session.send starts a turn, unless the session is gone; the turn's      *)
(* first event reaches HQ through the session's handlers.                  *)
SendSucceeds(j) ==
    /\ j.op \in {"prompt", "reply"} /\ Sdk(j)
    /\ j.s \in registry
    /\ turn' = [turn EXCEPT ![j.s] = "asked"]
    /\ SendAll(Times(listeners[j.s], Event(j.s, "user.message", None)))
    /\ UNCHANGED <<down, link, startVars, registry, created, asked, trackVars,
                   loads, deletedIds, relayed, commands>>

Answers(j, msgs) ==
    /\ Sdk(j) /\ SendAll(msgs)
    /\ UNCHANGED <<down, link, startVars, sdkVars, trackVars, loads, deletedIds,
                   relayed, commands>>

ResumeSucceeds(j) == j.op = "resume" /\ Answers(j, <<Event(j.s, "session.start", j.arg)>>)

(* handleGetAgent and handleSetAgent answer, whether the SDK could or not. *)
AgentAnswered(j) == j.op = "agent" /\ Answers(j, <<Answer(j.arg)>>)

(* handleGetMode and handleGetPlan; handleListModels and a list for HQ.    *)
QueryAnswered(j) == j.op = "query" /\ Answers(j, <<Answer(j.arg)>>)
Listed(j) == j.op = "list" /\ Answers(j, <<Answer(j.arg)>>)

(* A set and an abort send nothing: the SDK will say it is idle.           *)
SetterSucceeds(j) == j.op = "setter" /\ Answers(j, <<>>)
AbortSucceeds(j) == j.op = "abort" /\ Answers(j, <<>>)

ResumeFails(j) == j.op = "resume" /\ Answers(j, <<Event(j.s, "session.error", j.arg)>>)

(* A list that failed is only logged.                                      *)
ListFails(j) == j.op = "list" /\ Answers(j, <<>>)

(* sendSessionError, and the like in handleSendPrompt.                     *)
SdkFails(j) ==
    /\ j.op \in {"prompt", "setter", "query", "reply"}
    /\ Answers(j, <<Event(j.s, "session.error", None)>>)

(* Nobody catches the failure of an abort.                                 *)
AbortFails(j) == j.op = "abort" /\ j.phase = "sdk" /\ Crash

CoordinatorResumed(j) ==
    /\ j.op = "coordinator" /\ Sdk(j)
    /\ IF j.s \in registry THEN Track(j.s) ELSE UNCHANGED trackVars
    /\ UNCHANGED <<linkVars, startVars, sdkVars, loads, deletedIds, relayed, commands>>

(* createSession: the session is tracked before an agent is selected.      *)
SessionCreated(j, s) ==
    /\ j.phase = "create" /\ sdkStarted /\ s \notin created
    /\ registry' = registry \cup {s} /\ created' = created \cup {s}
    /\ Track(s)
    /\ SendAll(Lifecycle(s, "session.created"))
    /\ jobs' = (jobs \ {j}) \cup (IF j.op = "create" THEN {[j EXCEPT !.s = s, !.phase = "select"]} ELSE {})
    /\ UNCHANGED <<down, link, startVars, turn, asked, loads, deletedIds, relayed, commands>>

AgentSelected(j) ==
    /\ j.phase = "select"
    /\ jobs' = jobs \ {j}
    /\ SendToHq(Event(j.s, "session.start", j.arg))
    /\ UNCHANGED <<down, link, startVars, sdkVars, trackVars, loads, deletedIds,
                   relayed, commands>>

(* Either step of a create fails: HQ is told of a session "unknown".       *)
CreateFails(j) ==
    /\ j.phase \in {"create", "select"}
    /\ jobs' = jobs \ {j}
    /\ SendAll(IF j.op = "create" THEN <<Event(Unknown, "session.error", j.arg)>> ELSE <<>>)
    /\ UNCHANGED <<down, link, startVars, sdkVars, trackVars, loads, deletedIds,
                   relayed, commands>>

DisconnectedSilently(j) ==
    /\ j.op = "disconnect"
    /\ jobs' = jobs \ {j}
    /\ Untrack(j.s)
    /\ UNCHANGED <<linkVars, startVars, sdkVars, loads, deletedIds, relayed, commands>>

(* disconnect() has returned or thrown; the handler that is registered now *)
(* is removed, whichever session object it belongs to.                     *)
Disconnected(j) ==
    /\ j.op = "disconnect"
    /\ jobs' = jobs \ {j}
    /\ Untrack(j.s)
    /\ SendToHq(Event(j.s, "session.idle", None))
    /\ UNCHANGED <<down, link, startVars, sdkVars, loads, deletedIds, relayed, commands>>

DeleteDisconnected(j) ==
    /\ j.op = "delete" /\ j.phase = "disconnect"
    /\ jobs' = (jobs \ {j}) \cup {[j EXCEPT !.phase = "delete"]}
    /\ Untrack(j.s)
    /\ UNCHANGED <<linkVars, startVars, sdkVars, loads, deletedIds, relayed, commands>>

(* client.deleteSession, skipped before the SDK has started, and the       *)
(* shutdown event, sent whether it worked or not.                          *)
Deleted(j, ok) ==
    /\ j.op = "delete" /\ j.phase = "delete"
    /\ ok => sdkStarted /\ j.s \in registry
    /\ jobs' = jobs \ {j}
    /\ registry' = IF ok THEN registry \ {j.s} ELSE registry
    /\ turn' = IF ok THEN [turn EXCEPT ![j.s] = "none"] ELSE turn
    /\ SendAll((IF ok THEN Lifecycle(j.s, "session.deleted") ELSE <<>>)
                 \o <<Event(j.s, "session.shutdown", None)>>)
    /\ UNCHANGED <<down, link, startVars, created, asked, trackVars, loads,
                   deletedIds, relayed, commands>>

-----------------------------------------------------------------------------
(* The SDK speaks during a turn; each handler forwards what it says.       *)

SdkSays(s, type, from, to) ==
    /\ turn[s] \in from /\ Len(up) < MaxQueue
    /\ turn' = [turn EXCEPT ![s] = to]
    /\ SendAll(Times(listeners[s], Event(s, type, None)))
    /\ UNCHANGED <<down, link, startVars, registry, created, asked, trackVars,
                   loads, deletedIds, jobs, relayed, commands>>

TurnStep(s) ==
    \/ SdkSays(s, "assistant.turn_start", {"asked"}, "thinking")
    \/ SdkSays(s, "tool.execution_start", {"thinking"}, "tool")
    \/ SdkSays(s, "tool.execution_complete", {"tool"}, "thinking")
    \/ SdkSays(s, "subagent.started", {"thinking"}, "subagent")
    \/ SdkSays(s, "subagent.completed", {"subagent"}, "thinking")
    \/ SdkSays(s, "assistant.message", {"thinking"}, "said")
    \/ SdkSays(s, "session.error", {"thinking"}, "said")
    \/ SdkSays(s, "session.idle", {"asked", "thinking", "tool", "subagent", "waiting", "said"}, "none")

(* Mutant of the relay's request handler: the question is passed on but    *)
(* not entered in the pending map.                                         *)
SdkAsksUnrecorded(s, e) ==
    /\ turn[s] = "tool" /\ e \notin asked /\ Len(up) < MaxQueue
    /\ turn' = [turn EXCEPT ![s] = "waiting"] /\ asked' = asked \cup {e}
    /\ SendAll(IF listeners[s] > 0
               THEN <<Question(s, e), Event(s, "elicitation.requested", e)>> ELSE <<>>)
    /\ UNCHANGED <<relayed, down, link, startVars, registry, created, trackVars, loads,
                   deletedIds, jobs, commands>>

(* elicitation.requested: the relay sends the question first, then the     *)
(* event is forwarded.  Without a handler nobody hears it.                 *)
SdkAsks(s, e) ==
    /\ turn[s] = "tool" /\ e \notin asked /\ Len(up) < MaxQueue
    /\ turn' = [turn EXCEPT ![s] = "waiting"] /\ asked' = asked \cup {e}
    /\ relayed' = IF listeners[s] > 0 THEN [relayed EXCEPT ![e] = s] ELSE relayed
    /\ SendAll(IF listeners[s] > 0
               THEN <<Question(s, e), Event(s, "elicitation.requested", e)>> ELSE <<>>)
    /\ UNCHANGED <<down, link, startVars, registry, created, trackVars, loads,
                   deletedIds, jobs, commands>>

-----------------------------------------------------------------------------
CmJobStep(j) ==
    \/ Lacks(j) \/ SendSucceeds(j) \/ ResumeSucceeds(j) \/ ResumeFails(j)
    \/ AgentAnswered(j) \/ QueryAnswered(j) \/ Listed(j) \/ ListFails(j)
    \/ SetterSucceeds(j) \/ AbortSucceeds(j) \/ SdkFails(j)
    \/ CoordinatorResumed(j) \/ AgentSelected(j) \/ CreateFails(j)
    \/ Disconnected(j) \/ DeleteDisconnected(j)
    \/ \E s \in Session : SessionCreated(j, s)
    \/ \E ok \in BOOLEAN : Deleted(j, ok)

(* Steps of the manager and the SDK that HQ does not take part in.         *)
CmStep ==
    \/ \E ok \in BOOLEAN : ClientStarted(ok)
    \/ FirstPolled \/ HandleMessage
    \/ \E s \in registry \cup {None} : CoordinatorCalls(s)
    \/ \E s \in Session : LookupFinds(s) \/ LoadSucceeds(s) \/ TurnStep(s)
    \/ \E j \in jobs : CmJobStep(j)
    \/ \E s \in Session, e \in Elicit : SdkAsks(s, e)

-----------------------------------------------------------------------------
(* Properties. *)

(* Whatever interleaving of creates, loads, coordinator resumes,           *)
(* disconnects and deletes: a session has exactly one live handler while   *)
(* it is tracked and none otherwise, so no event is forwarded twice and    *)
(* none of a forgotten session is (trackSession, handleDisconnect,         *)
(* handleDeleteSession).                                                   *)
OneListener == \A s \in Session : listeners[s] = (IF s \in tracked THEN 1 ELSE 0)
=============================================================================

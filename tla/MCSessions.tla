----------------------------- MODULE MCSessions -----------------------------
(* One instance for the parts that carry a session to the screen and share *)
(* no state: Copilot sessions from the SDK to HQ's list, HQ's event log,   *)
(* the tab's WebSocket, terminals, and the conversation view.  A behaviour *)
(* picks one of them, `focus', and only that one moves, so that the run    *)
(* explores each on its own.  The conversation comes in several kinds, each *)
(* with the events and bounds of one question.                             *)
EXTENDS CopilotSessions, EventLog, BrowserLink, Terminals, Conversation,
        TLC

CONSTANTS s1, e1, k1, k2, v1, a, b, c1, h1

OneSession == {s1}
OneElicit == {e1}
TwoConns == {k1, k2}
OneScreen == {v1}
Two == {a, b}
OneCli == {c1}
OneShell == {h1}

VARIABLE focus

(* Kinds of conversation: the types of its events, how many events, times  *)
(* and prompts it may have, and how often it may be selected.              *)
Kind(types, logged, times, prompts, selected) ==
    [types |-> types, logged |-> logged, times |-> times, prompts |-> prompts, selected |-> selected]

Conversations ==
    [prompts |-> Kind({"user.message", "assistant.message"}, 2, 2, 1, 2),
     notes   |-> Kind({"assistant.message", "session.error", "copilot:tool-invocation"}, 2, 2, 0, 2),
     tools   |-> Kind({"tool.execution_start", "tool.execution_complete"}, 4, 1, 0, 2),
     tasks   |-> Kind({"task.start", "task.complete", "subagent.started", "subagent.completed",
                       "assistant.message"}, 3, 1, 0, 1),
     ends    |-> Kind({"task.start", "task.complete", "subagent.started", "subagent.completed"}, 4, 1, 0, 1),
     bubbles |-> Kind({"assistant.message_delta", "assistant.message",
                       "assistant.reasoning_delta", "assistant.reasoning"}, 3, 1, 0, 1)]

(* The step stays within its kind of conversation.                         *)
Within(kind) ==
    /\ Len(sessionLog') <= kind.logged /\ selections' <= kind.selected
    /\ sessionLog' # sessionLog =>
        Last(sessionLog').type \in kind.types /\ Last(sessionLog').ts <= kind.times
    /\ Cardinality(Prompts') <= kind.prompts

(* A CLI session and a shell together write two chunks and see no lost     *)
(* connection; each alone has the module's bounds.                         *)
FewTerminals ==
    (\A t \in Term : pty'[t] # "none") =>
        losses' = 0 /\ \A t \in Cli, u \in Shell : made'[t] + made'[u] <= 2

Init ==
    /\ focus \in {"sessions", "log", "socket", "terminals"} \cup DOMAIN Conversations
    /\ CsInit /\ ElInit /\ BlInit /\ TmInit /\ CvInit
    /\ focus # "socket" => ws = k1

(* The parts that are not in focus do not move.                            *)
Next ==
    /\ UNCHANGED focus
    /\ \/ /\ focus = "sessions" /\ CsNext
          /\ UNCHANGED <<elVars, blVars, tmVars, cvVars>>
       \/ /\ focus = "log" /\ ElNext
          /\ UNCHANGED <<csVars, blVars, tmVars, cvVars>>
       \/ /\ focus = "socket" /\ BlNext
          /\ UNCHANGED <<csVars, elVars, tmVars, cvVars>>
       \/ /\ focus = "terminals" /\ TmNext /\ FewTerminals
          /\ UNCHANGED <<csVars, elVars, blVars, cvVars>>
       \/ /\ focus \in DOMAIN Conversations /\ CvNext /\ Within(Conversations[focus])
          /\ UNCHANGED <<csVars, elVars, blVars, tmVars>>

Spec == Init /\ [][Next]_<<focus, csVars, elVars, blVars, tmVars, cvVars>>

(* The terminals' tabs and the socket's pages are the same two values:     *)
(* only one of the parts moves, so one exchange serves both.               *)
Symmetry == Permutations({a, b})

(* Every part's state has its type: the records, queues and sequences hold *)
(* only values its code can give them.                                     *)
SessionsTypeOK ==
    CASE focus = "sessions" -> CsTypeOK      [] focus = "log" -> ElTypeOK
      [] focus = "socket" -> BlTypeOK        [] focus = "terminals" -> TmTypeOK
      [] focus \in DOMAIN Conversations -> CvTypeOK
=============================================================================

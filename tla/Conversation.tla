----------------------------- MODULE Conversation -----------------------------
(***************************************************************************)
(* The conversation view of a session.  Its timeline has four sources: the *)
(* events fetched as history and the events that arrive live, which go     *)
(* through one processor (client/services/event-processor.ts), and HQ's    *)
(* lists of messages and of HQ tool invocations, fetched for what history  *)
(* does not reach back to.  The hook (client/services/conversation-hooks)  *)
(* merges them.  Queries are answered, or fail, while live events keep     *)
(* coming, so the sources overlap.                                         *)
(*                                                                         *)
(* A record is named by its position in HQ's list and has the timestamp of *)
(* the clock that made it, in milliseconds, which several records may      *)
(* share: HQ's clock stamps a prompt, the daemon's host all events.  A     *)
(* tool call is named by the position of its start, a prompt's own event   *)
(* by the prompt's position.  Texts are told apart by their events, so no  *)
(* message echoes that of a subagent (the processor drops such an echo).   *)
(* The view's final sort by timestamp moves entries but adds and drops     *)
(* none: it is left out.                                                   *)
(***************************************************************************)
EXTENDS Naturals, SequencesExt, FiniteSets

CONSTANTS
    MaxLogged,      \* bound on the events of the session
    MaxPrompts,     \* bound on the prompts sent through HQ
    MaxTime,        \* bound on the timestamps
    PageSize,       \* how many events a page of history has
    MaxSelections   \* bound on selections of the session

ASSUME ConversationAssumption == {MaxLogged, MaxPrompts, MaxTime, PageSize, MaxSelections} \subseteq Nat

VARIABLES
    sessionLog,     \* HQ's events of the session, in order
    messages,       \* HQ's conversationHistory: prompts and assistant messages
    invocations,    \* HQ's toolInvocations
    delivered,      \* how many events the tab's WebSocket has delivered
    fetch,          \* "idle", "requested": the events query
    askedAt,        \* how many events there were when it was requested
    held,           \* how much of each of HQ's lists the tab's cache holds
    pageFrom,       \* the events held begin after this one
    answered,       \* does the events query have data, if only an empty page?
    selectedNow,    \* is the session selected?
    liveFrom,       \* events up to this one were not processed live
    live,           \* realtimeEntries and liveRefs
    selections

hqLists == <<sessionLog, messages, invocations>>
queries == <<fetch, askedAt, held, pageFrom, answered>>
cvVars == <<hqLists, queries, delivered, selectedNow, liveFrom, live, selections>>

Queries == {"events", "messages", "tools"}
HqList(q) == CASE q = "events" -> sessionLog [] q = "messages" -> messages [] q = "tools" -> invocations

Record(type, pos, ts, call) == [type |-> type, pos |-> pos, ts |-> ts, call |-> call]
Entry(kind, rec, call, status) ==
    [kind |-> kind, pos |-> rec.pos, ts |-> rec.ts, call |-> call, status |-> status, kids |-> <<>>]
ProcessedKinds == {"user", "assistant", "tool", "agent", "toolcomplete", "error", "reasoning", "hqtool"}

(* An event's own id or its call's names the entry, or else its timestamp. *)
Id(e) == <<e.kind, IF e.kind \in {"user", "tool", "agent"} THEN e.pos ELSE e.ts>>

CvTypeOK ==
    /\ \A i \in DOMAIN sessionLog :
        sessionLog[i].pos = i /\ sessionLog[i].ts \in 1..MaxTime /\ sessionLog[i].call \in Nat
    /\ \A m \in DOMAIN messages : messages[m].type \in {"msg-user", "msg-assistant"}
    /\ \A t \in DOMAIN invocations : invocations[t].type = "tool-invocation"
    /\ Len(sessionLog) <= MaxLogged /\ delivered \in 0..Len(sessionLog)
    /\ fetch \in {"idle", "requested"}
    /\ \A q \in Queries : held[q] \in 0..Len(HqList(q))
    /\ {askedAt, pageFrom, liveFrom} \subseteq 0..Len(sessionLog)
    /\ {answered, selectedNow} \subseteq BOOLEAN /\ selections \in 0..MaxSelections
    /\ \A i \in DOMAIN live.entries :
        live.entries[i].kind \in ProcessedKinds /\ live.entries[i].status \in {"", "running", "completed"}
    /\ live.stack \in Seq(1..MaxLogged) /\ live.starts \subseteq 1..MaxLogged
    /\ {live.streaming, live.thinking} \subseteq BOOLEAN

NothingProcessed ==
    [entries |-> <<>>, stack |-> <<>>, starts |-> {}, streaming |-> FALSE, thinking |-> FALSE]

CvInit ==
    /\ sessionLog = <<>> /\ messages = <<>> /\ invocations = <<>> /\ delivered = 0
    /\ fetch = "idle" /\ askedAt = 0 /\ held = [q \in Queries |-> 0]
    /\ pageFrom = 0 /\ answered = FALSE
    /\ selectedNow = FALSE /\ liveFrom = 0 /\ live = NothingProcessed /\ selections = 0

(* The elements of s that are not in T, in their order.                    *)
Without(s, T) ==
    LET kept[i \in 0..Len(s)] ==
            IF i = 0 THEN <<>>
            ELSE IF s[i] \in T THEN kept[i - 1] ELSE Append(kept[i - 1], s[i])
    IN kept[Len(s)]

-----------------------------------------------------------------------------
(* The processor.  Entries of a subagent go into the container of its      *)
(* call when the list at hand has one, else to the top level.              *)
IsTool(e) == e.kind \in {"tool", "agent", "toolcomplete"}
Container(entries, call) ==
    {i \in DOMAIN entries : entries[i].call = call /\ entries[i].kind = "agent"}
Top(stack) == IF stack = <<>> THEN 0 ELSE Last(stack)

Holder(entries, call) ==
    LET at == Container(entries, call)
    IN IF at = {} THEN 0 ELSE CHOOSE k \in at : \A m \in at : k <= m
ListOf(entries, holder) == IF holder = 0 THEN entries ELSE entries[holder].kids
WithList(entries, holder, list) ==
    IF holder = 0 THEN list ELSE [entries EXCEPT ![holder].kids = list]
Added(entries, call, e) ==
    LET h == Holder(entries, call) IN WithList(entries, h, Append(ListOf(entries, h), e))

UserMessage(s, ev) == [s EXCEPT !.entries = Append(@, Entry("user", ev, 0, ""))]

(* An entry that is only added: of an error (as of system messages and     *)
(* events of no other kind), a thought or an HQ tool invocation.           *)
Noted(s, ev, kind) == [s EXCEPT !.entries = Append(@, Entry(kind, ev, 0, ""))]

(* A piece of a message opens or extends the bubble.                       *)
MessageDelta(s) == [s EXCEPT !.streaming = TRUE]

(* Thoughts have a bubble of their own, which only the whole thought       *)
(* closes.                                                                 *)
ReasoningDelta(s) == [s EXCEPT !.thinking = TRUE]
Reasoning(s, ev) == [Noted(s, ev, "reasoning") EXCEPT !.thinking = FALSE]

(* The message closes the bubble.  It belongs to the subagent that is its  *)
(* parent, or to the one that runs.                                        *)
AssistantMessage(s, ev) ==
    LET parent == IF ev.call > 0 THEN ev.call ELSE Top(s.stack)
    IN [s EXCEPT !.streaming = FALSE,
                 !.entries = Added(@, parent, Entry("assistant", ev, ev.call, ""))]

ToolStart(s, ev) ==
    [s EXCEPT !.starts = @ \cup {ev.pos},
              !.entries = Added(@, Top(s.stack), Entry("tool", ev, ev.pos, "running"))]

TaskStart(s, ev) ==
    [s EXCEPT !.starts = @ \cup {ev.pos}, !.entries = Append(@, Entry("agent", ev, ev.pos, "running"))]

(* updateInArray: the entry of the call, else the last running tool, else  *)
(* an entry of its own.                                                    *)
Complete(list, ev) ==
    LET own == {i \in DOMAIN list : list[i].call = ev.call /\ IsTool(list[i])}
        running == {i \in DOMAIN list : IsTool(list[i]) /\ list[i].status = "running"}
        at == IF own # {} THEN CHOOSE i \in own : \A k \in own : i <= k
              ELSE CHOOSE i \in running : \A k \in running : i >= k
    IN IF own = {} /\ running = {}
       THEN Append(list, Entry("toolcomplete", ev, ev.call, "completed"))
       ELSE [list EXCEPT ![at].status = "completed"]

ToolComplete(s, ev) ==
    LET owner == IF Top(s.stack) = ev.call THEN 0 ELSE Top(s.stack)
        h == Holder(s.entries, owner)
    IN [s EXCEPT !.entries = WithList(@, h, Complete(ListOf(@, h), ev))]

(* The end of a task settles its container, if there is one.               *)
TaskComplete(s, ev) ==
    [s EXCEPT !.entries =
        [i \in DOMAIN @ |-> IF i \in Container(@, ev.call) THEN [@[i] EXCEPT !.status = "completed"] ELSE @[i]]]

SubagentStarted(s, ev) == [s EXCEPT !.stack = Append(@, ev.call)]
SubagentEnded(s, ev) == [s EXCEPT !.stack = Without(@, {ev.call})]

ProcessSessionEvent(s, ev) ==
    CASE ev.type = "user.message" -> UserMessage(s, ev)
      [] ev.type = "assistant.message_delta" -> MessageDelta(s)
      [] ev.type = "assistant.reasoning_delta" -> ReasoningDelta(s)
      [] ev.type = "assistant.reasoning" -> Reasoning(s, ev)
      [] ev.type = "assistant.message" -> AssistantMessage(s, ev)
      [] ev.type = "tool.execution_start" -> ToolStart(s, ev)
      [] ev.type = "task.start" -> TaskStart(s, ev)
      [] ev.type = "tool.execution_complete" -> ToolComplete(s, ev)
      [] ev.type = "task.complete" -> TaskComplete(s, ev)
      [] ev.type = "subagent.started" -> SubagentStarted(s, ev)
      [] ev.type = "subagent.completed" -> SubagentEnded(s, ev)
      [] ev.type = "session.error" -> Noted(s, ev, "error")
      [] ev.type = "copilot:tool-invocation" -> Noted(s, ev, "hqtool")

(* The events after the first lo, up to hi, in a row.                      *)
ProcessEventBatch(lo, hi) ==
    LET after[i \in lo..hi] ==
            IF i = lo THEN NothingProcessed ELSE ProcessSessionEvent(after[i - 1], sessionLog[i])
    IN after[hi]

HistoricalEntries == ProcessEventBatch(pageFrom, held["events"]).entries

(* What history leaves unresolved seeds the live processor, unless it has  *)
(* a stack of its own.  Its entries are not seeded, and a batch skips the  *)
(* pieces of messages.                                                     *)
Seeded(s, lo, hi) ==
    LET batch == ProcessEventBatch(lo, hi)
    IN [s EXCEPT !.starts = @ \cup batch.starts,
                 !.stack = IF @ = <<>> THEN batch.stack ELSE @]

-----------------------------------------------------------------------------
(* The merging.  History covers its time: HQ's lists count only before it. *)
Covers(history, ts) == \E k \in DOMAIN history : history[k].ts <= ts

RestEntries(list, n, history) ==
    LET all == [i \in 1..n |-> Entry(list[i].type, list[i], list[i].call, "")]
    IN Without(all, {e \in Range(all) : Covers(history, e.ts)})

(* All that was fetched: history, messages, tool invocations.              *)
FetchedEntries ==
    HistoricalEntries \o RestEntries(messages, held["messages"], HistoricalEntries)
                      \o RestEntries(invocations, held["tools"], HistoricalEntries)

MergedWithRepeats(fetched, realtime) == fetched \o realtime

(* A live entry is dropped when its id was seen before it, among what was  *)
(* fetched or live, and a live message also for its timestamp.             *)
Merged(fetched, realtime) ==
    LET ids == {Id(fetched[i]) : i \in DOMAIN fetched}
        times == {fetched[i].ts : i \in DOMAIN fetched}
        seen(k) ==
            \/ Id(realtime[k]) \in ids
            \/ \E j \in DOMAIN realtime : j < k /\ Id(realtime[j]) = Id(realtime[k])
            \/ realtime[k].kind \in {"user", "assistant"} /\ realtime[k].ts \in times
    IN fetched \o Without(realtime, {realtime[k] : k \in {i \in DOMAIN realtime : seen(i)}})

(* A message of a subagent is not repeated beside a live container that    *)
(* holds some of its messages.                                             *)
WithoutHeld(fetched, realtime) ==
    LET subagents == {realtime[i].call : i \in {k \in DOMAIN realtime :
                         realtime[k].kind = "agent" /\ realtime[k].kids # <<>>}}
        merged == Merged(fetched, realtime)
    IN Without(merged, {e \in Range(merged) : e.kind \in {"assistant", "msg-assistant"} /\ e.call \in subagents})

ShownEntries == WithoutHeld(FetchedEntries, live.entries)
BubbleShown == live.streaming
ThoughtShown == live.thinking

-----------------------------------------------------------------------------
(* What the session may do next, read off its log.                         *)
Logged(type) == {i \in DOMAIN sessionLog : sessionLog[i].type = type}
LoggedFor(type) == {sessionLog[i].call : i \in Logged(type)}
SubagentsRunning == LoggedFor("subagent.started") \ LoggedFor("subagent.completed")
Prompts == {m \in DOMAIN messages : messages[m].type = "msg-user"}

(* Pieces without their whole.                                             *)
Open(pieces, whole) == \E i \in Logged(pieces) : \A k \in Logged(whole) : k < i

(* One piece stands for all of a message or thought: more change nothing.  *)
(* A thought always comes in pieces first.  A message of the user answers  *)
(* a prompt, or was typed at the terminal.                                 *)
NextCalls(type) ==
    CASE type = "assistant.message" -> {0} \cup SubagentsRunning
      [] type = "user.message" -> {0} \cup (Prompts \ LoggedFor("user.message"))
      [] type = "assistant.message_delta" ->
            IF Open("assistant.message_delta", "assistant.message") THEN {} ELSE {0}
      [] type = "assistant.reasoning_delta" ->
            IF Open("assistant.reasoning_delta", "assistant.reasoning") THEN {} ELSE {0}
      [] type = "assistant.reasoning" ->
            IF Open("assistant.reasoning_delta", "assistant.reasoning") THEN {0} ELSE {}
      [] type = "tool.execution_complete" ->
            Logged("tool.execution_start") \ LoggedFor("tool.execution_complete")
      [] type = "subagent.started" -> Logged("task.start") \ LoggedFor("subagent.started")
      [] type = "subagent.completed" -> SubagentsRunning
      [] type = "task.complete" -> LoggedFor("subagent.completed") \ LoggedFor("task.complete")
      [] OTHER -> {0}

LogTypes ==
    {"user.message", "assistant.message_delta", "assistant.message", "assistant.reasoning_delta",
     "assistant.reasoning", "tool.execution_start", "tool.execution_complete", "task.start", "task.complete",
     "subagent.started", "subagent.completed", "session.error", "copilot:tool-invocation"}

(* The clock of the daemon's host does not run backwards, but may stand.   *)
NextTimes == {t \in 1..MaxTime : sessionLog = <<>> \/ Last(sessionLog).ts <= t}

-----------------------------------------------------------------------------
(* HQ stores an event; it also keeps assistant messages and invocations.   *)
KeptAs(list, type, ev, kept) ==
    IF ev.type = type THEN Append(list, Record(kept, ev.pos, ev.ts, ev.call)) ELSE list

KeepEvent(ev) ==
    /\ sessionLog' = Append(sessionLog, ev)
    /\ messages' = KeptAs(messages, "assistant.message", ev, "msg-assistant")
    /\ invocations' = KeptAs(invocations, "copilot:tool-invocation", ev, "tool-invocation")

SessionEvent ==
    /\ Len(sessionLog) < MaxLogged
    /\ \E type \in LogTypes : \E c \in NextCalls(type), ts \in NextTimes :
        KeepEvent(Record(type, Len(sessionLog) + 1, ts, c))
    /\ UNCHANGED <<queries, delivered, selectedNow, liveFrom, live, selections>>

(* POST send: HQ keeps the prompt before the daemon has it.                *)
SendRoute ==
    /\ Cardinality(Prompts) < MaxPrompts
    /\ \E ts \in 1..MaxTime :
        messages' = Append(messages, Record("msg-user", Len(messages) + 1, ts, 0))
    /\ UNCHANGED <<sessionLog, invocations, queries, delivered, selectedNow, liveFrom, live, selections>>

-----------------------------------------------------------------------------
(* The live handler; a tab that shows another session lets the event pass. *)
LiveEvent ==
    /\ delivered < Len(sessionLog) /\ delivered' = delivered + 1
    /\ IF selectedNow
       THEN live' = ProcessSessionEvent(live, sessionLog[delivered + 1]) /\ UNCHANGED liveFrom
       ELSE liveFrom' = delivered + 1 /\ UNCHANGED live
    /\ UNCHANGED <<hqLists, queries, selectedNow, selections>>

(* The session is selected.  What the cache still holds of it shows at     *)
(* once; the effect that resets the live state runs after history seeded   *)
(* it.  The events are fetched unless those held are fresh.                *)
Select ==
    /\ ~selectedNow /\ selections < MaxSelections /\ selections' = selections + 1
    /\ selectedNow' = TRUE /\ live' = NothingProcessed
    /\ \E gone \in {{}, IF fetch = "idle" THEN Queries ELSE Queries \ {"events"}} :
        /\ held' = [q \in Queries |-> IF q \in gone THEN 0 ELSE held[q]]
        /\ pageFrom' = IF "events" \in gone THEN 0 ELSE pageFrom
        /\ answered' = (answered /\ "events" \notin gone)
    /\ \/ fetch = "idle" /\ fetch' = "requested" /\ askedAt' = Len(sessionLog)
       \/ (fetch = "requested" \/ answered') /\ UNCHANGED <<fetch, askedAt>>
    /\ UNCHANGED <<hqLists, delivered, liveFrom>>

Deselect ==
    /\ selectedNow /\ selectedNow' = FALSE
    /\ liveFrom' = delivered /\ live' = NothingProcessed
    /\ UNCHANGED <<hqLists, queries, delivered, selections>>

(* Back online, the browser fetches stale events anew.                     *)
BackOnline ==
    /\ selectedNow /\ fetch = "idle"
    /\ fetch' = "requested" /\ askedAt' = Len(sessionLog)
    /\ UNCHANGED <<hqLists, held, pageFrom, answered, delivered, selectedNow, liveFrom, live, selections>>

(* A page of history; one that differs from the last seeds the processor.  *)
HistoryIs(lo, hi) ==
    /\ fetch = "requested" /\ fetch' = "idle" /\ askedAt' = 0
    /\ held' = [held EXCEPT !["events"] = hi] /\ pageFrom' = lo /\ answered' = TRUE
    /\ live' = IF selectedNow /\ <<lo, hi>> # <<pageFrom, held["events"]>> THEN Seeded(live, lo, hi) ELSE live
    /\ UNCHANGED <<hqLists, delivered, selectedNow, liveFrom, selections>>

HistoryArrives ==
    \E n \in askedAt..Len(sessionLog) : HistoryIs(IF n > PageSize THEN n - PageSize ELSE 0, n)

(* A failed request for events counts as an empty page.                    *)
HistoryFails == HistoryIs(0, 0)

(* HQ's messages or tool invocations.  They are never fresh: fetched on    *)
(* every selection, when the browser is back online and, the messages,     *)
(* after each live message and each prompt the tab sent.  A failure keeps  *)
(* what was held.  So an answer newer than the last may come at any time.  *)
ListArrives(q) ==
    /\ selections > 0
    /\ \E n \in held[q]..Len(HqList(q)) : held' = [held EXCEPT ![q] = n]
    /\ UNCHANGED <<hqLists, fetch, askedAt, pageFrom, answered, delivered, selectedNow, liveFrom, live, selections>>

CvNext ==
    \/ SessionEvent \/ SendRoute \/ LiveEvent \/ Select \/ Deselect
    \/ BackOnline \/ HistoryArrives \/ HistoryFails
    \/ \E q \in {"messages", "tools"} : ListArrives(q)

CvSpec == CvInit /\ [][CvNext]_cvVars

-----------------------------------------------------------------------------
(* The tab has event i in its history, or live.                            *)
InHistory(i) == pageFrom < i /\ i <= held["events"]
Has(i) == InHistory(i) \/ (liveFrom < i /\ i <= delivered)

(* No other record has the timestamp of event i: the code tells messages   *)
(* and most other entries apart by it.                                     *)
Alone(i) ==
    /\ \A k \in DOMAIN sessionLog : sessionLog[k].ts = sessionLog[i].ts => k = i
    /\ \A m \in Prompts : messages[m].ts # sessionLog[i].ts

Covered(ts) == Covers(HistoricalEntries, ts)
HasCopy(list, q, i) == \E m \in 1..held[q] : list[m].pos = i /\ list[m].type # "msg-user"

TimesShown(shown, kinds, pos) ==
    Cardinality({k \in DOMAIN shown : shown[k].kind \in kinds /\ shown[k].pos = pos})

EventsOnce(shown, type, kinds) ==
    \A i \in Logged(type) : Has(i) /\ Alone(i) => TimesShown(shown, kinds, i) = 1

(* HQ's copy of a prompt stands beside its event only while no history     *)
(* covers it.                                                              *)
PromptsFillIn(shown) ==
    \A m \in Prompts : m <= held["messages"] =>
        TimesShown(shown, {"msg-user"}, m) = IF Covered(messages[m].ts) THEN 0 ELSE 1

(* An assistant message is the same one on all three ways it comes.        *)
AssistantMessagesOnce(shown) ==
    Logged("task.start") = {} =>
        \A i \in Logged("assistant.message") :
            /\ Alone(i)
            /\ Has(i) \/ (HasCopy(messages, "messages", i) /\ ~Covered(sessionLog[i].ts))
            => TimesShown(shown, {"assistant", "msg-assistant"}, i) = 1

(* So is an invocation, but its copy stands beside the live entry while no *)
(* history covers it.                                                      *)
InvocationsFillIn(shown) ==
    \A i \in Logged("copilot:tool-invocation") : HasCopy(invocations, "tools", i) =>
        TimesShown(shown, {"tool-invocation"}, i) = IF Covered(sessionLog[i].ts) THEN 0 ELSE 1

(* A bubble is shown only for pieces that came since the last whole.       *)
PiecesOf(pieces, whole) ==
    \E i \in Logged(pieces) :
        /\ liveFrom < i /\ i <= delivered
        /\ \A k \in Logged(whole) : i < k => delivered < k

BubblesAreOwed ==
    /\ BubbleShown => PiecesOf("assistant.message_delta", "assistant.message")
    /\ ThoughtShown => PiecesOf("assistant.reasoning_delta", "assistant.reasoning")

(* The start and the end of a call came from the same side.                *)
SameSide(start, end) ==
    \/ InHistory(start) /\ InHistory(end)
    \/ ~InHistory(start) /\ start > liveFrom /\ end <= delivered

ToolsSettle(shown) ==
    Logged("task.start") = {} =>
        \A j \in Logged("tool.execution_complete") :
            SameSide(sessionLog[j].call, j) =>
                \E k \in DOMAIN shown :
                    shown[k].kind = "tool" /\ shown[k].pos = sessionLog[j].call /\ shown[k].status = "completed"

(* However the answers and failures of the three queries fall among the    *)
(* live events, and however often the session is left and selected again:  *)
(* each message, error, thought and HQ tool invocation the tab has, alone  *)
(* in its millisecond, shows once, neither lost to the merging nor         *)
(* repeated by it; HQ's copies fill in what history does not cover and     *)
(* nothing else; a tool call whose start and end came the same way shows   *)
(* its end; and no bubble outlives its message or thought.                 *)
TimelineIsFaithful ==
    selectedNow =>
        LET shown == ShownEntries
        IN /\ EventsOnce(shown, "user.message", {"user"})
           /\ EventsOnce(shown, "session.error", {"error"})
           /\ EventsOnce(shown, "assistant.reasoning", {"reasoning"})
           /\ EventsOnce(shown, "copilot:tool-invocation", {"hqtool"})
           /\ AssistantMessagesOnce(shown) /\ PromptsFillIn(shown) /\ InvocationsFillIn(shown)
           /\ BubblesAreOwed /\ ToolsSettle(shown)
================================================================================

# A TLA+ verification project for launchpad-hq

launchpad-hq is a server ("HQ") with a browser interface that supervises one
*daemon* per project. A daemon runs in the project's own environment, keeps one
WebSocket to HQ, drives the Copilot SDK there and works on GitHub issues through
an autonomous *coordinator* session. HQ keeps the workflow state of each project
and persists it in a GitHub repository. All processes are single-threaded Node
programs: a handler runs to its next `await` without interruption, and what is
hard lies between the awaits, between the timers, and between the two ends of a
connection.

Paths below are relative to `src/src/`.

## 1. Inventory

| component | state it keeps | operations | interacts with | what is hard |
|---|---|---|---|---|
| **Daemon-HQ link** `daemon/client.ts`, `server/daemon-registry/*` | daemon: `ws`, `authenticated`, heartbeat and reconnect timers; HQ: `pending` with auth timers, `wsToDaemonId`, registry entries with `lastHeartbeat` | connect, challenge/response, register, heartbeat, heartbeat check, disconnect, reconnect, shutdown | carries every other protocol; `daemon:connected`/`daemon:disconnected` events | awaited token lookup inside the handshake, superseded sockets, half-open links, timers against late messages, restarts of either side |
| **Coordinator session** `daemon/copilot/coordinator.ts` | `_state`, `_sessionId`, `stopped`, health and restart timers | start (asynchronous), stop, crash, scheduled restart | driven by messages from HQ, uses CopilotManager, reports started/crashed/health | stop and start during a start, overlapping restart timers |
| **Coordinator record at HQ** `server/workflow/daemon-events.ts`, `coordinator-state.ts`, `routes/workflow.ts` | `status`, `sessionId`, dispatches | auto-start on connect, start/stop/reset routes, started/crashed/health events | sends start/stop over the link, saved by the workflow store | two views of one session over an unreliable link; records used after an await |
| **Workflow issues and dispatch** `server/workflow/state-machine.ts`, `github-sync.ts`, `daemon/copilot/dispatch.ts` | issue states, feedback, dispatch records | transition, sync, dispatch, progress, completion | GitHub, coordinator | sync merges a snapshot taken before its request; completions by position |
| **Elicitations** `server/workflow/elicitation-store.ts`, `daemon/copilot/elicitation.ts` | pending questions with timers, on both sides | ask, answer, time out, clean up | issue states, SDK session | two timeouts and an answer racing |
| **Workflow store** `server/workflow/store.ts` | `data`, `dirty` | get/set, flush, load, close | state service | dirty flag across awaits |
| **State service** `server/state/*` | cache on disk, pending debounced writes, GitHub | read, write, flush, read-modify-write | every route that stores configuration | stale cache during a write, SHA conflicts, shutdown |
| **Settings** `server/routes/settings.ts`, `routes/onboarding.ts`, `server/onboarding/*`, `state/plugin.ts` | `~/.launchpad/config.json`, `launchpad-config.json` of each state repository, a copy on the machine, `fastify.launchpadConfig` | terminal wizard, PUT of both pages, hot swap of the state service, reset, start | state service, dev tunnel | settings spread over four places and written one after the other |
| **Labels on GitHub** `server/workflow/github-sync.ts`, `client/components/WorkflowIssueList.tsx`, `EditIssueModal.tsx` | an issue in its row, at HQ and on GitHub; pushes under way | transition from a row, push a label, close, sync back | GitHub, people there | pushes in the background beside each other, failing calls |
| **Copilot manager** `daemon/copilot/manager.ts`, `elicitation.ts` | SDK client, tracked sessions, loads under way, poll timers, open questions | start, poll, create/resume/prompt/abort/disconnect/delete, relay events and questions | SDK, coordinator, HQ aggregator | start on every reconnect, overlapping loads, unhandled rejections |
| **Session aggregator** `server/copilot-aggregator/*`, `routes/copilot-sessions.ts` | sessions with status, phase and question; event logs in memory and on disk; pending requests | updates and events from daemons, removal, request/response, page through events | routes, browsers, disk | a list that must follow a daemon that comes and goes; write-behind files against loads and delayed deletion |
| **CLI sessions, terminals** `daemon/copilot-cli`, `daemon/terminal`, `server/terminal-relay`, `client/components/Terminal.tsx` | processes, ring buffers, `attached`, bindings of tabs, what a tab shows | spawn, output, attach with replay, detach, kill, exit, join, leave | link, browsers | joins over WebSocket against replays over HTTP |
| **Preview proxy** `daemon/preview*.ts`, `routes/preview.ts` | port, detection timers, outstanding requests on both sides | announce, detect, request, response, time-out | link, dev server | correlation, time-outs, processes that end |
| **Self-daemon supervisor** `server/self-daemon/*` | child, `running`, `stopping`, restart timer and count | start, stop, restart, spawn, exit | the daemon process (exit code 78) | start while a restart is scheduled |
| **Dev tunnel** `server/tunnel.ts` | child process, `status`, `info`, start under way | start, stop, exit, time-out | external tool, settings | a status read before an await, exits of forgotten children |
| **Browser WebSocket** `client/services/ws.ts`, `WebSocketContext.tsx`, `server/ws/*` | socket, queue, subscriptions, mounted views; HQ's clients | subscribe, join, broadcast, heartbeat, reconnect | every view | bounded queue, resubscription, new session token |
| **Browser data** `client/services/*-hooks.ts` | query cache, fetches, notices, activity feed | poll, invalidate, mutate, reload | REST routes, WebSocket | lost notices, answers older than a change |
| **Conversation view** `event-processor.ts`, `conversation-hooks.ts` | history, HQ's messages and tool invocations, live entries, subagent stack | fetch, process live events, merge, select again | aggregator, WebSocket | four overlapping sources, timestamps that collide |
| **Cache** `server/cache/*` | entries, LRU order | get, set, getOrFetch, invalidate | nothing: no caller stores an entry | |
| **Components, GitHub queries, preflight, configuration, tracing** | none of their own | presentation, stateless queries, parsing | | sequential |

What makes each component correct, in one line each:

- link: at most one usable socket per project, never a closed one; no daemon or
  pending connection is ever stuck; after failures the pair comes together again;
- coordinator: both sides end up meaning the same session; stop stops; a crash
  is retried; a start is answered;
- issues: only legal transitions, none lost to a sync; each dispatch completes
  the issue it was for; an elicitation is resolved once, the same way on both sides;
- persistence: a change that was accepted is eventually saved, and survives a restart;
- settings: a restart finds the settings in force;
- labels: a push leaves exactly the label of its state;
- Copilot manager and aggregator: one listener per session, no session shown at work
  that is not, no question shown that cannot be answered, nothing shown that is not
  on its way to the disk;
- terminals, WebSocket, browser data, conversation: what is on the screen is complete
  and current once nothing is on the way;
- preview: no browser waits for an answer that cannot come;
- supervisor, tunnel: never two children, none out of control, none after stop.

`PROJECT.json` lists under `hazards` the lines where each of these can go wrong.

## 2. Modules

| module | models | EXTENDS / INSTANCE |
|---|---|---|
| `Presence` | the abstract promise of the registry | - |
| `DaemonLink` | the daemon-HQ connection, both ends and the network | INSTANCE `Presence` |
| `DaemonLinkProofs` | theorems about `DaemonLink` | EXTENDS `DaemonLink`, TLAPS |
| `DaemonClientProofs` | theorems about the daemon's side of `DaemonLink` | EXTENDS `DaemonLinkProofs` |
| `MCDaemonLink` | instances for TLC | EXTENDS `DaemonLink` |
| `CoordinatorSession` | the daemon's CoordinatorSessionManager | - |
| `Coordinator` | HQ's record, the link as the coordinator sees it, the daemon | EXTENDS `CoordinatorSession` |
| `CoordinatorProofs` | theorems about `Coordinator` | EXTENDS `Coordinator`, TLAPS |
| `MCCoordinator` | instances for TLC | EXTENDS `Coordinator` |
| `StateMachine` | workflow states, their transitions and labels | - |
| `WorkflowIssues` | issues, dispatch records, syncs and elicitations of a project at HQ | EXTENDS `StateMachine` |
| `WorkflowIssuesProofs` | theorems about `WorkflowIssues` | EXTENDS `WorkflowIssues`, TLAPS |
| `MCWorkflowIssues` | instances for TLC | EXTENDS `WorkflowIssues` |
| `StateService` | HQ's files: both state services, their callers, the workflow store's flush | - |
| `SelfDaemon` | the spawner of HQ's own daemon and its routes | - |
| `Tunnel` | the manager of the dev tunnel process | - |
| `Preview` | the preview proxy, both ends and the link between | - |
| `Settings` | HQ's settings: wizard, pages, hot swap, restarts | - |
| `IssuePush` | one issue in its row, at HQ and on GitHub | EXTENDS `StateMachine` |
| `BrowserQueries` | what one tab shows of HQ's data | - |
| `MCHq` | one instance of the seven modules above | EXTENDS them |
| `StateServiceProofs` | theorems about `StateService` and `Settings` | EXTENDS both, TLAPS |
| `HqProofs` | theorems about `SelfDaemon`, `Tunnel`, `Preview`, `IssuePush`, `BrowserQueries` and their composition | EXTENDS `MCHq`, `StateServiceProofs`, FiniteSetTheorems, SequenceTheorems, TLAPS |
| `CopilotManager` | the Copilot sessions of one daemon and their SDK | - |
| `CopilotSessions` | HQ's list of these sessions and its routes | EXTENDS `CopilotManager` |
| `EventLog` | the event log of one session, in memory and on disk | - |
| `BrowserLink` | a tab's WebSocket, its hooks, HQ's clients | - |
| `Terminals` | CLI sessions and shells from the process to the screen | - |
| `Conversation` | history, HQ's lists and live events merged into one view | - |
| `MCSessions` | one instance of the six modules above | EXTENDS them |
| `SessionProofs` | theorems about `CopilotSessions` and `EventLog` | EXTENDS them, TLAPS |
| `ScreenProofs` | theorems about `Terminals`, `BrowserLink`, `Conversation` and the composition of all six | EXTENDS `MCSessions`, `SessionProofs`, FiniteSetTheorems, SequenceTheorems, WellFoundedInduction, TLAPS |

### DaemonLink

A connection is a slot with two ends, `cEnd` and `sEnd`, and a FIFO channel in
each direction (`toD`, `toH`). `close()` puts an end into "closing", in which it
still receives; the end is "closed" once the peer's close frame, a failure or the
closing time-out arrives, and only then does the owner's 'close' event run. That
delay between an end's fate and its owner's knowledge of it is where the code's
hazards are. A slot is reused when nothing refers to it any more, so an unbounded
number of reconnections fits in three slots.

| TLA+ | code |
|---|---|
| `mode`, `ws`, `authed`, `hb`, `rtimer` | daemon process; `ws`, `authenticated`, `heartbeatTimer`, `reconnectTimer` of DaemonWebSocketClient |
| `pending`, `authTimer` | `DaemonWsHandler.pending` and the timers in its entries |
| `looking` | calls of `handleAuthResponse` that await `tokenLookup` |
| `wsId`, `reg`, `beat` | `wsToDaemonId`, the `ws` of the registry's entries, "`lastHeartbeat` is recent" |
| `Connect`, `DaemonStart`, `ReconnectTimer`, `HeartbeatTimer`, `Shutdown`, `ClientOpen`, `ClientReceive`, `ClientAbort` | client.ts |
| `HandleConnection`, `AuthTimeout`, `HqReceive`, `LookupAccept`, `LookupReject`, `LookupThrows`, `SendReject`, `HandleDisconnect`, `ServerAbort` | handler.ts |
| `Register`, `CheckHeartbeats` | registry.ts |
| `DaemonCrash`, `HqRestart` | the processes dying |

Abstractions: the nonce always matches (the client echoes it) and the token
comparison is membership in `ValidToken`; back-off durations are dropped, an armed
timer may fire at any time; what only a slow or broken environment can cause (a
handshake of more than 15 s, a heartbeat delayed by 45 s, an aborted socket, a
crash) is a *fault*, and a behaviour has at most `MaxFaults` of them; at most one
heartbeat is in flight per socket; the other listeners of 'authenticated' and the
messages of other protocols change none of this state.

### CoordinatorSession, Coordinator

`start()` is split at its awaits. Each call that passed the guard is a record in
`starts` with its phase (waiting for the SDK, resuming, creating), so that a
stop, another start or a restart timer can run in between. `restartTimer` holds
one handle, so timers whose handle was overwritten are counted in `leaked`.
HQ's handlers that await the agent lookup are records in `calls`, holding the
session id they read before the await. The link is what `DaemonLink` provides:
FIFO while up; "half" when the daemon's end is gone and HQ does not know yet, so
that HQ's sends succeed and are lost; "down".

| TLA+ | code |
|---|---|
| `cstate`, `csid`, `stopped`, `health`, `timer` | `_state`, `_sessionId`, `stopped`, `healthTimer`, `restartTimer` |
| `leaked`, `starts` | armed timers and running calls nothing refers to |
| `ready` | `CopilotManager.isReady` |
| `status`, `sid`, `savedSid` | the coordinator record in the store and in the persisted state |
| `calls` | route and event handlers between `await` and send |
| `DaemonConnected`, `ApiStart`, `StartSends`, `ApiStop`, `ApiReset`, `ResetLookup`, `ResetTimer`, `HqReceive` | daemon-events.ts and routes/workflow.ts |
| `StartCommand`, `StopCommand`, `WaitReady`, `WaitTimeout`, `ResumeOk`, `ResumeFails`, `CreateOk`, `CreateFails`, `RestartTimer` | coordinator.ts |
| `LinkLost`, `HqNotices`, `DaemonRestart`, `HqRestart`, `HqFlush` | the environment, the store |

The health message itself only refreshes `lastSeenAt` and is left out; the timer
that sends it is kept. `events` bounds operator requests and failures, `failed`
is a history variable that remembers whether the link or a process failed.

### WorkflowIssues

The workflow store of one project at HQ, with everything that writes to it. Most
handlers are atomic. A sync reads the issues, asks GitHub, and replaces the list
with a merge of both; a start or reset of the coordinator reads the record that
also holds the dispatches and may write it back later. Both are split at the
await, and what they read stays in `syncs` and `held`.

| TLA+ | code |
|---|---|
| `board` | state of each issue in the store; "untracked" is an issue not in the list |
| `dispatches`, `active` | the coordinator record's dispatches, and `status === "active"` |
| `syncs`, `held` | `syncIssues` awaiting `gh`; start, auto-start and reset awaiting the agent lookup |
| `entries`, `timers`, `handle` | `ElicitationStore.elicitations`, armed time-outs, `timeoutTimers` |
| `about` | the `issueNumber` the daemon gives with a question |
| `ValidTransitions`, `MovedTo` | state-machine.ts with `store.updateIssue` |
| `AddDispatch`, `UpdateDispatchStatus`, `IsLastActive` | coordinator-state.ts |
| `SetState`, `DispatchIssue`, `SyncStart`, `Answer` | routes/workflow.ts |
| `SyncApply`, `SyncFails`, `Merged` | github-sync.ts |
| `Progress`, `IssueCompleted`, `ToolCompleted`, `ElicitationRequested` | daemon-events.ts |
| `HandleTimeout`, `CleanupResolved` | elicitation-store.ts and the callback of plugin.ts |
| `HoldRecord`, `WriteBack`, `LetGo`, `CoordinatorStarted`, `CoordinatorDown` | what `Coordinator` does to the record, reduced to what the dispatches notice |

GitHub is outside: when a sync is answered, the open issues and the labels of those
not seen before are arbitrary, since anybody may open, close and label there. This
covers the labels and closings HQ itself pushes in the background. The daemon is
whatever the protocol allows. The daemon of this repository does not send
`workflow:issue-completed`, forwards no progress events and gives no issue number
with a question, but HQ's handlers accept all three, and the model lets them come.
A restart is the orderly one, in which `onClose` flushes the store; what a flush and
a crash do to the saved data is in `StateService`. Left out: feedback, the text of
issues and labels, and the daemon's tool side of dispatch, which keeps no state. The
daemon's own elicitation relay is in `CopilotManager`.

### StateService

A caller reads a file (from the cache, or from GitHub), changes its copy and saves
it; the awaits of both halves are steps, in `call`. A save joins the pending write
of its file, whose timer starts `doWrite`, a record in `writes` that goes through
the SHA, the PUT, a conflict with one retry, and the cache, and then answers all its
waiters. A SHA is a hash of the content, so the content stands for it. In local
mode a write truncates the file before it fills it, and a read in between takes
what it finds for no file. The workflow store keeps `memory` and `dirty`; its
flush is one more caller, and copies the list of issues by reference (`SeeIssue`)
but the coordinator record by value. `expected` is the reference: each file as if
every save had been applied in turn. `cleaned` remembers that the last save dropped
a project's data from the file while the store keeps them in memory (section 5);
until a flush or a load the two differ by design of the code.

| TLA+ | code |
|---|---|
| `remote`, `cached`, `pendingWrites`, `writes` | GitHub or `~/.launchpad/state`; LocalCache; GitStateManager |
| `call`, `RequestStart`, `ReadFile`, `Fetch...`, `AddChecksRepo`, `PutFindsProject`, `Save` | routes/projects.ts, `updateProjectState`, self-daemon/plugin.ts, store.ts |
| `Schedule`, `WriteBegin`, `WriteSha`, `Put...`, `WriteRefresh`, `WriteCached`, `WriteFails` | state-manager.ts, github-state-client.ts |
| `LocalOpen`, `LocalFill` | local-state-manager.ts |
| `UpdateIssue`, `SetIssues`, `SetCoordinator`, `CloseStart`, `CloseState`, `CloseDone`, `Killed`, `Restart` | store.ts, the `onClose` hooks, server/index.ts, `sync` |

### SelfDaemon, Tunnel

Both supervise a child. `SelfDaemon` counts the backoff timers whose handle was
overwritten (`timers.old`) and keeps each `stop()` that waits for an exit in
`spawnerStops`. `Tunnel` splits `start()` at its check of the command (`checking`),
and tells a child that is starting, up, late (start-up timed out, process still
there) or gone. Their properties leave out what the code admits by itself: a
`start()` during a backoff (`raced`) and a child spawned while another one, or
another start, was there (`overlapped`).

### Preview

A request is at HQ (`pendingRequests`), on the link (`down2daemon`), at the dev
server (`local`) or on its way back (`up2hq`). Every connection of the daemon has a
number, so that a request knows the one it was sent on. Detection runs each time
the daemon authenticates without a port: `detections` and `intervals` count its
overlapping runs and timers.

### Settings

A configuration is a function from its fields. `file` is config.json, with the
bootstrap fields only in git mode; `repos` and `localCopy` are the two places a
state repository's copy is read from; `inForce` is the object of the running HQ. A
PUT is a record in `puts` that goes through its saves or the swap, then the tunnel
and a second save; `applied` says whether its object is the one in force, which
later assignments to it then change as well. `MergeConfig` is the object spread with
which every merge of settings is made.

### IssuePush

`row` is what the issue's row shows, `state` HQ's, `ghLabels` and `ghClosed`
GitHub's. A push is a record with the labels it has still to remove; one `gh` call
is one step. `exact` remembers the label of the last push if it ran alone and no
call of it failed.

### BrowserQueries

A hook is a constant of the model: its query key, whether it polls, the notices
whose effect invalidates it; a mutation is the keys it changes, the notices HQ
sends, the keys it invalidates. The data of a key is the version of HQ's data it
was read from. A fetch is asked, read at HQ and answered in three steps. React
renders (`Render`) some time after a notice or an answer; `update` holds the
newest notice only. `blank` is a page whose effect threw.

### CopilotManager, CopilotSessions

A handler runs until its next await and then is a record in `jobs`; loads shared
through `sessionLoadPromises` are `loads`. The link is FIFO while up and may be
replaced before HQ noticed its loss (`replaced`). The SDK says what it may say in a
turn (`TurnStep`), asks questions, fails, and keeps sessions over a restart of the
daemon (`registry`). A rejection nobody catches ends the process, as cli.ts does.
At HQ `shown` is the aggregator's record of a session with the phase derived as in
`derivePhase`; `pending` the requests routes wait for; `questions` the
elicitations HQ's store holds.

### EventLog

`log` is the copy in memory, `buffer` what is not written yet, `writes` the appends
under way, `file` the JSONL file, `fileLoads` the first reads after a start or a
removal, `cleanup` the deletion half a minute after a removal.

### BrowserLink, Terminals

`BrowserLink` is the reconnecting manager with its queue and the React context: a
new status gives `subscribe` a new identity, so that all effects run again
(`rerender`), which is what repairs subscriptions the queue dropped. `Terminals`
takes chunks of output from a process through the ring buffer and the relay to the
tabs; `wsWire` carries joins and leaves in order, `posts` HTTP requests in none.
`synced` are the tabs that were complete once and lost no connection since.

### Conversation

The timeline has four sources. History (`HistoricalEntries`, a page of HQ's events) and
live events run through the same processor (`ProcessSessionEvent`), which nests entries
of a subagent into the container of its call; `Seeded` hands what history leaves
unresolved to the live processor. HQ's lists of messages and of HQ tool invocations
(`RestEntries`) count only before the time history covers. `Merged` drops the live
entries that what was fetched has by id, or, for messages, by timestamp, and
`ShownEntries` is what the component renders.

A record has a name, its position in its list, and the timestamp of the clock that made
it: HQ's for a prompt (`SendRoute`), the daemon's host's for everything else. The two are
unrelated, and several records may share a millisecond, so `Id` says what the code's ids
say, no more. HQ adds assistant messages and tool invocations to its lists as it stores
their events (`KeepEvent`). `held` is how much of each list the tab's cache holds. The
events query fails to an empty page (`HistoryFails`), is fresh for half a minute, is
asked again when the browser is back online, and answers with any state of the log since
it was asked; the other two may bring any newer state at any time (`ListArrives`). A
selection finds what the cache still holds, or less; the live entries begin anew.

Bubbles (`streaming`, `thinking`) stand for the pieces of a message or a thought that is
not whole yet. Two messages never have the same text, so the processor's dropping of a
subagent's echo does not arise. Left out: the older pages that scrolling fetches, usage
figures, intents, the agent's name, the indicators of a queued prompt and of steering,
and the final sort, which moves entries but adds and drops none.

## 3. Runs

| run | instance | shows |
|---|---|---|
| `link_safety` | 2 daemons of one project, 3 slots, 2 faults, lookup may fail; slots symmetric | `TypeOK`, the inductive invariant `HandshakeInv`, `OneLiveSocket`, `EntryUsable`, `AuthTimerExactlyPending`, `RegistrationNotIgnored`, `NeverStranded`, `NoOrphanSocket`, and that the link implements `Presence` |
| `link_live` | the same, 1 fault, the second daemon has a wrong token, the lookup answers | `EventuallyEstablished`; no deadlock |
| `link_exit` | 1 fault, lookup may fail | *violated*: `ExitOnlyOnInvalidToken` |
| `coordinator_safety` | 3 overlapping starts, 2 overlapping HQ calls, 6 sessions, 2 messages to HQ in flight, 4 operator requests or failures | `TypeOK`, `SessionsExist`, `QuietAgreement`, `CrashIsRetried`, `StateIsBacked`, and under fairness `CrashRecovers` |
| `coordinator_stop` | 3 requests or failures | *violated*: `StopHolds` |
| `coordinator_skip` | 3 requests or failures | *violated*: `SkipMeansRunning` |
| `coordinator_stuck` | 3 requests or failures, fair | *violated*: `StartingResolves` |
| `issues_safety` | 2 issues, 1 question, 1 sync and 1 coordinator call under way, 2 dispatch records, 2 timers, 6 requests or reports | `TypeOK`, `RecordsAgree`, `PendingHasTimer`, `CompletedWorkMovesOn`, `OnlyStaleSyncRevives`, and under fairness `BlockedIsReleased` |
| `issues_rejected` | 1 issue, 4 requests or reports | *violated*: `RejectedIsTerminal` |
| `hq_safety` | seven parts, see below | `HqTypeOK`, `SequentialSavesAreExact`, `OneSupervisedDaemon`, `TunnelUnderControl`, `NoRequestIsLost`, `SettingsSurviveRestart`, `SequentialPushesAreExact`, `OwnChangesAreShown`, and under fairness `SavesAreAnswered`, `ViewsCatchUp` |
| `sessions_safety` | five parts, see below; tabs and pages symmetric | `SessionsTypeOK`, `OneListener`, `ShownWorkIsReal`, `WaitingIsAnswerable`, `NothingShownIsUnsaved`, `EveryViewIsServed`, `ScreenIsComplete`, `TimelineIsFaithful` |
| `state_shutdown` | git mode, the store's flush, no faults | *violated*: `ShutdownSavesStore` |

`MCHq` and `MCSessions` join parts that share no state. A variable `focus` picks one
part per behaviour and the others keep their first state, so that a run explores
each part alone and not their product. Where parts do meet (the settings start the
tunnel, the socket of `BrowserLink` carries the notices of `BrowserQueries`), each
module has the other side as a nondeterministic choice of its own.

What the new properties mean:

- `SequentialSavesAreExact`: while calls do not overlap and nothing fails, reading,
  changing and saving a file through cache, debounce and SHA is an update in place.
- `SavesAreAnswered`: the promise of every save settles unless the process dies.
- `OneSupervisedDaemon`, `TunnelUnderControl`: the process HQ refers to is the only one,
  nothing is spawned behind it, nothing runs after an answered stop; states shown are true.
- `NoRequestIsLost`: a browser's request sent on the daemon's present connection is
  somewhere on its way.
- `SettingsSurviveRestart`: with requests one after another and none failing, a start
  would find the settings in force, in every combination of modes, wizard and tunnel.
- `SequentialPushesAreExact`: a push that ran alone leaves exactly its label.
- `OwnChangesAreShown`, `ViewsCatchUp`: an answered change of the tab's own is never
  hidden by an older answer; whatever notices are lost, polled views end up current.
- `OneListener`: exactly one event handler per tracked session, none otherwise.
- `ShownWorkIsReal`, `WaitingIsAnswerable`: with nothing on the way, a session shown at
  work has a turn, and one shown waiting a question that can be answered.
- `NothingShownIsUnsaved`: every event in memory is in the file or on its way there.
- `EveryViewIsServed`: with the connection settled, HQ sends each mounted view its updates.
- `ScreenIsComplete`: a tab that was complete once has every chunk when none is on the way.
- `TimelineIsFaithful`: of what the tab has, in history or live, each message, error,
  thought and HQ tool invocation that is alone in its millisecond shows once; HQ's copy of
  a prompt or invocation shows exactly when history does not cover its time, and an
  assistant message shows once however many of the three ways it came; a tool call whose
  start and end came the same way shows its end; no bubble outlives its message or
  thought. Assistant messages and tools are meant where no subagent takes part: with one,
  what history and live each hold of its container differs (section 5).

Why the bounds are enough. Two daemons of one project are the smallest instance in
which a registration replaces a foreign socket, and one of them alone already
supersedes its own half-open sockets. Three slots let one daemon leave two dying
sockets behind while it opens a third. Two faults give a failure during the
recovery from a failure. For the coordinator the shortest interesting histories
(stop during start; crash, start, crash, stop; reset during a crash; a link lost
before and after a message) take at most three requests or failures, four are
allowed; at most three calls of `start()` can be past their guard in these
histories, and the remaining bounds are never what stops a behaviour in the
histories counted by `MaxEvents`. For the issues the longest history of interest is the one that leads to two
records of one issue that are both in progress (sync, started, dispatch, completion,
dispatch, progress), which is six requests or reports; answers of GitHub, time-outs,
clean-ups and the restart are not counted. What holds there for two issues and one
overlapping sync is proved for any number. TLC reports all instances complete.

The two large runs have the smallest sets in which each hazard can bite. State service:
one project, one request beside one flush, two writes of one file (one debounced, one
under way), one fault, one shutdown, both modes. Supervisor: four children and two
restarts, so that the count of restarts runs out. Tunnel: three children, five
requests: a late child, its successor and a third. Preview: two requests, two
connections, one restart, one retry of the detection. Settings: two requests, in flight
together or one after the other, and one failure or restart; one repository, since what
a change of the repository leaves behind is known (section 5) and excluded. Labels: two
clicks, so that two pushes overlap, one step of the daemon or of people, one failed
call. Tab: every page by itself, one change at HQ, one of the tab's own, one failure,
an activity ring of two with pages of one. Sessions: one session, one question, three
commands or faults, one message on the way when the SDK speaks. Log: three events, a buffer of two,
a memory of two, one removal, one restart. Socket: two sockets, two pages and a
terminal on a queue of two, one restart of HQ. Terminals: two tabs on one CLI
session or shell, two chunks and a ring of one, so that the ring overflows, two clicks, one
lost link; where a CLI session and a shell were both started, as when a tab goes from
one to the other, they write two chunks together and no link is lost (`FewTerminals`;
without it the property was checked once, in 680 044 states). Conversation: six kinds,
each with the events of one question (prompts and answers; messages, errors and HQ
tools; tools; tasks with messages; ends of tasks; bubbles) and bounds of its own: two to
four events, two timestamps where they matter, so that they collide and history covers
some and not others, a prompt, a page of two so that history can begin late, and two
selections where the cache matters. Kinds keep the product small: kinds and bounds
beyond these (three messages and prompts, three timestamps, three notes, four task
events, all calls mixed in four events: 1.3 million states) were run once each and hold
as well.
Longer commands of operators in these parts only repeat the cases: each of the histories
listed in section 5 for these parts was found within these bounds.

Every property is shown to say something by a mutant: an operator next to the
original, with a plausible bug (an unregister that does not compare sockets, a
timer that is not cleared, a stop that is not sent), with which TLC finds the
property violated.

CHECK_DEADLOCK is off where the system may really stop: in `link_safety` every
daemon may have exited with code 78 (the lookup may fail), and a coordinator that
is idle, or stuck, waits for the operator; a project whose `MaxEvents` are spent
has nothing left to do. The parts of `hq_safety` and `sessions_safety` stop when their
bounds are spent, and a tab may stay blank. `link_live` checks deadlock.

### Fairness

`DaemonLink`: armed timers fire, delivered frames are handled, awaited lookups
settle, a peer that is gone is noticed (TCP reports it to whoever still sends;
both sides do: heartbeats, the heartbeat check, the closing time-out of `ws`), and a
daemon that is not running is started again (by its operator, or by the self-daemon
supervisor). Only weak fairness is used. Nothing is assumed of shutdowns, crashes,
failing lookups and restarts of HQ. `EventuallyEstablished` is stated for a daemon
whose rival cannot authenticate: two daemons with valid tokens for one project evict
each other for ever, by the code's last-one-wins rule.

`Coordinator`: messages in flight arrive, handlers' awaits settle, restart timers
fire, the SDK comes up, and the daemon reconnects, which is `EventuallyEstablished`
of `DaemonLink`.

`StateService`: a debounce timer fires, and a write under way gets an answer, a success
or a failure, at each of its awaits. Requests, changes and shutdowns need not come.

`BrowserQueries`: the timer of a polled key fires and its fetch is answered, a
delivered notice is handled, React renders. Nobody need click, reload or send.

`WorkflowIssues`: an armed time-out fires, nothing else. `BlockedIsReleased` excludes
a restart of HQ, after which nobody remembers the question.

## 4. Theorems

`DaemonLinkProofs` proves, for every set of processes, projects and slots, every
assignment of processes to projects, and any `MaxFaults`:

- `TypeCorrect`: `Spec => []TypeOK`;
- `HandshakeInvariant`: `Spec => []HandshakeInv`, and from it `OneLiveSocketHolds`,
  `EntryUsableHolds`, `AuthTimerHolds`;
- `LinkImplementsPresence`: `Spec => PresenceSpec`.

Assumptions: the named ASSUMEs of `DaemonLink` (`ProjOf` is a function into
`Project`, `NoConn` is not a slot, `MaxFaults` a number), nothing else.

The invariant. `EntryUsable` and `OneLiveSocket` are not inductive: they would not
survive a registration from a socket that is already being closed, or a second
accept for one socket. What excludes both is that the handshake is a *token*: the
challenge, the response, the lookup, the accept, the registration and the entry in
`wsToDaemonId` are its stations, and for each socket it is in at most one of them
(`OneToken`). With that, a pending or closing socket has no accept and no
registration in flight (`NotAccepted`), so the only sockets that register are open
and no longer pending. `HandshakeInv` is the conjunction of the type invariant, the
three properties and `SlotInv` for every slot; the proof has one lemma per action.

The refinement maps the abstract holder of a project to its registry entry and the
spent sockets to those whose HQ end is closing or closed. Every registration is a
`Take` by a socket that is not spent, every disconnect, heartbeat time-out and
restart a `Lose`, and everything else a `Lose` of nothing.

`WorkflowIssuesProofs` proves, for every set of issues, questions, overlapping syncs
and coordinator calls, and all bounds:

- `TypeCorrect`: `Spec => []TypeOK`;
- `RecordsAlwaysAgree`: `Spec => []RecordsAgree`;
- `PendingAlwaysHasTimer`: `Spec => []PendingHasTimer`;
- `RevivedByStaleSyncOnly`: `Spec => OnlyStaleSyncRevives`;
- `CompletedWorkAlwaysMovesOn`: `Spec => CompletedWorkMovesOn`.

Assumptions: `BoundAssumption` (the bounds are numbers) and `IssueAssumption`
(`NoIssue` is not an issue). The invariant is `TypeOK /\ TimerInv /\ RecordsInv`.
`TimerInv` says that `timeoutTimers` has a handle exactly for the pending questions
and that a handle stands for an armed timer; without it even the type invariant
fails, since an answer would disarm a timer that is not there. `RecordsInv` says
that the records agree in the store *and* in what a coordinator call under way
would write back. The two action properties need no more than that: the first
rests on the table of transitions, in which nothing leaves "rejected", the second
on the issue's state that every completion looks at before it moves the issue.

`DaemonClientProofs` goes on from `HandshakeInv` to the daemon's end, for all the same
constants: `SocketInvariant`, and from it `NeverStrandedHolds`, `NoOrphanSocketHolds`
and `RegistrationNotIgnoredHolds`. `SocketInv` says of each process that a socket it
names is its own and either alive or the reason for an armed retry timer
(`ProcInv`), of each slot that a live client end is the one its process names
(`EndInv`), and of each handshake, seen from the daemon, that once it has said
"authenticated" no frame of it is on its way back (`BeliefInv`). The last is why a
registration, which follows at once, finds HQ past its accept: it needs both
invariants at once.

`CoordinatorProofs` proves, for any number of overlapping starts and calls, sessions,
messages in flight and failures: `TypeCorrect`, and from `CoordInvariant`
`SessionsExistHolds`, `CrashIsRetriedHolds`, `StateIsBackedHolds` and
`QuietAgreementHolds`. `CoordInv` adds to the types and the properties: every session
id in a record, a running start, a call or a message was created by the SDK
(`IdsCreated`); before the link first came up nothing happened at the daemon
(`LinkInv`); HQ shows "idle" over a live link only with a stop on its way, in effect,
or overtaken by a start that will report (`IdleInv`); and while nothing has failed an
active coordinator's last report is its start (`ReportInv`). `QuietAgreement` is
about the moment when nothing is on the way, and the last two are what it follows
from: they say what is still on the way at all other moments.

`StateServiceProofs`, for every set of requests and flushes and all bounds:

- `StateTypeCorrect`, `StateInvariant`, `SequentialSavesAreExactHolds` about
  `StateService`. Besides the types the invariant speaks of undisturbed behaviours
  only: one call is active; a file on which nobody works is what all saves made of
  it, in the cache as well (`InSync`); the saver's file has exactly one write, with
  the content it is to have, at a stage that fits what is stored (`Scheduled`,
  `Writing`); a call that will save holds a copy of the file as it is; and the store
  is saved unless it is dirty (`Stored`).
- `SettingsInvariant`, `SettingsSurviveRestartHolds`, `SettingsTypesHold` about `Settings`, for every set
  of repositories and models, any number of requests and failures. `Reached` says of
  the one request in flight what a start would find at each of its steps: the
  settings in force before its save, in the new place once that is written.
  Neither invariant is a state's property alone, so each was checked with TLC first:
  `SettingsInv` with two repositories and two overlapping requests (288 147 states)
  and three in a row (90 867).

`HqProofs`, for all bounds, any number of children, requests, connections, clicks and
restarts, and every set of pages:

- `SelfDaemonInvariant`, `OneSupervisedDaemonHolds`: each armed backoff timer has cost
  one of the restarts (`TimersInv`), and until somebody starts during a backoff the
  child HQ refers to is the only one, and a stop waits for every child (`ChildInv`).
- `TunnelInvariant`, `TunnelUnderControlHolds`: the same for the tunnel, whose child is
  forgotten when its start-up times out (`HostInv`).
- `NoRequestIsLostHolds`: a request, or the news of a port, is on its way only to a daemon
  that has its handler (`HandlerInv`).
- `PushInvariant`, `SequentialPushesAreExactHolds`: a push that nobody disturbed has before
  it or behind it every label that may be on the issue (`AloneInv`).
- `QueriesInvariant`, `OwnChangesAreShownHolds`: what was promised to the user is shown, on
  its way, or will be read yet (`OnItsWay`), and nothing is newer than HQ (`NotAhead`).
- `SelfDaemonTypesHold`, `TunnelTypesHold`, `PreviewTypesHold`, `PushTypesHold`,
  `QueryTypesHold`: the type invariants. Three bound a counter that no guard bounds, so
  each needs to say who pays for a step: a connection pays for one interval and
  `MaxRetries + 1` detections (`PvCounts`, where `Due` is what an interval may still
  start), a click for a closing (`RowTypes`), and a change at HQ or a request that is not
  answered yet for a new version of a key (`CountInv`, with the cardinality of the
  unanswered requests). A version of the activity feed is read only after a notice, and a
  notice follows a change (`NoticeInv`).
- `HqRefinesItsParts`: the instance the run explores implements the specification of each
  of its seven parts, whose variables no other part touches. `HqTypesHold` follows, and so
  does every theorem of a part for the instance.

`ScreenProofs`, for any number of terminals, tabs, chunks, views, lost connections, logged
events and selections:

- `TerminalsInvariant`, `ScreenIsCompleteHolds`. The property speaks of the moment at
  which no output is on the way; the invariant says what is on the way at every
  other one. `Streams(q, t, lo, n)`: what queue q holds of terminal t leads from chunk
  lo to chunk n without a hole, a replay starting anew. `StreamInv` says this of the
  output of every attached session and every shell, `SyncedInv` that it goes on from
  where the screen of a synced tab stands. A replay shows everything because the ring
  ends with the last chunk (`RingInv`). The rest is about joins: a tab is synced with
  a shell by its join alone, so the answer of a spawn goes to one tab which waits for
  it (`AskingInv`), nobody knows the new shell before (`NewShellInv`), and the join is
  the tab's last word about it (`LastWordInv`). The lemmas abstract `Append` and
  `Tail` to `Longer` and `Shorter`, so that no step reasons about sequences. TLC
  checked `TerminalsInv` with the bounds of `sessions_safety` and without `FewTerminals`
  (680 044 states).
- `LinkInvariant`, `LinkTypesHold`, `EveryViewIsServedHolds`. The property speaks of
  the moment at which HQ has read everything; `AskedInv` says that at any other, on an
  open socket the network still carries, what each view asked for is the last word on
  the wire about it (`InEffect`, `WillServe`), unless the effects are to run again. It
  holds when a socket opens because its status changes with that (`OpeningInv`): this
  is all that repairs what a full queue dropped. Clean-ups and effects of a
  re-rendering are a flattened sequence of sequences; that flattening loses and adds
  nothing (`Flattened`) is an induction over its length, made with a set in the place
  of a predicate (`SetInduction`, from the well-foundedness of `<`).
- `TerminalTypesHold`: the type invariant of terminals.
- `ConversationInvariant`, `ConversationTypesHold`, `TimelineIsFaithfulHolds`. The lists are
  recomputed from the log, so the invariant is about what a processor has made of a
  stretch of it. `Saw(past, s, lo, hi)`: the entries of s stem from the events after lo up
  to hi, in their order and each with its event's name and timestamp; every one of these
  events that is to be seen has its entry, a tool whose end is among them is settled, and an
  open bubble is owed to a piece that nothing has closed yet (`Owed`). `ConversationInv` says
  this of the live processor from `liveFrom` to `delivered`; of the log that a call starts
  before it completes and completes once (`LogOk`); of HQ's lists that the copies in them
  are each of an event of their own, with its timestamp (`MessagesOk`, `InvocationsOk`); and
  of the queries that the tab holds a part of HQ's lists (`QueriesOk`). One lemma per kind of
  event shows that a processor which saw hi events sees one more (`ProcessSaw`); each rests
  on the fact that a list only grows at its end or changes an entry where it stands
  (`Grown`). The batch of the history is a recursive function, and that it saw its events
  (`BatchSaw`) is an induction with a set in the place of a predicate: such a function
  exists, so the one chosen has its equations, so both agree. That leaves the merging. An
  element of the joined list is in one part or another. If it is in two, both stem from the
  same event or from two of the same millisecond; the second is what "alone" excludes. In
  the first case the code drops the live one by its id or its timestamp, and HQ's copy is
  there only if history has no entry that old, so each is left exactly once. TLC checked
  `ConversationInv` on the conversations of `sessions_safety` (122 239 states).
- `SessionsRefineTheirParts`, `SessionsTypesHold`: as for `HqProofs`, for the five parts of
  `MCSessions`.

`SessionProofs`, for any number of sessions, commands, events, requests, connections,
failures and restarts: `OneListenerHolds` (however sessions are tracked and forgotten,
`Retracks`), `NothingShownIsUnsavedHolds` (until a deletion, what a load has read is in
the file when it is shown, `LogInv`), the types of the log (`LogTypesHold`), and from
`SessionsInvariant` the types of the sessions (`SessionTypesHold`),
`ShownWorkIsRealHolds` and `WaitingIsAnswerableHolds`. These two speak of the moment at
which nothing is under way; `SessionsInv` says what holds at every other one:

- `Rests(q, s, v)`: once HQ has read queue q, a session it shows as v will not be at
  work. If v is, or q has a message that stirs it (a user message, a tool, a subagent),
  an event that calms it (idle, error, shutdown) comes behind. `WorkInv` says this of
  every session unless the daemon is still to say how it ends: it has a turn, an answer
  is being passed to the SDK, or a deletion will yet send its shutdown (`Busy`).
  `Cleared` and `WaitInv` say the same of a question and the daemon's record of it.
- `QuestionInv`: a question is of one session in the relay, the queues and HQ's store,
  so an answer never releases the question of another session. With several questions
  `WaitInv` is not inductive without it.
- `LostInv`: a lost link holds no messages, and one HQ noticed shows no session;
  `ListenerInv`: without it "idle" could be said to nobody.
- `CountInv`: each handler a start installs is paid for by the first start, a lost
  link or a crash; this is the type of the four counters of `start()`.

The daemon's steps go through few lemmas. A `PlainStep` sends nothing that stirs or
asks and ends no turn (`PlainKeeps`); any other must either keep the daemon busy with a
session or end what it sends with an event that calms it (`WorkTold`, `WaitTold`,
`Tells`). HQ's steps only read the queue (`RestsShorter` with what an event makes of a
session, `EventShown`) or post commands (`HqActs`). TLC checked `SessionsInv` with two
sessions, two questions and three commands (2 846 819 states) before the proof.

The assumptions are the named ASSUMEs of the modules: bounds are numbers, marks such
as `None` and `Waiting` are none of the values they stand beside
(`MarkAssumption`, `TerminalsAssumption`, `ManagerAssumption`), CLI sessions and shells
have different ids, a ring has room for one chunk, HQ started at least once, HQ's own
repository is one of the repositories and none is called "local" (`SettingsAssumption`;
names of repositories have a slash). Every run that extends a module evaluates its
assumptions.

Every invariant and every action property the runs check is a theorem. What is only
model-checked is liveness: `EventuallyEstablished`, `CrashRecovers`, `BlockedIsReleased`,
`SavesAreAnswered` and `ViewsCatchUp` (fairness and ENABLED are out of the prover's reach).

## 5. What the code does that its texts do not say

- A failing token lookup (state service down) is answered like a wrong token, with
  close code 4001, on which the daemon exits for good (`link_exit`).
- `stop()` is undone by a `start()` that was under way, and clears only the newest of
  several restart timers (`coordinator_stop`).
- After a daemon restarted, HQ's record may still say "active": it skips the start, and
  nothing brings the coordinator up (`coordinator_skip`; the property excludes a start
  that is still on its way, a retry that is due and a coordinator told to stop, so the
  trace leads through the daemon's restart).
- A start that the daemon ignores, or never receives, leaves HQ in "starting"
  (`coordinator_stuck`).
- An issue rejected while a sync waits for GitHub returns to the state the sync had
  seen, or becomes done (`issues_rejected`). By `OnlyStaleSyncRevives` this is the
  only way back from "rejected".
- Seen without a run of their own: `ElicitationStore.add` is said to return false for
  an id it has (elicitation-store.ts:59) and overwrites it; of two overlapping syncs
  the one that began first may be applied last and drop an issue; issues saved as
  needs-input-blocking have no question after a restart; a dispatch that could not be
  sent leaves its record pending and its issue in progress; an answer that could not
  be sent leaves its question answered.
- Likewise: after a reset whose fresh start crashes, the
  automatic restart resumes the session from before the reset (coordinator.ts:336
  uses the id that `stop()` keeps).

State service and store

- A change made during a flush is not dirty afterwards and not saved (`state_shutdown`).
- Overlapping read-modify-writes of one file lose an update; that is why
  `SequentialSavesAreExact` is about calls one after another.
- A local read during a write finds a truncated file, takes the default for its content,
  and the caller saves that default (local-state-manager.ts:170, 185).
- A swap from local to git leaves the workflow store on the old service.
- DELETE of a project removes its entry from the file and leaves the store's copy as
  it was, not dirty. A project that is added again is listed in the file without its
  issues and coordinator while HQ shows them; they are lost at a restart unless
  something changes before. Found while proving `SequentialSavesAreExact`, which was
  false for three requests one after another (flush, DELETE, POST, then a restart or
  PUT); the property now leaves out the time between such a DELETE and the next flush
  or load (`cleaned`).

Settings

- A change from git to local is not persisted: after a restart HQ is in git mode again,
  though docs/features/settings.md says "Settings are persisted to
  ~/.launchpad/config.json".
- A PUT that changes local to git and other fields at once, as the onboarding page does,
  migrates the settings in force before it; the other fields are lost on a restart.
- A new repository in git mode gets the bootstrap file but not the settings, and
  `~/.launchpad/cache` is one for all repositories, so an empty one yields the old copy.
- The wizard's choices are ignored once git was chosen; a reset never brings the wizard
  back, since only a missing file does; a cancelled first question overrides the mode,
  though wizard.ts:26 says that re-runs preserve previous choices.
- A failed swap is logged and answered like a successful one.

Issues in the browser

- A row in progress offers "Move to backlog" (WorkflowIssueList.tsx:356), which the
  state machine always refuses; the refusal is not shown.
- The answer to a question is posted to `/elicitations/:id/respond` as a string
  (workflow-hooks.ts:207), the route is `/elicitation/:id/respond` with an object
  (routes/workflow.ts:717): every answer is a 404. The notice of a new question has no
  `elicitation` field, and the effect that reads its id (workflow-hooks.ts:156) throws.
- The text of a feedback is dropped (WorkflowIssueList.tsx:259).
- A dispatch and the daemon's reports push no label; a dispatched issue that was done
  stays closed on GitHub, and the next sync makes it done again.
- The modal's draft of one issue can be saved into the next (EditIssueModal.tsx:69-89).
- Keys that are not polled keep an old answer if their first fetch was under way when a
  mutation was answered, and nothing is asked again when the WebSocket reconnects.

Daemon sessions

- `start()` overlapping itself installs lifecycle handlers and poll timers twice, though
  manager.ts:178-179 says it is idempotent; and a reconnect with a started manager sends
  HQ nothing, so its list of sessions stays empty until the next poll.
- A failing `abort()`, or a prompt that joined a load that fails, is a rejection nobody
  catches: the process ends (cli.ts:23).
- HQ's time-out of a question leaves the session "waiting"; a create that fails leaves a
  session "unknown" in the list; tombstones are read by nothing that production calls.
- A link replaced before HQ noticed leaves the old sessions shown; `ShownWorkIsReal` and
  `WaitingIsAnswerable` exclude it.
- The event file of a removed session is deleted 30 s later although the daemon may be
  back (aggregator.ts:791), and the file is not "the superset" (aggregator.ts:705) of the
  log while appends are under way.

Terminals, preview, socket, conversation, supervisors

- `attached` is one flag for all tabs: one tab's detach silences the others, another
  one's resume repeats the replay for all; detach and resume are HTTP requests and may swap.
- A resize is sent with `sessionId`, the daemon reads `terminalId`; a killed terminal
  keeps its bindings; a shell whose tab closed before the answer runs on.
- A port found by detection is not sent again after a reconnect: HQ answers 503.
- A time-out of the daemon's request sends two answers; start- and stop-preview are
  not handled by the daemon.
- A restart of HQ makes a new session token: tabs that were open are refused for ever.
- A tool that was running when the view was opened stays "running"; live messages of a
  subagent that started before are hidden; a streaming bubble outlives an error.
- While history is empty, pending or failed, or begins later than HQ's timestamp, a prompt
  sent from the browser shows twice: HQ's copy (stamped by HQ, routes/copilot-sessions.ts:202)
  and its event (stamped by the SDK) have neither id nor time in common, and
  conversation-hooks.ts:329-336 compares nothing else. An HQ tool invocation shows twice
  likewise: `tool-<time>-<name>` and `rt-hqtool-<time>` are different ids, and only messages
  are compared by time. `PromptsFillIn` and `InvocationsFillIn` state exactly when the copy
  is there.
- A live message in the same millisecond as any fetched entry is dropped as a repetition,
  and of two live errors, thoughts or invocations of one millisecond only the first shows;
  hence "alone in its millisecond" in `TimelineIsFaithful`.
- A prompt that could not be sent (502) stays in HQ's list of messages.
- A session selected again within half a minute shows the history fetched before, without
  what happened meanwhile; HQ's list of messages has it, but is not asked for times that
  history covers.
- A start during a backoff lets two daemons run, of which HQ refers to one; a tunnel
  started twice leaves a process HQ cannot stop.

## 6. Plan

1. Done: the link, the coordinator, the issues; the state service and store, settings,
   supervisor, tunnel, preview, labels, browser data; sessions, event log, WebSocket,
   terminals, conversation.
2. Done: theorems about every component, and every safety property of the runs among them
   (section 4).
3. Compositions that remain: HQ's elicitation time-outs with the session list; the
   activity feed over `BrowserLink` instead of a lossy wire.

The number of runs is kept to a dozen, all of them used: a new property goes into one
of the present instances, or replaces a weaker one.

## 7. Not modelled

- Components of the browser that only present what the hooks return; the GitHub queries
  and the routes over them; preflight, configuration, logging and tracing; port
  detection, which parses files. They hold no protocol state.
- The cache: nothing in production stores an entry.
- Of the conversation: older pages of history, and the loss of HQ's lists of messages and
  invocations when HQ restarts (they are in memory only, the event log is not). The
  daemon sends no `copilot-conversation`, the message with which it could add to them.
- Feedback entries and the commit tracker, on which no other state depends; the agent
  catalogue.
- Two projects at once: components keep their state by project and share only the
  state service's files, in which `StateService` follows one project's entry.
- Message contents, durations and figures shown to the operator are abstracted wherever
  no property is about them.

## 8. Running

    tlc -workers 2 -config MCDaemonLink_safety.cfg MCDaemonLink
    tlc -workers 2 -config MCCoordinator_safety.cfg MCCoordinator
    tlc -workers 2 -config MCWorkflowIssues_safety.cfg MCWorkflowIssues
    tlc -workers 2 -config MCHq_safety.cfg MCHq
    tlc -workers 2 -config MCSessions_safety.cfg MCSessions
    tlapm DaemonLinkProofs.tla
    tlapm DaemonClientProofs.tla
    tlapm CoordinatorProofs.tla
    tlapm WorkflowIssuesProofs.tla
    tlapm StateServiceProofs.tla
    tlapm HqProofs.tla
    tlapm SessionProofs.tla
    tlapm ScreenProofs.tla

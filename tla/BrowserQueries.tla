---------------------------- MODULE BrowserQueries ----------------------------
(***************************************************************************)
(* What one browser tab shows of HQ's data: the query and mutation hooks   *)
(* of client/services.  A hook's data are the answers of a REST endpoint,  *)
(* here the version of the data the answer was read from.  They are asked  *)
(* for again by a timer, by the hook's effect on the newest notice of a    *)
(* WebSocket channel, and by the tab's own requests once answered.  The    *)
(* cache between them is TanStack Query, modelled from its use.            *)
(***************************************************************************)
EXTENDS Integers, Sequences, FiniteSets

CONSTANTS
    Screens,                \* sets of query keys that a page mounts together
    PageSize,               \* events in an answer of the activity endpoint
    Capacity,               \* events the activity store keeps
    MaxChanges,             \* bound on the changes at HQ
    MaxRequests,            \* bound on the mutations
    MaxFailures             \* bound on failed fetches, lost answers and broken sockets

ASSUME QueryAssumption ==
    /\ {PageSize, Capacity, MaxChanges, MaxRequests, MaxFailures} \subseteq Nat
    /\ 1 <= PageSize /\ PageSize <= Capacity

-----------------------------------------------------------------------------
(* Query hooks: the query key, whether a timer refetches it, and the       *)
(* notices whose effect invalidates it.                                    *)

Query(key, polls, heeds) == [key |-> key, polls |-> polls, heeds |-> heeds]

UseWorkflowIssues    == Query("issues", TRUE, {"issue-state-changed", "sync-completed"})
UseAllWorkflowIssues == Query("issues", TRUE, {"issue-state-changed", "sync-completed"})
UseElicitations      == Query("elicitations", TRUE, {"elicitation", "elicitation-answered", "elicitation-timeout"})
UseActivityFeed      == Query("activity", TRUE, {})
UseCoordinatorStatus == Query("coordinator", TRUE, {"coordinator-status-changed", "dispatch-started"})
UseIssueComments     == Query("comments", FALSE, {})
UseAggregatedSessionsUnpolled == Query("sessions", FALSE, {})
UseAggregatedSessions == Query("sessions", TRUE, {})
UseAggregatedSession == Query("session", TRUE, {})
UseCopilotSession    == Query("copilot-session", FALSE, {})
UseSessionMessages   == Query("messages", FALSE, {})
UseSessionTools      == Query("tools", FALSE, {})
UseAvailableSdkSessions == Query("sdk-sessions", FALSE, {})
UseGetMode           == Query("mode", FALSE, {})
UseGetSessionAgent   == Query("agent", FALSE, {})
UseGetPlan           == Query("plan", FALSE, {})
UseListModels        == Query("models", TRUE, {})
UseCopilotAgentCatalog == Query("agents", TRUE, {})
UseCopilotAgentPreference == Query("preference", FALSE, {})
UseIssues            == Query("github-issues", TRUE, {})    \* its open and its closed half
UseDashboard         == Query("dashboard", TRUE, {"daemon"})
UseDiscoverUsers     == Query("users", FALSE, {})
UseDiscoverRepos     == Query("repos", FALSE, {})
UseDaemons           == Query("daemons", TRUE, {"daemon"})
UseTunnelStatus      == Query("tunnel", TRUE, {})
UseTunnelQr          == Query("tunnel-qr", FALSE, {})
UsePreviewList       == Query("previews", TRUE, {"preview:config"})
UsePreviewState      == Query("preview", TRUE, {"preview:config"})
UsePreviewQr         == Query("preview-qr", FALSE, {"preview:config"})
UseSettings          == Query("settings", FALSE, {})
UseOtelSettings      == Query("otel", FALSE, {})

Queries ==
    {UseWorkflowIssues, UseAllWorkflowIssues, UseElicitations, UseActivityFeed, UseCoordinatorStatus,
     UseIssueComments, UseAggregatedSessions, UseAggregatedSession, UseCopilotSession, UseSessionMessages,
     UseSessionTools, UseAvailableSdkSessions, UseGetMode, UseGetSessionAgent, UseGetPlan,
     UseListModels, UseCopilotAgentCatalog, UseCopilotAgentPreference, UseIssues, UseDashboard,
     UseDiscoverUsers, UseDiscoverRepos, UseDaemons, UseTunnelStatus, UseTunnelQr, UsePreviewList,
     UsePreviewState, UsePreviewQr, UseSettings, UseOtelSettings}

Keys == {q.key : q \in Queries}
Polled == {q.key : q \in {p \in Queries : p.polls}}
Heed(n) == {q.key : q \in {p \in Queries : n \in p.heeds}}

(* Mutation hooks: what the request changes at HQ before it is answered,   *)
(* the notices HQ broadcasts on the way, what the hook invalidates.        *)

Mutation(changes, notices, invalidates) ==
    [changes |-> changes, notices |-> notices, invalidates |-> invalidates,
     always |-> FALSE,      \* onSettled: refused requests invalidate too
     writes |-> {},         \* keys whose data the answer replaces at once
     served |-> TRUE]       \* is there a route?

UseSyncIssues       == Mutation({"issues"}, <<"sync-completed">>, {"issues"})
UseTransitionIssue  == Mutation({"issues"}, <<"issue-state-changed">>, {"issues"})
UseRespondToElicitation == [Mutation({}, << >>, {"elicitations", "issues"}) EXCEPT !.served = FALSE]
UseStartCoordinator == Mutation({"coordinator"}, <<"coordinator-status-changed">>, {"coordinator"})
UseStopCoordinator  == Mutation({"coordinator"}, <<"coordinator-status-changed">>, {"coordinator"})
UseResetCoordinator == Mutation({"coordinator"}, << >>, {"coordinator"})
UseDispatchIssue    == Mutation({"issues", "coordinator", "activity"},
                                <<"issue-state-changed", "dispatch-started", "activity">>,
                                {"issues", "coordinator", "activity"})
UseCreateIssue      == Mutation({"issues"}, <<"sync-completed">>, {"issues"})
UseUpdateIssue      == Mutation({"issues"}, << >>, {"issues"})
UseAddCommentInvalidatesIssues == Mutation({"comments"}, << >>, {"issues"})
UseAddComment       == Mutation({"comments"}, << >>, {"comments"})
UseSetAutonomousAgent == Mutation({}, << >>, {"coordinator"})
UseSetSessionAgent  == [Mutation({"agent"}, << >>, {"agent"}) EXCEPT !.always = TRUE, !.writes = {"agent"}]
UseSendPrompt       == Mutation({}, << >>, {"messages"})
UseUpdatePlan       == Mutation({}, << >>, {"plan"})
UseDeletePlan       == Mutation({}, << >>, {"plan"})
UseCreateSession    == Mutation({}, << >>, {"sessions"})
UseAbortSession     == Mutation({}, << >>, {"session", "sessions"})
UseResumeSession    == Mutation({}, << >>, {"session", "sessions"})
UseSetModel         == Mutation({}, << >>, {"session", "sessions"})
UseSetMode          == Mutation({}, << >>, {"mode", "session", "sessions"})
UseDisconnectSession == Mutation({}, << >>, {"session", "sessions"})
UseEndSession       == Mutation({"sessions"}, << >>, {"session", "sessions"})
UseAddProject       == Mutation({"dashboard"}, << >>, {"dashboard"})
UseRemoveProject    == Mutation({"dashboard"}, << >>, {"dashboard"})
UseRegenerateDaemonToken == Mutation({"dashboard"}, << >>, {"dashboard"})
UseStartTunnel      == Mutation({"tunnel", "tunnel-qr"}, << >>, {"tunnel", "tunnel-qr"})
UseStopTunnel       == Mutation({"tunnel", "tunnel-qr"}, << >>, {"tunnel", "tunnel-qr"})
UseUpdateSettings   == Mutation({"settings"}, << >>, {"settings"})
UseResetOnboarding  == Mutation({"settings"}, << >>, {"settings"})
UseUpdateOtelSettings == Mutation({"otel", "settings"}, << >>, {"otel", "settings"})

Mutations ==
    {UseSyncIssues, UseTransitionIssue, UseRespondToElicitation, UseStartCoordinator, UseStopCoordinator,
     UseResetCoordinator, UseDispatchIssue, UseCreateIssue, UseUpdateIssue, UseAddComment,
     UseSetAutonomousAgent, UseSetSessionAgent, UseSendPrompt, UseUpdatePlan, UseDeletePlan,
     UseCreateSession, UseAbortSession,
     UseResumeSession, UseSetModel, UseSetMode, UseDisconnectSession, UseEndSession, UseAddProject,
     UseRemoveProject, UseRegenerateDaemonToken, UseStartTunnel, UseStopTunnel, UseUpdateSettings,
     UseResetOnboarding, UseUpdateOtelSettings}

(* What else changes HQ's data -- a daemon's report, another tab -- and    *)
(* the notice that goes with it, Silent if none does.                       *)
Silent == "quiet"
Change(keys, notice) == [keys |-> keys, notice |-> notice]
Changes ==
    {Change({"issues"}, n) : n \in {"issue-state-changed", "sync-completed"}}
    \cup {Change({"elicitations"}, n) : n \in {"elicitation", "elicitation-answered", "elicitation-timeout"}}
    \cup {Change({"coordinator"}, n) : n \in {"coordinator-status-changed", "dispatch-started"}}
    \cup {Change({"activity"}, "activity"), Change({"daemons", "dashboard"}, "daemon"),
          Change({"previews", "preview"}, "preview:config")}
    \cup {Change({k}, Silent) : k \in Keys \ {"elicitations", "activity", "daemons", "previews", "preview"}}

Workflow == {"issues", "elicitations", "coordinator"}       \* listen to the channel of `activity'

-----------------------------------------------------------------------------
VARIABLES
    mounted,                \* query keys of the open page
    version,                \* of each key's data at HQ
    shown,                  \* version in the cache, Unloaded before the first answer
    flight,                 \* the fetch of each key
    fetchFailed,            \* keys whose last fetch failed
    wire,                   \* notices on the WebSocket
    update,                 \* useSubscription's `data' not yet rendered, or Silent
    realtime,               \* useActivityFeed's realtimeEvents
    refetched,              \* dataUpdatedAt of the feed changed and is not yet rendered
    requests,               \* mutations in flight
    blank,                  \* an effect threw: React has unmounted the page
    promised,               \* history: version an answered mutation of this tab left at HQ
    changes, sent, failures

qvVars == <<mounted, version, shown, flight, fetchFailed, wire, update, realtime, refetched, requests,
            blank, promised, changes, sent, failures>>
cacheVars == <<shown, flight, fetchFailed>>
feedVars == <<update, realtime, refetched>>

Unloaded == -1
Idle == [stage |-> "idle", saw |-> 0, again |-> FALSE]
Asked(again) == [stage |-> "asked", saw |-> 0, again |-> again]

QvTypeOK ==
    /\ mounted \in Screens
    /\ version \in [mounted -> 0 .. MaxChanges + MaxRequests]
    /\ shown \in [mounted -> {Unloaded} \cup (0 .. MaxChanges + MaxRequests)]
    /\ flight \in [mounted -> [stage : {"idle", "asked", "read"}, saw : 0 .. MaxChanges + MaxRequests, again : BOOLEAN]]
    /\ fetchFailed \subseteq mounted
    /\ realtime \subseteq 1 .. (MaxChanges + MaxRequests)
    /\ \A r \in requests : r.hook \in Mutations /\ r.stage \in {"sent", "done", "refused"}
    /\ \A k \in mounted : promised[k] <= version[k] /\ shown[k] <= version[k]

QvInit ==
    /\ mounted \in Screens
    /\ version = [k \in mounted |-> 0] /\ promised = [k \in mounted |-> 0]
    /\ shown = [k \in mounted |-> Unloaded] /\ flight = [k \in mounted |-> Asked(FALSE)] /\ fetchFailed = {}
    /\ wire = << >> /\ update = Silent /\ realtime = {} /\ refetched = FALSE
    /\ requests = {} /\ blank = FALSE
    /\ changes = 0 /\ sent = 0 /\ failures = 0

Bumped(ks) == [k \in mounted |-> IF k \in ks THEN version[k] + 1 ELSE version[k]]
Broadcast(ns) == wire' = wire \o ns
Fails == failures < MaxFailures /\ failures' = failures + 1

(* invalidateQueries: a fetch in flight is dropped and asked again, except *)
(* a first one, which is joined.                                           *)
Invalidated(ks, data) ==
    [k \in mounted |->
        IF k \in ks /\ (flight[k] = Idle \/ data[k] # Unloaded) THEN Asked(FALSE) ELSE flight[k]]

-----------------------------------------------------------------------------
(* ActivityStore: event e is the e-th emitted; the ring buffer keeps the   *)
(* newest, an answer holds the newest of those.                            *)
Buffered(v) == {e \in 1 .. v : v - e < Capacity}
QueryBuffer(v) == {e \in Buffered(v) : v - e < PageSize}
Feed == realtime \cup QueryBuffer(shown["activity"])

-----------------------------------------------------------------------------
(* The cache's fetches. *)

Poll(k) ==
    /\ k \in mounted \cap Polled /\ ~blank
    /\ flight[k] = Idle
    /\ flight' = [flight EXCEPT ![k] = Asked(FALSE)]
    /\ UNCHANGED <<shown, fetchFailed, refetched, failures>>

HqReads(k) ==
    /\ k \in mounted /\ flight[k].stage = "asked"
    /\ flight' = [flight EXCEPT ![k] = [@ EXCEPT !.stage = "read", !.saw = version[k]]]
    /\ UNCHANGED <<shown, fetchFailed, refetched, failures>>

FetchSucceeds(k) ==
    /\ k \in mounted /\ flight[k].stage = "read" /\ ~blank
    /\ shown' = [shown EXCEPT ![k] = flight[k].saw] /\ fetchFailed' = fetchFailed \ {k}
    /\ flight' = [flight EXCEPT ![k] = Idle]
    /\ refetched' = (refetched \/ k = "activity")
    /\ UNCHANGED failures

(* One retry (App.tsx); data already shown stay.                           *)
FetchRejected(k) ==
    /\ Fails
    /\ k \in mounted /\ flight[k] # Idle /\ ~blank
    /\ IF flight[k].again
       THEN flight' = [flight EXCEPT ![k] = Idle] /\ fetchFailed' = fetchFailed \cup {k}
       ELSE flight' = [flight EXCEPT ![k] = Asked(TRUE)] /\ UNCHANGED fetchFailed
    /\ UNCHANGED <<shown, refetched>>

FetchStep(k) ==
    /\ Poll(k) \/ HqReads(k) \/ FetchSucceeds(k) \/ FetchRejected(k)
    /\ UNCHANGED <<mounted, version, wire, update, realtime, requests, blank, promised, changes, sent>>

-----------------------------------------------------------------------------
(* HQ and the WebSocket. *)

OtherChange(c) ==
    /\ changes < MaxChanges /\ changes' = changes + 1
    /\ c.keys \cap mounted # {} \/ (c.notice = "activity" /\ mounted \cap Workflow # {})
    /\ version' = Bumped(c.keys)
    /\ IF c.notice = Silent THEN UNCHANGED wire ELSE Broadcast(<<c.notice>>)
    /\ UNCHANGED <<mounted, cacheVars, feedVars, requests, blank, promised, sent, failures>>

(* useSubscription keeps only the newest message: one not yet rendered is  *)
(* overwritten.                                                            *)
NoticeArrives ==
    /\ wire # << >> /\ ~blank
    /\ update' = Head(wire) /\ wire' = Tail(wire)
    /\ UNCHANGED <<mounted, version, cacheVars, realtime, refetched, requests, blank, promised, changes, sent, failures>>

SocketBreaks ==
    /\ wire # << >> /\ Fails
    /\ wire' = << >>
    /\ UNCHANGED <<mounted, version, cacheVars, feedVars, requests, blank, promised, changes, sent>>

(* The effects of a render.  The broadcast of a question has no            *)
(* `elicitation' and useElicitations reads its id: the effect throws.      *)
Render ==
    /\ (update # Silent \/ refetched) /\ ~blank
    /\ update' = Silent /\ refetched' = FALSE
    /\ blank' = (update = "elicitation" /\ "elicitations" \in mounted)
    /\ flight' = Invalidated(Heed(update), shown)
    /\ realtime' = CASE refetched -> {}
                     [] update = "activity" /\ "activity" \in mounted /\ ~refetched -> realtime \cup {version["activity"]}
                     [] OTHER -> realtime
    /\ UNCHANGED <<mounted, version, shown, fetchFailed, wire, requests, promised, changes, sent, failures>>

(* The user loads the page again.                                          *)
Reload ==
    /\ blank /\ blank' = FALSE
    /\ shown' = [k \in mounted |-> Unloaded] /\ flight' = [k \in mounted |-> Asked(FALSE)] /\ fetchFailed' = {}
    /\ wire' = << >> /\ update' = Silent /\ realtime' = {} /\ refetched' = FALSE /\ requests' = {}
    /\ promised' = [k \in mounted |-> 0]
    /\ UNCHANGED <<mounted, version, changes, sent, failures>>

-----------------------------------------------------------------------------
(* Mutations. *)

Mutate(m) ==
    /\ sent < MaxRequests /\ sent' = sent + 1 /\ ~blank
    /\ (m.changes \cup m.invalidates) \cap mounted # {}
    /\ requests' = requests \cup {[hook |-> m, stage |-> "sent", left |-> version, nth |-> sent]}
    /\ UNCHANGED <<mounted, version, cacheVars, feedVars, wire, blank, promised, changes, failures>>

Become(r, stage, left) == requests' = (requests \ {r}) \cup {[r EXCEPT !.stage = stage, !.left = left]}

HqHandles(r) ==
    /\ r \in requests /\ r.stage = "sent"
    /\ \/ /\ r.hook.served
          /\ version' = Bumped(r.hook.changes) /\ Broadcast(r.hook.notices)
          /\ Become(r, "done", version')
       \/ UNCHANGED <<version, wire>> /\ Become(r, "refused", version)
    /\ UNCHANGED <<mounted, cacheVars, feedVars, blank, promised, changes, sent, failures>>

(* onSuccess, onSettled.                                                   *)
Answered(r) ==
    /\ r \in requests /\ r.stage # "sent" /\ ~blank
    /\ requests' = requests \ {r}
    /\ LET ok == r.stage = "done"
           written == IF ok THEN [k \in mounted |-> IF k \in r.hook.writes THEN r.left[k] ELSE shown[k]] ELSE shown
       IN  /\ shown' = written
           /\ flight' = IF ok \/ r.hook.always THEN Invalidated(r.hook.invalidates, written) ELSE flight
           /\ promised' = [k \in mounted |-> IF ok /\ k \in r.hook.changes /\ shown[k] # Unloaded /\ r.left[k] > promised[k]
                                             THEN r.left[k] ELSE promised[k]]
    /\ UNCHANGED <<mounted, version, fetchFailed, feedVars, wire, blank, changes, sent, failures>>

AnswerLost(r) ==
    /\ r \in requests /\ Fails
    /\ requests' = requests \ {r}
    /\ UNCHANGED <<mounted, version, cacheVars, feedVars, wire, blank, promised, changes, sent>>

QvNext ==
    \/ \E k \in mounted : FetchStep(k)
    \/ \E c \in Changes : OtherChange(c)
    \/ NoticeArrives \/ SocketBreaks \/ Render \/ Reload
    \/ \E m \in Mutations : Mutate(m)
    \/ \E r \in requests : HqHandles(r) \/ Answered(r) \/ AnswerLost(r)

(* Timers run, HQ answers and React renders; nobody need act or reload.    *)
(* (Weaker than the code where a page mounts two keys that are followed.)  *)
Followed == {"issues", "elicitations", "activity", "coordinator", "sessions", "session", "models", "agents",
             "github-issues", "dashboard", "daemons", "tunnel", "previews", "preview"}
QvFairness ==
    /\ WF_qvVars(\E k \in mounted \cap Followed : FetchStep(k))
    /\ WF_qvVars(NoticeArrives) /\ WF_qvVars(Render)

QvSpec == QvInit /\ [][QvNext]_qvVars /\ QvFairness

-----------------------------------------------------------------------------
(* Properties. *)

(* A change the tab itself made, once answered, is what the tab shows as   *)
(* soon as it is not fetching: no answer read before the change, and no    *)
(* older data, can stay on the page.  It holds for data that were on the   *)
(* page already and unless the fetch itself failed.                        *)
OwnChangesAreShown ==
    \A k \in mounted : ~blank /\ flight[k] = Idle /\ k \notin fetchFailed => shown[k] >= promised[k]

(* Whatever notices are lost, overwritten or never sent, a page that is    *)
(* not blank ends up showing what HQ has, the newest activity included.    *)
ViewsCatchUp ==
    <>[](blank \/ \A k \in mounted \cap Followed :
                     IF k = "activity" THEN QueryBuffer(version[k]) \subseteq Feed ELSE shown[k] = version[k])
=============================================================================

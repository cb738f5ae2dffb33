---------------------------- MODULE SessionProofs ----------------------------
(***************************************************************************)
(* Theorems about the Copilot sessions a daemon offers over its link       *)
(* (CopilotSessions) and the log HQ keeps of a session's events (EventLog) *)
(* for any number of sessions, commands, events, connections, failures and *)
(* restarts.                                                               *)
(***************************************************************************)
EXTENDS CopilotSessions, EventLog, TLAPS

-----------------------------------------------------------------------------
(* The handlers of the sessions. *)

ListenerInv ==
  /\ registry \subseteq Session /\ tracked \subseteq Session
  /\ listeners \in [Session -> Nat]
  /\ OneListener

(* Sessions are tracked, forgotten one at a time or forgotten together.    *)
Retracks ==
  \/ UNCHANGED trackVars
  \/ \E s \in Session : Track(s)
  \/ \E s : Untrack(s)
  \/ tracked' = {} /\ listeners' = [s \in Session |-> 0]

(* Whatever way the tracking changes, handlers and tracking agree.         *)
LEMMA RetracksKeeps ==
  ASSUME ListenerInv, Retracks, registry' \subseteq Session
  PROVE  ListenerInv'
  <1>1. CASE UNCHANGED trackVars
    BY <1>1 DEF trackVars, ListenerInv, OneListener
  <1>2. ASSUME NEW s \in Session, Track(s) PROVE ListenerInv'
    BY <1>2 DEF Track, ListenerInv, OneListener
  <1>3. ASSUME NEW s, Untrack(s) PROVE ListenerInv'
    <2>1. CASE s \in Session
      BY <1>3, <2>1 DEF Untrack, ListenerInv, OneListener
    <2>2. CASE s \notin Session
      <3>1. tracked' = tracked /\ listeners' = listeners
        BY <1>3, <2>2 DEF Untrack, ListenerInv
      <3> QED BY <3>1 DEF ListenerInv, OneListener
    <2> QED BY <2>1, <2>2
  <1>4. CASE tracked' = {} /\ listeners' = [s \in Session |-> 0]
    BY <1>4 DEF ListenerInv, OneListener
  <1> QED BY <1>1, <1>2, <1>3, <1>4 DEF Retracks

(* Every handler that awaits the SDK, when the SDK answers.                *)
LEMMA JobRetracks ==
  ASSUME ListenerInv, NEW j \in jobs, CmJobStep(j)
  PROVE  Retracks /\ registry' \subseteq Session
  <1>a. registry \subseteq Session
    BY DEF ListenerInv
  <1>1. CASE Lacks(j) \/ SendSucceeds(j)
    BY <1>1, <1>a DEF Lacks, SendSucceeds, Retracks, sdkVars
  <1>2. CASE \/ ResumeSucceeds(j) \/ ResumeFails(j) \/ AgentAnswered(j) \/ QueryAnswered(j)
             \/ Listed(j) \/ ListFails(j) \/ SetterSucceeds(j) \/ AbortSucceeds(j) \/ SdkFails(j)
    <2>1. UNCHANGED <<sdkVars, trackVars>>
      BY <1>2 DEF ResumeSucceeds, ResumeFails, AgentAnswered, QueryAnswered, Listed, ListFails,
                  SetterSucceeds, AbortSucceeds, SdkFails, Answers
    <2> QED BY <1>a, <2>1 DEF Retracks, sdkVars
  <1>3. CASE CoordinatorResumed(j)
    BY <1>3, <1>a DEF CoordinatorResumed, Retracks, sdkVars
  <1>4. CASE AgentSelected(j) \/ CreateFails(j)
    BY <1>4, <1>a DEF AgentSelected, CreateFails, Retracks, sdkVars
  <1>5. CASE Disconnected(j) \/ DeleteDisconnected(j)
    BY <1>5, <1>a DEF Disconnected, DeleteDisconnected, Retracks, sdkVars
  <1>6. ASSUME NEW s \in Session, SessionCreated(j, s) PROVE Retracks /\ registry' \subseteq Session
    BY <1>6, <1>a DEF SessionCreated, Retracks
  <1>7. ASSUME NEW ok \in BOOLEAN, Deleted(j, ok) PROVE Retracks /\ registry' \subseteq Session
    BY <1>7, <1>a DEF Deleted, Retracks
  <1> QED BY <1>1, <1>2, <1>3, <1>4, <1>5, <1>6, <1>7 DEF CmJobStep

(* Every step of the daemon is one of those.                               *)
LEMMA DaemonRetracks ==
  ASSUME ListenerInv, CmStep
  PROVE  Retracks /\ registry' \subseteq Session
  <1>a. registry \subseteq Session
    BY DEF ListenerInv
  <1>1. ASSUME NEW ok \in BOOLEAN, ClientStarted(ok) PROVE Retracks /\ registry' \subseteq Session
    BY <1>1, <1>a DEF ClientStarted, Retracks, sdkVars
  <1>2. CASE FirstPolled \/ HandleMessage
    BY <1>2, <1>a DEF FirstPolled, HandleMessage, Retracks, sdkVars
  <1>3. ASSUME NEW s, CoordinatorCalls(s) PROVE Retracks /\ registry' \subseteq Session
    BY <1>3, <1>a DEF CoordinatorCalls, Retracks, sdkVars
  <1>4. ASSUME NEW s \in Session, LookupFinds(s) \/ LoadSucceeds(s)
        PROVE  Retracks /\ registry' \subseteq Session
    BY <1>4, <1>a DEF LookupFinds, LoadSucceeds, Retracks, sdkVars
  <1>5. ASSUME NEW s \in Session, TurnStep(s) PROVE Retracks /\ registry' \subseteq Session
    <2>1. UNCHANGED <<registry, trackVars>>
      BY <1>5 DEF TurnStep, SdkSays
    <2> QED BY <1>a, <2>1 DEF Retracks
  <1>6. ASSUME NEW j \in jobs, CmJobStep(j) PROVE Retracks /\ registry' \subseteq Session
    BY <1>6, JobRetracks
  <1>7. ASSUME NEW s \in Session, NEW e \in Elicit, SdkAsks(s, e)
        PROVE  Retracks /\ registry' \subseteq Session
    BY <1>7, <1>a DEF SdkAsks, Retracks
  <1> QED BY <1>1, <1>2, <1>3, <1>4, <1>5, <1>6, <1>7 DEF CmStep

(* So is every step of the system.                                         *)
LEMMA ListenerStep == ListenerInv /\ [CsNext]_csVars => ListenerInv'
  <1> SUFFICES ASSUME ListenerInv, [CsNext]_csVars PROVE Retracks /\ registry' \subseteq Session
    BY RetracksKeeps
  <1>a. registry \subseteq Session
    BY DEF ListenerInv
  <1>b. UNCHANGED <<registry, trackVars>> => Retracks /\ registry' \subseteq Session
    BY <1>a DEF Retracks
  <1>c. Crash => Retracks /\ registry' \subseteq Session
    BY <1>a DEF Crash, Retracks
  <1>d. ASSUME NEW s \in Session, LoadFails(s) PROVE Retracks /\ registry' \subseteq Session
    <2>1. Crash \/ UNCHANGED <<sdkVars, trackVars>>
      BY <1>d DEF LoadFails
    <2> QED BY <1>b, <1>c, <2>1 DEF sdkVars
  <1>1. CASE DaemonSteps
    BY <1>1, <1>d, DaemonRetracks DEF DaemonSteps
  <1>2. CASE TimeOut \/ HqNotices \/ UNCHANGED csVars
    BY <1>2, <1>b DEF TimeOut, HqNotices, csVars, cmVars, sdkVars
  <1>3. CASE DaemonDies
    BY <1>3, <1>c, <1>d DEF DaemonDies, AbortFails
  <1>4. CASE HqReconnects
    BY <1>4, <1>b DEF HqReconnects, Reconnect, sdkVars
  <1>5. ASSUME NEW corrupted \in BOOLEAN, Receive(corrupted) PROVE Retracks /\ registry' \subseteq Session
    BY <1>5, <1>b DEF Receive, sdkVars
  <1>6. ASSUME NEW noticed \in BOOLEAN, HqLosesLink(noticed) PROVE Retracks /\ registry' \subseteq Session
    BY <1>6, <1>b DEF HqLosesLink, LinkLost, sdkVars
  <1>7. ASSUME NEW op, NEW s, NEW arg, Sends(op, s, arg) PROVE Retracks /\ registry' \subseteq Session
    BY <1>7, <1>b DEF Sends, sdkVars
  <1>8. ASSUME NEW s \in Session,
               \/ PostPrompt(s) \/ PostAbort(s) \/ PostDisconnect(s) \/ PostSetting(s)
               \/ PostResume(s) \/ PostDelete(s) \/ AskMode(s) \/ AskAgent(s)
        PROVE  Retracks /\ registry' \subseteq Session
    BY <1>7, <1>8 DEF PostPrompt, PostAbort, PostDisconnect, PostSetting, PostAtOnce, PostResume,
                      PostDelete, AskMode, AskAgent, Awaits
  <1>9. CASE AskList \/ PostCreate
    BY <1>7, <1>9 DEF AskList, PostCreate, Awaits
  <1>10. ASSUME NEW e \in Elicit, PostReply(e) PROVE Retracks /\ registry' \subseteq Session
    BY <1>10, <1>b DEF PostReply, sdkVars
  <1> QED BY <1>1, <1>2, <1>3, <1>4, <1>5, <1>6, <1>8, <1>9, <1>10 DEF CsNext

(* No event of a session is forwarded twice and none of a forgotten one:   *)
(* a session has one live handler exactly while it is tracked (manager.ts  *)
(* trackSession, handleDisconnect, handleDeleteSession).                   *)
THEOREM OneListenerHolds == CsSpec => []OneListener
  <1>1. CsInit => ListenerInv
    BY DEF CsInit, CmInit, ListenerInv, OneListener
  <1>2. ListenerInv => OneListener
    BY DEF ListenerInv
  <1> QED BY <1>1, <1>2, ListenerStep, PTL DEF CsSpec

-----------------------------------------------------------------------------
(* What moves a session HQ shows to work, and what takes it from there:    *)
(* every other event leaves its status and phase or makes them idler.      *)
Stirring == {"user.message", "assistant.turn_start", "tool.execution_start", "tool.execution_complete",
             "subagent.started", "subagent.completed", "elicitation.completed"}
Calming == {"session.idle", "session.error", "session.shutdown"}
Clearing == {"session.idle", "session.shutdown", "elicitation.completed"}

Of(m, s, types) == m.kind = "event" /\ m.s = s /\ m.type \in types
Asks(m, s, e) == Of(m, s, {"elicitation.requested"}) /\ m.arg = e

(* Does the queue hold one of these events of s behind place i?            *)
Follows(q, s, types, i) == \E k \in DOMAIN q : k > i /\ Of(q[k], s, types)

(* HQ will show s resting, and not waiting for e, once it has read q.      *)
AtWork(v) == v # None /\ (v.status = "active" \/ v.phase \in {"thinking", "tool", "subagent"})
Rests(q, s, v) ==
  /\ AtWork(v) => Follows(q, s, Calming, 0)
  /\ \A i \in DOMAIN q : Of(q[i], s, Stirring) => Follows(q, s, Calming, i)
Cleared(q, s, e, v) ==
  /\ v # None /\ v.waiting = e => Follows(q, s, Clearing, 0)
  /\ \A i \in DOMAIN q : Asks(q[i], s, e) => Follows(q, s, Clearing, i)

(* The daemon will yet say how s ends, or has a turn in it, or holds the   *)
(* question.                                                               *)
Ending(s) == \E j \in jobs : j.op = "delete" /\ j.phase = "delete" /\ j.s = s
Replying(s) == \E j \in jobs : j.op = "reply" /\ j.phase = "sdk" /\ j.s = s
Busy(s) == Ending(s) \/ (s \in tracked /\ (turn[s] # "none" \/ Replying(s)))
Held(s, e) == Ending(s) \/ (s \in tracked /\ relayed[e] = s)

LostInv ==
  /\ link # "up" => up = << >> /\ down = << >>
  /\ link = "gone" => \A s \in Session : shown[s] = None
WorkInv == link = "up" /\ ~replaced => \A s \in Session : Busy(s) \/ Rests(up, s, shown[s])
WaitInv ==
  link = "up" /\ ~replaced =>
      \A s \in Session, e \in Elicit : Held(s, e) \/ Cleared(up, s, e, shown[s])

(* A question is of one session wherever it is, and asked once.            *)
QuestionOf(e, s) ==
  \/ questions[e] = s
  \/ \E i \in DOMAIN up : up[i].kind = "question" /\ up[i].arg = e /\ up[i].s = s
  \/ \E i \in DOMAIN down : down[i].op = "reply" /\ down[i].arg = e /\ down[i].s = s
QuestionInv ==
  \A e \in Elicit :
    /\ relayed[e] # None => e \in asked
    /\ \A s \in Session : QuestionOf(e, s) => e \in asked /\ relayed[e] \in {None, s}

(* Each handler a start installs is paid for by the first start, a lost    *)
(* link or a crash.                                                        *)
CountInv ==
  /\ {starting, polling, lifecycle, pollTimers} \subseteq Nat
  /\ starting + polling + pollTimers <= lifecycle
  /\ lifecycle + (IF link = "up" THEN 0 ELSE 1) <= commands + 1

Messages ==
  {m \in [kind : {"event", "answer", "question"}, s : Session \cup {None, Unknown},
          type : EventTypes \cup {None}, arg : Arg] :
      /\ m.kind = "event" /\ m.type = "elicitation.requested" => m.s \in Session /\ m.arg \in Elicit
      /\ m.kind = "question" => m.s \in Session /\ m.arg \in Elicit}
Commands ==
  {c \in [op : Ops, s : Session \cup {None}, arg : Arg] :
      /\ c.op = "delete" => c.s \in Session
      /\ c.op = "reply" => c.s \in Session /\ c.arg \in Elicit}

QueueTypes ==
  /\ up \in Seq(Messages) /\ down \in Seq(Commands) /\ jobs \subseteq Job
  /\ link \in {"up", "gone", "stale"}
SdkTypes ==
  /\ registry \subseteq created /\ created \subseteq Session /\ asked \subseteq Elicit
  /\ turn \in [Session -> {"none", "asked", "thinking", "tool", "subagent", "waiting", "said"}]
  /\ deletedIds \subseteq Session
  /\ loads \in [Session -> {"none", "lookup", "attach", "resume"}]
  /\ relayed \in [Elicit -> Session \cup {None}]
  /\ sdkStarted \in BOOLEAN
SessionTypes == QueueTypes /\ SdkTypes /\ AggTypeOK /\ CountInv /\ commands \in 0 .. MaxCommands

SessionsInv ==
  /\ ListenerInv /\ SessionTypes
  /\ LostInv /\ WorkInv /\ WaitInv /\ QuestionInv

-----------------------------------------------------------------------------
(* What a queue says when it grows or is read. *)

(* Several messages sent: those before are where they were.                *)
LEMMA Joined ==
  ASSUME NEW S, NEW q \in Seq(S), NEW r \in Seq(S)
  PROVE  /\ q \o r \in Seq(S)
         /\ \A i \in DOMAIN q : i \in DOMAIN (q \o r) /\ (q \o r)[i] = q[i]
         /\ \A i \in DOMAIN (q \o r) :
               \/ i \in DOMAIN q /\ (q \o r)[i] = q[i]
               \/ \E k \in DOMAIN r : i = Len(q) + k /\ (q \o r)[i] = r[k]
         /\ r # << >> => /\ Len(q) + Len(r) \in DOMAIN (q \o r)
                         /\ (q \o r)[Len(q) + Len(r)] = r[Len(r)]
                         /\ \A i \in DOMAIN q : i < Len(q) + Len(r)
  <1>1. q \o r \in Seq(S) /\ Len(q \o r) = Len(q) + Len(r)
    OBVIOUS
  <1>2. ASSUME NEW i \in DOMAIN q PROVE i \in DOMAIN (q \o r) /\ (q \o r)[i] = q[i]
    BY <1>1
  <1>3. ASSUME NEW i \in DOMAIN (q \o r), i \notin DOMAIN q
        PROVE  \E k \in DOMAIN r : i = Len(q) + k /\ (q \o r)[i] = r[k]
    <2>1. i - Len(q) \in DOMAIN r /\ i = Len(q) + (i - Len(q)) /\ (q \o r)[i] = r[i - Len(q)]
      BY <1>1, <1>3
    <2> QED BY <2>1
  <1>4. ASSUME r # << >>
        PROVE  /\ Len(q) + Len(r) \in DOMAIN (q \o r)
               /\ (q \o r)[Len(q) + Len(r)] = r[Len(r)]
               /\ \A i \in DOMAIN q : i < Len(q) + Len(r)
    BY <1>1, <1>4
  <1> QED BY <1>1, <1>2, <1>3, <1>4

(* The first message read: the others move up.                             *)
LEMMA Taken ==
  ASSUME NEW S, NEW q \in Seq(S), q # << >>
  PROVE  /\ Tail(q) \in Seq(S) /\ Head(q) = q[1] /\ Head(q) \in S /\ 1 \in DOMAIN q
         /\ \A i \in DOMAIN Tail(q) : i \in Nat /\ i > 0 /\ i + 1 \in DOMAIN q /\ Tail(q)[i] = q[i + 1]
         /\ \A i \in DOMAIN q : i = 1 \/ (i \in Nat /\ i > 1 /\ i - 1 \in DOMAIN Tail(q) /\ Tail(q)[i - 1] = q[i])
OBVIOUS

EndsWith(r, s, types) == r # << >> /\ Of(r[Len(r)], s, types)

(* What follows keeps following; what comes last follows everything.       *)
LEMMA FollowsLonger ==
  ASSUME NEW S, NEW q \in Seq(S), NEW r \in Seq(S), NEW s, NEW types, NEW i, Follows(q, s, types, i)
  PROVE  Follows(q \o r, s, types, i)
  <1>1. PICK k \in DOMAIN q : k > i /\ Of(q[k], s, types)
    BY DEF Follows
  <1>2. k \in DOMAIN (q \o r) /\ (q \o r)[k] = q[k]
    BY Joined
  <1> QED BY <1>1, <1>2 DEF Follows

LEMMA FollowsLast ==
  ASSUME NEW S, NEW q \in Seq(S), NEW r \in Seq(S), NEW s, NEW types, EndsWith(r, s, types),
         NEW i \in Nat, i < Len(q) + Len(r)
  PROVE  Follows(q \o r, s, types, i)
  <1>1. /\ Len(q) + Len(r) \in DOMAIN (q \o r)
        /\ (q \o r)[Len(q) + Len(r)] = r[Len(r)]
    BY Joined DEF EndsWith
  <1> QED BY <1>1 DEF Follows, EndsWith

LEMMA FollowsShorter ==
  ASSUME NEW S, NEW q \in Seq(S), q # << >>, NEW s, NEW types, NEW i \in Nat, Follows(q, s, types, i),
         i > 0 \/ ~Of(Head(q), s, types)
  PROVE  Follows(Tail(q), s, types, IF i = 0 THEN 0 ELSE i - 1)
  <1>1. PICK k \in DOMAIN q : k > i /\ Of(q[k], s, types)
    BY DEF Follows
  <1>2. k # 1
    BY <1>1, Taken
  <1>3. k \in Nat /\ k > 1 /\ k - 1 \in DOMAIN Tail(q) /\ Tail(q)[k - 1] = q[k]
    BY <1>2, Taken
  <1>4. k - 1 > (IF i = 0 THEN 0 ELSE i - 1)
    BY <1>1, <1>3
  <1> QED BY <1>1, <1>3, <1>4 DEF Follows

(* HQ's session keeps resting while nothing that stirs is sent, comes to   *)
(* rest with what calms it, and rests on when HQ has read one message.     *)
LEMMA RestsLonger ==
  ASSUME NEW S, NEW q \in Seq(S), NEW r \in Seq(S), NEW s, NEW v, Rests(q, s, v),
         \A i \in DOMAIN r : ~Of(r[i], s, Stirring)
  PROVE  Rests(q \o r, s, v)
  <1>1. AtWork(v) => Follows(q \o r, s, Calming, 0)
    BY FollowsLonger DEF Rests
  <1>2. ASSUME NEW i \in DOMAIN (q \o r), Of((q \o r)[i], s, Stirring)
        PROVE  Follows(q \o r, s, Calming, i)
    <2>1. i \in DOMAIN q /\ (q \o r)[i] = q[i]
      BY <1>2, Joined
    <2>2. Follows(q, s, Calming, i)
      BY <1>2, <2>1 DEF Rests
    <2> QED BY <2>2, FollowsLonger
  <1> QED BY <1>1, <1>2 DEF Rests

LEMMA RestsLast ==
  ASSUME NEW S, NEW q \in Seq(S), NEW r \in Seq(S), NEW s, NEW v, EndsWith(r, s, Calming)
  PROVE  Rests(q \o r, s, v)
  <1>1. 0 < Len(q) + Len(r)
    BY DEF EndsWith
  <1>2. Follows(q \o r, s, Calming, 0)
    BY <1>1, FollowsLast
  <1>3. ASSUME NEW i \in DOMAIN (q \o r), Of((q \o r)[i], s, Stirring)
        PROVE  Follows(q \o r, s, Calming, i)
    <2>1. (q \o r)[Len(q) + Len(r)] = r[Len(r)]
      BY Joined DEF EndsWith
    <2>2. i # Len(q) + Len(r)
      BY <1>3, <2>1 DEF EndsWith, Of, Stirring, Calming
    <2>3. i \in Nat /\ i < Len(q) + Len(r)
      BY <2>2
    <2> QED BY <2>3, FollowsLast
  <1> QED BY <1>2, <1>3 DEF Rests

LEMMA RestsShorter ==
  ASSUME NEW S, NEW q \in Seq(S), q # << >>, NEW s, NEW v, NEW w, Rests(q, s, v),
         Of(Head(q), s, Calming) => ~AtWork(w),
         AtWork(w) /\ ~Of(Head(q), s, Stirring) => AtWork(v)
  PROVE  Rests(Tail(q), s, w)
  <1>1. ASSUME AtWork(w) PROVE Follows(Tail(q), s, Calming, 0)
    <2>1. CASE Of(Head(q), s, Stirring)
      <3>1. 1 \in DOMAIN q /\ Head(q) = q[1]
        BY Taken
      <3>2. Follows(q, s, Calming, 1)
        BY <2>1, <3>1 DEF Rests
      <3>3. Follows(Tail(q), s, Calming, IF 1 = 0 THEN 0 ELSE 1 - 1)
        BY <3>2, FollowsShorter
      <3> QED BY <3>3
    <2>2. CASE ~Of(Head(q), s, Stirring)
      <3>1. Follows(q, s, Calming, 0) /\ ~Of(Head(q), s, Calming)
        BY <1>1, <2>2 DEF Rests
      <3> QED BY <3>1, FollowsShorter
    <2> QED BY <2>1, <2>2
  <1>2. ASSUME NEW i \in DOMAIN Tail(q), Of(Tail(q)[i], s, Stirring)
        PROVE  Follows(Tail(q), s, Calming, i)
    <2>1. i \in Nat /\ i + 1 \in DOMAIN q /\ Tail(q)[i] = q[i + 1]
      BY Taken
    <2>2. Follows(q, s, Calming, i + 1)
      BY <1>2, <2>1 DEF Rests
    <2>3. Follows(Tail(q), s, Calming, IF i + 1 = 0 THEN 0 ELSE (i + 1) - 1)
      BY <2>1, <2>2, FollowsShorter
    <2>4. (IF i + 1 = 0 THEN 0 ELSE (i + 1) - 1) = i
      BY <2>1
    <2> QED BY <2>3, <2>4
  <1> QED BY <1>1, <1>2 DEF Rests

(* The same of a session that does not wait for e.                         *)
LEMMA ClearedLonger ==
  ASSUME NEW S, NEW q \in Seq(S), NEW r \in Seq(S), NEW s, NEW e, NEW v, Cleared(q, s, e, v),
         \A i \in DOMAIN r : ~Asks(r[i], s, e)
  PROVE  Cleared(q \o r, s, e, v)
  <1>1. v # None /\ v.waiting = e => Follows(q \o r, s, Clearing, 0)
    BY FollowsLonger DEF Cleared
  <1>2. ASSUME NEW i \in DOMAIN (q \o r), Asks((q \o r)[i], s, e)
        PROVE  Follows(q \o r, s, Clearing, i)
    <2>1. i \in DOMAIN q /\ (q \o r)[i] = q[i]
      BY <1>2, Joined
    <2>2. Follows(q, s, Clearing, i)
      BY <1>2, <2>1 DEF Cleared
    <2> QED BY <2>2, FollowsLonger
  <1> QED BY <1>1, <1>2 DEF Cleared

LEMMA ClearedLast ==
  ASSUME NEW S, NEW q \in Seq(S), NEW r \in Seq(S), NEW s, NEW e, NEW v, EndsWith(r, s, Clearing)
  PROVE  Cleared(q \o r, s, e, v)
  <1>1. 0 < Len(q) + Len(r)
    BY DEF EndsWith
  <1>2. Follows(q \o r, s, Clearing, 0)
    BY <1>1, FollowsLast
  <1>3. ASSUME NEW i \in DOMAIN (q \o r), Asks((q \o r)[i], s, e)
        PROVE  Follows(q \o r, s, Clearing, i)
    <2>1. (q \o r)[Len(q) + Len(r)] = r[Len(r)]
      BY Joined DEF EndsWith
    <2>2. i # Len(q) + Len(r)
      BY <1>3, <2>1 DEF EndsWith, Of, Asks, Clearing
    <2>3. i \in Nat /\ i < Len(q) + Len(r)
      BY <2>2
    <2> QED BY <2>3, FollowsLast
  <1> QED BY <1>2, <1>3 DEF Cleared

LEMMA ClearedShorter ==
  ASSUME NEW S, NEW q \in Seq(S), q # << >>, NEW s, NEW e, NEW v, NEW w, Cleared(q, s, e, v),
         Of(Head(q), s, Clearing) => ~(w # None /\ w.waiting = e),
         w # None /\ w.waiting = e /\ ~Asks(Head(q), s, e) => v # None /\ v.waiting = e
  PROVE  Cleared(Tail(q), s, e, w)
  <1>1. ASSUME w # None /\ w.waiting = e PROVE Follows(Tail(q), s, Clearing, 0)
    <2>1. CASE Asks(Head(q), s, e)
      <3>1. 1 \in DOMAIN q /\ Head(q) = q[1]
        BY Taken
      <3>2. Follows(q, s, Clearing, 1)
        BY <2>1, <3>1 DEF Cleared
      <3>3. Follows(Tail(q), s, Clearing, IF 1 = 0 THEN 0 ELSE 1 - 1)
        BY <3>2, FollowsShorter
      <3> QED BY <3>3
    <2>2. CASE ~Asks(Head(q), s, e)
      <3>1. Follows(q, s, Clearing, 0) /\ ~Of(Head(q), s, Clearing)
        BY <1>1, <2>2 DEF Cleared
      <3> QED BY <3>1, FollowsShorter
    <2> QED BY <2>1, <2>2
  <1>2. ASSUME NEW i \in DOMAIN Tail(q), Asks(Tail(q)[i], s, e)
        PROVE  Follows(Tail(q), s, Clearing, i)
    <2>1. i \in Nat /\ i + 1 \in DOMAIN q /\ Tail(q)[i] = q[i + 1]
      BY Taken
    <2>2. Follows(q, s, Clearing, i + 1)
      BY <1>2, <2>1 DEF Cleared
    <2>3. Follows(Tail(q), s, Clearing, IF i + 1 = 0 THEN 0 ELSE (i + 1) - 1)
      BY <2>1, <2>2, FollowsShorter
    <2>4. (IF i + 1 = 0 THEN 0 ELSE (i + 1) - 1) = i
      BY <2>1
    <2> QED BY <2>3, <2>4
  <1> QED BY <1>1, <1>2 DEF Cleared

-----------------------------------------------------------------------------
(* What steps of the daemon say. *)

(* What it sends of a session leaves the session at work only while the    *)
(* daemon is; the same of waiting.                                         *)
WorkTold(r) ==
  \A s \in Session :
    Busy(s) \/ (\E i \in DOMAIN r : Of(r[i], s, Stirring)) => Busy(s)' \/ EndsWith(r, s, Calming)
WaitTold(r) ==
  \A s \in Session, e \in Elicit :
    Held(s, e) \/ (\E i \in DOMAIN r : Asks(r[i], s, e)) => Held(s, e)' \/ EndsWith(r, s, Clearing)

LEMMA WorkSpeech ==
  ASSUME QueueTypes, WorkInv, NEW r \in Seq(Messages), SendAll(r), UNCHANGED <<link, shown, replaced>>,
         WorkTold(r)
  PROVE  WorkInv'
  <1> SUFFICES ASSUME link = "up", ~replaced, NEW s \in Session PROVE Busy(s)' \/ Rests(up', s, shown[s])
    BY DEF WorkInv
  <1>1. up \in Seq(Messages) /\ up' = up \o r
    BY DEF QueueTypes, SendAll
  <1>2. CASE Busy(s) \/ (\E i \in DOMAIN r : Of(r[i], s, Stirring))
    <2>1. Busy(s)' \/ EndsWith(r, s, Calming)
      BY <1>2 DEF WorkTold
    <2> QED BY <2>1, <1>1, RestsLast
  <1>3. CASE ~(Busy(s) \/ (\E i \in DOMAIN r : Of(r[i], s, Stirring)))
    <2>1. Rests(up, s, shown[s])
      BY <1>3 DEF WorkInv
    <2>2. \A i \in DOMAIN r : ~Of(r[i], s, Stirring)
      BY <1>3
    <2> QED BY <2>1, <2>2, <1>1, RestsLonger
  <1> QED BY <1>2, <1>3

LEMMA WaitSpeech ==
  ASSUME QueueTypes, WaitInv, NEW r \in Seq(Messages), SendAll(r), UNCHANGED <<link, shown, replaced>>,
         WaitTold(r)
  PROVE  WaitInv'
  <1> SUFFICES ASSUME link = "up", ~replaced, NEW s \in Session, NEW e \in Elicit
               PROVE  Held(s, e)' \/ Cleared(up', s, e, shown[s])
    BY DEF WaitInv
  <1>1. up \in Seq(Messages) /\ up' = up \o r
    BY DEF QueueTypes, SendAll
  <1>2. CASE Held(s, e) \/ (\E i \in DOMAIN r : Asks(r[i], s, e))
    <2>1. Held(s, e)' \/ EndsWith(r, s, Clearing)
      BY <1>2 DEF WaitTold
    <2> QED BY <2>1, <1>1, ClearedLast
  <1>3. CASE ~(Held(s, e) \/ (\E i \in DOMAIN r : Asks(r[i], s, e)))
    <2>1. Cleared(up, s, e, shown[s])
      BY <1>3 DEF WaitInv
    <2>2. \A i \in DOMAIN r : ~Asks(r[i], s, e)
      BY <1>3
    <2> QED BY <2>1, <2>2, <1>1, ClearedLonger
  <1> QED BY <1>2, <1>3

(* Questions that were asked before, and answers to them.                  *)
OldQuestions ==
  /\ \A i \in DOMAIN up' : up'[i].kind = "question" => \E k \in DOMAIN up : up[k] = up'[i]
  /\ \A i \in DOMAIN down' : down'[i].op = "reply" => \E k \in DOMAIN down : down[k] = down'[i]

LEMMA QuestionsKept ==
  ASSUME QuestionInv, OldQuestions, asked \subseteq asked',
         \A e \in Elicit : questions'[e] = questions[e] /\ relayed'[e] \in {relayed[e], None}
  PROVE  QuestionInv'
  <1>1. ASSUME NEW e \in Elicit, NEW s \in Session, QuestionOf(e, s)' PROVE QuestionOf(e, s)
    <2>1. CASE questions'[e] = s
      BY <2>1 DEF QuestionOf
    <2>2. ASSUME NEW i \in DOMAIN up', up'[i].kind = "question", up'[i].arg = e, up'[i].s = s
          PROVE  QuestionOf(e, s)
      BY <2>2 DEF OldQuestions, QuestionOf
    <2>3. ASSUME NEW i \in DOMAIN down', down'[i].op = "reply", down'[i].arg = e, down'[i].s = s
          PROVE  QuestionOf(e, s)
      BY <2>3 DEF OldQuestions, QuestionOf
    <2> QED BY <1>1, <2>1, <2>2, <2>3 DEF QuestionOf
  <1>2. ASSUME NEW e \in Elicit
        PROVE  /\ relayed'[e] # None => e \in asked'
               /\ \A s \in Session : QuestionOf(e, s)' => e \in asked' /\ relayed'[e] \in {None, s}
    BY <1>1 DEF QuestionInv
  <1> QED BY <1>2 DEF QuestionInv

(* What is sent and read, of the queues.                                   *)
LEMMA QuestionsSent ==
  ASSUME QueueTypes, NEW r \in Seq(Messages), SendAll(r), \A i \in DOMAIN r : r[i].kind # "question",
         down' = down \/ (link = "up" /\ down # << >> /\ down' = Tail(down))
  PROVE  OldQuestions
  <1>1. ASSUME NEW i \in DOMAIN up', up'[i].kind = "question" PROVE \E k \in DOMAIN up : up[k] = up'[i]
    <2>1. CASE up' = up
      BY <1>1, <2>1
    <2>2. CASE up' = up \o r
      <3>1. up \in Seq(Messages)
        BY DEF QueueTypes
      <3>2. \/ i \in DOMAIN up /\ up'[i] = up[i]
            \/ \E k \in DOMAIN r : up'[i] = r[k]
        BY <1>1, <2>2, <3>1, Joined
      <3> QED BY <1>1, <3>2
    <2> QED BY <2>1, <2>2 DEF SendAll
  <1>2. ASSUME NEW i \in DOMAIN down' PROVE \E k \in DOMAIN down : down[k] = down'[i]
    <2>1. CASE down' = down
      BY <1>2, <2>1
    <2>2. CASE down # << >> /\ down' = Tail(down)
      <3>1. down \in Seq(Commands)
        BY DEF QueueTypes
      <3> QED BY <1>2, <2>2, <3>1, Taken
    <2> QED BY <2>1, <2>2
  <1> QED BY <1>1, <1>2 DEF OldQuestions

(* A step that neither stirs a session nor takes from it what HQ shows.    *)
Plain(r) ==
  \A i \in DOMAIN r :
    /\ r[i].kind # "question"
    /\ \A s \in Session : ~Of(r[i], s, Stirring) /\ \A e \in Elicit : ~Asks(r[i], s, e)
Lasting(j) == (j.op = "delete" /\ j.phase = "delete") \/ (j.op = "reply" /\ j.phase = "sdk")
Hears == down' = down \/ (link = "up" /\ down # << >> /\ down' = Tail(down))
Speaks == \E r \in Seq(Messages) : Plain(r) /\ SendAll(r)
PlainStep ==
  /\ Speaks /\ Hears
  /\ UNCHANGED <<link, shown, replaced, questions, turn, relayed, asked>>
  /\ tracked \subseteq tracked'
  /\ \A j \in jobs : Lasting(j) => j \in jobs'

LEMMA PlainKeeps ==
  ASSUME QueueTypes, LostInv, WorkInv, WaitInv, QuestionInv, PlainStep
  PROVE  LostInv' /\ WorkInv' /\ WaitInv' /\ QuestionInv'
  <1>1. PICK r \in Seq(Messages) : Plain(r) /\ SendAll(r)
    BY DEF PlainStep, Speaks
  <1>2. \A s \in Session : Ending(s) => Ending(s)'
    BY DEF PlainStep, Lasting, Ending
  <1>3. \A s \in Session : Replying(s) => Replying(s)'
    BY DEF PlainStep, Lasting, Replying
  <1>4. \A s \in Session : Busy(s) => Busy(s)'
    BY <1>2, <1>3 DEF PlainStep, Busy
  <1>5. \A s \in Session, e \in Elicit : Held(s, e) => Held(s, e)'
    BY <1>2 DEF PlainStep, Held
  <1>6. WorkTold(r) /\ WaitTold(r)
    BY <1>1, <1>4, <1>5 DEF Plain, WorkTold, WaitTold
  <1>7. WorkInv' /\ WaitInv'
    BY <1>1, <1>6, WorkSpeech, WaitSpeech DEF PlainStep
  <1>8. QuestionInv'
    <2>1. OldQuestions
      BY <1>1, QuestionsSent DEF PlainStep, Hears, Plain
    <2> QED BY <2>1, QuestionsKept DEF PlainStep
  <1>9. LostInv'
    BY <1>1 DEF LostInv, PlainStep, Hears, SendAll
  <1> QED BY <1>7, <1>8, <1>9

-----------------------------------------------------------------------------
(* Messages and what is made of them. *)

LEMMA EventIs ==
  ASSUME NEW s \in Session \cup {None, Unknown}, NEW type \in EventTypes, NEW arg \in Arg,
         type = "elicitation.requested" => s \in Session /\ arg \in Elicit
  PROVE  Event(s, type, arg) \in Messages
BY DEF Event, Messages

LEMMA AnswerIs == ASSUME NEW req \in Arg PROVE Answer(req) \in Messages
BY DEF Answer, Messages

LEMMA QuestionIs ==
  ASSUME NEW s \in Session, NEW e \in Elicit
  PROVE  Question(s, e) \in Messages
BY DEF Question, Messages, Arg

LEMMA CommandIs ==
  ASSUME NEW op \in Ops, NEW s \in Session \cup {None}, NEW arg \in Arg,
         op = "delete" => s \in Session, op = "reply" => s \in Session /\ arg \in Elicit
  PROVE  Command(op, s, arg) \in Commands
BY DEF Command, Commands

(* One message, or one from each of n handlers.                            *)
LEMMA OneMessage ==
  ASSUME NEW S, NEW m \in S
  PROVE  /\ <<m>> \in Seq(S) /\ Len(<<m>>) = 1 /\ <<m>> # << >> /\ <<m>>[1] = m
         /\ \A i \in DOMAIN <<m>> : <<m>>[i] = m
OBVIOUS

LEMMA TimesIs ==
  ASSUME NEW S, NEW m \in S, NEW n \in Nat
  PROVE  /\ Times(n, m) \in Seq(S) /\ Len(Times(n, m)) = n
         /\ \A i \in DOMAIN Times(n, m) : Times(n, m)[i] = m
         /\ n = 0 => DOMAIN Times(n, m) = {}
         /\ n > 0 => Times(n, m) # << >> /\ n \in DOMAIN Times(n, m) /\ Times(n, m)[n] = m
  <1>1. Times(n, m) \in [1 .. n -> S]
    BY DEF Times
  <1>2. Times(n, m) \in Seq(S) /\ Len(Times(n, m)) = n
    BY <1>1
  <1>3. \A i \in DOMAIN Times(n, m) : Times(n, m)[i] = m
    BY DEF Times
  <1> QED BY <1>1, <1>2, <1>3

LEMMA SentIs ==
  ASSUME QueueTypes, NEW r \in Seq(Messages), SendAll(r)
  PROVE  up' \in Seq(Messages)
  BY Joined DEF QueueTypes, SendAll

LEMMA Silent ==
  ASSUME QueueTypes, up' = up
  PROVE  Speaks
  <1>1. << >> \in Seq(Messages) /\ Plain(<< >>)
    BY DEF Plain
  <1>2. SendAll(<< >>)
    BY DEF SendAll, QueueTypes
  <1> QED BY <1>1, <1>2 DEF Speaks

LEMMA SpeaksOne ==
  ASSUME NEW m \in Messages, SendAll(<<m>>), m.kind # "question",
         m.kind = "event" => m.type \notin Stirring \cup {"elicitation.requested"}
  PROVE  Speaks
  <1>1. <<m>> \in Seq(Messages) /\ \A i \in DOMAIN <<m>> : <<m>>[i] = m
    BY OneMessage
  <1>2. Plain(<<m>>)
    BY <1>1 DEF Plain, Of, Asks
  <1> QED BY <1>1, <1>2 DEF Speaks

LEMMA SpeaksTypes == ASSUME QueueTypes, Speaks PROVE up' \in Seq(Messages)
  BY SentIs DEF Speaks

(* Nothing but the queues, the handlers and the counters moves.            *)
LEMMA OthersKept ==
  ASSUME SessionTypes, up' \in Seq(Messages), down' \in Seq(Commands), jobs' \subseteq Job,
         UNCHANGED <<link, sdkVars, sdkStarted, loads, deletedIds, relayed, aggVars>>,
         CountInv', commands' \in 0 .. MaxCommands
  PROVE  SessionTypes'
  <1>1. QueueTypes'
    BY DEF QueueTypes, SessionTypes
  <1>2. SdkTypes'
    BY DEF SdkTypes, SessionTypes, sdkVars
  <1>3. AggTypeOK'
    BY DEF AggTypeOK, SessionTypes, aggVars
  <1> QED BY <1>1, <1>2, <1>3 DEF SessionTypes

(* What leaves the counters alone keeps what is said of them.              *)
LEMMA CountsKept ==
  ASSUME CountInv, commands \in 0 .. MaxCommands, UNCHANGED <<starting, polling, lifecycle, pollTimers, link, commands>>
  PROVE  CountInv' /\ commands' \in 0 .. MaxCommands
  BY DEF CountInv

-----------------------------------------------------------------------------
(* The steps of the daemon that are plain. *)

LEMMA StartSteps ==
  ASSUME SessionTypes, (\E ok \in BOOLEAN : ClientStarted(ok)) \/ FirstPolled, UNCHANGED aggVars
  PROVE  SessionTypes' /\ PlainStep
  <1>1. CASE \E ok \in BOOLEAN : ClientStarted(ok)
    <2>1. PICK ok \in BOOLEAN : ClientStarted(ok)
      BY <1>1
    <2>2. Speaks
      BY <2>1, Silent DEF ClientStarted, linkVars, SessionTypes
    <2>3. CountInv'
      BY <2>1 DEF ClientStarted, CountInv, linkVars, SessionTypes
    <2>4. sdkStarted' \in BOOLEAN
      BY <2>1 DEF ClientStarted, SessionTypes, SdkTypes
    <2>5. SessionTypes'
      BY <2>1, <2>3, <2>4 DEF ClientStarted, SessionTypes, SdkTypes, QueueTypes, AggTypeOK,
                              linkVars, sdkVars, aggVars
    <2>6. PlainStep
      BY <2>1, <2>2 DEF ClientStarted, PlainStep, Hears, linkVars, sdkVars, trackVars, aggVars
    <2> QED BY <2>5, <2>6
  <1>2. CASE FirstPolled
    <2>1. Speaks
      BY <1>2, Silent DEF FirstPolled, linkVars, SessionTypes
    <2>2. CountInv'
      BY <1>2 DEF FirstPolled, CountInv, linkVars, SessionTypes
    <2>3. SessionTypes'
      BY <1>2, <2>2 DEF FirstPolled, SessionTypes, SdkTypes, QueueTypes, AggTypeOK,
                              linkVars, sdkVars, aggVars
    <2>4. PlainStep
      BY <1>2, <2>1 DEF FirstPolled, PlainStep, Hears, linkVars, sdkVars, trackVars, aggVars
    <2> QED BY <2>3, <2>4
  <1> QED BY <1>1, <1>2

LEMMA CoordinatorCallSteps ==
  ASSUME SessionTypes, NEW s \in registry \cup {None}, CoordinatorCalls(s), UNCHANGED aggVars
  PROVE  SessionTypes' /\ PlainStep
  <1>1. Speaks
    BY Silent DEF CoordinatorCalls, linkVars, SessionTypes
  <1>2. jobs' \subseteq Job
    <2>1. s \in Session \cup {None}
      BY DEF SessionTypes, SdkTypes
    <2>2. [op |-> "coordinator", s |-> s, arg |-> None, phase |-> IF s = None THEN "create" ELSE "sdk"] \in Job
      BY <2>1 DEF Job, Arg
    <2> QED BY <2>2 DEF CoordinatorCalls, NewJob, SessionTypes, QueueTypes
  <1>3. CountInv' /\ commands' \in 0 .. MaxCommands
    BY ManagerAssumption DEF CoordinatorCalls, CountInv, SessionTypes, linkVars, startVars
  <1>4. SessionTypes'
    BY <1>2, <1>3, OthersKept DEF CoordinatorCalls, linkVars, startVars, SessionTypes, QueueTypes
  <1>5. PlainStep
    BY <1>1 DEF CoordinatorCalls, NewJob, PlainStep, Hears, linkVars, sdkVars, trackVars, aggVars
  <1> QED BY <1>4, <1>5

(* Handlers that wait for a load go on or are told of its failure; no      *)
(* lasting one waits.                                                      *)
LEMMA LoadEnded ==
  ASSUME QueueTypes, NEW s \in Session, NEW phase \in {"sdk", "lacks"}, LoadEnds(s, phase)
  PROVE  jobs' \subseteq Job /\ (\A j \in jobs : Lasting(j) => j \in jobs')
  <1>1. ASSUME NEW j \in jobs PROVE (IF j.s = s /\ j.phase = "wait" THEN [j EXCEPT !.phase = phase] ELSE j) \in Job
    <2>1. j \in Job
      BY DEF QueueTypes
    <2> QED BY <2>1 DEF Job
  <1>2. ASSUME NEW j \in jobs, Lasting(j)
        PROVE  (IF j.s = s /\ j.phase = "wait" THEN [j EXCEPT !.phase = phase] ELSE j) = j
    BY <1>2 DEF Lasting
  <1> QED BY <1>1, <1>2 DEF LoadEnds

LEMMA LoadSteps ==
  ASSUME SessionTypes, ListenerInv, NEW s \in Session, LookupFinds(s) \/ LoadSucceeds(s) \/ (LoadFails(s) /\ ~Crash),
         UNCHANGED aggVars
  PROVE  SessionTypes' /\ PlainStep
  <1>1. CASE LookupFinds(s)
    <2>1. Speaks
      BY <1>1, Silent DEF LookupFinds, linkVars, SessionTypes
    <2>2. CountInv' /\ commands' \in 0 .. MaxCommands
      BY <1>1, CountsKept DEF LookupFinds, linkVars, startVars, SessionTypes
    <2>3. loads' \in [Session -> {"none", "lookup", "attach", "resume"}]
      BY <1>1 DEF LookupFinds, SessionTypes, SdkTypes
    <2>4. SessionTypes'
      BY <1>1, <2>2, <2>3 DEF LookupFinds, SessionTypes, SdkTypes, QueueTypes, AggTypeOK,
                              linkVars, startVars, sdkVars, aggVars
    <2>5. PlainStep
      BY <1>1, <2>1 DEF LookupFinds, PlainStep, Hears, linkVars, sdkVars, trackVars, aggVars
    <2> QED BY <2>4, <2>5
  <1>2. ASSUME LoadEnds(s, "sdk") \/ LoadEnds(s, "lacks"), tracked \subseteq tracked',
               UNCHANGED <<linkVars, startVars, sdkVars, deletedIds, relayed, commands>>
        PROVE  SessionTypes' /\ PlainStep
    <2>1. Speaks
      BY <1>2, Silent DEF linkVars, SessionTypes
    <2>2. jobs' \subseteq Job /\ (\A j \in jobs : Lasting(j) => j \in jobs')
      BY <1>2, LoadEnded DEF SessionTypes
    <2>3. CountInv' /\ commands' \in 0 .. MaxCommands
      BY <1>2, CountsKept DEF linkVars, startVars, SessionTypes
    <2>4. loads' \in [Session -> {"none", "lookup", "attach", "resume"}]
      BY <1>2 DEF LoadEnds, SessionTypes, SdkTypes
    <2>5. SessionTypes'
      BY <1>2, <2>2, <2>3, <2>4 DEF SessionTypes, SdkTypes, QueueTypes, AggTypeOK,
                              linkVars, startVars, sdkVars, aggVars
    <2>6. PlainStep
      BY <1>2, <2>1, <2>2 DEF PlainStep, Hears, linkVars, sdkVars, aggVars
    <2> QED BY <2>5, <2>6
  <1>3. CASE LoadSucceeds(s)
    BY <1>2, <1>3 DEF LoadSucceeds, Track
  <1>4. CASE LoadFails(s) /\ ~Crash
    BY <1>2, <1>4 DEF LoadFails, trackVars
  <1> QED BY <1>1, <1>3, <1>4

-----------------------------------------------------------------------------
(* Commands. *)

(* A handler of one more kind, of a session or of none.                    *)
LEMMA JobIs ==
  ASSUME NEW op \in Ops, NEW s \in Session \cup {None}, NEW arg \in Arg,
         NEW phase \in {"create", "select", "wait", "lacks", "sdk", "disconnect", "delete"}
  PROVE  [op |-> op, s |-> s, arg |-> arg, phase |-> phase] \in Job
BY DEF Job

LEMMA PlainCommands ==
  ASSUME SessionTypes, HandleMessage, UNCHANGED aggVars, Head(down).op # "reply"
  PROVE  SessionTypes' /\ PlainStep
  <1> DEFINE m == Head(down)
  <1>1. /\ link = "up" /\ down # << >> /\ down' = Tail(down)
        /\ UNCHANGED <<link, startVars, sdkVars, trackVars, commands>>
    BY DEF HandleMessage
  <1>2. m \in Commands /\ down' \in Seq(Commands)
    BY <1>1, Taken DEF SessionTypes, QueueTypes
  <1>3. m.op \in Ops /\ m.s \in Session \cup {None} /\ m.arg \in Arg /\ None \in Arg /\ (m.op = "delete" => m.s \in Session)
    BY <1>2 DEF Commands, Arg
  <1>4. CountInv' /\ commands' \in 0 .. MaxCommands
    BY <1>1, CountsKept DEF startVars, SessionTypes
  <1>5. \/ m.op \in Needing \cup {"resume"} /\ Attach(m)
        \/ HandleAbort(m) \/ HandleDisconnect(m) \/ (m.op = "delete" /\ HandleDelete(m))
        \/ HandleCreate(m) \/ HandleList(m)
    BY DEF HandleMessage
  <1>6. up' = up /\ relayed' = relayed /\ jobs \subseteq jobs'
    BY <1>5 DEF Attach, HandleAbort, HandleDisconnect, HandleDelete, HandleCreate, HandleList, NewJob
  <1>7. jobs' \subseteq Job
    <2>1. jobs \subseteq Job
      BY DEF SessionTypes, QueueTypes
    <2>2. CASE m.op \in Needing \cup {"resume"} /\ Attach(m)
      <3>1. [op |-> m.op, s |-> m.s, arg |-> m.arg, phase |-> IF m.s \in tracked THEN "sdk" ELSE "wait"] \in Job
        BY <1>3, JobIs
      <3> QED BY <2>1, <2>2, <3>1 DEF Attach, NewJob
    <2>3. CASE HandleAbort(m)
      <3>1. [op |-> "abort", s |-> m.s, arg |-> None, phase |-> "sdk"] \in Job
        BY <1>3, JobIs DEF Ops
      <3> QED BY <2>1, <2>3, <3>1 DEF HandleAbort
    <2>4. CASE HandleDisconnect(m)
      <3>1. [op |-> "disconnect", s |-> m.s, arg |-> None, phase |-> "disconnect"] \in Job
        BY <1>3, JobIs DEF Ops
      <3> QED BY <2>1, <2>4, <3>1 DEF HandleDisconnect
    <2>5. CASE HandleDelete(m)
      <3>1. [op |-> "delete", s |-> m.s, arg |-> None, phase |-> IF m.s \in tracked THEN "disconnect" ELSE "delete"] \in Job
        BY <1>3, JobIs DEF Ops
      <3> QED BY <2>1, <2>5, <3>1 DEF HandleDelete, NewJob
    <2>6. CASE HandleCreate(m)
      <3>1. [op |-> "create", s |-> None, arg |-> m.arg, phase |-> "create"] \in Job
        BY <1>3, JobIs DEF Ops
      <3> QED BY <2>1, <2>6, <3>1 DEF HandleCreate, NewJob
    <2>7. CASE HandleList(m)
      <3>1. [op |-> "list", s |-> None, arg |-> m.arg, phase |-> "sdk"] \in Job
        BY <1>3, JobIs DEF Ops
      <3> QED BY <2>1, <2>7, <3>1 DEF HandleList, NewJob
    <2> QED BY <1>5, <2>2, <2>3, <2>4, <2>5, <2>6, <2>7
  <1>8. loads' \in [Session -> {"none", "lookup", "attach", "resume"}]
    BY <1>5 DEF Attach, HandleAbort, HandleDisconnect, HandleDelete, HandleCreate, HandleList, SessionTypes, SdkTypes
  <1>9. deletedIds' \subseteq Session
    BY <1>3, <1>5 DEF Attach, HandleAbort, HandleDisconnect, HandleDelete, HandleCreate, HandleList, SessionTypes, SdkTypes
  <1>10. SessionTypes'
    BY <1>1, <1>2, <1>4, <1>6, <1>7, <1>8, <1>9
       DEF SessionTypes, SdkTypes, QueueTypes, AggTypeOK, startVars, sdkVars, aggVars
  <1>11. PlainStep
    <2>1. Speaks
      BY <1>6, Silent DEF SessionTypes
    <2> QED BY <1>1, <1>6, <2>1 DEF PlainStep, Hears, sdkVars, trackVars, aggVars
  <1> QED BY <1>10, <1>11

(* An answer to a question: the session's only question is answered, and   *)
(* the daemon goes on with it or had forgotten it.                         *)
LEMMA ReplySteps ==
  ASSUME SessionTypes, LostInv, WorkInv, WaitInv, QuestionInv, HandleMessage, UNCHANGED aggVars, Head(down).op = "reply"
  PROVE  SessionTypes' /\ LostInv' /\ WorkInv' /\ WaitInv' /\ QuestionInv'
  <1> DEFINE m == Head(down)
             live == relayed[m.arg] # None /\ m.s \in tracked
             r == IF live THEN <<Event(m.s, "elicitation.completed", m.arg)>> ELSE << >>
  <1>1. /\ link = "up" /\ down # << >> /\ down' = Tail(down)
        /\ UNCHANGED <<link, startVars, sdkVars, trackVars, commands, loads, deletedIds>>
        /\ HandleReply(m)
    BY DEF HandleMessage, HandleReply, Needing
  <1>2. m \in Commands /\ down' \in Seq(Commands) /\ 1 \in DOMAIN down /\ m = down[1]
    BY <1>1, Taken DEF SessionTypes, QueueTypes
  <1>3. m.s \in Session /\ m.arg \in Elicit /\ None \in Arg
    BY <1>2 DEF Commands, Arg
  <1>4. QueueTypes /\ up \in Seq(Messages)
    BY DEF SessionTypes, QueueTypes
  <1>5. Event(m.s, "elicitation.completed", m.arg) \in Messages
    BY <1>3, EventIs DEF EventTypes, Arg
  <1>6. r \in Seq(Messages) /\ SendAll(r)
    <2>1. CASE live
      BY <1>1, <1>5, <2>1, OneMessage DEF HandleReply, SendToHq
    <2>2. CASE ~live
      BY <1>1, <1>4, <2>2 DEF HandleReply, SendAll
    <2> QED BY <2>1, <2>2
  <1>7. \A i \in DOMAIN r : live /\ r[i] = Event(m.s, "elicitation.completed", m.arg)
    BY <1>5, OneMessage
  <1>8. live => EndsWith(r, m.s, Clearing)
    BY <1>5, OneMessage DEF EndsWith, Of, Event, Clearing
  <1>9. jobs \subseteq jobs' /\ (live => [op |-> "reply", s |-> m.s, arg |-> None, phase |-> "sdk"] \in jobs')
    BY <1>1 DEF HandleReply, NewJob
  <1>10. relayed' = [relayed EXCEPT ![m.arg] = None]
    BY <1>1 DEF HandleReply
  <1>11. \A e \in Elicit : relayed'[e] = IF e = m.arg THEN None ELSE relayed[e]
    BY <1>3, <1>10 DEF SessionTypes, SdkTypes
  <1>12. QuestionOf(m.arg, m.s)
    BY <1>2 DEF QuestionOf
  <1>13. \A s \in Session : Ending(s) => Ending(s)'
    BY <1>9 DEF Ending
  <1>14. WorkTold(r)
    <2>1. ASSUME NEW s \in Session, Busy(s) PROVE Busy(s)'
      BY <1>1, <1>9, <2>1 DEF Busy, Ending, Replying, sdkVars, trackVars
    <2>2. ASSUME NEW s \in Session, NEW i \in DOMAIN r, Of(r[i], s, Stirring) PROVE Busy(s)'
      <3>1. live /\ s = m.s
        BY <1>7, <2>2 DEF Of, Event
      <3>2. Replying(s)'
        BY <1>9, <3>1 DEF Replying
      <3> QED BY <1>1, <3>1, <3>2 DEF Busy, trackVars
    <2> QED BY <2>1, <2>2 DEF WorkTold
  <1>15. WaitTold(r)
    <2>1. ASSUME NEW s \in Session, NEW e \in Elicit, Held(s, e) PROVE Held(s, e)' \/ EndsWith(r, s, Clearing)
      <3>1. CASE Ending(s) \/ e # m.arg
        BY <1>1, <1>11, <1>13, <2>1, <3>1 DEF Held, trackVars
      <3>2. CASE ~Ending(s) /\ e = m.arg
        <4>1. s \in tracked /\ relayed[e] = s
          BY <2>1, <3>2 DEF Held
        <4>2. relayed[e] \in {None, m.s}
          BY <1>3, <1>12, <3>2 DEF QuestionInv
        <4>3. s = m.s /\ live
          BY <3>2, <4>1, <4>2, ManagerAssumption
        <4> QED BY <1>8, <4>3
      <3> QED BY <3>1, <3>2
    <2>2. ASSUME NEW s \in Session, NEW e \in Elicit, NEW i \in DOMAIN r, Asks(r[i], s, e) PROVE FALSE
      BY <1>7, <2>2 DEF Asks, Of, Event
    <2> QED BY <2>1, <2>2 DEF WaitTold
  <1>16. WorkInv' /\ WaitInv'
    BY <1>1, <1>4, <1>6, <1>14, <1>15, WorkSpeech, WaitSpeech DEF aggVars
  <1>17. QuestionInv'
    <2>1. \A i \in DOMAIN r : r[i].kind # "question"
      BY <1>7 DEF Event
    <2>2. OldQuestions
      BY <1>1, <1>4, <1>6, <2>1, QuestionsSent
    <2> QED BY <1>1, <1>11, <2>2, QuestionsKept DEF aggVars, sdkVars
  <1>18. LostInv'
    BY <1>1 DEF LostInv
  <1>19. SessionTypes'
    <2>1. up' \in Seq(Messages)
      BY <1>4, <1>6, SentIs
    <2>2. jobs' \subseteq Job
      <3>1. [op |-> "reply", s |-> m.s, arg |-> None, phase |-> "sdk"] \in Job
        BY <1>3, JobIs DEF Ops
      <3> QED BY <1>1, <1>4, <3>1 DEF HandleReply, NewJob, QueueTypes
    <2>3. relayed' \in [Elicit -> Session \cup {None}]
      BY <1>10 DEF SessionTypes, SdkTypes
    <2>4. CountInv' /\ commands' \in 0 .. MaxCommands
      BY <1>1, CountsKept DEF startVars, SessionTypes
    <2> QED BY <1>1, <1>2, <2>1, <2>2, <2>3, <2>4
            DEF SessionTypes, SdkTypes, QueueTypes, AggTypeOK, startVars, sdkVars, aggVars
  <1> QED BY <1>16, <1>17, <1>18, <1>19

-----------------------------------------------------------------------------
(* The handlers that await the SDK, when it answers. *)

LEMMA AnyJob ==
  ASSUME SessionTypes, NEW j \in jobs
  PROVE  /\ j \in Job /\ j.op \in Ops \cup {"coordinator"} /\ j.s \in Session \cup {None} /\ j.arg \in Arg
         /\ None \in Arg
BY DEF SessionTypes, QueueTypes, Job, Arg

(* A handler that ends with nothing more to say of a turn or a deletion.   *)
LEMMA JobEnds ==
  ASSUME SessionTypes, NEW j \in jobs, ~Lasting(j), jobs' = jobs \ {j}, Speaks,
         UNCHANGED <<down, link, startVars, sdkVars, trackVars, loads, deletedIds, relayed, commands, aggVars>>
  PROVE  SessionTypes' /\ PlainStep
  <1>1. up' \in Seq(Messages)
    BY SpeaksTypes DEF SessionTypes
  <1>2. CountInv' /\ commands' \in 0 .. MaxCommands
    BY CountsKept DEF startVars, SessionTypes
  <1>3. SessionTypes'
    BY <1>1, <1>2, OthersKept DEF SessionTypes, QueueTypes, startVars
  <1>4. PlainStep
    BY DEF PlainStep, Hears, sdkVars, trackVars, aggVars
  <1> QED BY <1>3, <1>4

LEMMA LacksStep ==
  ASSUME SessionTypes, NEW j \in jobs, Lacks(j), UNCHANGED aggVars
  PROVE  SessionTypes' /\ PlainStep
  <1>1. j.s \in Session \cup {None} /\ j.arg \in Arg
    BY AnyJob
  <1>2. Speaks
    <2>1. CASE j.op \in {"prompt", "resume"}
      <3>1. Event(j.s, "session.error", j.arg) \in Messages
        BY <1>1, EventIs DEF EventTypes, SdkEvents
      <3>2. SendAll(<<Event(j.s, "session.error", j.arg)>>)
        BY <2>1 DEF Lacks
      <3> QED BY <3>1, <3>2, SpeaksOne DEF Event, Stirring
    <2>2. CASE j.op = "agent"
      <3>1. Answer(j.arg) \in Messages
        BY <1>1, AnswerIs
      <3>2. SendAll(<<Answer(j.arg)>>)
        BY <2>2 DEF Lacks
      <3> QED BY <3>1, <3>2, SpeaksOne DEF Answer
    <2>3. CASE j.op \notin {"prompt", "resume", "agent"}
      <3>1. SendAll(<< >>)
        BY <2>3 DEF Lacks
      <3>2. up' = up
        BY <3>1 DEF SendAll, SessionTypes, QueueTypes
      <3> QED BY <3>2, Silent DEF SessionTypes
    <2> QED BY <2>1, <2>2, <2>3
  <1>3. ~Lasting(j)
    BY DEF Lacks, Lasting
  <1> QED BY <1>2, <1>3, JobEnds DEF Lacks

LEMMA AnswerSteps ==
  ASSUME SessionTypes, NEW j \in jobs, UNCHANGED aggVars,
         \/ ResumeSucceeds(j) \/ ResumeFails(j) \/ AgentAnswered(j) \/ QueryAnswered(j) \/ Listed(j)
         \/ ListFails(j) \/ SetterSucceeds(j) \/ AbortSucceeds(j)
  PROVE  SessionTypes' /\ PlainStep
  <1>1. j.s \in Session \cup {None} /\ j.arg \in Arg
    BY AnyJob
  <1>2. ~Lasting(j)
    BY DEF Lasting, ResumeSucceeds, ResumeFails, AgentAnswered, QueryAnswered, Listed, ListFails,
           SetterSucceeds, AbortSucceeds, Answers, Sdk
  <1>3. \E msgs : Answers(j, msgs)
    BY DEF ResumeSucceeds, ResumeFails, AgentAnswered, QueryAnswered, Listed, ListFails,
           SetterSucceeds, AbortSucceeds
  <1>4. Speaks
    <2>1. ASSUME NEW type \in {"session.start", "session.error"}, SendAll(<<Event(j.s, type, j.arg)>>)
          PROVE  Speaks
      <3>1. Event(j.s, type, j.arg) \in Messages
        BY <1>1, EventIs DEF EventTypes, SdkEvents
      <3> QED BY <2>1, <3>1, SpeaksOne DEF Event, Stirring
    <2>2. ASSUME SendAll(<<Answer(j.arg)>>) PROVE Speaks
      <3>1. Answer(j.arg) \in Messages
        BY <1>1, AnswerIs
      <3> QED BY <2>2, <3>1, SpeaksOne DEF Answer
    <2>3. ASSUME SendAll(<< >>) PROVE Speaks
      <3>1. up' = up
        BY <2>3 DEF SendAll, SessionTypes, QueueTypes
      <3> QED BY <3>1, Silent DEF SessionTypes
    <2> QED BY <2>1, <2>2, <2>3
            DEF ResumeSucceeds, ResumeFails, AgentAnswered, QueryAnswered, Listed, ListFails,
                SetterSucceeds, AbortSucceeds, Answers
  <1> QED BY <1>2, <1>3, <1>4, JobEnds DEF Answers, Sdk

LEMMA CreateSteps ==
  ASSUME SessionTypes, NEW j \in jobs, UNCHANGED aggVars, AgentSelected(j) \/ CreateFails(j)
  PROVE  SessionTypes' /\ PlainStep
  <1>1. j.s \in Session \cup {None} /\ j.arg \in Arg
    BY AnyJob
  <1>2. j.phase \in {"select", "create"} /\ ~Lasting(j)
    BY DEF Lasting, AgentSelected, CreateFails
  <1>3. Speaks
    <2>1. CASE AgentSelected(j)
      <3>1. Event(j.s, "session.start", j.arg) \in Messages
        BY <1>1, EventIs DEF EventTypes
      <3> QED BY <2>1, <3>1, SpeaksOne DEF AgentSelected, SendToHq, Event, Stirring
    <2>2. CASE CreateFails(j) /\ j.op = "create"
      <3>1. Event(Unknown, "session.error", j.arg) \in Messages
        BY <1>1, EventIs DEF EventTypes, SdkEvents
      <3> QED BY <2>2, <3>1, SpeaksOne DEF CreateFails, Event, Stirring
    <2>3. CASE CreateFails(j) /\ j.op # "create"
      <3>1. up' = up
        BY <2>3 DEF CreateFails, SendAll, SessionTypes, QueueTypes
      <3> QED BY <3>1, Silent DEF SessionTypes
    <2> QED BY <2>1, <2>2, <2>3
  <1> QED BY <1>2, <1>3, JobEnds DEF AgentSelected, CreateFails

LEMMA CoordinatorResumedStep ==
  ASSUME SessionTypes, NEW j \in jobs, UNCHANGED aggVars, CoordinatorResumed(j)
  PROVE  SessionTypes' /\ PlainStep
  <1>1. ~Lasting(j)
    BY DEF Lasting, CoordinatorResumed
  <1>2. Speaks
    BY Silent DEF CoordinatorResumed, linkVars, SessionTypes
  <1>3. tracked \subseteq tracked'
    BY DEF CoordinatorResumed, Track, trackVars
  <1>4. CountInv' /\ commands' \in 0 .. MaxCommands
    BY CountsKept DEF CoordinatorResumed, linkVars, startVars, SessionTypes
  <1>5. SessionTypes'
    BY <1>4, OthersKept DEF CoordinatorResumed, Sdk, linkVars, startVars, SessionTypes, QueueTypes
  <1>6. PlainStep
    BY <1>1, <1>2, <1>3 DEF CoordinatorResumed, Sdk, PlainStep, Hears, linkVars, sdkVars, aggVars
  <1> QED BY <1>5, <1>6

LEMMA SessionCreatedStep ==
  ASSUME SessionTypes, NEW j \in jobs, UNCHANGED aggVars, NEW s \in Session, SessionCreated(j, s)
  PROVE  SessionTypes' /\ PlainStep
  <1> DEFINE m == Event(s, "session.created", None)
             n == IF s \in tracked THEN 0 ELSE lifecycle
  <1>1. j \in Job /\ None \in Arg
    BY AnyJob
  <1>2. ~Lasting(j)
    BY DEF Lasting, SessionCreated
  <1>3. m \in Messages
    BY <1>1, EventIs DEF EventTypes
  <1>4. n \in Nat
    BY DEF SessionTypes, CountInv
  <1>5. Times(n, m) \in Seq(Messages) /\ \A i \in DOMAIN Times(n, m) : Times(n, m)[i] = m
    BY <1>3, <1>4, TimesIs
  <1>6. SendAll(Times(n, m))
    BY DEF SessionCreated, Lifecycle
  <1>7. Plain(Times(n, m))
    <2>1. m.kind = "event" /\ m.type = "session.created"
      BY DEF Event
    <2> HIDE DEF m, n
    <2> QED BY <1>5, <2>1 DEF Plain, Of, Asks, Stirring
  <1>8. Speaks
    BY <1>5, <1>6, <1>7 DEF Speaks
  <1>9. up' \in Seq(Messages)
    BY <1>8, SpeaksTypes DEF SessionTypes
  <1>10. jobs' \subseteq Job
    <2>1. [j EXCEPT !.s = s, !.phase = "select"] \in Job
      BY <1>1 DEF Job
    <2> QED BY <2>1 DEF SessionCreated, SessionTypes, QueueTypes
  <1>11. CountInv' /\ commands' \in 0 .. MaxCommands
    BY CountsKept DEF SessionCreated, startVars, SessionTypes
  <1>12. registry' \subseteq created' /\ created' \subseteq Session
    BY DEF SessionCreated, SessionTypes, SdkTypes
  <1>13. SessionTypes'
    BY <1>9, <1>10, <1>11, <1>12 DEF SessionCreated, SessionTypes, SdkTypes, QueueTypes, AggTypeOK, startVars, aggVars
  <1>14. PlainStep
    <2>1. tracked \subseteq tracked' /\ \A k \in jobs : Lasting(k) => k \in jobs'
      BY <1>2 DEF SessionCreated, Track
    <2> QED BY <1>8, <2>1 DEF SessionCreated, PlainStep, Hears, aggVars
  <1> QED BY <1>13, <1>14

(* Handlers that say how a session goes on.                                *)
LEMMA Tells ==
  ASSUME QueueTypes, LostInv, WorkInv, WaitInv, QuestionInv, NEW r \in Seq(Messages), SendAll(r),
         \A i \in DOMAIN r : r[i].kind # "question", WorkTold(r), WaitTold(r),
         UNCHANGED <<down, link, asked, relayed, aggVars>>
  PROVE  LostInv' /\ WorkInv' /\ WaitInv' /\ QuestionInv'
  <1>1. WorkInv' /\ WaitInv'
    BY WorkSpeech, WaitSpeech DEF aggVars
  <1>2. QuestionInv'
    <2>1. OldQuestions
      BY QuestionsSent
    <2> QED BY <2>1, QuestionsKept DEF aggVars
  <1>3. LostInv'
    BY DEF LostInv, SendAll, aggVars
  <1> QED BY <1>1, <1>2, <1>3

LEMMA SendSucceedsStep ==
  ASSUME ListenerInv, SessionTypes, LostInv, WorkInv, WaitInv, QuestionInv, NEW j \in jobs, UNCHANGED aggVars,
         SendSucceeds(j)
  PROVE  SessionTypes' /\ LostInv' /\ WorkInv' /\ WaitInv' /\ QuestionInv'
  <1> DEFINE m == Event(j.s, "user.message", None)
             n == listeners[j.s]
             r == Times(n, m)
  <1>1. j.s \in Session /\ None \in Arg
    BY AnyJob DEF SendSucceeds, SessionTypes, SdkTypes
  <1>2. n \in Nat /\ (n > 0 => j.s \in tracked)
    BY <1>1 DEF ListenerInv, OneListener
  <1>3. m \in Messages
    BY <1>1, EventIs DEF EventTypes, SdkEvents
  <1>4. r \in Seq(Messages) /\ (\A i \in DOMAIN r : r[i] = m) /\ (n = 0 => DOMAIN r = {})
    BY <1>2, <1>3, TimesIs
  <1>5. SendAll(r)
    BY DEF SendSucceeds
  <1>6. m.kind = "event" /\ m.type = "user.message" /\ m.s = j.s
    BY DEF Event
  <1>7. turn' = [turn EXCEPT ![j.s] = "asked"] /\ jobs' = jobs \ {j} /\ j.op \in {"prompt", "reply"}
        /\ UNCHANGED <<down, link, startVars, registry, created, asked, trackVars, loads, deletedIds, relayed, commands>>
    BY DEF SendSucceeds, Sdk
  <1>8. turn \in [Session -> {"none", "asked", "thinking", "tool", "subagent", "waiting", "said"}]
    BY DEF SessionTypes, SdkTypes
  <1> HIDE DEF m, n, r
  <1>9. \A s \in Session : Ending(s) => Ending(s)'
    BY <1>7 DEF Ending
  <1>10. \A s \in Session : s # j.s /\ Replying(s) => Replying(s)'
    BY <1>7 DEF Replying
  <1>11. WorkTold(r)
    <2>1. ASSUME NEW s \in Session, Busy(s) PROVE Busy(s)'
      <3>1. CASE s = j.s
        <4>1. turn'[s] = "asked"
          BY <1>1, <1>7, <1>8, <3>1
        <4> QED BY <1>7, <1>9, <2>1, <4>1 DEF Busy, trackVars
      <3>2. CASE s # j.s
        <4>1. turn'[s] = turn[s]
          BY <1>1, <1>7, <1>8, <3>2
        <4> QED BY <1>7, <1>9, <1>10, <2>1, <3>2, <4>1 DEF Busy, trackVars
      <3> QED BY <3>1, <3>2
    <2>2. ASSUME NEW s \in Session, NEW i \in DOMAIN r, Of(r[i], s, Stirring) PROVE Busy(s)'
      <3>1. s = j.s /\ n # 0
        BY <1>4, <1>6, <2>2 DEF Of
      <3>2. s \in tracked /\ turn'[s] = "asked"
        BY <1>1, <1>2, <1>7, <1>8, <3>1
      <3> QED BY <1>7, <3>2 DEF Busy, trackVars
    <2> QED BY <2>1, <2>2 DEF WorkTold
  <1>12. WaitTold(r)
    <2>1. \A s \in Session, e \in Elicit : Held(s, e) => Held(s, e)'
      BY <1>7, <1>9 DEF Held, trackVars
    <2>2. \A s \in Session, e \in Elicit : \A i \in DOMAIN r : ~Asks(r[i], s, e)
      BY <1>4, <1>6 DEF Asks, Of
    <2> QED BY <2>1, <2>2 DEF WaitTold
  <1>13. \A i \in DOMAIN r : r[i].kind # "question"
    BY <1>4, <1>6
  <1>14. QueueTypes
    BY DEF SessionTypes
  <1>15. LostInv' /\ WorkInv' /\ WaitInv' /\ QuestionInv'
    BY <1>4, <1>5, <1>7, <1>11, <1>12, <1>13, <1>14, Tells
  <1>16. SessionTypes'
    <2>1. up' \in Seq(Messages)
      BY <1>4, <1>5, <1>14, SentIs
    <2>2. CountInv' /\ commands' \in 0 .. MaxCommands
      BY <1>7, CountsKept DEF startVars, SessionTypes
    <2>3. turn' \in [Session -> {"none", "asked", "thinking", "tool", "subagent", "waiting", "said"}]
      BY <1>7, <1>8
    <2> QED BY <1>7, <2>1, <2>2, <2>3 DEF SessionTypes, SdkTypes, QueueTypes, AggTypeOK, startVars, aggVars
  <1> QED BY <1>15, <1>16

(* A failure is told last, so that the session does not stay at work.      *)
LEMMA SdkFailsStep ==
  ASSUME ListenerInv, SessionTypes, LostInv, WorkInv, WaitInv, QuestionInv, NEW j \in jobs, UNCHANGED aggVars,
         SdkFails(j)
  PROVE  SessionTypes' /\ LostInv' /\ WorkInv' /\ WaitInv' /\ QuestionInv'
  <1> DEFINE m == Event(j.s, "session.error", None)
             r == <<m>>
  <1>1. j.s \in Session \cup {None} /\ None \in Arg
    BY AnyJob
  <1>2. m \in Messages
    BY <1>1, EventIs DEF EventTypes, SdkEvents
  <1>3. m.kind = "event" /\ m.type = "session.error" /\ m.s = j.s
    BY DEF Event
  <1>4. SendAll(r) /\ jobs' = jobs \ {j} /\ j.op \in {"prompt", "setter", "query", "reply"}
        /\ UNCHANGED <<down, link, startVars, sdkVars, trackVars, loads, deletedIds, relayed, commands>>
    BY DEF SdkFails, Answers, Sdk
  <1> HIDE DEF m
  <1>5. r \in Seq(Messages) /\ Len(r) = 1 /\ r # << >> /\ r[1] = m /\ \A i \in DOMAIN r : r[i] = m
    BY <1>2, OneMessage
  <1> HIDE DEF r
  <1>6. \A s \in Session : Ending(s) => Ending(s)'
    BY <1>4 DEF Ending
  <1>7. WorkTold(r)
    <2>1. ASSUME NEW s \in Session, Busy(s), s # j.s PROVE Busy(s)'
      <3>1. Replying(s) => Replying(s)'
        BY <1>4, <2>1 DEF Replying
      <3> QED BY <1>4, <1>6, <2>1, <3>1 DEF Busy, sdkVars, trackVars
    <2>2. EndsWith(r, j.s, Calming)
      BY <1>3, <1>5 DEF EndsWith, Of, Calming
    <2>3. \A s \in Session : \A i \in DOMAIN r : ~Of(r[i], s, Stirring)
      BY <1>3, <1>5 DEF Of, Stirring
    <2> QED BY <2>1, <2>2, <2>3 DEF WorkTold
  <1>8. WaitTold(r)
    <2>1. \A s \in Session, e \in Elicit : Held(s, e) => Held(s, e)'
      BY <1>4, <1>6 DEF Held, trackVars
    <2>2. \A s \in Session, e \in Elicit : \A i \in DOMAIN r : ~Asks(r[i], s, e)
      BY <1>3, <1>5 DEF Asks, Of
    <2> QED BY <2>1, <2>2 DEF WaitTold
  <1>9. \A i \in DOMAIN r : r[i].kind # "question"
    BY <1>3, <1>5
  <1>10. QueueTypes
    BY DEF SessionTypes
  <1>11. LostInv' /\ WorkInv' /\ WaitInv' /\ QuestionInv'
    BY <1>4, <1>5, <1>7, <1>8, <1>9, <1>10, Tells DEF sdkVars
  <1>12. SessionTypes'
    <2>1. up' \in Seq(Messages)
      BY <1>4, <1>5, <1>10, SentIs
    <2>2. CountInv' /\ commands' \in 0 .. MaxCommands
      BY <1>4, CountsKept DEF startVars, SessionTypes
    <2> QED BY <1>4, <2>1, <2>2, OthersKept DEF SessionTypes, QueueTypes, startVars
  <1> QED BY <1>11, <1>12

(* A session is forgotten: idle is told last of it.                        *)
LEMMA DisconnectedStep ==
  ASSUME ListenerInv, SessionTypes, LostInv, WorkInv, WaitInv, QuestionInv, NEW j \in jobs, UNCHANGED aggVars,
         Disconnected(j)
  PROVE  SessionTypes' /\ LostInv' /\ WorkInv' /\ WaitInv' /\ QuestionInv'
  <1> DEFINE m == Event(j.s, "session.idle", None)
             r == <<m>>
  <1>1. j.s \in Session \cup {None} /\ None \in Arg
    BY AnyJob
  <1>2. m \in Messages
    BY <1>1, EventIs DEF EventTypes, SdkEvents
  <1>3. m.kind = "event" /\ m.type = "session.idle" /\ m.s = j.s
    BY DEF Event
  <1>4. SendAll(r) /\ jobs' = jobs \ {j} /\ j.op = "disconnect" /\ tracked' = tracked \ {j.s}
        /\ UNCHANGED <<down, link, startVars, sdkVars, loads, deletedIds, relayed, commands>>
    BY DEF Disconnected, SendToHq, Untrack
  <1> HIDE DEF m
  <1>5. r \in Seq(Messages) /\ Len(r) = 1 /\ r # << >> /\ r[1] = m /\ \A i \in DOMAIN r : r[i] = m
    BY <1>2, OneMessage
  <1> HIDE DEF r
  <1>6. \A s \in Session : (Ending(s) => Ending(s)') /\ (Replying(s) => Replying(s)')
    BY <1>4 DEF Ending, Replying
  <1>7. WorkTold(r)
    <2>1. ASSUME NEW s \in Session, Busy(s), s # j.s PROVE Busy(s)'
      BY <1>4, <1>6, <2>1 DEF Busy, sdkVars
    <2>2. EndsWith(r, j.s, Calming)
      BY <1>3, <1>5 DEF EndsWith, Of, Calming
    <2>3. \A s \in Session : \A i \in DOMAIN r : ~Of(r[i], s, Stirring)
      BY <1>3, <1>5 DEF Of, Stirring
    <2> QED BY <2>1, <2>2, <2>3 DEF WorkTold
  <1>8. WaitTold(r)
    <2>1. ASSUME NEW s \in Session, NEW e \in Elicit, Held(s, e), s # j.s PROVE Held(s, e)'
      BY <1>4, <1>6, <2>1 DEF Held
    <2>2. EndsWith(r, j.s, Clearing)
      BY <1>3, <1>5 DEF EndsWith, Of, Clearing
    <2>3. \A s \in Session, e \in Elicit : \A i \in DOMAIN r : ~Asks(r[i], s, e)
      BY <1>3, <1>5 DEF Asks, Of
    <2> QED BY <2>1, <2>2, <2>3 DEF WaitTold
  <1>9. \A i \in DOMAIN r : r[i].kind # "question"
    BY <1>3, <1>5
  <1>10. QueueTypes
    BY DEF SessionTypes
  <1>11. LostInv' /\ WorkInv' /\ WaitInv' /\ QuestionInv'
    BY <1>4, <1>5, <1>7, <1>8, <1>9, <1>10, Tells DEF sdkVars
  <1>12. SessionTypes'
    <2>1. up' \in Seq(Messages)
      BY <1>4, <1>5, <1>10, SentIs
    <2>2. CountInv' /\ commands' \in 0 .. MaxCommands
      BY <1>4, CountsKept DEF startVars, SessionTypes
    <2> QED BY <1>4, <2>1, <2>2, OthersKept DEF SessionTypes, QueueTypes, startVars
  <1> QED BY <1>11, <1>12

(* A session that is to be deleted is forgotten first: its shutdown is yet *)
(* to be told.                                                             *)
LEMMA DeleteDisconnectedStep ==
  ASSUME ListenerInv, SessionTypes, LostInv, WorkInv, WaitInv, QuestionInv, NEW j \in jobs, UNCHANGED aggVars,
         DeleteDisconnected(j)
  PROVE  SessionTypes' /\ LostInv' /\ WorkInv' /\ WaitInv' /\ QuestionInv'
  <1> DEFINE d == [j EXCEPT !.phase = "delete"]
  <1>1. j \in Job /\ d \in Job /\ d.op = j.op /\ d.s = j.s /\ d.phase = "delete"
    BY AnyJob DEF Job
  <1>2. jobs' = (jobs \ {j}) \cup {d} /\ j.op = "delete" /\ j.phase = "disconnect" /\ tracked' = tracked \ {j.s}
        /\ UNCHANGED <<linkVars, startVars, sdkVars, loads, deletedIds, relayed, commands>>
    BY DEF DeleteDisconnected, Untrack
  <1> HIDE DEF d
  <1>3. QueueTypes
    BY DEF SessionTypes
  <1>4. << >> \in Seq(Messages) /\ SendAll(<< >>) /\ up' = up
    BY <1>2, <1>3 DEF SendAll, QueueTypes, linkVars
  <1>5. \A s \in Session : (Ending(s) => Ending(s)') /\ (Replying(s) => Replying(s)')
    BY <1>2 DEF Ending, Replying
  <1>6. j.s \in Session => Ending(j.s)'
    BY <1>1, <1>2 DEF Ending
  <1>7. WorkTold(<< >>)
    <2>1. ASSUME NEW s \in Session, Busy(s) PROVE Busy(s)'
      <3>1. CASE s = j.s
        BY <1>6, <3>1 DEF Busy
      <3>2. CASE s # j.s
        BY <1>2, <1>5, <2>1, <3>2 DEF Busy, sdkVars
      <3> QED BY <3>1, <3>2
    <2> QED BY <2>1 DEF WorkTold
  <1>8. WaitTold(<< >>)
    <2>1. ASSUME NEW s \in Session, NEW e \in Elicit, Held(s, e) PROVE Held(s, e)'
      <3>1. CASE s = j.s
        BY <1>6, <3>1 DEF Held
      <3>2. CASE s # j.s
        BY <1>2, <1>5, <2>1, <3>2 DEF Held
      <3> QED BY <3>1, <3>2
    <2> QED BY <2>1 DEF WaitTold
  <1>9. LostInv' /\ WorkInv' /\ WaitInv' /\ QuestionInv'
    <2>1. \A i \in DOMAIN << >> : << >>[i].kind # "question"
      OBVIOUS
    <2> QED BY <1>2, <1>3, <1>4, <1>7, <1>8, <2>1, Tells DEF linkVars, sdkVars
  <1>10. SessionTypes'
    <2>1. CountInv' /\ commands' \in 0 .. MaxCommands
      BY <1>2, CountsKept DEF linkVars, startVars, SessionTypes
    <2>2. jobs' \subseteq Job
      BY <1>1, <1>2, <1>3 DEF QueueTypes
    <2> QED BY <1>2, <1>3, <2>1, <2>2, OthersKept DEF QueueTypes, linkVars, startVars
  <1> QED BY <1>9, <1>10

(* The shutdown is the last thing told of a deleted session.               *)
LEMMA DeletedStep ==
  ASSUME ListenerInv, SessionTypes, LostInv, WorkInv, WaitInv, QuestionInv, NEW j \in jobs, UNCHANGED aggVars,
         NEW ok \in BOOLEAN, Deleted(j, ok)
  PROVE  SessionTypes' /\ LostInv' /\ WorkInv' /\ WaitInv' /\ QuestionInv'
  <1> DEFINE g == Event(j.s, "session.deleted", None)
             m == Event(j.s, "session.shutdown", None)
             n == IF j.s \in tracked THEN 0 ELSE lifecycle
             p == IF ok THEN Times(n, g) ELSE << >>
             r == p \o <<m>>
  <1>1. j.s \in Session \cup {None} /\ None \in Arg
    BY AnyJob
  <1>2. m \in Messages /\ g \in Messages
    BY <1>1, EventIs DEF EventTypes
  <1>3. /\ m.kind = "event" /\ m.type = "session.shutdown" /\ m.s = j.s
        /\ g.kind = "event" /\ g.type = "session.deleted"
    BY DEF Event
  <1>4. n \in Nat
    BY DEF SessionTypes, CountInv
  <1>5. /\ jobs' = jobs \ {j} /\ j.op = "delete"
        /\ registry' \subseteq registry
        /\ turn' = turn \/ turn' = [turn EXCEPT ![j.s] = "none"]
        /\ UNCHANGED <<down, link, startVars, created, asked, trackVars, loads, deletedIds, relayed, commands>>
    BY DEF Deleted
  <1>6. SendAll(r)
    BY DEF Deleted, Lifecycle
  <1> HIDE DEF m, g, n
  <1>7. p \in Seq(Messages) /\ \A i \in DOMAIN p : p[i] = g
    BY <1>2, <1>4, TimesIs
  <1>8. <<m>> \in Seq(Messages) /\ Len(<<m>>) = 1 /\ <<m>> # << >> /\ <<m>>[1] = m /\ \A i \in DOMAIN <<m>> : <<m>>[i] = m
    BY <1>2, OneMessage
  <1> HIDE DEF p
  <1>9. /\ r \in Seq(Messages) /\ r # << >> /\ r[Len(r)] = m
        /\ \A i \in DOMAIN r : r[i] \in {g, m}
    <2>1. r \in Seq(Messages) /\ r # << >> /\ r[Len(r)] = m
      BY <1>7, <1>8
    <2>2. \A i \in DOMAIN r : r[i] \in {g, m}
      BY <1>7, <1>8, Joined
    <2> QED BY <2>1, <2>2
  <1> HIDE DEF r
  <1>10. \A s \in Session : s # j.s => (Ending(s) => Ending(s)') /\ (Replying(s) => Replying(s)')
    BY <1>5 DEF Ending, Replying
  <1>11. turn \in [Session -> {"none", "asked", "thinking", "tool", "subagent", "waiting", "said"}]
    BY DEF SessionTypes, SdkTypes
  <1>12. WorkTold(r)
    <2>1. ASSUME NEW s \in Session, Busy(s), s # j.s PROVE Busy(s)'
      <3>1. turn'[s] = turn[s]
        BY <1>5, <1>11, <2>1
      <3> QED BY <1>5, <1>10, <2>1, <3>1 DEF Busy, trackVars
    <2>2. EndsWith(r, j.s, Calming)
      BY <1>3, <1>9 DEF EndsWith, Of, Calming
    <2>3. \A s \in Session : \A i \in DOMAIN r : ~Of(r[i], s, Stirring)
      BY <1>3, <1>9 DEF Of, Stirring
    <2> QED BY <2>1, <2>2, <2>3 DEF WorkTold
  <1>13. WaitTold(r)
    <2>1. ASSUME NEW s \in Session, NEW e \in Elicit, Held(s, e), s # j.s PROVE Held(s, e)'
      BY <1>5, <1>10, <2>1 DEF Held, trackVars
    <2>2. EndsWith(r, j.s, Clearing)
      BY <1>3, <1>9 DEF EndsWith, Of, Clearing
    <2>3. \A s \in Session, e \in Elicit : \A i \in DOMAIN r : ~Asks(r[i], s, e)
      BY <1>3, <1>9 DEF Asks, Of
    <2> QED BY <2>1, <2>2, <2>3 DEF WaitTold
  <1>14. \A i \in DOMAIN r : r[i].kind # "question"
    BY <1>3, <1>9
  <1>15. QueueTypes
    BY DEF SessionTypes
  <1>16. LostInv' /\ WorkInv' /\ WaitInv' /\ QuestionInv'
    BY <1>5, <1>6, <1>9, <1>12, <1>13, <1>14, <1>15, Tells
  <1>17. SessionTypes'
    <2>1. up' \in Seq(Messages)
      BY <1>6, <1>9, <1>15, SentIs
    <2>2. CountInv' /\ commands' \in 0 .. MaxCommands
      BY <1>5, CountsKept DEF startVars, SessionTypes
    <2>3. turn' \in [Session -> {"none", "asked", "thinking", "tool", "subagent", "waiting", "said"}]
      BY <1>5, <1>11
    <2>4. registry' \subseteq created' /\ created' \subseteq Session
      BY <1>5 DEF SessionTypes, SdkTypes
    <2> QED BY <1>5, <2>1, <2>2, <2>3, <2>4 DEF SessionTypes, SdkTypes, QueueTypes, AggTypeOK, startVars, aggVars
  <1> QED BY <1>16, <1>17

-----------------------------------------------------------------------------
(* The SDK speaks. *)

(* What stirs a session is said during a turn, and the end of a turn is    *)
(* told last; without a handler nothing is told.                           *)
LEMMA SaysStep ==
  ASSUME ListenerInv, SessionTypes, LostInv, WorkInv, WaitInv, QuestionInv, UNCHANGED aggVars,
         NEW t \in Session, NEW type \in SdkEvents, NEW from,
         NEW to \in {"none", "asked", "thinking", "tool", "subagent", "waiting", "said"},
         SdkSays(t, type, from, to), type # "elicitation.requested",
         type \in Stirring => to # "none", to = "none" => type = "session.idle"
  PROVE  SessionTypes' /\ LostInv' /\ WorkInv' /\ WaitInv' /\ QuestionInv'
  <1> DEFINE m == Event(t, type, None)
             n == listeners[t]
             r == Times(n, m)
  <1>1. n \in Nat /\ n = (IF t \in tracked THEN 1 ELSE 0)
    BY DEF ListenerInv, OneListener
  <1>2. m \in Messages
    BY EventIs DEF EventTypes, Arg
  <1>3. /\ r \in Seq(Messages) /\ (\A i \in DOMAIN r : r[i] = m) /\ (n = 0 => DOMAIN r = {})
        /\ n > 0 => r # << >> /\ Len(r) = n /\ r[n] = m
    BY <1>1, <1>2, TimesIs
  <1>4. SendAll(r) /\ turn' = [turn EXCEPT ![t] = to]
        /\ UNCHANGED <<down, link, startVars, registry, created, asked, trackVars, loads, deletedIds, jobs, relayed, commands>>
    BY DEF SdkSays
  <1>5. m.kind = "event" /\ m.type = type /\ m.s = t
    BY DEF Event
  <1>6. turn \in [Session -> {"none", "asked", "thinking", "tool", "subagent", "waiting", "said"}]
    BY DEF SessionTypes, SdkTypes
  <1> HIDE DEF m, n, r
  <1>7. \A s \in Session : (Ending(s) => Ending(s)') /\ (Replying(s) => Replying(s)')
    BY <1>4 DEF Ending, Replying
  <1>8. to = "none" /\ t \in tracked => EndsWith(r, t, Calming) /\ EndsWith(r, t, Clearing)
    <2> SUFFICES ASSUME to = "none", t \in tracked PROVE EndsWith(r, t, Calming) /\ EndsWith(r, t, Clearing)
      OBVIOUS
    <2>1. n = 1 /\ m.type = "session.idle"
      BY <1>1, <1>5
    <2>2. r # << >> /\ r[Len(r)] = m
      <3>1. n > 0
        BY <2>1
      <3>2. r # << >> /\ Len(r) = n /\ r[n] = m
        BY <1>3, <3>1, Zenon
      <3> QED BY <3>2, Zenon
    <2>3. Of(m, t, Calming) /\ Of(m, t, Clearing)
      BY <1>5, <2>1 DEF Of, Calming, Clearing
    <2> QED BY <2>2, <2>3 DEF EndsWith
  <1>9. WorkTold(r)
    <2>1. ASSUME NEW s \in Session, Busy(s) PROVE Busy(s)' \/ EndsWith(r, s, Calming)
      <3>1. CASE s # t
        <4>1. turn'[s] = turn[s]
          BY <1>4, <1>6, <3>1
        <4> QED BY <1>4, <1>7, <2>1, <4>1 DEF Busy, trackVars
      <3>2. CASE s = t /\ to = "none"
        BY <1>4, <1>7, <1>8, <2>1, <3>2 DEF Busy, trackVars
      <3>3. CASE s = t /\ to # "none"
        <4>1. turn'[s] # "none"
          BY <1>4, <1>6, <3>3
        <4> QED BY <1>4, <1>7, <2>1, <4>1 DEF Busy, trackVars
      <3> QED BY <3>1, <3>2, <3>3
    <2>2. ASSUME NEW s \in Session, NEW i \in DOMAIN r, Of(r[i], s, Stirring) PROVE Busy(s)'
      <3>1. s = t /\ type \in Stirring /\ t \in tracked
        BY <1>1, <1>3, <1>5, <2>2 DEF Of
      <3>2. turn'[s] # "none"
        BY <1>4, <1>6, <3>1
      <3> QED BY <1>4, <3>1, <3>2 DEF Busy, trackVars
    <2> QED BY <2>1, <2>2 DEF WorkTold
  <1>10. WaitTold(r)
    <2>1. \A s \in Session, e \in Elicit : Held(s, e) => Held(s, e)'
      BY <1>4, <1>7 DEF Held, trackVars
    <2>2. \A s \in Session, e \in Elicit : \A i \in DOMAIN r : ~Asks(r[i], s, e)
      BY <1>3, <1>5 DEF Asks, Of
    <2> QED BY <2>1, <2>2 DEF WaitTold
  <1>11. \A i \in DOMAIN r : r[i].kind # "question"
    BY <1>3, <1>5
  <1>12. QueueTypes
    BY DEF SessionTypes
  <1>13. LostInv' /\ WorkInv' /\ WaitInv' /\ QuestionInv'
    BY <1>3, <1>4, <1>9, <1>10, <1>11, <1>12, Tells
  <1>14. SessionTypes'
    <2>1. up' \in Seq(Messages)
      BY <1>3, <1>4, <1>12, SentIs
    <2>2. CountInv' /\ commands' \in 0 .. MaxCommands
      BY <1>4, CountsKept DEF startVars, SessionTypes
    <2>3. turn' \in [Session -> {"none", "asked", "thinking", "tool", "subagent", "waiting", "said"}]
      BY <1>4, <1>6
    <2> QED BY <1>4, <2>1, <2>2, <2>3 DEF SessionTypes, SdkTypes, QueueTypes, AggTypeOK, startVars, aggVars
  <1> QED BY <1>13, <1>14

LEMMA TurnSteps ==
  ASSUME ListenerInv, SessionTypes, LostInv, WorkInv, WaitInv, QuestionInv, UNCHANGED aggVars,
         NEW s \in Session, TurnStep(s)
  PROVE  SessionTypes' /\ LostInv' /\ WorkInv' /\ WaitInv' /\ QuestionInv'
  <1> DEFINE Said == SessionTypes' /\ LostInv' /\ WorkInv' /\ WaitInv' /\ QuestionInv'
             Turns == {"none", "asked", "thinking", "tool", "subagent", "waiting", "said"}
  <1>1. ASSUME NEW type \in SdkEvents, NEW from, NEW to \in Turns, SdkSays(s, type, from, to),
               type # "elicitation.requested", to # "none"
        PROVE  Said
    BY <1>1, SaysStep
  <1>2. CASE SdkSays(s, "assistant.turn_start", {"asked"}, "thinking")
    BY <1>1, <1>2 DEF SdkEvents
  <1>3. CASE SdkSays(s, "tool.execution_start", {"thinking"}, "tool")
    BY <1>1, <1>3 DEF SdkEvents
  <1>4. CASE SdkSays(s, "tool.execution_complete", {"tool"}, "thinking")
    BY <1>1, <1>4 DEF SdkEvents
  <1>5. CASE SdkSays(s, "subagent.started", {"thinking"}, "subagent")
    BY <1>1, <1>5 DEF SdkEvents
  <1>6. CASE SdkSays(s, "subagent.completed", {"subagent"}, "thinking")
    BY <1>1, <1>6 DEF SdkEvents
  <1>7. CASE SdkSays(s, "assistant.message", {"thinking"}, "said")
    BY <1>1, <1>7 DEF SdkEvents
  <1>8. CASE SdkSays(s, "session.error", {"thinking"}, "said")
    BY <1>1, <1>8 DEF SdkEvents
  <1>9. CASE SdkSays(s, "session.idle", {"asked", "thinking", "tool", "subagent", "waiting", "said"}, "none")
    <2>1. "session.idle" \in SdkEvents /\ "session.idle" \notin Stirring
      BY DEF SdkEvents, Stirring
    <2> QED BY <1>9, <2>1, SaysStep
  <1> QED BY <1>2, <1>3, <1>4, <1>5, <1>6, <1>7, <1>8, <1>9 DEF TurnStep

(* A question is asked once, and held before it is told.                   *)
LEMMA SdkAsksStep ==
  ASSUME ListenerInv, SessionTypes, LostInv, WorkInv, WaitInv, QuestionInv, UNCHANGED aggVars,
         NEW t \in Session, NEW f \in Elicit, SdkAsks(t, f)
  PROVE  SessionTypes' /\ LostInv' /\ WorkInv' /\ WaitInv' /\ QuestionInv'
  <1> DEFINE q == Question(t, f)
             m == Event(t, "elicitation.requested", f)
             heard == listeners[t] > 0
             r == IF heard THEN <<q, m>> ELSE << >>
  <1>1. heard <=> t \in tracked
    BY DEF ListenerInv, OneListener
  <1>2. q \in Messages /\ m \in Messages
    BY QuestionIs, EventIs DEF EventTypes, SdkEvents, Arg
  <1>3. /\ SendAll(r) /\ turn' = [turn EXCEPT ![t] = "waiting"] /\ asked' = asked \cup {f} /\ f \notin asked
        /\ relayed' = IF heard THEN [relayed EXCEPT ![f] = t] ELSE relayed
        /\ UNCHANGED <<down, link, startVars, registry, created, trackVars, loads, deletedIds, jobs, commands>>
    BY DEF SdkAsks
  <1>4. /\ m.kind = "event" /\ m.type = "elicitation.requested" /\ m.s = t /\ m.arg = f
        /\ q.kind = "question" /\ q.s = t /\ q.arg = f
    BY DEF Event, Question
  <1>5. /\ turn \in [Session -> {"none", "asked", "thinking", "tool", "subagent", "waiting", "said"}]
        /\ relayed \in [Elicit -> Session \cup {None}]
    BY DEF SessionTypes, SdkTypes
  <1> HIDE DEF m, q
  <1>6. r \in Seq(Messages) /\ \A i \in DOMAIN r : heard /\ r[i] \in {q, m}
    BY <1>2
  <1> HIDE DEF r, heard
  <1>7. \A s \in Session : (Ending(s) => Ending(s)') /\ (Replying(s) => Replying(s)')
    BY <1>3 DEF Ending, Replying
  <1>8. \A s \in Session : turn'[s] = IF s = t THEN "waiting" ELSE turn[s]
    BY <1>3, <1>5
  <1>9. \A e \in Elicit : relayed'[e] = IF heard /\ e = f THEN t ELSE relayed[e]
    BY <1>3, <1>5
  <1>10. relayed[f] = None
    BY <1>3 DEF QuestionInv
  <1>11. WorkTold(r)
    <2>1. ASSUME NEW s \in Session, Busy(s) PROVE Busy(s)'
      BY <1>3, <1>7, <1>8, <2>1 DEF Busy, trackVars
    <2>2. \A s \in Session : \A i \in DOMAIN r : ~Of(r[i], s, Stirring)
      BY <1>4, <1>6 DEF Of, Stirring
    <2> QED BY <2>1, <2>2 DEF WorkTold
  <1>12. WaitTold(r)
    <2>1. ASSUME NEW s \in Session, NEW e \in Elicit, Held(s, e) PROVE Held(s, e)'
      <3>1. relayed[e] = s => e # f
        BY <1>10, ManagerAssumption
      <3> QED BY <1>3, <1>7, <1>9, <2>1, <3>1 DEF Held, trackVars
    <2>2. ASSUME NEW s \in Session, NEW e \in Elicit, NEW i \in DOMAIN r, Asks(r[i], s, e) PROVE Held(s, e)'
      <3>1. heard /\ s = t /\ e = f
        BY <1>4, <1>6, <2>2 DEF Asks, Of
      <3> QED BY <1>1, <1>3, <1>9, <3>1 DEF Held, trackVars
    <2> QED BY <2>1, <2>2 DEF WaitTold
  <1>13. QueueTypes /\ up \in Seq(Messages)
    BY DEF SessionTypes, QueueTypes
  <1>14. WorkInv' /\ WaitInv'
    BY <1>3, <1>6, <1>11, <1>12, <1>13, WorkSpeech, WaitSpeech DEF aggVars
  <1>15. QuestionInv'
    <2>1. ASSUME NEW e \in Elicit, NEW s \in Session, QuestionOf(e, s)'
          PROVE  QuestionOf(e, s) \/ (heard /\ e = f /\ s = t)
      <3>1. CASE questions'[e] = s \/ \E i \in DOMAIN down' : down'[i].op = "reply" /\ down'[i].arg = e /\ down'[i].s = s
        BY <1>3, <3>1 DEF QuestionOf, aggVars
      <3>2. ASSUME NEW i \in DOMAIN up', up'[i].kind = "question", up'[i].arg = e, up'[i].s = s
            PROVE  QuestionOf(e, s) \/ (heard /\ e = f /\ s = t)
        <4>1. up' = up \/ up' = up \o r
          BY <1>3 DEF SendAll
        <4>2. (i \in DOMAIN up /\ up'[i] = up[i]) \/ (\E k \in DOMAIN r : up'[i] = r[k])
          BY <1>6, <1>13, <4>1, Joined
        <4>3. CASE i \in DOMAIN up /\ up'[i] = up[i]
          BY <3>2, <4>3 DEF QuestionOf
        <4>4. CASE \E k \in DOMAIN r : up'[i] = r[k]
          BY <1>4, <1>6, <3>2, <4>4
        <4> QED BY <4>2, <4>3, <4>4
      <3> QED BY <2>1, <3>1, <3>2 DEF QuestionOf
    <2>2. ASSUME NEW e \in Elicit PROVE relayed'[e] # None => e \in asked'
      BY <1>3, <1>9 DEF QuestionInv
    <2>3. ASSUME NEW e \in Elicit, NEW s \in Session, QuestionOf(e, s)' PROVE e \in asked' /\ relayed'[e] \in {None, s}
      <3>1. CASE heard /\ e = f /\ s = t
        BY <1>3, <1>9, <3>1
      <3>2. CASE QuestionOf(e, s)
        <4>1. e \in asked /\ relayed[e] \in {None, s}
          BY <3>2 DEF QuestionInv
        <4> QED BY <1>3, <1>9, <4>1
      <3> QED BY <2>1, <2>3, <3>1, <3>2
    <2> QED BY <2>2, <2>3 DEF QuestionInv
  <1>16. LostInv'
    BY <1>3 DEF LostInv, SendAll, aggVars
  <1>17. SessionTypes'
    <2>1. up' \in Seq(Messages)
      BY <1>3, <1>6, <1>13, SentIs
    <2>2. CountInv' /\ commands' \in 0 .. MaxCommands
      BY <1>3, CountsKept DEF startVars, SessionTypes
    <2>3. turn' \in [Session -> {"none", "asked", "thinking", "tool", "subagent", "waiting", "said"}]
          /\ relayed' \in [Elicit -> Session \cup {None}]
      BY <1>3, <1>5
    <2> QED BY <1>3, <2>1, <2>2, <2>3 DEF SessionTypes, SdkTypes, QueueTypes, AggTypeOK, startVars, aggVars
  <1> QED BY <1>14, <1>15, <1>16, <1>17

-----------------------------------------------------------------------------
(* HQ reads an event. *)

(* What a session becomes by an event.                                     *)
Became(v, type, arg) ==
  LET old == IF v = None THEN Stub ELSE v
      new == [Worked(Questioned(old, type, arg), type) EXCEPT !.status = StatusAfter(old.status, type)]
  IN  IF type # "session.shutdown" THEN new ELSE IF v = None THEN None ELSE [Stub EXCEPT !.status = "ended"]

LEMMA DerivedIs ==
  ASSUME NEW v \in Shown
  PROVE  Derived(v) \in Shown /\ Derived(v).status = v.status /\ Derived(v).waiting = v.waiting
BY DEF Derived, Shown, Phase

LEMMA QuestionedIs ==
  ASSUME NEW v \in Shown, NEW type, NEW arg, type = "elicitation.requested" => arg \in Elicit
  PROVE  LET q == Questioned(v, type, arg)
         IN  /\ q \in Shown /\ q.status = v.status
             /\ q.waiting = CASE type = "elicitation.requested" -> arg
                              [] type = "elicitation.completed" -> None [] OTHER -> v.waiting
             /\ type # "elicitation.completed" => q.phase \in {v.phase, "waiting"}
  <1>1. CASE type = "elicitation.requested"
    <2>1. Questioned(v, type, arg) = [v EXCEPT !.phase = "waiting", !.waiting = arg]
      BY <1>1 DEF Questioned
    <2>2. [v EXCEPT !.phase = "waiting", !.waiting = arg] \in Shown
      BY <1>1 DEF Shown, Phase
    <2> QED BY <1>1, <2>1, <2>2 DEF Shown
  <1>2. CASE type = "elicitation.completed"
    <2>1. Questioned(v, type, arg) = Derived([v EXCEPT !.waiting = None])
      BY <1>2 DEF Questioned
    <2>2. [v EXCEPT !.waiting = None] \in Shown
      BY DEF Shown
    <2>3. [v EXCEPT !.waiting = None].status = v.status /\ [v EXCEPT !.waiting = None].waiting = None
      BY DEF Shown
    <2> QED BY <1>2, <2>1, <2>2, <2>3, DerivedIs
  <1>3. CASE type \notin {"elicitation.requested", "elicitation.completed"}
    <2>1. Questioned(v, type, arg) = v
      BY <1>3 DEF Questioned
    <2> QED BY <1>3, <2>1
  <1> QED BY <1>1, <1>2, <1>3

LEMMA WorkedIs ==
  ASSUME NEW v \in Shown, NEW type
  PROVE  LET w == Worked(v, type)
         IN  /\ w \in Shown /\ w.waiting = IF type = "session.idle" THEN None ELSE v.waiting
             /\ type = "session.idle" => w.phase = "idle"
             /\ type = "session.error" => w.phase = "error"
             /\ type \notin Stirring \cup Calming => w = v
  <1> DEFINE w == Worked(v, type)
  <1>1. CASE type = "assistant.turn_start"
    <2>1. w = [v EXCEPT !.phase = "thinking", !.tool = FALSE]
      BY <1>1 DEF Worked
    <2> QED BY <1>1, <2>1 DEF Shown, Phase, Stirring
  <1>2. CASE type = "tool.execution_start"
    <2>1. w = [v EXCEPT !.phase = "tool", !.tool = TRUE]
      BY <1>2 DEF Worked
    <2> QED BY <1>2, <2>1 DEF Shown, Phase, Stirring
  <1>3. CASE type = "tool.execution_complete"
    <2>1. w = Derived([v EXCEPT !.tool = FALSE])
      BY <1>3 DEF Worked
    <2>2. [v EXCEPT !.tool = FALSE] \in Shown /\ [v EXCEPT !.tool = FALSE].waiting = v.waiting
      BY DEF Shown
    <2> QED BY <1>3, <2>1, <2>2, DerivedIs DEF Stirring
  <1>4. CASE type = "subagent.started"
    <2>1. w = [v EXCEPT !.phase = "subagent", !.subagent = TRUE]
      BY <1>4 DEF Worked
    <2> QED BY <1>4, <2>1 DEF Shown, Phase, Stirring
  <1>5. CASE type = "subagent.completed"
    <2>1. w = Derived([v EXCEPT !.subagent = FALSE])
      BY <1>5 DEF Worked
    <2>2. [v EXCEPT !.subagent = FALSE] \in Shown /\ [v EXCEPT !.subagent = FALSE].waiting = v.waiting
      BY DEF Shown
    <2> QED BY <1>5, <2>1, <2>2, DerivedIs DEF Stirring
  <1>6. CASE type = "session.idle"
    <2>1. w = [v EXCEPT !.phase = "idle", !.tool = FALSE, !.waiting = None]
      BY <1>6 DEF Worked
    <2> QED BY <1>6, <2>1 DEF Shown, Phase, Calming
  <1>7. CASE type = "session.error"
    <2>1. w = [v EXCEPT !.phase = "error"]
      BY <1>7 DEF Worked
    <2> QED BY <1>7, <2>1 DEF Shown, Phase, Calming
  <1>8. CASE type \notin {"assistant.turn_start", "tool.execution_start", "tool.execution_complete",
                          "subagent.started", "subagent.completed", "session.idle", "session.error"}
    <2>1. w = v
      BY <1>8 DEF Worked
    <2> QED BY <1>8, <2>1
  <1> QED BY <1>1, <1>2, <1>3, <1>4, <1>5, <1>6, <1>7, <1>8

(* Calming events leave no session at work and clearing ones none waiting; *)
(* only a stirring event, only the question itself, does the opposite.     *)
LEMMA EventShown ==
  ASSUME NEW v \in Shown \cup {None}, NEW type, NEW arg, type = "elicitation.requested" => arg \in Elicit
  PROVE  LET w == Became(v, type, arg)
         IN  /\ w \in Shown \cup {None}
             /\ type \in Calming => ~AtWork(w)
             /\ AtWork(w) /\ type \notin Stirring => AtWork(v)
             /\ \A e \in Elicit :
                  /\ type \in Clearing => ~(w # None /\ w.waiting = e)
                  /\ w # None /\ w.waiting = e /\ ~(type = "elicitation.requested" /\ arg = e)
                        => v # None /\ v.waiting = e
  <1> DEFINE w == Became(v, type, arg)
             old == IF v = None THEN Stub ELSE v
             q == Questioned(old, type, arg)
             u == Worked(q, type)
  <1>1. Stub \in Shown /\ Stub.status = "idle" /\ Stub.phase = "idle" /\ Stub.waiting = None
    BY DEF Stub, Shown, Status, Phase
  <1>2. old \in Shown
    BY <1>1
  <1>3. CASE type = "session.shutdown"
    <2>1. w = IF v = None THEN None ELSE [Stub EXCEPT !.status = "ended"]
      BY <1>3 DEF Became
    <2>2. /\ [Stub EXCEPT !.status = "ended"] \in Shown
          /\ [Stub EXCEPT !.status = "ended"].status = "ended"
          /\ [Stub EXCEPT !.status = "ended"].phase = "idle" /\ [Stub EXCEPT !.status = "ended"].waiting = None
      BY <1>1 DEF Shown, Status
    <2>3. w \in Shown \cup {None} /\ ~AtWork(w) /\ (w # None => w.waiting = None)
      BY <2>1, <2>2 DEF AtWork
    <2> QED BY <2>3, ManagerAssumption
  <1>4. CASE type # "session.shutdown"
    <2>1. w = [u EXCEPT !.status = StatusAfter(old.status, type)]
      BY <1>4 DEF Became
    <2>2. StatusAfter(old.status, type) \in Status
      BY <1>2 DEF StatusAfter, Shown, Status
    <2>3. /\ type \in {"session.idle"} => StatusAfter(old.status, type) = "idle"
          /\ type = "session.error" => StatusAfter(old.status, type) = "error"
          /\ type \notin Stirring => StatusAfter(old.status, type) \in {"idle", "error", old.status}
      BY DEF StatusAfter, Stirring
    <2>4. /\ q \in Shown /\ q.status = old.status
          /\ q.waiting = CASE type = "elicitation.requested" -> arg
                           [] type = "elicitation.completed" -> None [] OTHER -> old.waiting
          /\ type # "elicitation.completed" => q.phase \in {old.phase, "waiting"}
      BY <1>2, QuestionedIs
    <2> HIDE DEF q, old
    <2>5. /\ u \in Shown /\ u.waiting = IF type = "session.idle" THEN None ELSE q.waiting
          /\ type = "session.idle" => u.phase = "idle"
          /\ type = "session.error" => u.phase = "error"
          /\ type \notin Stirring \cup Calming => u = q
      BY <2>4, WorkedIs
    <2> HIDE DEF u
    <2>6. w \in Shown /\ w.status = StatusAfter(old.status, type) /\ w.phase = u.phase /\ w.waiting = u.waiting
      BY <2>1, <2>2, <2>5 DEF Shown
    <2> HIDE DEF w
    <2>7. type \in Calming => ~AtWork(w)
      BY <1>4, <2>3, <2>5, <2>6 DEF Calming, AtWork
    <2>8. ASSUME AtWork(w), type \notin Stirring PROVE AtWork(v)
      <3>1. type \notin Calming /\ type # "elicitation.completed"
        BY <2>7, <2>8 DEF Stirring
      <3>2. old.status = "active" \/ old.phase \in {"thinking", "tool", "subagent"}
        BY <2>3, <2>4, <2>5, <2>6, <2>8, <3>1 DEF AtWork
      <3> QED BY <1>1, <3>2 DEF old, AtWork
    <2>9. ASSUME NEW e \in Elicit
          PROVE  /\ type \in Clearing => ~(w # None /\ w.waiting = e)
                 /\ w # None /\ w.waiting = e /\ ~(type = "elicitation.requested" /\ arg = e)
                        => v # None /\ v.waiting = e
      <3>1. e # None
        BY ManagerAssumption
      <3>2. type \in Clearing => w.waiting = None
        BY <1>4, <2>4, <2>5, <2>6 DEF Clearing
      <3>3. ASSUME w.waiting = e, ~(type = "elicitation.requested" /\ arg = e) PROVE v # None /\ v.waiting = e
        <4>1. old.waiting = e
          BY <2>4, <2>5, <2>6, <3>1, <3>3
        <4> QED BY <1>1, <3>1, <4>1 DEF old
      <3> QED BY <3>1, <3>2, <3>3
    <2> QED BY <2>6, <2>7, <2>8, <2>9 DEF w
  <1> QED BY <1>3, <1>4

LEMMA OneMore ==
  ASSUME NEW S, NEW q \in Seq(S), NEW c \in S
  PROVE  /\ Append(q, c) \in Seq(S)
         /\ \A i \in DOMAIN Append(q, c) : Append(q, c)[i] = c \/ (i \in DOMAIN q /\ Append(q, c)[i] = q[i])
OBVIOUS

(* Each session HQ shows becomes what the event makes of it.               *)
LEMMA EventReceived ==
  ASSUME AggTypeOK, NEW m \in Messages, m.kind = "event", HandleSessionEvent(m)
  PROVE  /\ shown' \in [Ids -> Shown \cup {None}]
         /\ \A s \in Session : shown'[s] = IF s = m.s THEN Became(shown[s], m.type, m.arg) ELSE shown[s]
  <1>1. shown' = [shown EXCEPT ![m.s] = Became(shown[m.s], m.type, m.arg)]
    BY DEF HandleSessionEvent, Became
  <1>2. shown \in [Ids -> Shown \cup {None}]
    BY DEF AggTypeOK
  <1>3. ASSUME m.s \in Ids PROVE Became(shown[m.s], m.type, m.arg) \in Shown \cup {None}
    <2>1. m.type = "elicitation.requested" => m.arg \in Elicit
      BY DEF Messages
    <2>2. shown[m.s] \in Shown \cup {None}
      BY <1>2, <1>3
    <2> QED BY <2>1, <2>2, EventShown
  <1>4. Session \subseteq Ids
    BY DEF Ids
  <1>5. CASE m.s \in Ids
    BY <1>1, <1>2, <1>3, <1>4, <1>5
  <1>6. CASE m.s \notin Ids
    <2>1. shown' = shown
      BY <1>1, <1>2, <1>6
    <2> QED BY <1>2, <1>4, <1>6, <2>1
  <1> QED BY <1>5, <1>6

LEMMA ReceiveStep ==
  ASSUME SessionTypes, LostInv, WorkInv, WaitInv, QuestionInv, NEW corrupted \in BOOLEAN, Receive(corrupted)
  PROVE  SessionTypes' /\ LostInv' /\ WorkInv' /\ WaitInv' /\ QuestionInv'
  <1> DEFINE m == Head(up)
  <1>1. /\ link = "up" /\ up # << >> /\ up' = Tail(up)
        /\ IF m.kind = "event" THEN HandleSessionEvent(m) ELSE UNCHANGED shown
        /\ pending' = pending \ {m.arg}
        /\ questions' = IF m.kind = "question" THEN [questions EXCEPT ![m.arg] = m.s] ELSE questions
        /\ UNCHANGED <<link, startVars, sdkVars, trackVars, loads, deletedIds, jobs, relayed, tombstones, replaced>>
    BY DEF Receive
  <1>2. \/ UNCHANGED <<down, commands>>
        \/ /\ m.s \in Session /\ commands < MaxCommands
           /\ down' = Append(down, Command("delete", m.s, None)) /\ commands' = commands + 1
    BY DEF Receive
  <1>3. up \in Seq(Messages) /\ down \in Seq(Commands) /\ AggTypeOK
    BY DEF SessionTypes, QueueTypes
  <1>4. m \in Messages /\ up' \in Seq(Messages) /\ 1 \in DOMAIN up /\ m = up[1]
    BY <1>1, <1>3, Taken
  <1>5. m.kind = "question" => m.s \in Session /\ m.arg \in Elicit
    BY <1>4 DEF Messages
  <1> HIDE DEF m
  <1>6. shown' \in [Ids -> Shown \cup {None}]
    <2>1. CASE m.kind = "event"
      BY <1>1, <1>3, <1>4, <2>1, EventReceived
    <2>2. CASE m.kind # "event"
      BY <1>1, <1>3, <2>2 DEF AggTypeOK
    <2> QED BY <2>1, <2>2
  <1>7. down' \in Seq(Commands) /\ \A i \in DOMAIN down' : down'[i].op = "reply" => \E k \in DOMAIN down : down[k] = down'[i]
    <2>1. CASE down' = down
      BY <1>3, <2>1
    <2>2. CASE m.s \in Session /\ down' = Append(down, Command("delete", m.s, None))
      <3>1. Command("delete", m.s, None) \in Commands
        BY <2>2, CommandIs DEF Ops, Arg
      <3>2. Command("delete", m.s, None).op = "delete"
        BY DEF Command
      <3> HIDE DEF Command
      <3> QED BY <1>3, <2>2, <3>1, <3>2, OneMore
    <2> QED BY <1>2, <2>1, <2>2
  <1>8. ASSUME NEW s \in Session
        PROVE  /\ Of(m, s, Calming) => ~AtWork(shown'[s])
               /\ AtWork(shown'[s]) /\ ~Of(m, s, Stirring) => AtWork(shown[s])
               /\ \A e \in Elicit :
                    /\ Of(m, s, Clearing) => ~(shown'[s] # None /\ shown'[s].waiting = e)
                    /\ shown'[s] # None /\ shown'[s].waiting = e /\ ~Asks(m, s, e)
                          => shown[s] # None /\ shown[s].waiting = e
    <2>1. CASE m.kind = "event" /\ m.s = s
      <3>1. shown'[s] = Became(shown[s], m.type, m.arg)
        BY <1>1, <1>3, <1>4, <2>1, EventReceived
      <3>2. shown[s] \in Shown \cup {None}
        BY <1>3 DEF AggTypeOK, Ids
      <3>3. m.type = "elicitation.requested" => m.arg \in Elicit
        BY <1>4, <2>1 DEF Messages
      <3>4. \A types : Of(m, s, types) <=> m.type \in types
        BY <2>1 DEF Of
      <3>5. \A e : Asks(m, s, e) <=> m.type = "elicitation.requested" /\ m.arg = e
        BY <3>4 DEF Asks
      <3> QED BY <3>1, <3>2, <3>3, <3>4, <3>5, EventShown
    <2>2. CASE ~(m.kind = "event" /\ m.s = s)
      <3>1. shown'[s] = shown[s]
        BY <1>1, <1>3, <1>4, <2>2, EventReceived
      <3> QED BY <2>2, <3>1 DEF Of
    <2> QED BY <2>1, <2>2
  <1>9. WorkInv'
    <2> SUFFICES ASSUME ~replaced, NEW s \in Session, ~Busy(s) PROVE Rests(up', s, shown'[s])
      BY <1>1 DEF WorkInv, Busy, Ending, Replying, trackVars, sdkVars
    <2>1. Rests(up, s, shown[s])
      BY <1>1 DEF WorkInv
    <2>2. /\ Of(Head(up), s, Calming) => ~AtWork(shown'[s])
          /\ AtWork(shown'[s]) /\ ~Of(Head(up), s, Stirring) => AtWork(shown[s])
      BY <1>8 DEF m
    <2> QED BY <1>1, <1>3, <2>1, <2>2, RestsShorter
  <1>10. WaitInv'
    <2> SUFFICES ASSUME ~replaced, NEW s \in Session, NEW e \in Elicit, ~Held(s, e) PROVE Cleared(up', s, e, shown'[s])
      BY <1>1 DEF WaitInv, Held, Ending, trackVars, sdkVars
    <2>1. Cleared(up, s, e, shown[s])
      BY <1>1 DEF WaitInv
    <2>2. /\ Of(Head(up), s, Clearing) => ~(shown'[s] # None /\ shown'[s].waiting = e)
          /\ shown'[s] # None /\ shown'[s].waiting = e /\ ~Asks(Head(up), s, e)
                => shown[s] # None /\ shown[s].waiting = e
      BY <1>8 DEF m
    <2> QED BY <1>1, <1>3, <2>1, <2>2, ClearedShorter
  <1>11. QuestionInv'
    <2>1. questions \in [Elicit -> Session \cup {None}]
      BY <1>3 DEF AggTypeOK
    <2>2. ASSUME NEW e \in Elicit, NEW s \in Session, QuestionOf(e, s)' PROVE QuestionOf(e, s)
      <3>1. CASE questions'[e] = s
        <4>1. questions[e] = s \/ (m.kind = "question" /\ e = m.arg /\ s = m.s)
          BY <1>1, <1>5, <2>1, <3>1
        <4> QED BY <1>4, <4>1 DEF QuestionOf
      <3>2. ASSUME NEW i \in DOMAIN up', up'[i].kind = "question", up'[i].arg = e, up'[i].s = s
            PROVE  QuestionOf(e, s)
        <4>1. i + 1 \in DOMAIN up /\ up'[i] = up[i + 1]
          BY <1>1, <1>3, <3>2, Taken
        <4> QED BY <3>2, <4>1 DEF QuestionOf
      <3>3. ASSUME NEW i \in DOMAIN down', down'[i].op = "reply", down'[i].arg = e, down'[i].s = s
            PROVE  QuestionOf(e, s)
        BY <1>7, <3>3 DEF QuestionOf
      <3> QED BY <2>2, <3>1, <3>2, <3>3 DEF QuestionOf
    <2> QED BY <1>1, <2>2 DEF QuestionInv, sdkVars
  <1>12. LostInv'
    BY <1>1 DEF LostInv
  <1>13. SessionTypes'
    <2>1. CountInv' /\ commands' \in 0 .. MaxCommands
      BY <1>1, <1>2, ManagerAssumption DEF SessionTypes, CountInv, startVars
    <2>2. AggTypeOK'
      BY <1>1, <1>3, <1>5, <1>6 DEF AggTypeOK
    <2>3. QueueTypes' /\ SdkTypes'
      BY <1>1, <1>4, <1>7 DEF SessionTypes, QueueTypes, SdkTypes, startVars, sdkVars
    <2> QED BY <2>1, <2>2, <2>3 DEF SessionTypes
  <1> QED BY <1>9, <1>10, <1>11, <1>12, <1>13

-----------------------------------------------------------------------------
(* HQ's commands, and what becomes of the link. *)

(* The daemon is not touched; what HQ shows stays or is forgotten.         *)
LEMMA HqActs ==
  ASSUME LostInv, WorkInv, WaitInv, QuestionInv,
         UNCHANGED <<up, link, jobs, tracked, turn, relayed, asked, replaced>>, link # "up" => down' = down,
         \A s \in Session : shown'[s] \in {shown[s], None},
         \A e \in Elicit, s \in Session : QuestionOf(e, s)' => QuestionOf(e, s)
  PROVE  LostInv' /\ WorkInv' /\ WaitInv' /\ QuestionInv'
  <1>1. WorkInv'
    <2> SUFFICES ASSUME link = "up", ~replaced, NEW s \in Session, ~Busy(s) PROVE Rests(up, s, shown'[s])
      BY DEF WorkInv, Busy, Ending, Replying
    <2>1. Rests(up, s, shown[s])
      BY DEF WorkInv
    <2> QED BY <2>1 DEF Rests, AtWork
  <1>2. WaitInv'
    <2> SUFFICES ASSUME link = "up", ~replaced, NEW s \in Session, NEW e \in Elicit, ~Held(s, e)
                 PROVE  Cleared(up, s, e, shown'[s])
      BY DEF WaitInv, Held, Ending
    <2>1. Cleared(up, s, e, shown[s])
      BY DEF WaitInv
    <2> QED BY <2>1 DEF Cleared
  <1>3. QuestionInv'
    BY DEF QuestionInv
  <1>4. LostInv'
    BY DEF LostInv
  <1> QED BY <1>1, <1>2, <1>3, <1>4

LEMMA SendsStep ==
  ASSUME SessionTypes, LostInv, WorkInv, WaitInv, QuestionInv, AggTypeOK', UNCHANGED <<questions, replaced>>,
         NEW op \in Ops \ {"reply"}, NEW s \in Session \cup {None}, NEW arg \in Arg, op = "delete" => s \in Session,
         Sends(op, s, arg), \A t \in Session : shown'[t] \in {shown[t], None}
  PROVE  SessionTypes' /\ LostInv' /\ WorkInv' /\ WaitInv' /\ QuestionInv'
  <1> DEFINE c == Command(op, s, arg)
  <1>1. /\ commands < MaxCommands /\ commands' = commands + 1
        /\ down' = IF link = "up" THEN Append(down, c) ELSE down
        /\ UNCHANGED <<up, link, startVars, sdkVars, trackVars, loads, deletedIds, jobs, relayed>>
    BY DEF Sends, SendToDaemon
  <1>2. c \in Commands
    BY CommandIs
  <1>3. c.op # "reply"
    BY DEF Command
  <1> HIDE DEF c
  <1>4. down' \in Seq(Commands) /\ \A i \in DOMAIN down' : down'[i] = c \/ (i \in DOMAIN down /\ down'[i] = down[i])
    <2>1. down \in Seq(Commands)
      BY DEF SessionTypes, QueueTypes
    <2> QED BY <1>1, <1>2, <2>1, OneMore
  <1>5. ASSUME NEW e \in Elicit, NEW t \in Session, QuestionOf(e, t)' PROVE QuestionOf(e, t)
    <2>1. ASSUME NEW i \in DOMAIN down', down'[i].op = "reply", down'[i].arg = e, down'[i].s = t
          PROVE  QuestionOf(e, t)
      BY <1>3, <1>4, <2>1 DEF QuestionOf
    <2> QED BY <1>1, <1>5, <2>1 DEF QuestionOf
  <1>6. LostInv' /\ WorkInv' /\ WaitInv' /\ QuestionInv'
    BY <1>1, <1>5, HqActs DEF sdkVars, trackVars
  <1>7. SessionTypes'
    <2>1. CountInv' /\ commands' \in 0 .. MaxCommands
      BY <1>1, ManagerAssumption, SMTT(30) DEF SessionTypes, CountInv, startVars
    <2>2. QueueTypes' /\ SdkTypes'
      BY <1>1, <1>4 DEF SessionTypes, QueueTypes, SdkTypes, startVars, sdkVars
    <2> QED BY <2>1, <2>2 DEF SessionTypes
  <1> QED BY <1>6, <1>7

LEMMA PostSteps ==
  ASSUME SessionTypes, LostInv, WorkInv, WaitInv, QuestionInv,
         \/ \E s \in Session :
               \/ PostPrompt(s) \/ PostAbort(s) \/ PostDisconnect(s) \/ PostSetting(s)
               \/ PostResume(s) \/ PostDelete(s) \/ AskMode(s) \/ AskAgent(s)
         \/ AskList \/ PostCreate
  PROVE  SessionTypes' /\ LostInv' /\ WorkInv' /\ WaitInv' /\ QuestionInv'
  <1> DEFINE Kept == SessionTypes' /\ LostInv' /\ WorkInv' /\ WaitInv' /\ QuestionInv'
  <1>1. AggTypeOK /\ commands \in 0 .. MaxCommands /\ MaxCommands \in Nat
    BY ManagerAssumption DEF SessionTypes
  <1>2. ASSUME NEW op \in Ops \ {"reply", "delete"}, NEW s \in Session \cup {None}, NEW arg \in Arg,
               Sends(op, s, arg), UNCHANGED aggVars
        PROVE  Kept
    <2>1. AggTypeOK'
      BY <1>1, <1>2 DEF AggTypeOK, aggVars
    <2> QED BY <1>2, <2>1, SendsStep DEF aggVars
  <1>3. ASSUME NEW op, NEW s, NEW arg, Sends(op, s, arg) PROVE Req \in Arg /\ Req \in 1 .. MaxCommands
    BY <1>1, <1>3 DEF Sends, Req, Arg
  <1>4. ASSUME NEW op \in Ops \ {"reply", "delete"}, NEW s \in Session \cup {None}, Awaits(op, s)
        PROVE  Kept
    <2>1. Req \in Arg /\ Req \in 1 .. MaxCommands
      BY <1>3, <1>4 DEF Awaits
    <2>2. AggTypeOK'
      BY <1>1, <1>4, <2>1 DEF AggTypeOK, Awaits
    <2>3. Sends(op, s, Req) /\ UNCHANGED <<shown, questions, replaced>>
      BY <1>4 DEF Awaits
    <2> QED BY <2>1, <2>2, <2>3, SendsStep
  <1>5. None \in Arg
    BY DEF Arg
  <1>6. ASSUME NEW s \in Session, PostPrompt(s) \/ PostAbort(s) \/ PostDisconnect(s) \/ PostSetting(s) PROVE Kept
    BY <1>2, <1>5, <1>6 DEF PostPrompt, PostAbort, PostDisconnect, PostSetting, PostAtOnce, Ops, Needing
  <1>7. ASSUME NEW s \in Session, PostResume(s) PROVE Kept
    <2>1. Sends("resume", s, Req) /\ UNCHANGED aggVars
      BY <1>7 DEF PostResume
    <2> QED BY <1>2, <1>3, <2>1 DEF Ops
  <1>8. ASSUME NEW s \in Session, PostDelete(s) PROVE Kept
    <2>1. /\ Sends("delete", s, None) /\ shown' = [shown EXCEPT ![s] = None]
          /\ tombstones' = tombstones \cup {s} /\ UNCHANGED <<pending, questions, replaced>>
      BY <1>8 DEF PostDelete
    <2>2. AggTypeOK'
      BY <1>1, <2>1 DEF AggTypeOK
    <2>3. \A t \in Session : shown'[t] \in {shown[t], None}
      BY <1>1, <2>1 DEF AggTypeOK, Ids
    <2> QED BY <1>5, <2>1, <2>2, <2>3, SendsStep DEF Ops
  <1>9. ASSUME NEW s \in Session, AskMode(s) \/ AskAgent(s) PROVE Kept
    BY <1>4, <1>9 DEF AskMode, AskAgent, Ops, Needing
  <1>10. CASE AskList \/ PostCreate
    BY <1>4, <1>10 DEF AskList, PostCreate, Ops
  <1> QED BY <1>6, <1>7, <1>8, <1>9, <1>10

LEMMA PostReplyStep ==
  ASSUME SessionTypes, LostInv, WorkInv, WaitInv, QuestionInv, NEW f \in Elicit, PostReply(f)
  PROVE  SessionTypes' /\ LostInv' /\ WorkInv' /\ WaitInv' /\ QuestionInv'
  <1> DEFINE c == Command("reply", questions[f], f)
  <1>1. /\ questions[f] # None /\ questions' = [questions EXCEPT ![f] = None]
        /\ down' = IF link = "up" THEN Append(down, c) ELSE down
        /\ UNCHANGED <<up, link, startVars, sdkVars, trackVars, loads, deletedIds, jobs,
                       relayed, commands, shown, tombstones, pending, replaced>>
    BY DEF PostReply, SendToDaemon
  <1>2. questions \in [Elicit -> Session \cup {None}] /\ AggTypeOK
    BY DEF SessionTypes, AggTypeOK
  <1>3. questions[f] \in Session
    BY <1>1, <1>2
  <1>4. c \in Commands /\ c.s = questions[f] /\ c.arg = f
    BY <1>3, CommandIs DEF Ops, Arg, Command
  <1> HIDE DEF c
  <1>5. down' \in Seq(Commands) /\ \A i \in DOMAIN down' : down'[i] = c \/ (i \in DOMAIN down /\ down'[i] = down[i])
    <2>1. down \in Seq(Commands)
      BY DEF SessionTypes, QueueTypes
    <2> QED BY <1>1, <1>4, <2>1, OneMore
  <1>6. ASSUME NEW e \in Elicit, NEW s \in Session, QuestionOf(e, s)' PROVE QuestionOf(e, s)
    <2>1. CASE questions'[e] = s
      BY <1>1, <1>2, <2>1, ManagerAssumption DEF QuestionOf
    <2>2. ASSUME NEW i \in DOMAIN down', down'[i].op = "reply", down'[i].arg = e, down'[i].s = s
          PROVE  QuestionOf(e, s)
      BY <1>4, <1>5, <2>2 DEF QuestionOf
    <2> QED BY <1>1, <1>6, <2>1, <2>2 DEF QuestionOf
  <1>7. LostInv' /\ WorkInv' /\ WaitInv' /\ QuestionInv'
    BY <1>1, <1>6, HqActs DEF sdkVars, trackVars
  <1>8. SessionTypes'
    <2>1. CountInv' /\ commands' \in 0 .. MaxCommands
      BY <1>1, CountsKept DEF startVars, SessionTypes
    <2>2. AggTypeOK'
      BY <1>1, <1>2 DEF AggTypeOK
    <2>3. QueueTypes' /\ SdkTypes'
      BY <1>1, <1>5 DEF SessionTypes, QueueTypes, SdkTypes, startVars, sdkVars
    <2> QED BY <2>1, <2>2, <2>3 DEF SessionTypes
  <1> QED BY <1>7, <1>8

LEMMA TimeOutStep ==
  ASSUME SessionTypes, LostInv, WorkInv, WaitInv, QuestionInv, TimeOut
  PROVE  SessionTypes' /\ LostInv' /\ WorkInv' /\ WaitInv' /\ QuestionInv'
  <1>1. pending' \subseteq pending /\ UNCHANGED <<cmVars, shown, tombstones, questions, replaced>>
    BY DEF TimeOut
  <1>2. SessionTypes'
    BY <1>1 DEF SessionTypes, QueueTypes, SdkTypes, AggTypeOK, CountInv, cmVars, linkVars, startVars, sdkVars
  <1>3. LostInv' /\ WorkInv' /\ WaitInv' /\ QuestionInv'
    <2>1. \A e \in Elicit, s \in Session : QuestionOf(e, s)' => QuestionOf(e, s)
      BY <1>1 DEF QuestionOf, cmVars, linkVars
    <2> QED BY <1>1, <2>1, HqActs DEF cmVars, linkVars, sdkVars, trackVars
  <1> QED BY <1>2, <1>3

(* A link goes with all that is under way.                                 *)
LEMMA LinkGoes ==
  ASSUME QuestionInv, up' = << >>, down' = << >>, link' # "up", UNCHANGED <<questions, asked>>,
         \A e \in Elicit : relayed'[e] \in {relayed[e], None},
         link' = "gone" => \A s \in Session : shown'[s] = None
  PROVE  LostInv' /\ WorkInv' /\ WaitInv' /\ QuestionInv'
  <1>1. \A e \in Elicit, s \in Session : QuestionOf(e, s)' => QuestionOf(e, s)
    BY DEF QuestionOf
  <1>2. QuestionInv'
    BY <1>1 DEF QuestionInv
  <1> QED BY <1>2 DEF LostInv, WorkInv, WaitInv

LEMMA CrashStep ==
  ASSUME SessionTypes, QuestionInv, Crash, AggTypeOK', \A s \in Session : shown'[s] = None,
         UNCHANGED <<questions, replaced>>
  PROVE  SessionTypes' /\ LostInv' /\ WorkInv' /\ WaitInv' /\ QuestionInv'
  <1>1. LostInv' /\ WorkInv' /\ WaitInv' /\ QuestionInv'
    BY LinkGoes DEF Crash
  <1>2. CountInv' /\ commands' \in 0 .. MaxCommands
    BY ManagerAssumption DEF Crash, CountInv, SessionTypes
  <1>3. QueueTypes'
    BY DEF Crash, QueueTypes
  <1>4. SdkTypes'
    BY DEF Crash, SdkTypes, SessionTypes
  <1> QED BY <1>1, <1>2, <1>3, <1>4 DEF SessionTypes

LEMMA LinkSteps ==
  ASSUME SessionTypes, LostInv, WorkInv, WaitInv, QuestionInv,
         (\E noticed \in BOOLEAN : HqLosesLink(noticed)) \/ HqNotices \/ HqReconnects
  PROVE  SessionTypes' /\ LostInv' /\ WorkInv' /\ WaitInv' /\ QuestionInv'
  <1>1. AggTypeOK /\ shown \in [Ids -> Shown \cup {None}] /\ Session \subseteq Ids
        /\ relayed \in [Elicit -> Session \cup {None}]
    BY DEF SessionTypes, AggTypeOK, SdkTypes, Ids
  <1>2. RemoveDaemon => shown' \in [Ids -> Shown \cup {None}] /\ \A s \in Session : shown'[s] = None
    BY <1>1 DEF RemoveDaemon
  <1>3. ASSUME NEW noticed \in BOOLEAN, HqLosesLink(noticed)
        PROVE  SessionTypes' /\ LostInv' /\ WorkInv' /\ WaitInv' /\ QuestionInv'
    <2>1. /\ link = "up" /\ commands < MaxCommands /\ commands' = commands + 1 /\ up' = << >> /\ down' = << >>
          /\ link' = (IF noticed THEN "gone" ELSE "stale")
          /\ IF noticed THEN RemoveDaemon ELSE UNCHANGED shown
          /\ UNCHANGED <<startVars, sdkVars, trackVars, loads, deletedIds, jobs, relayed,
                         tombstones, pending, questions, replaced>>
      BY <1>3 DEF HqLosesLink, LinkLost
    <2>2. LostInv' /\ WorkInv' /\ WaitInv' /\ QuestionInv'
      <3>1. link' # "up" /\ (link' = "gone" => \A s \in Session : shown'[s] = None)
        BY <1>2, <2>1
      <3> QED BY <2>1, <3>1, LinkGoes DEF sdkVars
    <2>3. CountInv' /\ commands' \in 0 .. MaxCommands
      BY <2>1, ManagerAssumption DEF CountInv, SessionTypes, startVars
    <2>4. AggTypeOK'
      BY <1>1, <1>2, <2>1 DEF AggTypeOK
    <2>5. QueueTypes' /\ SdkTypes'
      BY <2>1 DEF QueueTypes, SdkTypes, SessionTypes, startVars, sdkVars
    <2> QED BY <2>2, <2>3, <2>4, <2>5 DEF SessionTypes
  <1>4. CASE HqNotices
    <2>1. /\ link = "stale" /\ link' = "gone" /\ RemoveDaemon
          /\ UNCHANGED <<up, down, startVars, sdkVars, trackVars, loads, deletedIds, jobs,
                         relayed, commands, tombstones, pending, questions, replaced>>
      BY <1>4 DEF HqNotices
    <2>2. LostInv' /\ WorkInv' /\ WaitInv' /\ QuestionInv'
      BY <1>2, <2>1, LinkGoes DEF sdkVars, LostInv
    <2>3. CountInv' /\ commands' \in 0 .. MaxCommands
      BY <2>1 DEF CountInv, SessionTypes, startVars
    <2>4. AggTypeOK'
      BY <1>1, <1>2, <2>1 DEF AggTypeOK
    <2>5. QueueTypes' /\ SdkTypes'
      BY <2>1 DEF QueueTypes, SdkTypes, SessionTypes, startVars, sdkVars
    <2> QED BY <2>2, <2>3, <2>4, <2>5 DEF SessionTypes
  <1>5. CASE HqReconnects
    <2>1. /\ link # "up" /\ link' = "up" /\ StartCalled /\ replaced' = (replaced \/ link = "stale")
          /\ UNCHANGED <<up, down, sdkVars, trackVars, loads, deletedIds, jobs,
                         relayed, commands, shown, tombstones, pending, questions>>
      BY <1>5 DEF HqReconnects, Reconnect
    <2>2. up = << >> /\ down = << >>
      BY <2>1 DEF LostInv
    <2>3. ~replaced' => ~replaced /\ \A s \in Session : shown[s] = None
      BY <2>1 DEF LostInv, SessionTypes, QueueTypes
    <2>4. WorkInv' /\ WaitInv'
      <3>1. \A s \in Session : Rests(<< >>, s, None) /\ \A e \in Elicit : Cleared(<< >>, s, e, None)
        BY DEF Rests, Cleared, AtWork
      <3> QED BY <2>1, <2>2, <2>3, <3>1 DEF WorkInv, WaitInv
    <2>5. QuestionInv'
      <3>1. \A e \in Elicit, s \in Session : QuestionOf(e, s)' => QuestionOf(e, s)
        BY <2>1 DEF QuestionOf
      <3> QED BY <2>1, <3>1 DEF QuestionInv, sdkVars
    <2>6. LostInv'
      BY <2>1 DEF LostInv
    <2>7. CountInv' /\ commands' \in 0 .. MaxCommands
      BY <2>1 DEF CountInv, SessionTypes, StartCalled
    <2>8. AggTypeOK'
      BY <1>1, <2>1 DEF AggTypeOK
    <2>9. QueueTypes' /\ SdkTypes'
      BY <2>1 DEF QueueTypes, SdkTypes, SessionTypes, StartCalled, sdkVars
    <2> QED BY <2>4, <2>5, <2>6, <2>7, <2>8, <2>9 DEF SessionTypes
  <1> QED BY <1>3, <1>4, <1>5

-----------------------------------------------------------------------------
(* Every step. *)

LEMMA DaemonStep ==
  ASSUME SessionsInv, CmStep, UNCHANGED aggVars
  PROVE  SessionTypes' /\ LostInv' /\ WorkInv' /\ WaitInv' /\ QuestionInv'
  <1> DEFINE Kept == SessionTypes' /\ LostInv' /\ WorkInv' /\ WaitInv' /\ QuestionInv'
  <1> USE DEF SessionsInv
  <1>0. QueueTypes
    BY DEF SessionTypes
  <1>1. SessionTypes' /\ PlainStep => Kept
    <2> SUFFICES ASSUME SessionTypes', PlainStep PROVE Kept
      OBVIOUS
    <2>1. LostInv' /\ WorkInv' /\ WaitInv' /\ QuestionInv'
      BY <1>0, PlainKeeps
    <2> QED BY <2>1
  <1> HIDE DEF Kept
  <1>2. CASE (\E ok \in BOOLEAN : ClientStarted(ok)) \/ FirstPolled
    BY <1>1, <1>2, StartSteps DEF Kept
  <1>3. CASE HandleMessage
    BY <1>1, <1>3, PlainCommands, ReplySteps DEF Kept
  <1>4. ASSUME NEW s \in registry \cup {None}, CoordinatorCalls(s) PROVE Kept
    BY <1>1, <1>4, CoordinatorCallSteps
  <1>5. ASSUME NEW s \in Session, LookupFinds(s) \/ LoadSucceeds(s) PROVE Kept
    BY <1>1, <1>5, LoadSteps
  <1>6. ASSUME NEW s \in Session, TurnStep(s) PROVE Kept
    BY <1>6, TurnSteps DEF Kept
  <1>7. ASSUME NEW s \in Session, NEW e \in Elicit, SdkAsks(s, e) PROVE Kept
    BY <1>7, SdkAsksStep DEF Kept
  <1>8. ASSUME NEW j \in jobs, CmJobStep(j) PROVE Kept
    <2>1. CASE Lacks(j)
      BY <1>1, <2>1, LacksStep
    <2>2. CASE \/ ResumeSucceeds(j) \/ ResumeFails(j) \/ AgentAnswered(j) \/ QueryAnswered(j)
               \/ Listed(j) \/ ListFails(j) \/ SetterSucceeds(j) \/ AbortSucceeds(j)
      BY <1>1, <2>2, AnswerSteps
    <2>3. CASE AgentSelected(j) \/ CreateFails(j)
      BY <1>1, <2>3, CreateSteps
    <2>4. CASE CoordinatorResumed(j)
      BY <1>1, <2>4, CoordinatorResumedStep
    <2>5. CASE \E s \in Session : SessionCreated(j, s)
      BY <1>1, <2>5, SessionCreatedStep
    <2>6. CASE SendSucceeds(j)
      BY <2>6, SendSucceedsStep DEF Kept
    <2>7. CASE SdkFails(j)
      BY <2>7, SdkFailsStep DEF Kept
    <2>8. CASE Disconnected(j)
      BY <2>8, DisconnectedStep DEF Kept
    <2>9. CASE DeleteDisconnected(j)
      BY <2>9, DeleteDisconnectedStep DEF Kept
    <2>10. CASE \E ok \in BOOLEAN : Deleted(j, ok)
      BY <2>10, DeletedStep DEF Kept
    <2> QED BY <1>8, <2>1, <2>2, <2>3, <2>4, <2>5, <2>6, <2>7, <2>8, <2>9, <2>10 DEF CmJobStep
  <1> QED BY <1>2, <1>3, <1>4, <1>5, <1>6, <1>7, <1>8 DEF CmStep, Kept

LEMMA SessionsStep == SessionsInv /\ [CsNext]_csVars => SessionsInv'
  <1> SUFFICES ASSUME SessionsInv, [CsNext]_csVars PROVE SessionsInv'
    OBVIOUS
  <1> DEFINE Kept == SessionTypes' /\ LostInv' /\ WorkInv' /\ WaitInv' /\ QuestionInv'
  <1>1. ListenerInv'
    BY ListenerStep DEF SessionsInv
  <1>2. SessionTypes /\ LostInv /\ WorkInv /\ WaitInv /\ QuestionInv /\ ListenerInv
    BY DEF SessionsInv
  <1>3. AggTypeOK /\ Session \subseteq Ids
    BY <1>2 DEF SessionTypes, Ids
  <1>4. CASE DaemonSteps
    <2>1. CmStep => Kept
      BY <1>4, DaemonStep DEF DaemonSteps
    <2>2. ASSUME NEW s \in Session, LoadFails(s), link' = link, UNCHANGED aggVars PROVE Kept
      <3>1. CASE ~Crash
        <4>1. SessionTypes' /\ PlainStep
          BY <1>2, <2>2, <3>1, LoadSteps
        <4> QED BY <1>2, <4>1, PlainKeeps DEF SessionTypes
      <3>2. CASE Crash
        <4>1. link = "gone"
          BY <2>2, <3>2 DEF Crash
        <4>2. \A t \in Session : shown'[t] = None
          BY <1>2, <2>2, <4>1 DEF LostInv, aggVars
        <4>3. AggTypeOK'
          BY <1>3, <2>2 DEF AggTypeOK, aggVars
        <4> QED BY <1>2, <2>2, <3>2, <4>2, <4>3, CrashStep DEF aggVars
      <3> QED BY <3>1, <3>2
    <2> HIDE DEF Kept
    <2>3. Kept
      BY <1>4, <2>1, <2>2 DEF DaemonSteps
    <2> QED BY <1>1, <2>3 DEF SessionsInv, Kept
  <1>5. CASE DaemonDies
    <2>1. Crash
      <3>1. ASSUME NEW s \in Session, LoadFails(s), link' # link PROVE Crash
        BY <3>1 DEF LoadFails, linkVars
      <3> QED BY <1>5, <3>1 DEF DaemonDies, AbortFails
    <2>2. RemoveDaemon /\ UNCHANGED <<tombstones, pending, questions, replaced>>
      BY <1>5 DEF DaemonDies
    <2>3. AggTypeOK' /\ \A s \in Session : shown'[s] = None
      BY <1>3, <2>2 DEF RemoveDaemon, AggTypeOK
    <2> QED BY <1>1, <1>2, <2>1, <2>2, <2>3, CrashStep DEF SessionsInv
  <1>6. CASE TimeOut
    BY <1>1, <1>2, <1>6, TimeOutStep DEF SessionsInv
  <1>7. CASE (\E noticed \in BOOLEAN : HqLosesLink(noticed)) \/ HqNotices \/ HqReconnects
    BY <1>1, <1>2, <1>7, LinkSteps DEF SessionsInv
  <1>8. ASSUME NEW corrupted \in BOOLEAN, Receive(corrupted) PROVE SessionsInv'
    BY <1>1, <1>2, <1>8, ReceiveStep DEF SessionsInv
  <1>9. CASE \/ \E s \in Session :
                   \/ PostPrompt(s) \/ PostAbort(s) \/ PostDisconnect(s) \/ PostSetting(s)
                   \/ PostResume(s) \/ PostDelete(s) \/ AskMode(s) \/ AskAgent(s)
             \/ AskList \/ PostCreate
    BY <1>1, <1>2, <1>9, PostSteps DEF SessionsInv
  <1>10. ASSUME NEW e \in Elicit, PostReply(e) PROVE SessionsInv'
    BY <1>1, <1>2, <1>10, PostReplyStep DEF SessionsInv
  <1>11. CASE UNCHANGED csVars
    <2>1. SessionTypes'
      BY <1>2, <1>11 DEF SessionTypes, QueueTypes, SdkTypes, AggTypeOK, CountInv,
                         csVars, cmVars, linkVars, startVars, sdkVars, aggVars
    <2>2. LostInv' /\ WorkInv' /\ WaitInv' /\ QuestionInv'
      <3>1. \A e \in Elicit, s \in Session : QuestionOf(e, s)' => QuestionOf(e, s)
        BY <1>11 DEF QuestionOf, csVars, cmVars, linkVars, aggVars
      <3> QED BY <1>2, <1>11, <3>1, HqActs DEF csVars, cmVars, linkVars, sdkVars, trackVars, aggVars
    <2> QED BY <1>1, <2>1, <2>2 DEF SessionsInv
  <1> QED BY <1>4, <1>5, <1>6, <1>7, <1>8, <1>9, <1>10, <1>11 DEF CsNext

LEMMA SessionsStart == CsInit => SessionsInv
  <1> SUFFICES ASSUME CsInit PROVE SessionsInv
    OBVIOUS
  <1>1. ListenerInv
    BY DEF CsInit, CmInit, ListenerInv, OneListener
  <1>2. SessionTypes
    <2>1. QueueTypes
      BY DEF CsInit, CmInit, QueueTypes
    <2>4. SdkTypes
      BY DEF CsInit, CmInit, SdkTypes
    <2>2. AggTypeOK
      BY DEF CsInit, AggTypeOK
    <2>3. CountInv /\ commands \in 0 .. MaxCommands
      BY ManagerAssumption DEF CsInit, CmInit, CountInv
    <2> QED BY <2>1, <2>2, <2>3, <2>4 DEF SessionTypes
  <1>3. \A s \in Session : shown[s] = None
    BY DEF CsInit, Ids
  <1>4. LostInv
    BY DEF CsInit, CmInit, LostInv
  <1>5. WorkInv /\ WaitInv
    <2>1. \A s \in Session : Rests(<< >>, s, None) /\ \A e \in Elicit : Cleared(<< >>, s, e, None)
      BY DEF Rests, Cleared, AtWork
    <2> QED BY <1>3, <2>1 DEF CsInit, CmInit, WorkInv, WaitInv
  <1>6. QuestionInv
    BY ManagerAssumption DEF CsInit, CmInit, QuestionInv, QuestionOf
  <1> QED BY <1>1, <1>2, <1>4, <1>5, <1>6 DEF SessionsInv

(* HQ's sessions and the daemon's agree up to what is under way: what HQ   *)
(* shows at work or waiting, and the daemon does not hold so, is followed  *)
(* in the queue by an event that ends it (manager.ts, plugin.ts).          *)
THEOREM SessionsInvariant == CsSpec => []SessionsInv
  <1> QED BY SessionsStart, SessionsStep, PTL DEF CsSpec

LEMMA WiderSeq == ASSUME NEW S, NEW T, S \subseteq T, NEW q \in Seq(S) PROVE q \in Seq(T)
OBVIOUS

(* What HQ and the daemon hold of sessions is always of its type, whatever *)
(* the SDK says and whichever links and processes end.                     *)
THEOREM SessionTypesHold == CsSpec => []CsTypeOK
  <1>1. SessionsInv => CsTypeOK
    <2> SUFFICES ASSUME SessionsInv PROVE CsTypeOK
      OBVIOUS
    <2>1. SessionTypes /\ ListenerInv
      BY DEF SessionsInv
    <2>2. up \in Seq([kind : {"event", "answer", "question"}, s : Session \cup {None, Unknown},
                      type : EventTypes \cup {None}, arg : Arg])
      <3> DEFINE M == [kind : {"event", "answer", "question"}, s : Session \cup {None, Unknown},
                       type : EventTypes \cup {None}, arg : Arg]
      <3>1. Messages \subseteq M
        BY DEF Messages
      <3>2. up \in Seq(Messages)
        BY <2>1 DEF SessionTypes, QueueTypes
      <3> HIDE DEF M
      <3>3. up \in Seq(M)
        BY <3>1, <3>2, WiderSeq
      <3> QED BY <3>3 DEF M
    <2>3. down \in Seq([op : Ops, s : Session \cup {None}, arg : Arg])
      <3> DEFINE C == [op : Ops, s : Session \cup {None}, arg : Arg]
      <3>1. Commands \subseteq C
        BY DEF Commands
      <3>2. down \in Seq(Commands)
        BY <2>1 DEF SessionTypes, QueueTypes
      <3> HIDE DEF C
      <3>3. down \in Seq(C)
        BY <3>1, <3>2, WiderSeq
      <3> QED BY <3>3 DEF C
    <2>4. {starting, polling, lifecycle, pollTimers} \subseteq 0 .. (MaxCommands + 1)
      BY <2>1, ManagerAssumption DEF SessionTypes, CountInv
    <2>5. CmTypeOK
      BY <2>1, <2>2, <2>3, <2>4 DEF CmTypeOK, SessionTypes, QueueTypes, SdkTypes, ListenerInv
    <2> QED BY <2>1, <2>5 DEF CsTypeOK, SessionTypes
  <1> QED BY <1>1, SessionsInvariant, PTL

(* Once nothing is under way, a session HQ shows at work is tracked by the *)
(* daemon and has a turn in the SDK: handleDisconnect, handleDeleteSession *)
(* and the relays never leave one at work, whatever else interleaves.      *)
THEOREM ShownWorkIsRealHolds == CsSpec => []ShownWorkIsReal
  <1>1. SessionsInv => ShownWorkIsReal
    <2> SUFFICES ASSUME SessionsInv, CsQuiet, ~replaced, NEW s \in Session, AtWork(shown[s])
                 PROVE  s \in tracked /\ turn[s] # "none"
      BY DEF ShownWorkIsReal, AtWork
    <2>1. Busy(s) \/ Rests(up, s, shown[s])
      BY DEF SessionsInv, WorkInv, CsQuiet
    <2>2. ~Rests(up, s, shown[s])
      BY DEF CsQuiet, Rests, Follows
    <2> QED BY <2>1, <2>2 DEF Busy, Ending, Replying, CsQuiet
  <1> QED BY <1>1, SessionsInvariant, PTL

(* Once nothing is under way, a session HQ shows waiting for an answer has *)
(* its question in the daemon's pendingElicitations (elicitation.ts).      *)
THEOREM WaitingIsAnswerableHolds == CsSpec => []WaitingIsAnswerable
  <1>1. SessionsInv => WaitingIsAnswerable
    <2> SUFFICES ASSUME SessionsInv, CsQuiet, ~replaced, NEW s \in Session,
                        shown[s] # None, shown[s].waiting # None
                 PROVE  relayed[shown[s].waiting] = s
      BY DEF WaitingIsAnswerable
    <2> DEFINE e == shown[s].waiting
    <2>1. e \in Elicit
      BY DEF SessionsInv, SessionTypes, AggTypeOK, Shown, Ids
    <2>2. Held(s, e) \/ Cleared(up, s, e, shown[s])
      BY <2>1 DEF SessionsInv, WaitInv, CsQuiet
    <2>3. ~Cleared(up, s, e, shown[s])
      BY DEF CsQuiet, Cleared, Follows
    <2> QED BY <2>2, <2>3 DEF Held, Ending, CsQuiet
  <1> QED BY <1>1, SessionsInvariant, PTL

-----------------------------------------------------------------------------
(* The elements of a sequence. *)

(* Appending adds one element.                                             *)
LEMMA ToSetAppend ==
  ASSUME NEW S, NEW q \in Seq(S), NEW e \in S
  PROVE  ToSet(Append(q, e)) = ToSet(q) \cup {e}
  <1>1. e \in ToSet(Append(q, e))
    <2>1. Append(q, e)[Len(q) + 1] = e /\ Len(q) + 1 \in DOMAIN Append(q, e)
      OBVIOUS
    <2> QED BY <2>1 DEF ToSet
  <1>2. ASSUME NEW x \in ToSet(q) PROVE x \in ToSet(Append(q, e))
    <2>1. PICK i \in DOMAIN q : q[i] = x
      BY DEF ToSet
    <2>2. Append(q, e)[i] = x /\ i \in DOMAIN Append(q, e)
      BY <2>1
    <2> QED BY <2>2 DEF ToSet
  <1>3. ASSUME NEW x \in ToSet(Append(q, e)) PROVE x \in ToSet(q) \cup {e}
    <2>1. PICK i \in DOMAIN Append(q, e) : Append(q, e)[i] = x
      BY DEF ToSet
    <2>2. (i \in DOMAIN q /\ q[i] = x) \/ x = e
      BY <2>1
    <2> QED BY <2>2 DEF ToSet
  <1> QED BY <1>1, <1>2, <1>3

(* Joining two sequences joins their elements.                             *)
LEMMA ToSetConcat ==
  ASSUME NEW S, NEW p \in Seq(S), NEW q \in Seq(S)
  PROVE  ToSet(p \o q) = ToSet(p) \cup ToSet(q)
  <1>1. ASSUME NEW x \in ToSet(p) PROVE x \in ToSet(p \o q)
    <2>1. PICK i \in DOMAIN p : p[i] = x
      BY DEF ToSet
    <2>2. (p \o q)[i] = x /\ i \in DOMAIN (p \o q)
      BY <2>1
    <2> QED BY <2>2 DEF ToSet
  <1>2. ASSUME NEW x \in ToSet(q) PROVE x \in ToSet(p \o q)
    <2>1. PICK i \in DOMAIN q : q[i] = x
      BY DEF ToSet
    <2>2. (p \o q)[Len(p) + i] = x /\ Len(p) + i \in DOMAIN (p \o q)
      BY <2>1
    <2> QED BY <2>2 DEF ToSet
  <1>3. ASSUME NEW x \in ToSet(p \o q) PROVE x \in ToSet(p) \cup ToSet(q)
    <2>1. PICK i \in DOMAIN (p \o q) : (p \o q)[i] = x
      BY DEF ToSet
    <2>2. CASE i <= Len(p)
      <3>1. i \in DOMAIN p /\ p[i] = x
        BY <2>1, <2>2
      <3> QED BY <3>1 DEF ToSet
    <2>3. CASE i > Len(p)
      <3>1. i - Len(p) \in DOMAIN q /\ q[i - Len(p)] = x
        BY <2>1, <2>3
      <3> QED BY <3>1 DEF ToSet
    <2> QED BY <2>1, <2>2, <2>3
  <1> QED BY <1>1, <1>2, <1>3

(* The end of a sequence has no other elements.                            *)
LEMMA ToSetSub ==
  ASSUME NEW S, NEW q \in Seq(S), NEW m \in 1..Len(q) + 1
  PROVE  ToSet(SubSeq(q, m, Len(q))) \subseteq ToSet(q)
  <1> SUFFICES ASSUME NEW i \in DOMAIN SubSeq(q, m, Len(q)) PROVE SubSeq(q, m, Len(q))[i] \in ToSet(q)
    BY DEF ToSet
  <1>1. i + m - 1 \in DOMAIN q /\ SubSeq(q, m, Len(q))[i] = q[i + m - 1]
    OBVIOUS
  <1> QED BY <1>1 DEF ToSet

(* The empty sequence has none.                                            *)
LEMMA ToSetEmpty == ToSet(<< >>) = {}
  BY DEF ToSet

-----------------------------------------------------------------------------
(* The event log. *)

Unwritten == ToSet(buffer) \cup UNION {ToSet(k) : k \in writes}

(* Besides the property: until a file is deleted none is being deleted, so *)
(* that what a load has read is still in the file when it is shown.        *)
LogInv ==
  /\ ElTypeOK
  /\ ~cleaned => /\ cleanup # "unlinking"
                 /\ ToSet(log) \subseteq ToSet(file) \cup Unwritten
                 /\ \A l \in fileLoads : ToSet(l.got) \subseteq ToSet(file)

(* A buffer that goes to an append.                                        *)
LEMMA FlushKeeps ==
  ASSUME ElTypeOK, NEW lines \in Seq(Events), lines # << >>, buffer' = << >>, writes' = writes \cup {lines}
  PROVE  /\ Unwritten' = ToSet(lines) \cup UNION {ToSet(k) : k \in writes}
         /\ buffer' \in Seq(Events) /\ \A k \in writes' : k \in Seq(Events) /\ k # << >>
  <1>1. UNION {ToSet(k) : k \in writes'} = ToSet(lines) \cup UNION {ToSet(k) : k \in writes}
    OBVIOUS
  <1>2. ToSet(buffer') = {}
    BY ToSetEmpty
  <1> QED BY <1>1, <1>2 DEF Unwritten, ElTypeOK

(* The memory copy, with one event more and capped.                        *)
LEMMA NewestKeeps ==
  ASSUME NEW q \in Seq(Events), q # << >>
  PROVE  Newest(q) \in Seq(Events) /\ ToSet(Newest(q)) \subseteq ToSet(q)
  <1> DEFINE m == IF Len(q) > MaxLog THEN Len(q) - MaxLog + 1 ELSE 1
  <1>1. m \in 1..Len(q) + 1
    BY LogAssumption
  <1>2. SubSeq(q, m, Len(q)) \in Seq(Events)
    BY <1>1
  <1> QED BY <1>1, <1>2, ToSetSub DEF Newest

(* Storing an event keeps the invariant.                                   *)
LEMMA StoreEventKeeps == LogInv /\ StoreEvent => LogInv'
  <1> SUFFICES ASSUME LogInv, StoreEvent PROVE LogInv'
    OBVIOUS
  <1> DEFINE lines == Append(buffer, stored')
  <1>a. ElTypeOK /\ stored' \in Events /\ stored' \in 0..MaxEvents
    BY LogAssumption DEF LogInv, ElTypeOK, StoreEvent, Events
  <1>b. log \in Seq(Events) /\ buffer \in Seq(Events)
    BY <1>a DEF ElTypeOK
  <1>1. Append(log, stored') \in Seq(Events) /\ Append(log, stored') # << >>
        /\ ToSet(Append(log, stored')) = ToSet(log) \cup {stored'}
    BY <1>a, <1>b, ToSetAppend
  <1>2. log' \in Seq(Events) /\ ToSet(log') \subseteq ToSet(log) \cup {stored'}
    BY <1>1, NewestKeeps DEF StoreEvent
  <1>3. lines \in Seq(Events) /\ lines # << >> /\ ToSet(lines) = ToSet(buffer) \cup {stored'}
    BY <1>a, <1>b, ToSetAppend
  <1>4. /\ Unwritten' = Unwritten \cup {stored'}
        /\ buffer' \in Seq(Events) /\ \A k \in writes' : k \in Seq(Events) /\ k # << >>
    <2>1. CASE buffer' = << >> /\ writes' = writes \cup {lines}
      BY <1>a, <1>3, <2>1, FlushKeeps DEF Unwritten
    <2>2. CASE buffer' = lines /\ UNCHANGED writes
      BY <1>a, <1>3, <2>2 DEF Unwritten, ElTypeOK
    <2> QED BY <2>1, <2>2 DEF StoreEvent
  <1>5. UNCHANGED <<file, hydrated, fileLoads, cleanup, boundVars, cleaned>>
    BY DEF StoreEvent
  <1>6. ElTypeOK'
    BY <1>a, <1>2, <1>4, <1>5 DEF ElTypeOK, boundVars
  <1> QED BY <1>2, <1>4, <1>5, <1>6 DEF LogInv

(* An append that ends keeps it.                                           *)
LEMMA AppendedKeeps ==
  ASSUME LogInv, NEW chunk \in writes, Appended(chunk)
  PROVE  LogInv'
  <1>a. ElTypeOK /\ chunk \in Seq(Events) /\ file \in Seq(Events)
    BY DEF LogInv, ElTypeOK
  <1>1. file' \in Seq(Events) /\ ToSet(file') = ToSet(file) \cup ToSet(chunk)
    BY <1>a, ToSetConcat DEF Appended
  <1>2. ToSet(file) \cup Unwritten \subseteq ToSet(file') \cup Unwritten'
    BY <1>1 DEF Appended, Unwritten
  <1>3. ASSUME NEW l \in fileLoads' PROVE l \in Load /\ \E old \in fileLoads : l.got = old.got
    <2>1. PICK old \in fileLoads : l = IF old.phase = "flush" /\ old.chunk = chunk
                                       THEN [old EXCEPT !.phase = "read"] ELSE old
      BY DEF Appended
    <2>2. old \in Load
      BY <1>a DEF ElTypeOK
    <2> QED BY <2>1, <2>2 DEF Load
  <1>4. ElTypeOK'
    BY <1>a, <1>1, <1>3 DEF ElTypeOK, Appended, boundVars
  <1> QED BY <1>1, <1>2, <1>3, <1>4 DEF LogInv, Appended

(* Every step keeps it.                                                    *)
LEMMA LogStep == LogInv /\ [ElNext]_elVars => LogInv'
  <1> SUFFICES ASSUME LogInv, [ElNext]_elVars PROVE LogInv'
    OBVIOUS
  <1>a. ElTypeOK
    BY DEF LogInv
  <1>1. CASE StoreEvent
    BY <1>1, StoreEventKeeps
  <1>2. CASE FlushTimer
    <2>1. Unwritten' = Unwritten /\ buffer' \in Seq(Events) /\ \A k \in writes' : k \in Seq(Events) /\ k # << >>
      BY <1>2, <1>a, FlushKeeps DEF FlushTimer, StartFlush, ElTypeOK, Unwritten
    <2> QED BY <1>2, <1>a, <2>1 DEF FlushTimer, LogInv, ElTypeOK, memVars, boundVars
  <1>3. CASE GetEvents
    <2>1. Unwritten' = Unwritten /\ buffer' \in Seq(Events) /\ \A k \in writes' : k \in Seq(Events) /\ k # << >>
      <3>1. CASE buffer = << >>
        BY <1>3, <1>a, <3>1 DEF GetEvents, ElTypeOK, Unwritten
      <3>2. CASE buffer # << >>
        BY <1>3, <1>a, <3>2, FlushKeeps DEF GetEvents, StartFlush, ElTypeOK, Unwritten
      <3> QED BY <3>1, <3>2
    <2>2. ASSUME NEW l \in fileLoads' \ fileLoads PROVE l \in Load /\ ToSet(l.got) = {}
      <3>1. PICK p \in {"read", "flush"}, c \in {<< >>, buffer} : l = [phase |-> p, chunk |-> c, got |-> << >>]
        BY <1>3 DEF GetEvents
      <3>2. c \in Seq(Events) /\ << >> \in Seq(Events)
        <4>1. << >> \in Seq(Events) /\ buffer \in Seq(Events)
          BY <1>a DEF ElTypeOK
        <4> QED BY <4>1
      <3>3. l.got = << >>
        BY <3>1
      <3> QED BY <3>1, <3>2, <3>3, ToSetEmpty DEF Load
    <2>3. ElTypeOK'
      BY <1>3, <1>a, <2>1, <2>2 DEF GetEvents, ElTypeOK, boundVars
    <2> QED BY <1>3, <2>1, <2>2, <2>3 DEF LogInv, GetEvents
  <1>4. CASE RemoveSession
    <2>1. removals' \in 0..MaxRemovals
      BY <1>4, <1>a, LogAssumption DEF RemoveSession, ElTypeOK
    <2>a. log' = << >> /\ hydrated' = FALSE /\ cleanup' = "armed"
      BY <1>4 DEF RemoveSession
    <2>b. << >> \in Seq(Events)
      OBVIOUS
    <2>2. log' \in Seq(Events) /\ hydrated' \in BOOLEAN /\ cleanup' = "armed"
      BY <2>a, <2>b, Zenon
    <2>3. UNCHANGED <<stored, fileLoads, buffer, writes, file, hqEnds, cleaned>>
      BY <1>4 DEF RemoveSession, diskVars
    <2>4. ElTypeOK' /\ Unwritten' = Unwritten
      BY <1>a, <2>1, <2>2, <2>3 DEF ElTypeOK, Unwritten
    <2> QED BY <1>4, <2>3, <2>4, ToSetEmpty DEF LogInv, RemoveSession
  <1>5. CASE CleanupTimer
    BY <1>5, <1>a DEF CleanupTimer, LogInv, ElTypeOK, memVars, boundVars
  <1>6. CASE Unlinked
    BY <1>6, <1>a DEF Unlinked, LogInv, ElTypeOK, memVars, boundVars
  <1>7. CASE HqEnds
    <2>1. hqEnds' \in 0..MaxHqEnds
      BY <1>7, <1>a, LogAssumption DEF HqEnds, ElTypeOK
    <2>2. /\ log' \in Seq(Events) /\ buffer' \in Seq(Events) /\ hydrated' \in BOOLEAN
          /\ writes' = {} /\ fileLoads' = {} /\ cleanup' = "none"
          /\ UNCHANGED <<stored, file, removals, cleaned>>
      <3>1. << >> \in Seq(Events)
        OBVIOUS
      <3> QED BY <1>7, <3>1, Zenon DEF HqEnds
    <2>3. ElTypeOK'
      BY <1>a, <2>1, <2>2 DEF ElTypeOK
    <2> QED BY <1>7, <2>3, ToSetEmpty DEF LogInv, HqEnds
  <1>8. ASSUME NEW k \in writes, Appended(k) PROVE LogInv'
    BY <1>8, AppendedKeeps
  <1>9. ASSUME NEW l \in fileLoads, FileRead(l) PROVE LogInv'
    <2>1. [l EXCEPT !.phase = "done", !.got = file] \in Load /\ [l EXCEPT !.phase = "done", !.got = file].got = file
      BY <1>a DEF ElTypeOK, Load
    <2>2. ElTypeOK' /\ Unwritten' = Unwritten
      BY <1>9, <1>a, <2>1 DEF FileRead, ElTypeOK, diskVars, boundVars, Unwritten
    <2> QED BY <1>9, <2>1, <2>2 DEF LogInv, FileRead, diskVars
  <1>10. ASSUME NEW l \in fileLoads, Hydrate(l) PROVE LogInv'
    <2>1. l.got \in Seq(Events)
      BY <1>a DEF ElTypeOK, Load
    <2>2. ElTypeOK' /\ Unwritten' = Unwritten
      BY <1>10, <1>a, <2>1 DEF Hydrate, ElTypeOK, diskVars, boundVars, Unwritten
    <2> QED BY <1>10, <2>2 DEF LogInv, Hydrate, diskVars
  <1>11. CASE UNCHANGED elVars
    BY <1>11 DEF elVars, memVars, diskVars, boundVars, LogInv, ElTypeOK, Unwritten
  <1> QED BY <1>1, <1>2, <1>3, <1>4, <1>5, <1>6, <1>7, <1>8, <1>9, <1>10, <1>11 DEF ElNext

(* It holds at first.                                                      *)
LEMMA LogInit == ElInit => LogInv
  <1> SUFFICES ASSUME ElInit PROVE LogInv
    OBVIOUS
  <1>1. ElTypeOK
    <2>1. /\ 0 \in 0..MaxEvents /\ 0 \in 0..MaxRemovals /\ 0 \in 0..MaxHqEnds
          /\ << >> \in Seq(Events)
      BY LogAssumption
    <2> QED BY <2>1 DEF ElInit, ElTypeOK
  <1> QED BY <1>1, ToSetEmpty DEF ElInit, LogInv

(* The log's memory, buffer, file and loads have their types (ElTypeOK).   *)
THEOREM LogTypesHold == ElSpec => []ElTypeOK
  <1>1. LogInv => ElTypeOK
    BY DEF LogInv
  <1> QED BY <1>1, LogInit, LogStep, PTL DEF ElSpec

(* What the browser can be shown survives HQ, until a file is deleted,     *)
(* whatever flushes, loads, removals and restarts overlap (aggregator.ts,  *)
(* event-persistence.ts).                                                  *)
THEOREM NothingShownIsUnsavedHolds == ElSpec => []NothingShownIsUnsaved
  <1>1. LogInv => NothingShownIsUnsaved
    BY DEF LogInv, NothingShownIsUnsaved, Unwritten
  <1> QED BY <1>1, LogInit, LogStep, PTL DEF ElSpec

=============================================================================

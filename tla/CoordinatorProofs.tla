-------------------------- MODULE CoordinatorProofs --------------------------
(***************************************************************************)
(* Theorems about Coordinator (and the CoordinatorSession it extends), for *)
(* any bounds on overlapping starts, overlapping HQ calls, sessions,       *)
(* messages in flight and failures.                                        *)
(***************************************************************************)
EXTENDS Coordinator, TLAPS

(* What the queues of the link do.                                         *)
LEMMA Appended ==
    ASSUME NEW S, NEW q \in Seq(S), NEW m \in S
    PROVE  /\ Append(q, m) \in Seq(S) /\ Len(Append(q, m)) = Len(q) + 1
           /\ \A n \in 1 .. Len(q) : Append(q, m)[n] = q[n]
           /\ Append(q, m)[Len(q) + 1] = m /\ Append(q, m) # << >>
OBVIOUS

(* What receiving the first of a queue leaves.                             *)
LEMMA Received ==
    ASSUME NEW S, NEW q \in Seq(S), q # << >>
    PROVE  /\ Head(q) \in S /\ Head(q) = q[1] /\ Len(q) >= 1
           /\ Tail(q) \in Seq(S) /\ Len(Tail(q)) = Len(q) - 1
           /\ \A n \in 1 .. Len(Tail(q)) : n + 1 \in 1 .. Len(q) /\ Tail(q)[n] = q[n + 1]
OBVIOUS

-----------------------------------------------------------------------------
(* Types. *)

(* The types hold at first.                                                *)
LEMMA TypeInit == Init => TypeOK
<1> SUFFICES ASSUME Init PROVE TypeOK
  OBVIOUS
<1>1. CTypeOK
  <2>1. stopped \in BOOLEAN /\ health \in BOOLEAN /\ timer \in BOOLEAN /\ ready \in BOOLEAN /\ online \in BOOLEAN
    BY DEF Init, CInit
  <2>2. starts \in [StartId -> StartRecord]
    BY DEF Init, CInit, StartRecord, Idle
  <2>3. nextSid \in 1 .. MaxSession + 1 /\ leaked \in Nat
    BY SessionAssumption DEF Init, CInit
  <2>4. toHq \in Seq(Message)
    BY DEF Init, CInit
  <2> QED BY <2>1, <2>2, <2>3, <2>4 DEF Init, CInit, CTypeOK
<1>2. calls \in [CallId -> [kind : CallKinds, sid : Sessions \cup {None}]]
  BY DEF Init, NoCall, CallKinds
<1>3. toDaemon \in Seq(Command)
  BY DEF Init
<1>4. failed \in BOOLEAN
  BY DEF Init
<1>5. events \in 0 .. MaxEvents
  BY EventAssumption DEF Init
<1> QED BY <1>1, <1>2, <1>3, <1>4, <1>5 DEF Init, TypeOK

(* A report to HQ keeps the queue a queue of messages.                     *)
LEMMA SendTyped ==
    ASSUME CTypeOK, NEW type \in {"started", "crashed"}, NEW s \in Sessions \cup {None},
           SendToHq(type, s)
    PROVE  toHq' \in Seq(Message)
<1>1. [type |-> type, sid |-> s] \in Message
  BY DEF Message
<1> QED BY <1>1, Appended DEF SendToHq, CTypeOK

(* A command sent keeps the queue typed.                                   *)
LEMMA SentTyped ==
    ASSUME TypeOK, NEW type \in {"start", "stop"}, NEW s \in Sessions \cup {None}
    PROVE  Sent(type, s) \in Seq(Command)
<1>1. [type |-> type, sid |-> s] \in Command
  BY DEF Command
<1> QED BY <1>1, Appended DEF Sent, TypeOK

(* A call of start keeps the types.                                        *)
LEMMA StartCallTyped ==
    ASSUME CTypeOK, NEW resume \in Sessions \cup {None}, StartCall(resume)
    PROVE  /\ cstate' \in {"stopped", "starting", "active", "crashed"} /\ stopped' \in BOOLEAN
           /\ starts' \in [StartId -> StartRecord]
<1>1. CASE cstate \in {"active", "starting"}
  BY <1>1 DEF StartCall, CTypeOK
<1>2. CASE cstate \notin {"active", "starting"}
  <2>1. \A p \in Phases : [phase |-> p, resume |-> resume] \in StartRecord
    BY DEF StartRecord
  <2>2. "waiting" \in Phases /\ SessionPhase(resume) \in Phases
    BY DEF SessionPhase, Phases
  <2> QED BY <1>2, <2>1, <2>2 DEF StartCall, CTypeOK
<1> QED BY <1>1, <1>2

(* A crash keeps them.                                                     *)
LEMMA HandleCrashTyped ==
    ASSUME CTypeOK, NEW i \in StartId, HandleCrash(i) PROVE CTypeOK'
<1>1. toHq' \in Seq(Message)
  BY SendTyped DEF HandleCrash, CTypeOK
<1>2. starts' \in [StartId -> StartRecord]
  BY DEF HandleCrash, CTypeOK, StartRecord, Idle
<1>3. timer' \in BOOLEAN
  BY DEF HandleCrash, CTypeOK
<1>4. leaked' \in Nat
  BY DEF HandleCrash, CTypeOK
<1> QED BY <1>1, <1>2, <1>3, <1>4 DEF HandleCrash, CTypeOK

(* Whatever a start comes to keeps them.                                   *)
LEMMA OutcomeTyped ==
    ASSUME CTypeOK, NEW i \in StartId, Outcome(i) PROVE CTypeOK'
<1>0. starts[i] \in StartRecord /\ starts[i].resume \in Sessions \cup {None}
  BY DEF CTypeOK, StartRecord
<1>1. CASE WaitReady(i)
  BY <1>0, <1>1 DEF WaitReady, CTypeOK, StartRecord, Phases, SessionPhase
<1>2. CASE WaitTimeout(i) \/ CreateFails(i)
  BY <1>2, HandleCrashTyped DEF WaitTimeout, CreateFails
<1>3. CASE ResumeFails(i)
  BY <1>3 DEF ResumeFails, CTypeOK, StartRecord, Phases
<1>4. ASSUME NEW s \in Sessions, Started(i, s)
      PROVE  /\ toHq' \in Seq(Message) /\ starts' \in [StartId -> StartRecord] /\ csid' \in Sessions
             /\ cstate' = "active" /\ health' = TRUE
             /\ UNCHANGED <<stopped, timer, leaked, ready, online>>
  BY <1>4, SendTyped DEF Started, CTypeOK, StartRecord, Idle
<1>5. CASE ResumeOk(i)
  <2>1. toHq' \in Seq(Message) /\ starts' \in [StartId -> StartRecord]
    BY <1>0, <1>5, SendTyped DEF ResumeOk, Started, CTypeOK, StartRecord, Idle
  <2> QED BY <1>0, <1>5, <2>1 DEF ResumeOk, Started, CTypeOK
<1>6. CASE CreateOk(i)
  <2>1. nextSid \in Sessions /\ nextSid' \in 1 .. MaxSession + 1
    BY <1>6, SessionAssumption DEF CreateOk, CTypeOK, Sessions
  <2> QED BY <1>4, <1>6, <2>1 DEF CreateOk, CTypeOK
<1> QED BY <1>1, <1>2, <1>3, <1>5, <1>6 DEF Outcome

(* Every step keeps the types.                                             *)
LEMMA TypeStep == TypeOK /\ [Next]_vars => TypeOK'
<1> SUFFICES ASSUME TypeOK, [Next]_vars PROVE TypeOK'
  OBVIOUS
<1>c. CTypeOK
  BY DEF TypeOK
<1>0. /\ None \in Sessions \cup {None} /\ << >> \in Seq(Command) /\ << >> \in Seq(Message)
      /\ NoCall \in [kind : CallKinds, sid : Sessions \cup {None}]
  BY DEF NoCall, CallKinds
<1>e. ASSUME OneMore PROVE events' \in 0 .. MaxEvents
  BY <1>e, EventAssumption DEF OneMore, TypeOK
<1>b. ASSUME BeginStart
      PROVE  status' = "starting" /\ calls' \in [CallId -> [kind : CallKinds, sid : Sessions \cup {None}]]
  BY <1>b DEF BeginStart, Call, TypeOK, CallKinds
<1>1. CASE DaemonConnected
  BY <1>0, <1>1, <1>b, <1>c DEF DaemonConnected, TypeOK, CTypeOK, sessionVars, history
<1>2. CASE LinkLost
  <2>1. failed' \in BOOLEAN /\ online' \in BOOLEAN
    BY <1>2 DEF LinkLost, LinkEvent
  <2> QED BY <1>0, <1>2, <1>c, <1>e, <2>1 DEF LinkLost, LinkEvent, TypeOK, CTypeOK, sessionVars
<1>3. CASE HqNotices
  BY <1>3, <1>c DEF HqNotices, TypeOK, CTypeOK, cvars, sessionVars, history
<1>4. CASE DaemonRestart
  BY <1>0, <1>4, <1>c, <1>e DEF DaemonRestart, LinkEvent, TypeOK, CTypeOK, StartRecord, Idle
<1>5. CASE HqRestart
  BY <1>0, <1>5, <1>c, <1>e DEF HqRestart, LinkEvent, TypeOK, CTypeOK, sessionVars
<1>6. CASE HqFlush
  BY <1>6, <1>c DEF HqFlush, TypeOK, CTypeOK, cvars, sessionVars, history
<1>7. CASE ApiStart
  BY <1>7, <1>b, <1>c, <1>e DEF ApiStart, Event, TypeOK, CTypeOK, cvars, sessionVars
<1>8. CASE ApiStop
  <2>1. toDaemon' \in Seq(Command)
    BY <1>0, <1>8, SentTyped DEF ApiStop
  <2> QED BY <1>8, <1>c, <1>e, <2>1 DEF ApiStop, Event, TypeOK, CTypeOK, cvars, sessionVars
<1>9. CASE ApiReset
  <2>1. toDaemon' \in Seq(Command)
    BY <1>0, <1>9, SentTyped DEF ApiReset
  <2>2. calls' \in [CallId -> [kind : CallKinds, sid : Sessions \cup {None}]]
    BY <1>9 DEF ApiReset, Call, TypeOK, CallKinds
  <2> QED BY <1>9, <1>c, <1>e, <2>1, <2>2 DEF ApiReset, Event, TypeOK, CTypeOK, cvars, sessionVars
<1>10. ASSUME NEW k \in CallId, StartSends(k) \/ ResetLookup(k) \/ ResetTimer(k) PROVE TypeOK'
  <2>1. calls' \in [CallId -> [kind : CallKinds, sid : Sessions \cup {None}]]
    BY <1>0, <1>10 DEF StartSends, ResetLookup, ResetTimer, Call, TypeOK, CallKinds
  <2>2. calls[k].sid \in Sessions \cup {None}
    BY DEF TypeOK
  <2>3. toDaemon' \in Seq(Command)
    <3>1. toDaemon' \in {toDaemon, Sent("start", calls[k].sid), Sent("start", None)}
      BY <1>10 DEF StartSends, ResetLookup, ResetTimer
    <3> QED BY <1>0, <2>2, <3>1, SentTyped DEF TypeOK
  <2>4. status' \in {"idle", "starting", "active", "crashed"} /\ sid' \in Sessions \cup {None}
    BY <1>10, <2>2 DEF StartSends, ResetLookup, ResetTimer, TypeOK
  <2> QED BY <1>10, <1>c, <2>1, <2>3, <2>4
          DEF StartSends, ResetLookup, ResetTimer, TypeOK, CTypeOK, cvars, sessionVars, history
<1>11. CASE HqReceive
  <2>1. Head(toHq) \in Message /\ Tail(toHq) \in Seq(Message)
    BY <1>11, <1>c, Received DEF HqReceive, CTypeOK
  <2>2. status' \in {"idle", "starting", "active", "crashed"} /\ sid' \in Sessions \cup {None}
    BY <1>11, <2>1 DEF HqReceive, Message, TypeOK
  <2> QED BY <1>11, <1>c, <2>1, <2>2 DEF HqReceive, TypeOK, CTypeOK, sessionVars, history
<1>12. CASE DaemonReceive
  <2>1. Head(toDaemon) \in Command /\ Tail(toDaemon) \in Seq(Command)
    BY <1>12, Received DEF DaemonReceive, TypeOK
  <2>2. Head(toDaemon).sid \in Sessions \cup {None}
    BY <2>1 DEF Command
  <2>3. CASE Head(toDaemon).type = "start"
    <3>1. StartCommand(Head(toDaemon).sid)
      BY <1>12, <2>3 DEF DaemonReceive
    <3>2. CTypeOK'
      BY <1>c, <2>2, <3>1, StartCallTyped DEF StartCommand, CTypeOK
    <3> QED BY <1>12, <2>1, <3>2 DEF DaemonReceive, TypeOK, history
  <2>4. CASE Head(toDaemon).type # "start"
    <3>1. StopCommand
      BY <1>12, <2>4 DEF DaemonReceive
    <3>2. CTypeOK'
      BY <1>c, <3>1 DEF StopCommand, CTypeOK
    <3> QED BY <1>12, <2>1, <3>2 DEF DaemonReceive, TypeOK, history
  <2> QED BY <2>3, <2>4
<1>13. ASSUME NEW i \in StartId, Settles(i) \/ Fails(i) PROVE TypeOK'
  <2>1. CTypeOK'
    BY <1>13, <1>c, OutcomeTyped DEF Settles, Fails, Outcome
  <2> QED BY <1>13, <1>e, <2>1 DEF Settles, Fails, Event, TypeOK, hqVars, history
<1>14. CASE Timer
  <2>1. csid \in Sessions \cup {None}
    BY <1>c DEF CTypeOK
  <2>2. timer' \in BOOLEAN
    BY <1>14, <1>c DEF Timer, RestartTimer, CTypeOK
  <2>3. leaked' \in Nat
    BY <1>14, <1>c DEF Timer, RestartTimer, CTypeOK
  <2>4. CTypeOK'
    BY <1>14, <1>c, <2>1, <2>2, <2>3, StartCallTyped DEF Timer, RestartTimer, CTypeOK
  <2> QED BY <1>14, <2>4 DEF Timer, TypeOK, hqVars, history
<1>15. CASE Sdk
  BY <1>15, <1>c DEF Sdk, SdkReady, TypeOK, CTypeOK, hqVars, history
<1>16. CASE UNCHANGED vars
  BY <1>16, <1>c DEF vars, cvars, sessionVars, hqVars, history, TypeOK, CTypeOK
<1> QED BY <1>1, <1>2, <1>3, <1>4, <1>5, <1>6, <1>7, <1>8, <1>9, <1>10, <1>11, <1>12, <1>13, <1>14, <1>15, <1>16
        DEF Next

(* Type correctness of the coordinator at HQ and at the daemon, and of the *)
(* messages between them.                                                  *)
THEOREM TypeCorrect == Spec => []TypeOK
BY TypeInit, TypeStep, PTL DEF Spec
-----------------------------------------------------------------------------
(* The inductive invariant. *)

(* Every session id anywhere -- in a record, in a call, in a message -- is *)
(* one the SDK has created; a resumption and a report of a start have one. *)
RecordIds == sid < nextSid /\ savedSid < nextSid /\ csid < nextSid /\ (status = "active" => sid # None)
StartIds == \A i \in StartId : starts[i].resume < nextSid /\ (starts[i].phase = "resuming" => starts[i].resume # None)
CallIds == \A k \in CallId : calls[k].sid < nextSid
CommandIds == \A n \in 1 .. Len(toDaemon) : toDaemon[n].sid < nextSid
ReportIds == \A n \in 1 .. Len(toHq) : toHq[n].sid < nextSid /\ (toHq[n].type = "started" => toHq[n].sid # None)
IdsCreated == RecordIds /\ StartIds /\ CallIds /\ CommandIds /\ ReportIds

(* The daemon can report exactly while the link is up, and before the link *)
(* first came up nothing was sent to it and nothing happened there.        *)
Untouched == toDaemon = << >> /\ toHq = << >> /\ InFlight = {} /\ ~timer /\ leaked = 0 /\ cstate = "stopped"
LinkInv ==
    /\ online <=> link = "up"
    /\ ~failed /\ link # "up" => Untouched

(* HQ shows idle over a link that is up only because it has sent a stop:   *)
(* the stop is on its way, or it took effect, or a start that outlived it  *)
(* is under way and will report, or has reported.                          *)
StopUnderWay == \E n \in 1 .. Len(toDaemon) : toDaemon[n].type = "stop"
IdleInv ==
    link = "up" /\ status = "idle" /\ toHq = << >> =>
        cstate = "stopped" \/ StopUnderWay \/ InFlight # {}

(* While neither link nor process has failed, an active coordinator's last *)
(* report is its start, and HQ goes by it or has since done something that *)
(* neither shows active nor crashed.                                       *)
LastReport == [type |-> "started", sid |-> csid]
ReportInv ==
    ~failed /\ cstate = "active" =>
        IF toHq = << >> THEN status # "crashed" /\ (status = "active" => sid = csid)
        ELSE toHq[Len(toHq)] = LastReport

CoordInv ==
    TypeOK /\ IdsCreated /\ CrashIsRetried /\ StateIsBacked /\ LinkInv /\ IdleInv /\ ReportInv

(* The invariant holds at first.                                           *)
LEMMA CoordInit == Init => CoordInv
<1> SUFFICES ASSUME Init PROVE CoordInv
  OBVIOUS
<1>1. TypeOK
  BY TypeInit
<1>2. IdsCreated
  BY DEF Init, CInit, IdsCreated, RecordIds, StartIds, CallIds, CommandIds, ReportIds, Idle, NoCall, None
<1>3. InFlight = {} /\ cstate = "stopped"
  BY DEF Init, CInit, InFlight
<1>4. LinkInv
  BY <1>3 DEF Init, CInit, LinkInv, Untouched
<1>5. CrashIsRetried /\ StateIsBacked /\ IdleInv /\ ReportInv
  BY <1>3 DEF CrashIsRetried, StateIsBacked, IdleInv, ReportInv
<1> QED BY <1>1, <1>2, <1>4, <1>5 DEF CoordInv

(* What a step does to the coordinator's session at the daemon.            *)
LEMMA SessionSteps ==
    ASSUME TypeOK, [Next]_vars
    PROVE  \/ UNCHANGED sessionVars
           \/ DaemonRestart
           \/ \E resume \in Sessions \cup {None} : StartCommand(resume)
           \/ StopCommand \/ RestartTimer \/ SdkReady
           \/ \E i \in StartId : Outcome(i)
<1>1. CASE DaemonReceive
  <2>1. Head(toDaemon) \in Command
    BY <1>1, Received DEF DaemonReceive, TypeOK
  <2>2. Head(toDaemon).sid \in Sessions \cup {None}
    BY <2>1 DEF Command
  <2> QED BY <1>1, <2>2 DEF DaemonReceive
<1>2. ASSUME NEW i \in StartId, Settles(i) \/ Fails(i) PROVE Outcome(i)
  BY <1>2 DEF Settles, Fails, Outcome
<1>3. CASE DaemonConnected \/ LinkLost \/ HqNotices \/ HqRestart \/ HqFlush
  BY <1>3 DEF DaemonConnected, LinkLost, HqNotices, HqRestart, HqFlush, cvars
<1>4. CASE ApiStart \/ ApiStop \/ ApiReset \/ HqReceive
  BY <1>4 DEF ApiStart, ApiStop, ApiReset, HqReceive, cvars
<1>5. ASSUME NEW k \in CallId, StartSends(k) \/ ResetLookup(k) \/ ResetTimer(k) PROVE UNCHANGED sessionVars
  BY <1>5 DEF StartSends, ResetLookup, ResetTimer, cvars
<1>6. CASE Timer \/ Sdk
  BY <1>6 DEF Timer, Sdk
<1>7. CASE UNCHANGED vars
  BY <1>7 DEF vars, cvars
<1> QED BY <1>1, <1>2, <1>3, <1>4, <1>5, <1>6, <1>7 DEF Next

(* A start() call past its guard is in flight; an outcome settles it or    *)
(* leaves it in flight.                                                    *)
LEMMA StartCallFlies ==
    ASSUME CTypeOK, NEW resume, StartCall(resume)
    PROVE  \/ cstate \in {"active", "starting"} /\ UNCHANGED <<cstate, stopped, starts>>
           \/ /\ cstate \notin {"active", "starting"}
              /\ cstate' = "starting" /\ stopped' = FALSE /\ InFlight' # {} /\ InFlight \subseteq InFlight'
<1>1. ASSUME cstate \notin {"active", "starting"}
      PROVE  InFlight' # {} /\ InFlight \subseteq InFlight' /\ cstate' = "starting" /\ stopped' = FALSE
  <2>1. PICK i \in StartId :
            /\ i \notin InFlight
            /\ starts' = [starts EXCEPT ![i] = [phase  |-> IF ready THEN SessionPhase(resume) ELSE "waiting",
                                                resume |-> resume]]
    BY <1>1 DEF StartCall
  <2>2. starts'[i] # Idle
    BY <2>1 DEF CTypeOK, SessionPhase, Idle
  <2>3. i \in InFlight' /\ InFlight \subseteq InFlight'
    BY <2>1, <2>2 DEF InFlight, CTypeOK
  <2> QED BY <1>1, <2>3 DEF StartCall
<1> QED BY <1>1 DEF StartCall

(* A start that moves on is as much in flight as before.                   *)
LEMMA PhaseFlies ==
    ASSUME CTypeOK, NEW i \in StartId, NEW p \in Phases, starts' = [starts EXCEPT ![i].phase = p],
           i \in InFlight
    PROVE  InFlight' = InFlight
<1>1. starts'[i].phase = p /\ p # "none"
  BY DEF CTypeOK, StartRecord, Phases
<1>2. starts'[i] # Idle
  BY <1>1 DEF Idle
<1>3. \A j \in StartId \ {i} : starts'[j] = starts[j]
  BY DEF CTypeOK
<1> QED BY <1>2, <1>3 DEF InFlight

(* A start moves on, crashes or starts a session.                          *)
LEMMA OutcomeFlies ==
    ASSUME CTypeOK, NEW i \in StartId, Outcome(i)
    PROVE  \/ UNCHANGED <<cstate, csid, stopped, health, timer, leaked, toHq, nextSid>> /\ InFlight' = InFlight
           \/ HandleCrash(i)
           \/ \E s \in {starts[i].resume, nextSid} : Started(i, s)
<1>1. CASE WaitReady(i) \/ ResumeFails(i)
  <2>1. PICK p \in Phases : starts' = [starts EXCEPT ![i].phase = p]
    BY <1>1 DEF WaitReady, ResumeFails, SessionPhase, Phases
  <2>2. i \in InFlight
    BY <1>1 DEF WaitReady, ResumeFails, InFlight, Idle
  <2>3. InFlight' = InFlight
    BY <2>1, <2>2, PhaseFlies
  <2> QED BY <1>1, <2>3 DEF WaitReady, ResumeFails
<1>2. CASE WaitTimeout(i) \/ CreateFails(i)
  BY <1>2 DEF WaitTimeout, CreateFails
<1>3. CASE ResumeOk(i) \/ CreateOk(i)
  BY <1>3 DEF ResumeOk, CreateOk
<1> QED BY <1>1, <1>2, <1>3 DEF Outcome

(* Every step keeps a crash's retry.                                       *)
LEMMA RetriedStep == TypeOK /\ CrashIsRetried /\ [Next]_vars => CrashIsRetried'
<1> SUFFICES ASSUME TypeOK, CrashIsRetried, [Next]_vars PROVE CrashIsRetried'
  OBVIOUS
<1>c. CTypeOK
  BY DEF TypeOK
<1>1. CASE UNCHANGED sessionVars
  BY <1>1 DEF sessionVars, CrashIsRetried, InFlight
<1>2. CASE DaemonRestart
  BY <1>2 DEF DaemonRestart, CrashIsRetried
<1>3. ASSUME NEW resume \in Sessions \cup {None}, StartCommand(resume) PROVE CrashIsRetried'
  BY <1>3, <1>c, StartCallFlies DEF StartCommand, CrashIsRetried
<1>4. CASE StopCommand
  BY <1>4 DEF StopCommand, CrashIsRetried
<1>5. CASE RestartTimer
  <2>1. StartCall(csid)
    BY <1>5 DEF RestartTimer
  <2> QED BY <1>c, <2>1, StartCallFlies DEF CrashIsRetried
<1>6. CASE SdkReady
  BY <1>6 DEF SdkReady, CrashIsRetried, InFlight
<1>7. ASSUME NEW i \in StartId, Outcome(i) PROVE CrashIsRetried'
  <2>1. CASE UNCHANGED <<cstate, stopped, timer, leaked>> /\ InFlight' = InFlight
    BY <2>1 DEF CrashIsRetried
  <2>2. CASE HandleCrash(i)
    BY <2>2 DEF HandleCrash, CrashIsRetried
  <2>3. CASE cstate' = "active"
    BY <2>3 DEF CrashIsRetried
  <2> QED BY <1>c, <1>7, <2>1, <2>2, <2>3, OutcomeFlies DEF Started
<1> QED BY <1>1, <1>2, <1>3, <1>4, <1>5, <1>6, <1>7, SessionSteps

(* Every step keeps a session behind an active coordinator.                *)
LEMMA BackedStep == TypeOK /\ StateIsBacked /\ IdsCreated /\ [Next]_vars => StateIsBacked'
<1> SUFFICES ASSUME TypeOK, StateIsBacked, IdsCreated, [Next]_vars PROVE StateIsBacked'
  OBVIOUS
<1>c. CTypeOK
  BY DEF TypeOK
<1>1. CASE UNCHANGED sessionVars
  BY <1>1 DEF sessionVars, StateIsBacked, InFlight
<1>2. CASE DaemonRestart
  BY <1>2 DEF DaemonRestart, StateIsBacked
<1>3. ASSUME NEW resume \in Sessions \cup {None}, StartCommand(resume) PROVE StateIsBacked'
  BY <1>3, <1>c, StartCallFlies DEF StartCommand, StateIsBacked, InFlight
<1>4. CASE StopCommand
  BY <1>4 DEF StopCommand, StateIsBacked
<1>5. CASE RestartTimer
  <2>1. StartCall(csid) /\ UNCHANGED <<csid, health>>
    BY <1>5 DEF RestartTimer
  <2> QED BY <1>c, <2>1, StartCallFlies DEF StateIsBacked, InFlight
<1>6. CASE SdkReady
  BY <1>6 DEF SdkReady, StateIsBacked, InFlight
<1>7. ASSUME NEW i \in StartId, Outcome(i) PROVE StateIsBacked'
  <2>1. CASE WaitReady(i) \/ ResumeFails(i)
    <3>1. PICK p \in Phases : starts' = [starts EXCEPT ![i].phase = p]
      BY <2>1 DEF WaitReady, ResumeFails, SessionPhase, Phases
    <3>2. i \in InFlight
      BY <2>1 DEF WaitReady, ResumeFails, InFlight, Idle
    <3>3. InFlight' = InFlight
      BY <1>c, <3>1, <3>2, PhaseFlies
    <3> QED BY <2>1, <3>3 DEF WaitReady, ResumeFails, StateIsBacked
  <2>2. CASE WaitTimeout(i) \/ CreateFails(i)
    BY <2>2 DEF WaitTimeout, CreateFails, HandleCrash, StateIsBacked
  <2>3. CASE ResumeOk(i)
    BY <2>3 DEF ResumeOk, Started, IdsCreated, StartIds, StateIsBacked
  <2>4. CASE CreateOk(i)
    <3>1. nextSid # None
      BY <1>c, SessionAssumption DEF CTypeOK, None
    <3> QED BY <2>4, <3>1 DEF CreateOk, Started, StateIsBacked
  <2> QED BY <1>7, <2>1, <2>2, <2>3, <2>4 DEF Outcome
<1> QED BY <1>1, <1>2, <1>3, <1>4, <1>5, <1>6, <1>7, SessionSteps

(* A command sent names a session that exists.                             *)
LEMMA SentIds ==
    ASSUME TypeOK, CommandIds, NEW type \in {"start", "stop"}, NEW s \in Sessions \cup {None}, s < nextSid,
           toDaemon' = Sent(type, s), nextSid' = nextSid
    PROVE  CommandIds'
<1>1. [type |-> type, sid |-> s] \in Command
  BY DEF Command
<1>2. CASE link = "up"
  <2>1. toDaemon' = Append(toDaemon, [type |-> type, sid |-> s])
    BY <1>2 DEF Sent
  <2>2. toDaemon \in Seq(Command)
    BY DEF TypeOK
  <2>3. /\ Len(toDaemon') = Len(toDaemon) + 1 /\ toDaemon'[Len(toDaemon) + 1].sid = s
        /\ \A n \in 1 .. Len(toDaemon) : toDaemon'[n] = toDaemon[n]
    BY <1>1, <2>1, <2>2, Appended
  <2>4. ASSUME NEW n \in 1 .. Len(toDaemon') PROVE toDaemon'[n].sid < nextSid'
    <3>1. n \in 1 .. Len(toDaemon) \/ n = Len(toDaemon) + 1
      BY <2>2, <2>3
    <3> QED BY <2>3, <3>1 DEF CommandIds
  <2> QED BY <2>4 DEF CommandIds
<1>3. CASE link # "up"
  BY <1>3 DEF Sent, CommandIds
<1> QED BY <1>2, <1>3

(* So does a report.                                                       *)
LEMMA ReportedIds ==
    ASSUME CTypeOK, ReportIds, NEW type \in {"started", "crashed"}, NEW s \in Sessions \cup {None},
           s < nextSid', type = "started" => s # None, nextSid' \in {nextSid, nextSid + 1}, SendToHq(type, s)
    PROVE  ReportIds'
<1>0. toHq \in Seq(Message) /\ nextSid \in Nat
  BY SessionAssumption DEF CTypeOK
<1>1. [type |-> type, sid |-> s] \in Message
  BY DEF Message
<1>2. \A n \in 1 .. Len(toHq) : toHq[n].sid \in Nat
  <2>1. \A n \in 1 .. Len(toHq) : toHq[n] \in Message
    BY <1>0
  <2> QED BY <2>1 DEF Message, Sessions, None
<1>3. CASE online
  <2>1. toHq' = Append(toHq, [type |-> type, sid |-> s])
    BY <1>3 DEF SendToHq
  <2>2. /\ Len(toHq') = Len(toHq) + 1 /\ toHq'[Len(toHq) + 1] = [type |-> type, sid |-> s]
        /\ \A n \in 1 .. Len(toHq) : toHq'[n] = toHq[n]
    BY <1>0, <1>1, <2>1, Appended
  <2>3. ASSUME NEW n \in 1 .. Len(toHq')
        PROVE  toHq'[n].sid < nextSid' /\ (toHq'[n].type = "started" => toHq'[n].sid # None)
    <3>1. CASE n \in 1 .. Len(toHq)
      BY <1>0, <1>2, <2>2, <3>1 DEF ReportIds
    <3>2. CASE n = Len(toHq) + 1
      BY <2>2, <3>2
    <3> QED BY <1>0, <2>2, <3>1, <3>2
  <2> QED BY <2>3 DEF ReportIds
<1>4. CASE ~online
  BY <1>0, <1>2, <1>4 DEF SendToHq, ReportIds
<1> QED BY <1>3, <1>4

(* A step of a start() call.                                               *)
LEMMA OutcomeIds ==
    ASSUME CTypeOK, StartIds, ReportIds, csid < nextSid, NEW i \in StartId, Outcome(i)
    PROVE  StartIds' /\ ReportIds' /\ csid' < nextSid' /\ nextSid' \in {nextSid, nextSid + 1}
<1>0. /\ nextSid \in Nat /\ nextSid > 0 /\ csid \in Sessions \cup {None} /\ Sessions \subseteq Nat /\ None \in Nat
      /\ starts \in [StartId -> StartRecord] /\ toHq \in Seq(Message)
      /\ \A j \in StartId : starts[j].resume \in Sessions \cup {None} /\ starts[j].resume \in Nat
  BY SessionAssumption DEF CTypeOK, Sessions, None, StartRecord
<1>1. CASE WaitReady(i) \/ ResumeFails(i)
  <2>1. starts'[i].resume = starts[i].resume /\ \A j \in StartId \ {i} : starts'[j] = starts[j]
    BY <1>0, <1>1 DEF WaitReady, ResumeFails, StartRecord
  <2>2. starts'[i].phase = "resuming" => starts'[i].resume # None
    BY <1>0, <1>1 DEF WaitReady, ResumeFails, SessionPhase, StartRecord
  <2>3. StartIds'
    BY <1>1, <2>1, <2>2 DEF WaitReady, ResumeFails, StartIds
  <2> QED BY <1>1, <2>3 DEF WaitReady, ResumeFails, ReportIds
<1>2. ASSUME starts' = [starts EXCEPT ![i] = Idle], nextSid' \in {nextSid, nextSid + 1} PROVE StartIds'
  <2>1. starts'[i] = Idle /\ \A j \in StartId \ {i} : starts'[j] = starts[j]
    BY <1>0, <1>2
  <2> QED BY <1>0, <1>2, <2>1 DEF StartIds, Idle, None
<1>3. CASE HandleCrash(i)
  <2>1. ReportIds'
    BY <1>0, <1>3, ReportedIds DEF HandleCrash
  <2> QED BY <1>2, <1>3, <2>1 DEF HandleCrash
<1>4. CASE ResumeOk(i)
  <2>1. starts[i].resume # None /\ starts[i].resume < nextSid
    BY <1>4 DEF ResumeOk, StartIds
  <2>2. ReportIds'
    BY <1>0, <1>4, <2>1, ReportedIds DEF ResumeOk, Started
  <2> QED BY <1>2, <1>4, <2>1, <2>2 DEF ResumeOk, Started
<1>5. CASE CreateOk(i)
  <2>1. nextSid \in Sessions /\ nextSid # None /\ nextSid < nextSid' /\ nextSid' = nextSid + 1
    BY <1>0, <1>5 DEF CreateOk, Sessions, None
  <2>2. ReportIds'
    BY <1>5, <2>1, ReportedIds DEF CreateOk, Started
  <2> QED BY <1>2, <1>5, <2>1, <2>2 DEF CreateOk, Started
<1> QED BY <1>1, <1>3, <1>4, <1>5 DEF Outcome, WaitTimeout, CreateFails

(* So does a call of start.                                                *)
LEMMA StartCallIds ==
    ASSUME CTypeOK, StartIds, NEW resume \in Sessions \cup {None}, resume < nextSid, nextSid' = nextSid,
           StartCall(resume)
    PROVE  StartIds'
<1>1. CASE cstate \in {"active", "starting"}
  BY <1>1 DEF StartCall, StartIds
<1>2. CASE cstate \notin {"active", "starting"}
  <2>1. PICK i \in StartId :
            starts' = [starts EXCEPT ![i] = [phase  |-> IF ready THEN SessionPhase(resume) ELSE "waiting",
                                             resume |-> resume]]
    BY <1>2 DEF StartCall
  <2>2. /\ starts'[i].resume = resume /\ (starts'[i].phase = "resuming" => resume # None)
        /\ \A j \in StartId \ {i} : starts'[j] = starts[j]
    BY <2>1 DEF CTypeOK, SessionPhase
  <2> QED BY <2>2 DEF StartIds
<1> QED BY <1>1, <1>2

(* Every step keeps all names to sessions that exist.                      *)
LEMMA IdsStep == TypeOK /\ IdsCreated /\ [Next]_vars => IdsCreated'
<1> SUFFICES ASSUME TypeOK, IdsCreated, [Next]_vars PROVE IdsCreated'
  OBVIOUS
<1>p. RecordIds /\ StartIds /\ CallIds /\ CommandIds /\ ReportIds
  BY DEF IdsCreated
<1> SUFFICES RecordIds' /\ StartIds' /\ CallIds' /\ CommandIds' /\ ReportIds'
  BY DEF IdsCreated
<1>c. CTypeOK
  BY DEF TypeOK
<1>0. /\ nextSid \in Nat /\ None < nextSid /\ None \in Sessions \cup {None} /\ Sessions \subseteq Nat /\ None \in Nat
      /\ sid \in Nat /\ savedSid \in Nat
      /\ {sid, savedSid, csid} \subseteq Sessions \cup {None}
  BY <1>c, SessionAssumption DEF TypeOK, CTypeOK, None, Sessions
<1>n. NoCall.sid < nextSid /\ Idle.resume < nextSid /\ Idle.phase # "resuming"
  BY <1>0 DEF NoCall, Idle
<1>e. ASSUME NEW k \in CallId, NEW kind, NEW s, s < nextSid, Call(k, kind, s), nextSid' = nextSid PROVE CallIds'
  BY <1>e, <1>p DEF Call, CallIds, TypeOK
<1>b. ASSUME BeginStart, nextSid' = nextSid PROVE CallIds' /\ status' = "starting"
  BY <1>b, <1>e, <1>p DEF BeginStart, RecordIds
<1>1. CASE DaemonConnected
  <2>1. CallIds' /\ RecordIds'
    BY <1>1, <1>b, <1>p DEF DaemonConnected, sessionVars, CallIds, RecordIds
  <2> QED BY <1>1, <1>p, <2>1 DEF DaemonConnected, sessionVars, StartIds, CommandIds, ReportIds
<1>2. CASE LinkLost
  BY <1>2, <1>p DEF LinkLost, sessionVars, RecordIds, StartIds, CallIds, CommandIds, ReportIds
<1>3. CASE HqNotices \/ UNCHANGED vars
  BY <1>3, <1>p DEF HqNotices, vars, cvars, sessionVars, hqVars, RecordIds, StartIds, CallIds, CommandIds, ReportIds
<1>4. CASE DaemonRestart
  <2>1. StartIds'
    BY <1>4, <1>n DEF DaemonRestart, StartIds
  <2> QED BY <1>4, <1>0, <1>p, <2>1 DEF DaemonRestart, RecordIds, CallIds, CommandIds, ReportIds
<1>5. CASE HqRestart
  <2>1. CallIds'
    BY <1>5, <1>n DEF HqRestart, sessionVars, CallIds
  <2> QED BY <1>5, <1>p, <2>1 DEF HqRestart, sessionVars, RecordIds, StartIds, CommandIds, ReportIds
<1>6. CASE HqFlush
  BY <1>6, <1>p DEF HqFlush, cvars, sessionVars, RecordIds, StartIds, CallIds, CommandIds, ReportIds
<1>7. CASE ApiStart
  BY <1>7, <1>b, <1>p DEF ApiStart, cvars, sessionVars, RecordIds, StartIds, CommandIds, ReportIds
<1>8. CASE ApiStop
  <2>1. CommandIds'
    BY <1>0, <1>8, <1>p, SentIds DEF ApiStop, cvars, sessionVars
  <2> QED BY <1>8, <1>p, <2>1 DEF ApiStop, cvars, sessionVars, RecordIds, StartIds, CallIds, ReportIds
<1>9. CASE ApiReset
  <2>1. CommandIds'
    BY <1>0, <1>9, <1>p, SentIds DEF ApiReset, cvars, sessionVars
  <2>2. CallIds'
    BY <1>0, <1>9, <1>e DEF ApiReset, cvars, sessionVars
  <2> QED BY <1>0, <1>9, <1>p, <2>1, <2>2 DEF ApiReset, cvars, sessionVars, RecordIds, StartIds, ReportIds
<1>10. ASSUME NEW k \in CallId, StartSends(k) \/ ResetLookup(k) \/ ResetTimer(k)
       PROVE  RecordIds' /\ StartIds' /\ CallIds' /\ CommandIds' /\ ReportIds'
  <2>0. UNCHANGED <<nextSid, starts, toHq, csid, savedSid>>
    BY <1>10 DEF StartSends, ResetLookup, ResetTimer, cvars, sessionVars
  <2>1. CallIds'
    BY <1>0, <1>10, <1>e, <1>n, <1>p, <2>0 DEF StartSends, ResetLookup, ResetTimer, CallIds, TypeOK
  <2>2. calls[k].sid \in Sessions \cup {None} /\ calls[k].sid < nextSid
    BY <1>p DEF TypeOK, CallIds
  <2>3. CommandIds'
    <3>1. CASE toDaemon' = toDaemon
      BY <1>p, <2>0, <3>1 DEF CommandIds
    <3>2. CASE toDaemon' = Sent("start", calls[k].sid)
      BY <1>p, <2>0, <2>2, <3>2, SentIds
    <3>3. CASE toDaemon' = Sent("start", None)
      BY <1>0, <1>p, <2>0, <3>3, SentIds
    <3> QED BY <1>10, <3>1, <3>2, <3>3 DEF StartSends, ResetLookup, ResetTimer
  <2>4. RecordIds'
    BY <1>0, <1>10, <1>p, <2>0, <2>2 DEF StartSends, ResetLookup, ResetTimer, RecordIds
  <2> QED BY <1>p, <2>0, <2>1, <2>3, <2>4 DEF StartIds, ReportIds
<1>11. CASE HqReceive
  <2>0. toHq \in Seq(Message) /\ toHq # << >> /\ toHq' = Tail(toHq) /\ UNCHANGED <<nextSid, starts, csid, savedSid, calls, toDaemon>>
    BY <1>11, <1>c DEF HqReceive, CTypeOK, sessionVars
  <2>1. /\ Head(toHq) = toHq[1] /\ 1 \in 1 .. Len(toHq)
        /\ \A n \in 1 .. Len(toHq') : n + 1 \in 1 .. Len(toHq) /\ toHq'[n] = toHq[n + 1]
    BY <2>0, Received
  <2>2. Head(toHq).sid < nextSid /\ (Head(toHq).type = "started" => Head(toHq).sid # None)
    BY <1>p, <2>1 DEF ReportIds
  <2>3. ReportIds'
    BY <1>p, <2>0, <2>1 DEF ReportIds
  <2>4. RecordIds'
    BY <1>11, <1>p, <2>0, <2>2 DEF HqReceive, RecordIds
  <2> QED BY <1>p, <2>0, <2>3, <2>4 DEF StartIds, CallIds, CommandIds
<1>12. CASE DaemonReceive
  <2>0. toDaemon \in Seq(Command) /\ toDaemon # << >> /\ toDaemon' = Tail(toDaemon)
    BY <1>12 DEF DaemonReceive, TypeOK
  <2>1. /\ Head(toDaemon) = toDaemon[1] /\ 1 \in 1 .. Len(toDaemon) /\ Head(toDaemon) \in Command
        /\ \A n \in 1 .. Len(toDaemon') : n + 1 \in 1 .. Len(toDaemon) /\ toDaemon'[n] = toDaemon[n + 1]
    BY <2>0, Received
  <2>2. Head(toDaemon).sid < nextSid /\ Head(toDaemon).sid \in Sessions \cup {None}
    <3>1. Head(toDaemon).sid \in Sessions \cup {None}
      BY <2>1 DEF Command
    <3> QED BY <1>p, <2>1, <3>1 DEF CommandIds
  <2>3. UNCHANGED <<nextSid, csid, toHq, status, sid, savedSid, calls>>
    BY <1>12 DEF DaemonReceive, StartCommand, StopCommand
  <2>4. StartIds'
    BY <1>12, <1>c, <1>p, <2>2, <2>3, StartCallIds DEF DaemonReceive, StartCommand, StopCommand, StartIds
  <2>5. CommandIds'
    BY <1>p, <2>1, <2>3 DEF CommandIds
  <2> QED BY <1>p, <2>3, <2>4, <2>5 DEF RecordIds, CallIds, ReportIds
<1>13. ASSUME NEW i \in StartId, Settles(i) \/ Fails(i)
       PROVE  RecordIds' /\ StartIds' /\ CallIds' /\ CommandIds' /\ ReportIds'
  <2>1. Outcome(i) /\ UNCHANGED hqVars
    BY <1>13 DEF Settles, Fails, Outcome
  <2>2. StartIds' /\ ReportIds' /\ csid' < nextSid' /\ nextSid' \in {nextSid, nextSid + 1}
    BY <1>c, <1>p, <2>1, OutcomeIds DEF RecordIds
  <2>3. RecordIds'
    BY <1>0, <1>p, <2>1, <2>2 DEF RecordIds, hqVars
  <2>4. CallIds'
    <3>1. \A k \in CallId : calls[k].sid \in Nat
      BY <1>0 DEF TypeOK
    <3> QED BY <1>0, <1>p, <2>1, <2>2, <3>1 DEF CallIds, hqVars
  <2>5. CommandIds'
    <3>1. \A n \in 1 .. Len(toDaemon) : toDaemon[n] \in Command
      BY DEF TypeOK
    <3>2. \A n \in 1 .. Len(toDaemon) : toDaemon[n].sid \in Nat
      BY <1>0, <3>1 DEF Command
    <3> QED BY <1>0, <1>p, <2>1, <2>2, <3>2 DEF CommandIds, hqVars
  <2> QED BY <2>2, <2>3, <2>4, <2>5
<1>14. CASE Timer
  <2>1. StartCall(csid) /\ UNCHANGED <<nextSid, csid, toHq, status, sid, savedSid, calls, toDaemon>>
    BY <1>14 DEF Timer, RestartTimer, hqVars
  <2>2. StartIds'
    BY <1>0, <1>c, <1>p, <2>1, StartCallIds DEF RecordIds
  <2> QED BY <1>p, <2>1, <2>2 DEF RecordIds, CallIds, CommandIds, ReportIds
<1>15. CASE Sdk
  BY <1>15, <1>p DEF Sdk, SdkReady, hqVars, RecordIds, StartIds, CallIds, CommandIds, ReportIds
<1> QED BY <1>1, <1>2, <1>3, <1>4, <1>5, <1>6, <1>7, <1>8, <1>9, <1>10, <1>11, <1>12, <1>13, <1>14, <1>15
        DEF Next

(* Every step keeps the link's invariant.                                  *)
LEMMA LinkStep == TypeOK /\ LinkInv /\ [Next]_vars => LinkInv'
<1> SUFFICES ASSUME TypeOK, LinkInv, [Next]_vars PROVE LinkInv'
  OBVIOUS
<1>c. CTypeOK
  BY DEF TypeOK
<1>s. link # "up" => \A type, s : Sent(type, s) = toDaemon
  BY DEF Sent
<1>1. CASE DaemonConnected
  BY <1>1 DEF DaemonConnected, LinkInv
<1>2. CASE LinkLost \/ DaemonRestart \/ HqRestart
  <2>1. failed'
    BY <1>2 DEF LinkLost, DaemonRestart, HqRestart, LinkEvent
  <2>2. ~online' /\ link' # "up"
    BY <1>2 DEF LinkLost, DaemonRestart, HqRestart
  <2> QED BY <2>1, <2>2 DEF LinkInv
<1>3. CASE HqNotices \/ HqFlush \/ UNCHANGED vars
  BY <1>3 DEF HqNotices, HqFlush, vars, cvars, sessionVars, hqVars, history, LinkInv, Untouched, InFlight
<1>4. CASE ApiStart \/ ApiStop \/ ApiReset
  BY <1>4, <1>s DEF ApiStart, ApiStop, ApiReset, Event, cvars, sessionVars, LinkInv, Untouched, InFlight
<1>5. ASSUME NEW k \in CallId, StartSends(k) \/ ResetLookup(k) \/ ResetTimer(k) PROVE LinkInv'
  BY <1>5, <1>s DEF StartSends, ResetLookup, ResetTimer, cvars, sessionVars, history, LinkInv, Untouched, InFlight
<1>6. CASE HqReceive \/ DaemonReceive
  <2>1. (toHq # << >> \/ toDaemon # << >>) /\ UNCHANGED <<link, online, failed>>
    BY <1>6 DEF HqReceive, DaemonReceive, StartCommand, StopCommand, history
  <2> QED BY <2>1 DEF LinkInv, Untouched
<1>7. ASSUME NEW i \in StartId, Settles(i) \/ Fails(i) PROVE LinkInv'
  <2>1. i \in InFlight
    BY <1>7 DEF Settles, Fails, WaitReady, WaitTimeout, ResumeOk, ResumeFails, CreateOk, CreateFails, InFlight, Idle
  <2>2. UNCHANGED <<link, online, failed>>
    BY <1>7 DEF Settles, Fails, Event, WaitReady, WaitTimeout, ResumeOk, ResumeFails, CreateOk, CreateFails,
                Started, HandleCrash, hqVars, history
  <2> QED BY <2>1, <2>2 DEF LinkInv, Untouched
<1>8. CASE Timer
  <2>1. timer \/ leaked # 0
    BY <1>8, <1>c DEF Timer, RestartTimer, CTypeOK
  <2>2. UNCHANGED <<link, online, failed>>
    BY <1>8 DEF Timer, RestartTimer, hqVars, history
  <2> QED BY <2>1, <2>2 DEF LinkInv, Untouched
<1>9. CASE Sdk
  BY <1>9 DEF Sdk, SdkReady, hqVars, history, LinkInv, Untouched, InFlight
<1> QED BY <1>1, <1>2, <1>3, <1>4, <1>5, <1>6, <1>7, <1>8, <1>9 DEF Next

(* A stop that is sent while the link is up is under way; one that is      *)
(* under way stays so until the daemon takes it.                           *)
LEMMA StopSent ==
    ASSUME TypeOK, link = "up", toDaemon' = Sent("stop", None) PROVE StopUnderWay'
<1>1. [type |-> "stop", sid |-> None] \in Command /\ toDaemon \in Seq(Command)
  BY DEF Command, TypeOK
<1>2. toDaemon' = Append(toDaemon, [type |-> "stop", sid |-> None])
  BY DEF Sent
<1>3. Len(toDaemon') = Len(toDaemon) + 1 /\ toDaemon'[Len(toDaemon) + 1] = [type |-> "stop", sid |-> None]
  BY <1>1, <1>2, Appended
<1>4. Len(toDaemon) + 1 \in 1 .. Len(toDaemon')
  BY <1>1, <1>3
<1> QED BY <1>3, <1>4 DEF StopUnderWay

(* A stop under way stays so when a command is sent after it.              *)
LEMMA StopStays ==
    ASSUME TypeOK, StopUnderWay, NEW type \in {"start", "stop"}, NEW s \in Sessions \cup {None},
           toDaemon' = Sent(type, s)
    PROVE  StopUnderWay'
<1>1. [type |-> type, sid |-> s] \in Command /\ toDaemon \in Seq(Command)
  BY DEF Command, TypeOK
<1>2. CASE link = "up"
  <2>1. Len(toDaemon') = Len(toDaemon) + 1 /\ \A n \in 1 .. Len(toDaemon) : toDaemon'[n] = toDaemon[n]
    BY <1>1, <1>2, Appended DEF Sent
  <2>2. 1 .. Len(toDaemon) \subseteq 1 .. Len(toDaemon')
    BY <1>1, <2>1
  <2> QED BY <2>1, <2>2 DEF StopUnderWay
<1>3. CASE link # "up"
  BY <1>3 DEF Sent, StopUnderWay
<1> QED BY <1>2, <1>3

(* It stays so when the daemon takes another command.                      *)
LEMMA StopWaits ==
    ASSUME TypeOK, StopUnderWay, toDaemon # << >>, toDaemon' = Tail(toDaemon), Head(toDaemon).type # "stop"
    PROVE  StopUnderWay'
<1>0. toDaemon \in Seq(Command)
  BY DEF TypeOK
<1>1. PICK n \in 1 .. Len(toDaemon) : toDaemon[n].type = "stop"
  BY DEF StopUnderWay
<1>2. n # 1
  BY <1>0, <1>1, Received
<1>3. n - 1 \in 1 .. Len(toDaemon') /\ toDaemon'[n - 1] = toDaemon[n]
  <2>1. Len(toDaemon') = Len(toDaemon) - 1 /\ \A m \in 1 .. Len(toDaemon') : toDaemon'[m] = toDaemon[m + 1]
    BY <1>0, Received
  <2>2. n \in Nat /\ Len(toDaemon) \in Nat /\ n - 1 \in 1 .. Len(toDaemon') /\ (n - 1) + 1 = n
    BY <1>0, <1>1, <1>2, <2>1
  <2> QED BY <2>1, <2>2
<1> QED BY <1>1, <1>3 DEF StopUnderWay

(* While the link is up, whatever settles a start is reported.             *)
LEMMA Reported ==
    ASSUME CTypeOK, online, NEW type \in {"started", "crashed"}, NEW s \in Sessions \cup {None}, SendToHq(type, s)
    PROVE  toHq' # << >> /\ toHq'[Len(toHq')] = [type |-> type, sid |-> s]
<1>1. [type |-> type, sid |-> s] \in Message /\ toHq \in Seq(Message)
  BY DEF Message, CTypeOK
<1> QED BY <1>1, Appended DEF SendToHq

(* Every step keeps what a stopped coordinator's HQ record may say.        *)
LEMMA IdleStep == TypeOK /\ IdsCreated /\ LinkInv /\ IdleInv /\ [Next]_vars => IdleInv'
<1> SUFFICES ASSUME TypeOK, IdsCreated, LinkInv, IdleInv, [Next]_vars PROVE IdleInv'
  OBVIOUS
<1>c. CTypeOK
  BY DEF TypeOK
<1>u. ASSUME UNCHANGED sessionVars PROVE cstate' = cstate /\ InFlight' = InFlight
  BY <1>u DEF sessionVars, InFlight
<1>1. CASE DaemonConnected
  BY <1>1 DEF DaemonConnected, Startable, BeginStart, IdleInv
<1>2. CASE LinkLost \/ DaemonRestart \/ HqRestart \/ HqNotices
  <2>1. link' # "up"
    BY <1>2 DEF LinkLost, DaemonRestart, HqRestart, HqNotices
  <2> QED BY <2>1 DEF IdleInv
<1>3. CASE HqFlush \/ UNCHANGED vars
  BY <1>3, <1>u DEF HqFlush, vars, cvars, hqVars, IdleInv, StopUnderWay
<1>4. CASE ApiStart
  BY <1>4 DEF ApiStart, BeginStart, IdleInv
<1>5. CASE ApiStop \/ ApiReset
  BY <1>5, StopSent DEF ApiStop, ApiReset, IdleInv
<1>6. ASSUME NEW k \in CallId, StartSends(k) \/ ResetLookup(k) \/ ResetTimer(k) PROVE IdleInv'
  <2>1. calls[k].sid \in Sessions \cup {None}
    BY DEF TypeOK
  <2>2. CASE ResetLookup(k)
    BY <1>u, <2>2 DEF ResetLookup, cvars, IdleInv, StopUnderWay
  <2>3. CASE StartSends(k) /\ link = "up"
    <3>1. StopUnderWay => StopUnderWay'
      BY <2>1, <2>3, StopStays DEF StartSends, CanSend
    <3> QED BY <1>u, <2>3, <3>1 DEF StartSends, CanSend, cvars, IdleInv
  <2>4. CASE ResetTimer(k) /\ link = "up"
    BY <2>4 DEF ResetTimer, CanSend, IdleInv
  <2>5. CASE link' # "up"
    BY <2>5 DEF IdleInv
  <2> QED BY <1>6, <2>2, <2>3, <2>4, <2>5 DEF StartSends, ResetTimer
<1>7. CASE HqReceive
  BY <1>7 DEF HqReceive, IdleInv
<1>8. CASE DaemonReceive
  <2>1. CASE Head(toDaemon).type = "start"
    <3>1. StartCall(Head(toDaemon).sid) /\ toHq' = toHq /\ UNCHANGED <<link, status>>
      BY <1>8, <2>1 DEF DaemonReceive, StartCommand
    <3>2. StopUnderWay => StopUnderWay'
      BY <1>8, <2>1, StopWaits DEF DaemonReceive
    <3>3. (cstate' = cstate /\ InFlight' = InFlight) \/ InFlight' # {}
      BY <1>c, <3>1, StartCallFlies DEF InFlight
    <3> QED BY <3>1, <3>2, <3>3 DEF IdleInv
  <2>2. CASE Head(toDaemon).type # "start"
    BY <1>8, <2>2 DEF DaemonReceive, StopCommand, IdleInv
  <2> QED BY <2>1, <2>2
<1>9. ASSUME NEW i \in StartId, Settles(i) \/ Fails(i) PROVE IdleInv'
  <2>1. Outcome(i) /\ UNCHANGED <<link, status, toDaemon>>
    BY <1>9 DEF Settles, Fails, Outcome, hqVars
  <2>2. CASE UNCHANGED <<cstate, toHq>> /\ InFlight' = InFlight
    BY <2>1, <2>2 DEF IdleInv, StopUnderWay
  <2>3. CASE HandleCrash(i) /\ link = "up"
    <3>1. SendToHq("crashed", csid) /\ csid \in Sessions \cup {None}
      BY <1>c, <2>3 DEF HandleCrash, CTypeOK
    <3> QED BY <1>c, <2>3, <3>1, Reported DEF LinkInv, IdleInv
  <2>4. ASSUME NEW s \in {starts[i].resume, nextSid}, Started(i, s), link = "up" PROVE IdleInv'
    <3>1. SendToHq("started", s)
      BY <2>4 DEF Started
    <3>2. toHq' # << >>
      BY <2>4, <3>1 DEF SendToHq, LinkInv, CTypeOK
    <3> QED BY <3>2 DEF IdleInv
  <2>5. CASE link # "up"
    BY <2>1, <2>5 DEF IdleInv
  <2> QED BY <1>c, <2>1, <2>2, <2>3, <2>4, <2>5, OutcomeFlies
<1>10. CASE Timer
  <2>1. StartCall(csid) /\ toHq' = toHq /\ UNCHANGED <<link, status, toDaemon>>
    BY <1>10 DEF Timer, RestartTimer, hqVars
  <2>2. (cstate' = cstate /\ InFlight' = InFlight) \/ InFlight' # {}
    BY <1>c, <2>1, StartCallFlies DEF InFlight
  <2> QED BY <2>1, <2>2 DEF IdleInv, StopUnderWay
<1>11. CASE Sdk
  BY <1>11 DEF Sdk, SdkReady, hqVars, IdleInv, StopUnderWay, InFlight
<1> QED BY <1>1, <1>2, <1>3, <1>4, <1>5, <1>6, <1>7, <1>8, <1>9, <1>10, <1>11 DEF Next

(* Every step keeps the last report.                                       *)
LEMMA ReportStep == TypeOK /\ IdsCreated /\ LinkInv /\ ReportInv /\ [Next]_vars => ReportInv'
<1> SUFFICES ASSUME TypeOK, IdsCreated, LinkInv, ReportInv, [Next]_vars PROVE ReportInv'
  OBVIOUS
<1>c. CTypeOK
  BY DEF TypeOK
<1>1. CASE DaemonConnected
  <2>1. ~failed => cstate = "stopped"
    BY <1>1 DEF DaemonConnected, LinkInv, Untouched
  <2> QED BY <1>1, <2>1 DEF DaemonConnected, sessionVars, history, ReportInv
<1>2. CASE LinkLost \/ DaemonRestart \/ HqRestart
  <2>1. failed'
    BY <1>2 DEF LinkLost, DaemonRestart, HqRestart, LinkEvent
  <2> QED BY <2>1 DEF ReportInv
<1>3. CASE HqNotices \/ HqFlush \/ UNCHANGED vars
  BY <1>3 DEF HqNotices, HqFlush, vars, cvars, sessionVars, hqVars, history, ReportInv, LastReport
<1>4. CASE ApiStart \/ ApiStop \/ ApiReset
  BY <1>4 DEF ApiStart, ApiStop, ApiReset, Event, BeginStart, cvars, sessionVars, ReportInv, LastReport
<1>5. ASSUME NEW k \in CallId, StartSends(k) \/ ResetLookup(k) \/ ResetTimer(k) PROVE ReportInv'
  BY <1>5 DEF StartSends, ResetLookup, ResetTimer, cvars, sessionVars, history, ReportInv, LastReport
<1>6. CASE HqReceive
  <2>0. toHq \in Seq(Message) /\ toHq # << >> /\ toHq' = Tail(toHq) /\ UNCHANGED <<cstate, csid, failed>>
    BY <1>6, <1>c DEF HqReceive, CTypeOK, sessionVars, history
  <2>1. /\ Head(toHq) = toHq[1] /\ Len(toHq') = Len(toHq) - 1 /\ Len(toHq) \in Nat
        /\ \A n \in 1 .. Len(toHq') : toHq'[n] = toHq[n + 1]
    BY <2>0, Received
  <2>2. CASE Len(toHq) = 1
    <3>1. toHq' = << >>
      BY <2>0, <2>2
    <3>2. ~failed /\ cstate = "active" => Head(toHq) = LastReport
      BY <2>0, <2>1, <2>2 DEF ReportInv
    <3>3. ~failed /\ cstate = "active" => status' = "active" /\ sid' = csid
      BY <1>6, <3>2 DEF HqReceive, LastReport
    <3> QED BY <2>0, <3>1, <3>3 DEF ReportInv
  <2>3. CASE Len(toHq) # 1
    <3>1. toHq' # << >> /\ toHq'[Len(toHq')] = toHq[Len(toHq)]
      <4>1. Len(toHq) > 1 /\ Len(toHq') \in 1 .. Len(toHq') /\ Len(toHq') + 1 = Len(toHq)
        BY <2>0, <2>1, <2>3
      <4> QED BY <2>1, <4>1
    <3> QED BY <2>0, <3>1 DEF ReportInv, LastReport
  <2> QED BY <2>2, <2>3
<1>7. CASE DaemonReceive
  <2>1. UNCHANGED <<csid, toHq, status, sid, failed>>
    BY <1>7 DEF DaemonReceive, StartCommand, StopCommand, history
  <2>2. cstate' = "active" => cstate = "active"
    BY <1>7 DEF DaemonReceive, StartCommand, StartCall, StopCommand
  <2> QED BY <2>1, <2>2 DEF ReportInv, LastReport
<1>8. ASSUME NEW i \in StartId, Settles(i) \/ Fails(i) PROVE ReportInv'
  <2>1. Outcome(i) /\ UNCHANGED <<link, status, sid, failed>>
    BY <1>8 DEF Settles, Fails, Event, Outcome, hqVars, history
  <2>2. CASE UNCHANGED <<cstate, csid, toHq>>
    BY <2>1, <2>2 DEF ReportInv, LastReport
  <2>3. CASE HandleCrash(i)
    BY <2>3 DEF HandleCrash, ReportInv
  <2>4. ASSUME NEW s \in {starts[i].resume, nextSid}, Started(i, s), ~failed PROVE ReportInv'
    <3>1. i \in InFlight
      BY <2>1 DEF Outcome, WaitReady, WaitTimeout, ResumeOk, ResumeFails, CreateOk, CreateFails, InFlight, Idle
    <3>2. online
      BY <2>4, <3>1 DEF LinkInv, Untouched
    <3>3. toHq' = Append(toHq, [type |-> "started", sid |-> s]) /\ csid' = s
      BY <2>4, <3>2 DEF Started, SendToHq
    <3>4. toHq \in Seq(Message)
      BY <1>c DEF CTypeOK
    <3>5. toHq' # << >> /\ toHq'[Len(toHq')] = [type |-> "started", sid |-> s]
      BY <3>3, <3>4
    <3> QED BY <3>3, <3>5 DEF ReportInv, LastReport
  <2>5. CASE failed
    BY <2>1, <2>5 DEF ReportInv
  <2> QED BY <1>c, <2>1, <2>2, <2>3, <2>4, <2>5, OutcomeFlies
<1>9. CASE Timer
  <2>1. UNCHANGED <<csid, toHq, status, sid, failed>> /\ (cstate' = "active" => cstate = "active")
    BY <1>9 DEF Timer, RestartTimer, StartCall, hqVars, history
  <2> QED BY <2>1 DEF ReportInv, LastReport
<1>10. CASE Sdk
  BY <1>10 DEF Sdk, SdkReady, hqVars, history, ReportInv, LastReport
<1> QED BY <1>1, <1>2, <1>3, <1>4, <1>5, <1>6, <1>7, <1>8, <1>9, <1>10 DEF Next

-----------------------------------------------------------------------------
(* CoordInv holds in every reachable state.                                *)
THEOREM CoordInvariant == Spec => []CoordInv
<1>1. CoordInv /\ [Next]_vars => CoordInv'
  BY TypeStep, IdsStep, RetriedStep, BackedStep, LinkStep, IdleStep, ReportStep DEF CoordInv
<1> QED BY <1>1, CoordInit, PTL DEF Spec

(* Through stops, resets, lost messages and restarts, every session either *)
(* side holds, saves or is about to resume is one the SDK really created.  *)
THEOREM SessionsExistHolds == Spec => []SessionsExist
<1>1. CoordInv => SessionsExist
  <2> SUFFICES ASSUME CoordInv PROVE SessionsExist
    OBVIOUS
  <2>1. nextSid \in Nat /\ sid \in Nat /\ savedSid \in Nat /\ csid \in Nat
    BY SessionAssumption DEF CoordInv, TypeOK, CTypeOK, Sessions, None
  <2>2. {sid, savedSid, csid} \subseteq 0 .. nextSid - 1
    BY <2>1 DEF CoordInv, IdsCreated, RecordIds
  <2> QED BY <2>2 DEF CoordInv, IdsCreated, RecordIds, StartIds, InFlight, SessionsExist
<1> QED BY <1>1, CoordInvariant, PTL

(* A crashed coordinator that nobody stopped is always being retried.      *)
THEOREM CrashIsRetriedHolds == Spec => []CrashIsRetried
<1>1. CoordInv => CrashIsRetried
  BY DEF CoordInv
<1> QED BY <1>1, CoordInvariant, PTL

(* A starting coordinator has the call that settles it; an active one has  *)
(* a session and the timer that reports it.                                *)
THEOREM StateIsBackedHolds == Spec => []StateIsBacked
<1>1. CoordInv => StateIsBacked
  BY DEF CoordInv
<1> QED BY <1>1, CoordInvariant, PTL

(* Once nothing is under way, an idle HQ hides no coordinator, and without *)
(* failures both sides mean the same session by an active one.             *)
THEOREM QuietAgreementHolds == Spec => []QuietAgreement
<1>1. CoordInv => QuietAgreement
  <2> SUFFICES ASSUME CoordInv, Quiet PROVE /\ status = "idle" => cstate = "stopped"
                                            /\ ~failed /\ cstate = "active" => status # "crashed" /\ (status = "active" => csid = sid)
    BY DEF QuietAgreement
  <2>1. ~StopUnderWay
    BY DEF Quiet, StopUnderWay
  <2> QED BY <2>1 DEF CoordInv, Quiet, IdleInv, ReportInv
<1> QED BY <1>1, CoordInvariant, PTL
=============================================================================

------------------------------ MODULE HqProofs ------------------------------
(***************************************************************************)
(* Theorems about the parts of HQ beside its files: its own daemon         *)
(* (SelfDaemon) and the dev tunnel (Tunnel), which it supervises, the      *)
(* preview proxy (Preview), the labels of an issue on GitHub (IssuePush)   *)
(* and what a browser tab shows (BrowserQueries), for any number of        *)
(* processes, requests, restarts, connections, changes and faults and      *)
(* every set of pages; and about all of HQ's parts in one instance (MCHq). *)
(***************************************************************************)
EXTENDS MCHq, StateServiceProofs, FiniteSetTheorems, SequenceTheorems, TLAPS

-----------------------------------------------------------------------------
(* The self-daemon. *)

(* Each pending backoff timer has cost one of the restarts.                *)
TimersInv ==
  /\ timers \in [old : 0..MaxDaemonRestarts, newest : BOOLEAN]
  /\ timers.old + (IF timers.newest THEN 1 ELSE 0) <= restartAttempts

(* What holds until somebody starts the daemon during a backoff: at most   *)
(* one timer; the child in childProcess is the one that runs; and a stop   *)
(* that cleared the timer waits for every child that is still alive.       *)
ChildInv ==
  /\ timers.old = 0
  /\ running => ~timers.newest
  /\ running <=> childProcess # NoDaemonChild
  /\ running => daemonChildren[childProcess] \in {"alive", "failed"}
  /\ \A c \in Alive : running /\ childProcess = c
  /\ spawnerStopping =>
        /\ ~timers.newest
        /\ \A c \in Alive : \E s \in spawnerStops : s.child = c

SdInv == SdTypeOK /\ TimersInv /\ (~raced => ChildInv)

(* The supervisor's invariant holds at first.                              *)
LEMMA SdInvInit == SdInit => SdInv
  <1> SUFFICES ASSUME SdInit PROVE SdInv
    OBVIOUS
  <1>1. SdTypeOK
    <2>1. 0 \in 0..MaxDaemonRestarts /\ 0 \in 0..MaxDaemonRequests
      BY SelfDaemonAssumption
    <2>2. timers.old = 0 /\ timers.newest = FALSE
      BY DEF SdInit
    <2> QED BY <2>1, <2>2 DEF SdInit, SdTypeOK
  <1>2. TimersInv
    BY SelfDaemonAssumption DEF SdInit, TimersInv
  <1>3. ChildInv
    BY DEF SdInit, ChildInv, Alive
  <1> QED BY <1>1, <1>2, <1>3 DEF SdInv

(* start(), from wherever it is called: in a backoff it is the race, and   *)
(* otherwise the child it spawns is the only one.                          *)
LEMMA StartKeeps ==
  ASSUME SdInv, Start, timers' = timers, restartAttempts' = restartAttempts,
         spawnerStops' \subseteq spawnerStops,
         \A s \in spawnerStops \ spawnerStops' : daemonChildren[s.child] = "gone"
  PROVE  /\ childProcess' \in DaemonChild \cup {NoDaemonChild} /\ running' \in BOOLEAN
         /\ spawnerStopping' \in BOOLEAN /\ raced' \in BOOLEAN
         /\ daemonChildren' \in [DaemonChild -> {"none", "alive", "failed", "gone"}]
         /\ ~raced' => ChildInv'
  <1>1. CASE running
    <2>1. UNCHANGED <<childProcess, running, spawnerStopping, daemonChildren, raced>>
      BY <1>1 DEF Start
    <2>2. ASSUME ~raced PROVE ChildInv'
      <3>1. \A c \in Alive, s \in spawnerStops : s.child = c => s \in spawnerStops'
        BY DEF Alive
      <3> QED BY <2>1, <2>2, <3>1 DEF SdInv, ChildInv, Alive
    <2> QED BY <2>1, <2>2 DEF SdInv, SdTypeOK
  <1>2. CASE ~running
    <2>1. PICK c \in DaemonChild, outcome \in {"alive", "failed"} :
            /\ daemonChildren[c] = "none"
            /\ daemonChildren' = [daemonChildren EXCEPT ![c] = outcome]
            /\ childProcess' = c /\ running' = TRUE
      BY <1>2 DEF Start, Spawn
    <2>2. spawnerStopping' = FALSE /\ raced' = (raced \/ Pending)
      BY <1>2 DEF Start
    <2>3. raced' \in BOOLEAN
      BY <2>2
    <2>4. ASSUME ~raced' PROVE ChildInv'
      <3>1. ~raced /\ ~Pending
        BY <2>2, <2>4
      <3>2. Alive = {}
        BY <1>2, <3>1 DEF SdInv, ChildInv
      <3>3. Alive' \subseteq {c}
        BY <2>1, <3>2 DEF Alive, SdInv, SdTypeOK
      <3> QED BY <2>1, <2>2, <3>1, <3>3, SelfDaemonAssumption
              DEF SdInv, SdTypeOK, ChildInv, Pending
    <2> QED BY <2>1, <2>2, <2>3, <2>4 DEF SdInv, SdTypeOK
  <1> QED BY <1>1, <1>2

(* stop(), up to its wait: the child it may leave alive is the one it      *)
(* waits for.                                                              *)
LEMMA SpawnerStopKeeps ==
  ASSUME SdInv, NEW restart \in BOOLEAN, SpawnerStop(restart),
         UNCHANGED <<childProcess, restartAttempts, daemonChildren, listening, raced>>,
         daemonRequests' \in 0..MaxDaemonRequests
  PROVE  SdInv'
  <1>1. /\ timers' = [timers EXCEPT !.newest = FALSE] /\ spawnerStopping' = TRUE
        /\ running' \in {running, FALSE}
    BY DEF SpawnerStop
  <1>2. timers' = [old |-> timers.old, newest |-> FALSE]
    BY <1>1 DEF SdInv, TimersInv
  <1>3. TimersInv'
    BY <1>2 DEF SdInv, SdTypeOK, TimersInv
  <1>4. spawnerStops' \subseteq Stop
    BY DEF SdInv, SdTypeOK, SpawnerStop, Stop
  <1>5. SdTypeOK'
    BY <1>1, <1>3, <1>4 DEF SdInv, SdTypeOK, TimersInv
  <1>6. ASSUME ~raced PROVE ChildInv'
    <2>1. ChildInv /\ Alive' = Alive
      BY <1>6 DEF SdInv, Alive
    <2>2. running' <=> childProcess # NoDaemonChild
      <3>1. running <=> childProcess # NoDaemonChild
        BY <2>1 DEF ChildInv
      <3>2. CASE childProcess = NoDaemonChild
        BY <3>2 DEF SpawnerStop
      <3>3. CASE childProcess # NoDaemonChild
        BY <3>1, <3>3 DEF SpawnerStop
      <3> QED BY <3>2, <3>3
    <2>3. \A c \in Alive : \E s \in spawnerStops' : s.child = c
      <3>1. childProcess = NoDaemonChild => Alive = {}
        BY <2>1 DEF ChildInv
      <3>2. \A c \in Alive : childProcess = c
        BY <2>1 DEF ChildInv
      <3>3. childProcess # NoDaemonChild => [child |-> childProcess, restart |-> restart] \in spawnerStops'
        BY DEF SpawnerStop
      <3> QED BY <3>1, <3>2, <3>3
    <2> QED BY <1>1, <1>2, <2>1, <2>2, <2>3 DEF ChildInv
  <1> QED BY <1>3, <1>5, <1>6 DEF SdInv

(* An exit: nothing else was alive, and it arms the only timer.            *)
LEMMA ExitKeeps ==
  ASSUME SdInv, NEW c \in DaemonChild, NEW code, DaemonChildExits(c, code)
  PROVE  SdInv'
  <1>1. /\ daemonChildren[c] = "alive" /\ daemonChildren' = [daemonChildren EXCEPT ![c] = "gone"]
        /\ running' = FALSE /\ childProcess' = NoDaemonChild
        /\ UNCHANGED <<spawnerStopping, spawnerStops, listening, daemonRequests, raced>>
    BY DEF DaemonChildExits
  <1>2. CASE Restarts(code)
    <2>1. /\ restartAttempts' = restartAttempts + 1 /\ restartAttempts < MaxDaemonRestarts
          /\ timers' = [old |-> timers.old + (IF timers.newest THEN 1 ELSE 0), newest |-> TRUE]
          /\ ~spawnerStopping
      BY <1>2 DEF DaemonChildExits, Restarts
    <2>2. /\ timers'.old \in 0..MaxDaemonRestarts /\ timers'.old + 1 <= restartAttempts'
          /\ restartAttempts' \in 0..MaxDaemonRestarts
      BY <2>1, SelfDaemonAssumption DEF SdInv, SdTypeOK, TimersInv
    <2>3. TimersInv' /\ SdTypeOK'
      BY <1>1, <2>1, <2>2 DEF SdInv, SdTypeOK, TimersInv
    <2>4. ASSUME ~raced PROVE ChildInv'
      <3>1. running /\ childProcess = c /\ ChildInv
        BY <1>1, <2>4 DEF SdInv, ChildInv, Alive
      <3>2. Alive' = {}
        BY <1>1, <3>1 DEF ChildInv, Alive, SdInv, SdTypeOK
      <3>3. timers'.old = 0
        BY <2>1, <3>1 DEF ChildInv
      <3> QED BY <1>1, <2>1, <3>2, <3>3 DEF ChildInv
    <2> QED BY <1>1, <2>3, <2>4 DEF SdInv
  <1>3. CASE ~Restarts(code)
    <2>1. UNCHANGED <<restartAttempts, timers>>
      BY <1>3 DEF DaemonChildExits
    <2>2. TimersInv' /\ SdTypeOK'
      BY <1>1, <2>1 DEF SdInv, SdTypeOK, TimersInv
    <2>3. ASSUME ~raced PROVE ChildInv'
      <3>1. running /\ childProcess = c /\ ChildInv
        BY <1>1, <2>3 DEF SdInv, ChildInv, Alive
      <3>2. Alive' = {}
        BY <1>1, <3>1 DEF ChildInv, Alive, SdInv, SdTypeOK
      <3> QED BY <1>1, <2>1, <3>1, <3>2 DEF ChildInv
    <2> QED BY <1>1, <2>2, <2>3 DEF SdInv
  <1> QED BY <1>2, <1>3

(* A backoff that ends: nothing ran, and nothing is stopping.              *)
LEMMA TimerKeeps == SdInv /\ RestartTimer => SdInv'
  <1> SUFFICES ASSUME SdInv, RestartTimer PROVE SdInv'
    OBVIOUS
  <1>1. PICK c \in DaemonChild, outcome \in {"alive", "failed"} :
          /\ daemonChildren[c] = "none"
          /\ daemonChildren' = [daemonChildren EXCEPT ![c] = outcome]
          /\ childProcess' = c /\ running' = TRUE
    BY DEF RestartTimer, Spawn
  <1>2. UNCHANGED <<spawnerStopping, restartAttempts, spawnerStops, listening, daemonRequests, raced>>
    BY DEF RestartTimer
  <1>3. \/ timers.newest /\ timers' = [old |-> timers.old, newest |-> FALSE]
        \/ timers.old > 0 /\ timers' = [old |-> timers.old - 1, newest |-> timers.newest]
    BY DEF RestartTimer, SdInv, TimersInv
  <1>4. timers' \in [old : 0..MaxDaemonRestarts, newest : BOOLEAN]
    <2>1. timers.old \in 0..MaxDaemonRestarts /\ timers.newest \in BOOLEAN
      BY DEF SdInv, TimersInv
    <2>2. CASE timers' = [old |-> timers.old, newest |-> FALSE]
      BY <2>1, <2>2
    <2>3. CASE timers.old > 0 /\ timers' = [old |-> timers.old - 1, newest |-> timers.newest]
      <3>1. timers.old - 1 \in 0..MaxDaemonRestarts
        BY <2>1, <2>3, SelfDaemonAssumption
      <3> QED BY <2>1, <2>3, <3>1
    <2> QED BY <1>3, <2>2, <2>3
  <1>5. timers'.old + (IF timers'.newest THEN 1 ELSE 0) <= restartAttempts
    BY <1>3, SelfDaemonAssumption DEF SdInv, SdTypeOK, TimersInv
  <1>6. TimersInv' /\ SdTypeOK'
    BY <1>1, <1>2, <1>4, <1>5 DEF SdInv, SdTypeOK, TimersInv
  <1>7. ASSUME ~raced PROVE ChildInv'
    <2>1. ChildInv /\ timers.newest /\ ~running /\ ~spawnerStopping /\ timers' = [old |-> 0, newest |-> FALSE]
      BY <1>3, <1>7 DEF SdInv, ChildInv
    <2>2. Alive' \subseteq {c}
      BY <1>1, <2>1 DEF ChildInv, Alive, SdInv, SdTypeOK
    <2> QED BY <1>1, <1>2, <2>1, <2>2, SelfDaemonAssumption DEF ChildInv, SdInv, SdTypeOK
  <1> QED BY <1>2, <1>6, <1>7 DEF SdInv

(* Every step of the supervisor keeps it.                                  *)
LEMMA SdInvStep == SdInv /\ [SdNext]_sdVars => SdInv'
  <1> SUFFICES ASSUME SdInv, [SdNext]_sdVars PROVE SdInv'
    OBVIOUS
  <1>a. ASSUME Start, timers' = timers, restartAttempts' = restartAttempts,
               spawnerStops' \subseteq spawnerStops,
               \A s \in spawnerStops \ spawnerStops' : daemonChildren[s.child] = "gone",
               listening' \in BOOLEAN, daemonRequests' \in 0..MaxDaemonRequests
        PROVE  SdInv'
    <2>1. TimersInv'
      BY <1>a DEF SdInv, TimersInv
    <2>2. SdTypeOK'
      BY <1>a, StartKeeps DEF SdInv, SdTypeOK
    <2> QED BY <1>a, <2>1, <2>2, StartKeeps DEF SdInv
  <1>b. DaemonRequest => daemonRequests' \in 0..MaxDaemonRequests
    BY SelfDaemonAssumption DEF DaemonRequest, SdInv, SdTypeOK
  <1>c. listening \in BOOLEAN /\ daemonRequests \in 0..MaxDaemonRequests
    BY DEF SdInv, SdTypeOK
  <1>1. CASE Listening
    BY <1>1, <1>a, <1>c DEF Listening
  <1>2. CASE RouteStart
    BY <1>2, <1>a, <1>b, <1>c DEF RouteStart
  <1>3. CASE RouteStop
    BY <1>3, <1>b, SpawnerStopKeeps DEF RouteStop
  <1>4. CASE RouteRestart
    <2>1. CASE running
      BY <1>4, <2>1, <1>b, SpawnerStopKeeps DEF RouteRestart
    <2>2. CASE ~running
      BY <1>4, <2>2, <1>a, <1>b, <1>c DEF RouteRestart
    <2> QED BY <2>1, <2>2
  <1>5. CASE OnClose
    BY <1>5, <1>b, SpawnerStopKeeps DEF OnClose
  <1>6. CASE RestartTimer
    BY <1>6, TimerKeeps
  <1>7. ASSUME NEW c \in DaemonChild, NEW code \in {0, 78}, DaemonChildExits(c, code) PROVE SdInv'
    BY <1>7, ExitKeeps
  <1>8. ASSUME NEW s \in spawnerStops, StopResolved(s) PROVE SdInv'
    <2>1. /\ spawnerStops' \subseteq spawnerStops
          /\ \A z \in spawnerStops \ spawnerStops' : daemonChildren[z.child] = "gone"
          /\ UNCHANGED <<restartAttempts, timers, listening, daemonRequests>>
      BY <1>8 DEF StopResolved
    <2>2. CASE s.restart
      BY <1>8, <1>a, <1>c, <2>1, <2>2 DEF StopResolved
    <2>3. CASE ~s.restart
      <3>1. UNCHANGED <<childProcess, running, spawnerStopping, daemonChildren, raced>>
        BY <1>8, <2>3 DEF StopResolved
      <3>2. \A c \in Alive, z \in spawnerStops : z.child = c => z \in spawnerStops'
        BY <2>1 DEF Alive
      <3>3. SdTypeOK' /\ TimersInv'
        BY <2>1, <3>1 DEF SdInv, SdTypeOK, TimersInv
      <3>4. ASSUME ~raced PROVE ChildInv'
        BY <2>1, <3>1, <3>2, <3>4 DEF SdInv, ChildInv, Alive
      <3> QED BY <3>1, <3>3, <3>4 DEF SdInv
    <2> QED BY <2>2, <2>3
  <1>9. CASE UNCHANGED sdVars
    BY <1>9 DEF sdVars, SdInv, SdTypeOK, TimersInv, ChildInv, Alive
  <1> QED BY <1>1, <1>2, <1>3, <1>4, <1>5, <1>6, <1>7, <1>8, <1>9 DEF SdNext

(* What the spawner believes of its child, its timers and its stops is     *)
(* true in every state (spawner.ts).                                       *)
THEOREM SelfDaemonInvariant == SdSpec => []SdInv
  BY SdInvInit, SdInvStep, PTL DEF SdSpec

(* However exits, stops, restarts and backoffs interleave, HQ supervises   *)
(* the only daemon there is and a stop that was answered left none, unless *)
(* somebody started the daemon during a backoff (spawner.ts start, stop).  *)
THEOREM OneSupervisedDaemonHolds == SdSpec => []OneSupervisedDaemon
  <1>1. SdInv => OneSupervisedDaemon
    BY DEF SdInv, ChildInv, OneSupervisedDaemon, Pending
  <1> QED BY <1>1, SelfDaemonInvariant, PTL

(* Children, timers, stops and requests have their types (SdTypeOK).       *)
THEOREM SelfDaemonTypesHold == SdSpec => []SdTypeOK
  <1>1. SdInv => SdTypeOK
    BY DEF SdInv
  <1> QED BY <1>1, SelfDaemonInvariant, PTL

-----------------------------------------------------------------------------
(* The tunnel. *)

(* Of the children, from the counters: only a child that was spawned fails.*)
TunnelInv ==
  /\ TnTypeOK
  /\ checking <= tunnelRequests
  /\ \A c \in failed : tunnelChildren[c] # "none"

(* What holds until a child is spawned while another start or child is     *)
(* there: one live child at most, the one in `process' until its start-up  *)
(* is over without a URL; and a stop that has signalled it is waiting.     *)
HostInv ==
  /\ TunnelUnderControl
  /\ \A c, d \in Live : c = d
  /\ tunnelStopping => \A c \in Live : tunnelChildren[c] # "late" => c \in tunnelStops

TnInv == TunnelInv /\ (~overlapped => HostInv)

(* The tunnel's invariant holds at first.                                  *)
LEMMA TnInvInit == TnInit => TnInv
  <1> SUFFICES ASSUME TnInit PROVE TnInv
    OBVIOUS
  <1>1. TunnelInv
    <2>1. 0 \in 0..MaxTunnelRequests /\ 0 <= 0
      BY TunnelAssumption
    <2> QED BY <2>1 DEF TnInit, TunnelInv, TnTypeOK
  <1>2. HostInv
    BY DEF TnInit, HostInv, TunnelUnderControl, Live
  <1> QED BY <1>1, <1>2 DEF TnInv

(* The types, and the count of the starts that await the check.            *)
LEMMA TunnelInvStep == TunnelInv /\ [TnNext]_tnVars => TunnelInv'
  <1> SUFFICES ASSUME TunnelInv, [TnNext]_tnVars PROVE TunnelInv'
    OBVIOUS
  <1>a. TunnelRequest => tunnelRequests' \in 0..MaxTunnelRequests /\ tunnelRequests' = tunnelRequests + 1
    BY TunnelAssumption DEF TunnelRequest, TunnelInv, TnTypeOK
  <1>1. CASE TunnelStart
    <2>1. checking' \in 0..MaxTunnelRequests /\ checking' <= tunnelRequests'
      BY <1>1, <1>a, TunnelAssumption DEF TunnelStart, TunnelInv, TnTypeOK
    <2> QED BY <1>1, <1>a, <2>1 DEF TunnelStart, TunnelInv, TnTypeOK
  <1>2. CASE CliMissing
    <2>1. checking' \in 0..MaxTunnelRequests /\ checking' <= tunnelRequests'
      BY <1>2, TunnelAssumption DEF CliMissing, TunnelInv, TnTypeOK
    <2> QED BY <1>2, <2>1 DEF CliMissing, TunnelInv, TnTypeOK
  <1>3. CASE TunnelStop
    <2>1. tunnelStops' \subseteq TunnelChild
      BY <1>3 DEF TunnelStop, TunnelInv, TnTypeOK
    <2>2. checking' \in 0..MaxTunnelRequests /\ checking' <= tunnelRequests'
      BY <1>3, <1>a, TunnelAssumption DEF TunnelStop, TunnelInv, TnTypeOK
    <2> QED BY <1>3, <1>a, <2>1, <2>2 DEF TunnelStop, TunnelInv, TnTypeOK
  <1>4. ASSUME NEW c \in TunnelChild, Spawned(c) PROVE TunnelInv'
    <2>1. checking' \in 0..MaxTunnelRequests /\ checking' <= tunnelRequests'
      BY <1>4, TunnelAssumption DEF Spawned, TunnelInv, TnTypeOK
    <2>2. overlapped' \in BOOLEAN
      BY <1>4 DEF Spawned
    <2> QED BY <1>4, <2>1, <2>2 DEF Spawned, TunnelInv, TnTypeOK
  <1>5. ASSUME NEW c \in TunnelChild, UrlPrinted(c) \/ StartTimesOut(c) PROVE TunnelInv'
    BY <1>5 DEF UrlPrinted, StartTimesOut, TunnelInv, TnTypeOK
  <1>6. ASSUME NEW c \in TunnelChild, SpawnFails(c) PROVE TunnelInv'
    BY <1>6 DEF SpawnFails, TunnelInv, TnTypeOK
  <1>7. ASSUME NEW c \in TunnelChild, TunnelChildExits(c) PROVE TunnelInv'
    BY <1>7 DEF TunnelChildExits, Exits, TunnelInv, TnTypeOK
  <1>8. CASE UNCHANGED tnVars
    BY <1>8 DEF tnVars, TunnelInv, TnTypeOK
  <1> QED BY <1>1, <1>2, <1>3, <1>4, <1>5, <1>6, <1>7, <1>8 DEF TnNext

(* What a step does to the children that are live.                         *)
LEMMA LiveStep ==
  ASSUME TunnelInv, NEW c \in TunnelChild, NEW k, tunnelChildren' = [tunnelChildren EXCEPT ![c] = k],
         failed \subseteq failed'
  PROVE  /\ Live' \subseteq Live \cup {c}
         /\ \A d \in Live' : d # c => tunnelChildren'[d] = tunnelChildren[d]
         /\ k = "gone" \/ c \in failed' => c \notin Live'
  BY DEF TunnelInv, TnTypeOK, Live

(* As long as starts and stops do not overlap the host is the manager's.   *)
LEMMA HostStep ==
  ASSUME TnInv, [TnNext]_tnVars, ~overlapped'
  PROVE  HostInv'
  <1>a. TunnelInv /\ TnTypeOK
    BY DEF TnInv, TunnelInv
  <1>b. ~overlapped
    BY DEF TnNext, TunnelStart, CliMissing, TunnelStop, Spawned, UrlPrinted, StartTimesOut,
           SpawnFails, TunnelChildExits, tnVars
  <1>c. HostInv /\ TunnelUnderControl
    BY <1>b DEF TnInv, HostInv
  <1>1. CASE TunnelStart \/ CliMissing \/ UNCHANGED tnVars
    BY <1>1, <1>b, <1>c DEF TunnelStart, CliMissing, tnVars, HostInv, TunnelUnderControl, Live
  <1>2. CASE TunnelStop
    <2>1. Live' = Live /\ UNCHANGED <<process, tunnelChildren>>
      BY <1>2 DEF TunnelStop, Live
    <2>2. CASE process = NoTunnelChild
      BY <1>2, <1>b, <1>c, <2>1, <2>2, TunnelAssumption DEF TunnelStop, HostInv, TunnelUnderControl, Live
    <2>3. CASE process # NoTunnelChild
      BY <1>2, <1>b, <1>c, <2>1, <2>3 DEF TunnelStop, HostInv, TunnelUnderControl
    <2> QED BY <2>2, <2>3
  <1>3. ASSUME NEW c \in TunnelChild, Spawned(c) PROVE HostInv'
    <2>1. Live = {}
      BY <1>3 DEF Spawned
    <2>2. Live' \subseteq {c}
      BY <1>3, <1>a, <2>1, LiveStep DEF Spawned
    <2> QED BY <1>3, <2>2 DEF Spawned, HostInv, TunnelUnderControl
  <1>4. ASSUME NEW c \in TunnelChild, tunnelChildren[c] = "starting", c \notin failed,
               UrlPrinted(c) \/ StartTimesOut(c) \/ SpawnFails(c)
        PROVE  HostInv'
    <2>1. c \in Live /\ Live = {c} /\ process = c
      BY <1>4, <1>b, <1>c DEF Live, HostInv, TunnelUnderControl
    <2>2. CASE UrlPrinted(c)
      <3>1. /\ tunnelChildren' = [tunnelChildren EXCEPT ![c] = "up"] /\ info' = c /\ status' = "running"
            /\ UNCHANGED <<process, tunnelStopping, failed, tunnelStops>>
        BY <2>2 DEF UrlPrinted
      <3>2. tunnelChildren'[c] = "up" /\ Live' = {c}
        BY <1>4, <1>a, <2>1, <3>1 DEF Live, TnTypeOK
      <3> QED BY <1>4, <1>b, <1>c, <2>1, <3>1, <3>2 DEF HostInv, TunnelUnderControl
    <2>3. CASE StartTimesOut(c) \/ SpawnFails(c)
      <3>1. /\ tunnelChildren' = [tunnelChildren EXCEPT ![c] = "late"] /\ status' = "error"
            /\ failed \subseteq failed'
        BY <2>3 DEF StartTimesOut, SpawnFails
      <3>2. tunnelChildren'[c] = "late" /\ Live' \subseteq {c}
        BY <1>a, <2>1, <3>1, LiveStep DEF TnTypeOK
      <3> QED BY <3>1, <3>2 DEF HostInv, TunnelUnderControl
    <2> QED BY <1>4, <2>2, <2>3
  <1>5. ASSUME NEW c \in TunnelChild, TunnelChildExits(c) PROVE HostInv'
    <2>1. c \in Live /\ Live = {c} /\ UNCHANGED <<tunnelStopping, failed>>
      BY <1>5, <1>c DEF TunnelChildExits, HostInv
    <2>2. Live' = {}
      <3>1. tunnelChildren' = [tunnelChildren EXCEPT ![c] = "gone"]
        BY <1>5 DEF TunnelChildExits, Exits
      <3>2. failed \subseteq failed'
        BY <2>1
      <3>3. Live' \subseteq Live \cup {c} /\ c \notin Live'
        BY <1>a, <3>1, <3>2, LiveStep
      <3> QED BY <2>1, <3>3
    <2>3. status' # "running"
      <3>1. status = "running" => info = c /\ tunnelChildren[c] = "up"
        BY <1>b, <1>c, <2>1 DEF TunnelUnderControl
      <3>2. status = "running" /\ tunnelStopping => c \in tunnelStops
        BY <1>c, <2>1, <3>1 DEF HostInv
      <3> QED BY <1>5, <3>2 DEF TunnelChildExits, Exits
    <2> QED BY <2>2, <2>3 DEF HostInv, TunnelUnderControl
  <1> QED BY <1>1, <1>2, <1>3, <1>4, <1>5 DEF TnNext, UrlPrinted, StartTimesOut, SpawnFails

(* Every step of the tunnel keeps the whole invariant.                     *)
LEMMA TnInvStep == TnInv /\ [TnNext]_tnVars => TnInv'
  BY TunnelInvStep, HostStep DEF TnInv

(* What the manager believes of its child and of the tunnel's state is     *)
(* true in every state (tunnel.ts).                                        *)
THEOREM TunnelInvariant == TnSpec => []TnInv
  BY TnInvInit, TnInvStep, PTL DEF TnSpec

(* Unless two starts overlap, the tunnel can always be stopped, and what   *)
(* is shown of it is so (tunnel.ts start, stop, handleError, exit).        *)
THEOREM TunnelUnderControlHolds == TnSpec => []TunnelUnderControl
  <1>1. TnInv => TunnelUnderControl
    BY DEF TnInv, HostInv, TunnelUnderControl
  <1> QED BY <1>1, TunnelInvariant, PTL

(* Children, checks and stops have their types (TnTypeOK).                 *)
THEOREM TunnelTypesHold == TnSpec => []TnTypeOK
  <1>1. TnInv => TnTypeOK
    BY DEF TnInv, TunnelInv
  <1> QED BY <1>1, TunnelInvariant, PTL

-----------------------------------------------------------------------------
(* The preview proxy. *)

(* Appending adds one element.                                             *)
LEMMA ToSetAppend ==
  ASSUME NEW S, NEW q \in Seq(S), NEW e \in S
  PROVE  ToSet(Append(q, e)) = ToSet(q) \cup {e}
  <1>1. e \in ToSet(Append(q, e))
    <2>1. Append(q, e)[Len(q) + 1] = e /\ Len(q) + 1 \in DOMAIN Append(q, e)
      OBVIOUS
    <2> QED BY <2>1 DEF ToSet
  <1>2. ASSUME NEW x \in ToSet(q) PROVE x \in ToSet(Append(q, e))
    <2>1. PICK i \in DOMAIN q : q[i] = x
      BY DEF ToSet
    <2>2. Append(q, e)[i] = x /\ i \in DOMAIN Append(q, e)
      BY <2>1
    <2> QED BY <2>2 DEF ToSet
  <1>3. ASSUME NEW x \in ToSet(Append(q, e)) PROVE x \in ToSet(q) \cup {e}
    <2>1. PICK i \in DOMAIN Append(q, e) : Append(q, e)[i] = x
      BY DEF ToSet
    <2>2. (i \in DOMAIN q /\ q[i] = x) \/ x = e
      BY <2>1
    <2> QED BY <2>2 DEF ToSet
  <1> QED BY <1>1, <1>2, <1>3

(* A queue is its head and its tail.                                       *)
LEMMA ToSetTail ==
  ASSUME NEW S, NEW q \in Seq(S), q # << >>
  PROVE  ToSet(q) = {Head(q)} \cup ToSet(Tail(q))
  <1>1. Head(q) \in ToSet(q)
    <2>1. 1 \in DOMAIN q /\ q[1] = Head(q)
      OBVIOUS
    <2> QED BY <2>1 DEF ToSet
  <1>2. ASSUME NEW x \in ToSet(Tail(q)) PROVE x \in ToSet(q)
    <2>1. PICK i \in DOMAIN Tail(q) : Tail(q)[i] = x
      BY DEF ToSet
    <2>2. i + 1 \in DOMAIN q /\ q[i + 1] = x
      BY <2>1
    <2> QED BY <2>2 DEF ToSet
  <1>3. ASSUME NEW x \in ToSet(q), x # Head(q) PROVE x \in ToSet(Tail(q))
    <2>1. PICK i \in DOMAIN q : q[i] = x
      BY DEF ToSet
    <2>2. i - 1 \in DOMAIN Tail(q) /\ Tail(q)[i - 1] = x
      BY <1>3, <2>1
    <2> QED BY <2>2 DEF ToSet
  <1> QED BY <1>1, <1>2, <1>3

(* The empty sequence has none.                                            *)
LEMMA ToSetEmpty == ToSet(<< >>) = {}
  BY DEF ToSet

Up == {Register, Config} \cup {Response(r) : r \in Get}

RelayTypes ==
  /\ up2hq \in Seq(Up) /\ down2daemon \in Seq(Get)
  /\ local \in [Get -> {"none", "sent", "destroyed"}]
  /\ connNo \in Nat
  /\ entry \in [state : {"none", "connected", "disconnected"}, conn : Nat, previewPort : BOOLEAN]
  /\ pendingRequests \subseteq Get /\ sentOn \in [Get -> Nat]

(* A lost connection carries nothing; what HQ knows is never of a later    *)
(* connection; and wherever a request or the news of a port is on its way, *)
(* and once HQ has a port for this connection, the daemon has its handler. *)
HandlerInv ==
  /\ ~online => up2hq = << >> /\ down2daemon = << >>
  /\ entry.conn <= connNo /\ \A r \in Get : sentOn[r] <= connNo
  /\ down2daemon # << >> => previewHandler
  /\ Config \in ToSet(up2hq) => previewHandler
  /\ online /\ entry.conn = connNo /\ entry.previewPort => previewHandler

PvInv == RelayTypes /\ HandlerInv /\ NoRequestIsLost

(* The three kinds of message are told apart by their type.                *)
LEMMA UpKinds ==
  /\ Register \in Up /\ Config \in Up /\ \A r \in Get : Response(r) \in Up
  /\ Register # Config
  /\ \A r \in Get : Response(r) # Config /\ Response(r) # Register
  /\ \A m \in Up : m.type = "register" => m = Register
  /\ \A m \in Up : m.type = "preview-config" => m = Config
  /\ \A m \in Up : m.type = "preview-proxy-response" => m.req \in Get /\ m = Response(m.req)
  <1>1. /\ Register.type = "register" /\ Config.type = "preview-config"
        /\ \A r \in Get : Response(r).type = "preview-proxy-response" /\ Response(r).req = r
    BY DEF Register, Config, Response
  <1> QED BY <1>1 DEF Up

(* The invariant holds at first.                                           *)
LEMMA PvInvInit == PvInit => PvInv
  <1> SUFFICES ASSUME PvInit PROVE PvInv
    OBVIOUS
  <1>1. NoEntry \in [state : {"none", "connected", "disconnected"}, conn : Nat, previewPort : BOOLEAN]
        /\ NoEntry.conn = 0
    BY DEF NoEntry
  <1>2. RelayTypes
    BY <1>1 DEF PvInit, RelayTypes
  <1> QED BY <1>1, <1>2, ToSetEmpty DEF PvInit, PvInv, HandlerInv, NoRequestIsLost

(* A step that at most adds an answer to what is under way.                *)
LEMMA AnswerKeeps ==
  ASSUME PvInv, NEW m \in Up, m = Config => previewHandler',
         up2hq' = IF online THEN Append(up2hq, m) ELSE up2hq,
         local' \in [Get -> {"none", "sent", "destroyed"}],
         \A r \in Get : local[r] = "sent" => local'[r] = "sent" \/ m = Response(r),
         previewHandler => previewHandler',
         UNCHANGED <<connNo, online, down2daemon, entry, pendingRequests, sentOn>>
  PROVE  PvInv'
  <1>a. RelayTypes /\ up2hq \in Seq(Up)
    BY DEF PvInv, RelayTypes
  <1>1. up2hq' \in Seq(Up)
    BY <1>a
  <1>2. RelayTypes'
    BY <1>1 DEF PvInv, RelayTypes
  <1>3. ToSet(up2hq) \subseteq ToSet(up2hq') /\ ToSet(up2hq') \subseteq ToSet(up2hq) \cup {m}
        /\ (online => m \in ToSet(up2hq'))
    BY <1>a, ToSetAppend
  <1>4. HandlerInv'
    BY <1>3 DEF PvInv, HandlerInv
  <1>5. NoRequestIsLost'
    BY <1>a, <1>3 DEF PvInv, RelayTypes, NoRequestIsLost
  <1> QED BY <1>2, <1>4, <1>5 DEF PvInv

(* A step that leaves what is under way and what HQ waits for alone.       *)
LEMMA QuietKeeps ==
  ASSUME PvInv, UNCHANGED <<local, connPvVars, pendingRequests, sentOn>>,
         previewHandler => previewHandler',
         entry' \in {entry, [entry EXCEPT !.state = "disconnected"]}
  PROVE  PvInv'
  <1>1. RelayTypes' /\ entry'.conn = entry.conn /\ entry'.previewPort = entry.previewPort
    BY DEF PvInv, RelayTypes, connPvVars
  <1> QED BY <1>1 DEF PvInv, HandlerInv, NoRequestIsLost, connPvVars

(* A broken connection takes along what it carried.                        *)
LEMMA BrokenKeeps ==
  ASSUME PvInv, Broken, UNCHANGED <<connNo, sentOn>>, local' \in [Get -> {"none", "sent", "destroyed"}],
         \/ UNCHANGED <<entry, pendingRequests>>
         \/ entry' = NoEntry /\ pendingRequests' = {}
  PROVE  PvInv'
  <1>1. up2hq' = << >> /\ down2daemon' = << >> /\ online' = FALSE
    BY DEF Broken
  <1>2. NoEntry \in [state : {"none", "connected", "disconnected"}, conn : Nat, previewPort : BOOLEAN]
        /\ NoEntry.conn = 0
    BY DEF NoEntry
  <1>3. RelayTypes'
    BY <1>1, <1>2 DEF PvInv, RelayTypes
  <1>4. entry'.conn <= connNo
    BY <1>2 DEF PvInv, RelayTypes, HandlerInv
  <1> QED BY <1>1, <1>3, <1>4, ToSetEmpty DEF PvInv, HandlerInv, NoRequestIsLost

(* A new connection keeps it.                                              *)
LEMMA AuthenticatedKeeps == PvInv /\ Authenticated => PvInv'
  <1> SUFFICES ASSUME PvInv, Authenticated PROVE PvInv'
    OBVIOUS
  <1>1. /\ connNo' = connNo + 1 /\ down2daemon' = << >>
        /\ UNCHANGED <<local, entry, pendingRequests, sentOn>>
        /\ \/ previewHandler' /\ up2hq' = <<Register, Config>>
           \/ previewHandler' = previewHandler /\ up2hq' = <<Register>>
    BY DEF Authenticated, hqPvVars
  <1>2. up2hq' \in Seq(Up) /\ down2daemon' \in Seq(Get) /\ connNo' \in Nat
    <2>1. <<Register, Config>> \in Seq(Up) /\ <<Register>> \in Seq(Up)
      BY UpKinds
    <2>2. << >> \in Seq(Get)
      OBVIOUS
    <2>3. connNo + 1 \in Nat
      BY DEF PvInv, RelayTypes
    <2> QED BY <1>1, <2>1, <2>2, <2>3
  <1>3. RelayTypes'
    BY <1>1, <1>2 DEF PvInv, RelayTypes
  <1>4. connNo \in Nat /\ entry.conn \in Nat /\ entry.conn <= connNo
        /\ \A r \in Get : sentOn[r] \in Nat /\ sentOn[r] <= connNo
    BY DEF PvInv, RelayTypes, HandlerInv
  <1>5. Config \in ToSet(up2hq') => previewHandler'
    <2>1. Config \notin ToSet(<<Register>>)
      BY UpKinds DEF ToSet
    <2> QED BY <1>1, <2>1
  <1>6. online' = TRUE
    BY DEF Authenticated
  <1>7. entry'.conn < connNo' /\ \A r \in Get : sentOn'[r] < connNo'
    BY <1>1, <1>4
  <1>8. entry'.conn <= connNo' /\ entry'.conn # connNo'
        /\ \A r \in Get : sentOn'[r] <= connNo' /\ sentOn'[r] # connNo'
    BY <1>1, <1>2, <1>4, <1>7
  <1> QED BY <1>1, <1>3, <1>5, <1>6, <1>8 DEF PvInv, RelayTypes, HandlerInv, NoRequestIsLost

(* A request taken by the daemon keeps it.                                 *)
LEMMA HandleProxyRequestKeeps == PvInv /\ HandleProxyRequest => PvInv'
  <1> SUFFICES ASSUME PvInv, HandleProxyRequest PROVE PvInv'
    OBVIOUS
  <1> DEFINE r0 == Head(down2daemon)
  <1>1. /\ down2daemon # << >> /\ down2daemon \in Seq(Get) /\ down2daemon' = Tail(down2daemon)
        /\ previewHandler /\ local' = [local EXCEPT ![r0] = "sent"]
        /\ UNCHANGED <<previewHandler, connNo, online, up2hq, entry, pendingRequests, sentOn>>
    BY DEF HandleProxyRequest, PvInv, RelayTypes, HandlerInv, hqPvVars
  <1>2. down2daemon' \in Seq(Get) /\ r0 \in Get /\ ToSet(down2daemon) = {r0} \cup ToSet(down2daemon')
    BY <1>1, ToSetTail
  <1>3. RelayTypes'
    BY <1>1, <1>2 DEF PvInv, RelayTypes
  <1>4. HandlerInv'
    BY <1>1 DEF PvInv, HandlerInv, HandleProxyRequest
  <1>5. NoRequestIsLost'
    BY <1>1, <1>2 DEF PvInv, RelayTypes, NoRequestIsLost
  <1> QED BY <1>3, <1>4, <1>5 DEF PvInv

(* A message HQ takes keeps it.                                            *)
LEMMA HqHandlesPreviewKeeps == PvInv /\ HqHandlesPreview => PvInv'
  <1> SUFFICES ASSUME PvInv, HqHandlesPreview PROVE PvInv'
    OBVIOUS
  <1> DEFINE m == Head(up2hq)
  <1>1. /\ up2hq # << >> /\ up2hq \in Seq(Up) /\ up2hq' = Tail(up2hq)
        /\ UNCHANGED <<previewHandler, local, connNo, online, down2daemon, sentOn>>
    BY DEF HqHandlesPreview, PvInv, RelayTypes, daemonPvVars
  <1>2. up2hq' \in Seq(Up) /\ m \in Up /\ ToSet(up2hq) = {m} \cup ToSet(up2hq') /\ online
    BY <1>1, ToSetTail DEF PvInv, HandlerInv
  <1>3. CASE m.type = "register"
    <2>1. entry' = Registered /\ pendingRequests' = pendingRequests /\ m = Register
      BY <1>2, <1>3, UpKinds DEF HqHandlesPreview
    <2>2. /\ entry' \in [state : {"none", "connected", "disconnected"}, conn : Nat, previewPort : BOOLEAN]
          /\ entry'.conn = connNo /\ ~entry'.previewPort
      BY <2>1 DEF Registered, PvInv, RelayTypes
    <2>3. RelayTypes'
      BY <1>1, <1>2, <2>1, <2>2 DEF PvInv, RelayTypes
    <2>4. HandlerInv'
      BY <1>1, <1>2, <2>2, <2>3 DEF PvInv, HandlerInv, RelayTypes
    <2>5. NoRequestIsLost'
      BY <1>1, <1>2, <2>1, UpKinds DEF PvInv, RelayTypes, NoRequestIsLost
    <2> QED BY <2>3, <2>4, <2>5 DEF PvInv
  <1>4. CASE m.type = "preview-config"
    <2>1. entry' = [entry EXCEPT !.previewPort = TRUE] /\ pendingRequests' = pendingRequests /\ m = Config
      BY <1>2, <1>4, UpKinds DEF HqHandlesPreview
    <2>2. RelayTypes' /\ entry'.conn = entry.conn
      BY <1>1, <1>2, <2>1 DEF PvInv, RelayTypes
    <2>3. previewHandler'
      BY <1>1, <1>2, <2>1 DEF PvInv, HandlerInv
    <2>4. HandlerInv'
      BY <1>1, <1>2, <2>2, <2>3 DEF PvInv, HandlerInv
    <2>5. NoRequestIsLost'
      BY <1>1, <1>2, <2>1, UpKinds DEF PvInv, RelayTypes, NoRequestIsLost
    <2> QED BY <2>2, <2>4, <2>5 DEF PvInv
  <1>5. CASE m.type = "preview-proxy-response"
    <2>1. entry' = entry /\ pendingRequests' = pendingRequests \ {m.req}
      BY <1>5 DEF HqHandlesPreview
    <2>2. RelayTypes'
      BY <1>1, <1>2, <2>1 DEF PvInv, RelayTypes
    <2>3. HandlerInv'
      BY <1>1, <1>2, <2>1 DEF PvInv, HandlerInv
    <2>4. \A r \in Get : r # m.req => Response(r) # m
      BY DEF Response
    <2>5. NoRequestIsLost'
      BY <1>1, <1>2, <2>1, <2>4 DEF PvInv, RelayTypes, NoRequestIsLost
    <2> QED BY <2>2, <2>3, <2>5 DEF PvInv
  <1> QED BY <1>3, <1>4, <1>5 DEF HqHandlesPreview

(* A browser's request keeps it.                                           *)
LEMMA ProxyRequestKeeps ==
  ASSUME PvInv, NEW r \in Get, ProxyRequest(r)
  PROVE  PvInv'
  <1>1. /\ entry.previewPort /\ pendingRequests' = pendingRequests \cup {r}
        /\ sentOn' = [sentOn EXCEPT ![r] = entry.conn]
        /\ down2daemon' = IF online /\ entry.conn = connNo THEN Append(down2daemon, r) ELSE down2daemon
        /\ UNCHANGED <<previewHandler, local, connNo, online, up2hq, entry>>
    BY DEF ProxyRequest, daemonPvVars
  <1>2. down2daemon \in Seq(Get) /\ entry.conn \in Nat /\ entry.conn <= connNo
    BY DEF PvInv, RelayTypes, HandlerInv
  <1>3. /\ down2daemon' \in Seq(Get) /\ ToSet(down2daemon) \subseteq ToSet(down2daemon')
        /\ (online /\ entry.conn = connNo => r \in ToSet(down2daemon'))
    BY <1>1, <1>2, ToSetAppend
  <1>4. RelayTypes'
    BY <1>1, <1>2, <1>3 DEF PvInv, RelayTypes
  <1>5. HandlerInv'
    BY <1>1, <1>2 DEF PvInv, RelayTypes, HandlerInv
  <1>6. NoRequestIsLost'
    BY <1>1, <1>3 DEF PvInv, RelayTypes, NoRequestIsLost
  <1> QED BY <1>4, <1>5, <1>6 DEF PvInv

(* Every step keeps it.                                                    *)
LEMMA PvInvStep == PvInv /\ [PvNext]_pvVars => PvInv'
  <1> SUFFICES ASSUME PvInv, [PvNext]_pvVars PROVE PvInv'
    OBVIOUS
  <1>1. CASE Authenticated \/ HandleProxyRequest \/ HqHandlesPreview
    BY <1>1, AuthenticatedKeeps, HandleProxyRequestKeeps, HqHandlesPreviewKeeps
  <1>2. CASE RetryTick \/ HqNoticesBreak \/ UNCHANGED pvVars
    BY <1>2, QuietKeeps DEF RetryTick, HqNoticesBreak, pvVars, daemonPvVars, hqPvVars
  <1>3. ASSUME NEW found \in BOOLEAN, DetectionEnds(found) PROVE PvInv'
    <2>1. CASE found /\ ~previewHandler
      <3>1. /\ previewHandler' /\ up2hq' = IF online THEN Append(up2hq, Config) ELSE up2hq
            /\ UNCHANGED <<local, connNo, online, down2daemon, entry, pendingRequests, sentOn>>
        BY <1>3, <2>1 DEF DetectionEnds, hqPvVars
      <3>2. local' \in [Get -> {"none", "sent", "destroyed"}]
        BY <3>1 DEF PvInv, RelayTypes
      <3> QED BY <3>1, <3>2, AnswerKeeps, UpKinds
    <2>2. CASE ~(found /\ ~previewHandler)
      BY <1>3, <2>2, QuietKeeps DEF DetectionEnds, connPvVars, hqPvVars
    <2> QED BY <2>1, <2>2
  <1>4. ASSUME NEW r \in Get, ServerAnswers(r) \/ LocalTimeout(r) \/ DestroyError(r) PROVE PvInv'
    <2>1. PICK next \in {"none", "destroyed"} : LocalAnswers(r, next)
      BY <1>4 DEF ServerAnswers, LocalTimeout, DestroyError
    <2>2. /\ local' = [local EXCEPT ![r] = next]
          /\ up2hq' = IF online THEN Append(up2hq, Response(r)) ELSE up2hq
          /\ UNCHANGED <<previewHandler, connNo, online, down2daemon, entry, pendingRequests, sentOn>>
      BY <2>1 DEF LocalAnswers, hqPvVars
    <2>3. /\ local' \in [Get -> {"none", "sent", "destroyed"}]
          /\ \A q \in Get : local[q] = "sent" => local'[q] = "sent" \/ Response(r) = Response(q)
      BY <2>2 DEF PvInv, RelayTypes
    <2> QED BY <2>2, <2>3, AnswerKeeps, UpKinds
  <1>5. ASSUME NEW r \in Get, ProxyRequest(r) PROVE PvInv'
    BY <1>5, ProxyRequestKeeps
  <1>6. ASSUME NEW r \in Get, ProxyTimeout(r) PROVE PvInv'
    BY <1>6 DEF ProxyTimeout, daemonPvVars, connPvVars, PvInv, RelayTypes, HandlerInv, NoRequestIsLost
  <1>7. CASE ConnectionBreaks \/ HqProcessRestarts
    <2>1. local' = local /\ local \in [Get -> {"none", "sent", "destroyed"}]
      BY <1>7 DEF ConnectionBreaks, HqProcessRestarts, daemonPvVars, PvInv, RelayTypes
    <2> QED BY <1>7, <2>1, BrokenKeeps DEF ConnectionBreaks, HqProcessRestarts, hqPvVars
  <1>8. CASE DaemonRestarts
    <2>1. local' \in [Get -> {"none", "sent", "destroyed"}]
      BY <1>8 DEF DaemonRestarts
    <2> QED BY <1>8, <2>1, BrokenKeeps DEF DaemonRestarts, hqPvVars
  <1> QED BY <1>1, <1>2, <1>3, <1>4, <1>5, <1>6, <1>7, <1>8 DEF PvNext

(* A browser that waits for an answer does not wait in vain: its request   *)
(* is at the daemon or on its way there or back, and the daemon can serve  *)
(* it (preview.ts of HQ and of the daemon, preview-manager.ts).            *)
THEOREM NoRequestIsLostHolds == PvSpec => []NoRequestIsLost
  <1>1. PvInv => NoRequestIsLost
    BY DEF PvInv
  <1> QED BY <1>1, PvInvInit, PvInvStep, PTL DEF PvSpec

(* Detections are started by an interval, at most MaxRetries of them for   *)
(* each connection, and one with each connection.                          *)
Due == IF intervals > 0 /\ retryCount < MaxRetries THEN MaxRetries - retryCount ELSE 0

PvCounts ==
  /\ explicitPort \in BOOLEAN /\ previewHandler \in BOOLEAN /\ detectTimer \in BOOLEAN /\ online \in BOOLEAN
  /\ detections \in Nat /\ intervals \in Nat /\ retryCount \in 0 .. MaxRetries + 1
  /\ connNo \in 0 .. MaxConns /\ restartsSoFar \in 0 .. MaxProcesses
  /\ intervals <= connNo /\ (detectTimer => intervals > 0)
  /\ detections + Due <= connNo * (MaxRetries + 1)

(* The runs a daemon may start grow with its connections.                  *)
LEMMA RunsPerConnection ==
  ASSUME NEW n \in Nat, NEW m \in Nat
  PROVE  /\ n * m \in Nat /\ (n + 1) * m = n * m + m
         /\ \A top \in Nat : n <= top => n * m <= top * m
  <1>1. n * m \in Nat /\ (n + 1) * m = n * m + m
    OBVIOUS
  <1>2. ASSUME NEW top \in Nat, n <= top PROVE n * m <= top * m
    <2>1. top - n \in Nat /\ (top - n) * m \in Nat
      BY <1>2
    <2>2. (top - n) * m = top * m - n * m
      OBVIOUS
    <2> QED BY <1>1, <2>1, <2>2
  <1> QED BY <1>1, <1>2

(* Every step keeps the counts.                                            *)
LEMMA PvCountsStep == PvCounts /\ [PvNext]_pvVars => PvCounts'
  <1> SUFFICES ASSUME PvCounts, [PvNext]_pvVars PROVE PvCounts'
    OBVIOUS
  <1>a. {MaxRetries, MaxConns, MaxProcesses} \subseteq Nat
    BY PreviewAssumption
  <1>b. /\ detections \in Nat /\ intervals \in Nat /\ retryCount \in 0 .. MaxRetries + 1
        /\ connNo \in 0 .. MaxConns /\ restartsSoFar \in 0 .. MaxProcesses
        /\ intervals <= connNo /\ (detectTimer => intervals > 0)
        /\ detections + Due <= connNo * (MaxRetries + 1)
    BY DEF PvCounts
  <1>c. /\ explicitPort \in BOOLEAN /\ previewHandler \in BOOLEAN /\ detectTimer \in BOOLEAN /\ online \in BOOLEAN
    BY DEF PvCounts
  <1>d. connNo * (MaxRetries + 1) \in Nat /\ (connNo + 1) * (MaxRetries + 1) = connNo * (MaxRetries + 1) + MaxRetries + 1
    BY <1>a, <1>b, RunsPerConnection
  (* Steps that leave the counts alone.                                    *)
  <1>k. ASSUME UNCHANGED <<detections, intervals, retryCount, detectTimer, connNo, previewHandler, explicitPort>>,
               online' \in BOOLEAN, restartsSoFar' \in 0 .. MaxProcesses
        PROVE  PvCounts'
    <2>1. Due' = Due
      BY <1>k DEF Due
    <2> QED BY <1>b, <1>c, <1>k, <2>1 DEF PvCounts
  <1>l. ASSUME ProcessEnds PROVE restartsSoFar' \in 0 .. MaxProcesses
    BY <1>a, <1>b, <1>l DEF ProcessEnds
  <1>1. CASE Authenticated
    <2>1. connNo' = connNo + 1 /\ connNo' \in 0 .. MaxConns /\ online' = TRUE /\ UNCHANGED <<explicitPort, restartsSoFar>>
      BY <1>1, <1>a, <1>b DEF Authenticated
    <2>2. online' \in BOOLEAN /\ explicitPort' \in BOOLEAN /\ restartsSoFar' \in 0 .. MaxProcesses
      <3>1. online' \in BOOLEAN
        BY <2>1, Zenon
      <3> QED BY <1>b, <1>c, <2>1, <3>1
    <2>3. CASE explicitPort
      <3>1. previewHandler' = TRUE /\ UNCHANGED <<detections, detectTimer, intervals, retryCount>>
        BY <1>1, <2>3 DEF Authenticated
      <3>2. previewHandler' \in BOOLEAN /\ detectTimer' \in BOOLEAN
        BY <1>c, <3>1, Zenon
      <3>3. Due' = Due
        BY <3>1 DEF Due
      <3>4. detections' + Due' <= connNo' * (MaxRetries + 1)
        <4>1. Due \in Nat
          BY <1>a, <1>b DEF Due
        <4> QED BY <1>a, <1>b, <1>d, <2>1, <3>1, <3>3, <4>1
      <3>5. intervals' <= connNo' /\ (detectTimer' => intervals' > 0)
        BY <1>b, <2>1, <3>1
      <3> QED BY <1>b, <2>1, <2>2, <3>1, <3>2, <3>4, <3>5 DEF PvCounts
    <2>4. CASE ~explicitPort
      <3>1. /\ retryCount' = 0 /\ detections' = detections + 1 /\ intervals' = intervals + 1
            /\ detectTimer' = TRUE /\ UNCHANGED previewHandler
        BY <1>1, <2>4 DEF Authenticated
      <3>2. previewHandler' \in BOOLEAN /\ detectTimer' \in BOOLEAN
        BY <1>c, <3>1, Zenon
      <3>3. Due \in Nat /\ Due' <= MaxRetries /\ Due' \in Nat
        BY <1>a, <1>b, <3>1 DEF Due
      <3>4. detections' + Due' <= connNo' * (MaxRetries + 1)
        BY <1>a, <1>b, <1>d, <2>1, <3>1, <3>3
      <3>5. intervals' \in Nat /\ detections' \in Nat /\ retryCount' \in 0 .. MaxRetries + 1
            /\ intervals' <= connNo' /\ (detectTimer' => intervals' > 0)
        BY <1>a, <1>b, <2>1, <3>1
      <3> QED BY <2>1, <2>2, <3>2, <3>4, <3>5 DEF PvCounts
    <2> QED BY <2>3, <2>4
  <1>2. CASE RetryTick
    <2>1. UNCHANGED <<explicitPort, previewHandler, online, connNo, restartsSoFar>> /\ intervals > 0
      BY <1>2 DEF RetryTick, connPvVars
    <2>2. /\ explicitPort' \in BOOLEAN /\ previewHandler' \in BOOLEAN /\ online' \in BOOLEAN
      BY <1>c, <2>1
    <2>3. CASE UNCHANGED detections /\ StopRetry /\ (retryCount' = retryCount \/ (retryCount <= MaxRetries /\ retryCount' = retryCount + 1))
      <3>1. detectTimer' = FALSE /\ intervals' \in Nat /\ intervals' <= intervals
        BY <1>b, <2>3 DEF StopRetry
      <3>2. Due' <= Due /\ Due' \in Nat /\ Due \in Nat /\ retryCount' \in 0 .. MaxRetries + 1
        BY <1>a, <1>b, <2>1, <2>3, <3>1 DEF Due
      <3>3. detections' + Due' <= connNo' * (MaxRetries + 1)
        BY <1>b, <1>d, <2>1, <2>3, <3>2
      <3>4. detectTimer' \in BOOLEAN
        BY <3>1, Zenon
      <3> QED BY <1>b, <2>1, <2>2, <2>3, <3>1, <3>2, <3>3, <3>4 DEF PvCounts
    <2>4. CASE retryCount < MaxRetries /\ retryCount' = retryCount + 1 /\ detections' = detections + 1 /\ UNCHANGED <<detectTimer, intervals>>
      <3>1. Due' = Due - 1 /\ Due \in Nat
        BY <1>a, <1>b, <2>1, <2>4 DEF Due
      <3>2. detections' + Due' <= connNo' * (MaxRetries + 1)
        BY <1>b, <1>d, <2>1, <2>4, <3>1
      <3>3. detectTimer' \in BOOLEAN
        BY <1>c, <2>4
      <3>4. retryCount' \in 0 .. MaxRetries + 1 /\ detections' \in Nat
        BY <1>a, <1>b, <2>4
      <3> QED BY <1>b, <2>1, <2>2, <2>4, <3>2, <3>3, <3>4 DEF PvCounts
    <2>5. CASE (previewHandler \/ retryCount >= MaxRetries) /\ StopRetry /\ UNCHANGED detections
               /\ retryCount' = IF previewHandler \/ retryCount > MaxRetries THEN retryCount ELSE retryCount + 1
      <3>1. retryCount' = retryCount \/ (retryCount <= MaxRetries /\ retryCount' = retryCount + 1)
        BY <1>a, <1>b, <2>5
      <3> QED BY <2>3, <2>5, <3>1
    <2> QED BY <1>2, <2>4, <2>5 DEF RetryTick
  <1>3. ASSUME NEW found \in BOOLEAN, DetectionEnds(found) PROVE PvCounts'
    <2>1. UNCHANGED <<explicitPort, retryCount, connNo, online, restartsSoFar>> /\ detections > 0 /\ detections' = detections - 1
      BY <1>3 DEF DetectionEnds
    <2>2. CASE previewHandler' = TRUE /\ StopRetry
      <3>1. detectTimer' = FALSE /\ intervals' \in Nat /\ intervals' <= intervals
        BY <1>b, <2>2 DEF StopRetry
      <3>2. Due' <= Due /\ Due' \in Nat /\ Due \in Nat
        BY <1>a, <1>b, <2>1, <3>1 DEF Due
      <3>3. detections' + Due' <= connNo' * (MaxRetries + 1)
        BY <1>b, <1>d, <2>1, <3>2
      <3>4. detectTimer' \in BOOLEAN /\ previewHandler' \in BOOLEAN
        BY <2>2, <3>1, Zenon
      <3>5. detections' \in Nat
        BY <1>b, <2>1
      <3> QED BY <1>b, <1>c, <2>1, <3>1, <3>3, <3>4, <3>5 DEF PvCounts
    <2>3. CASE UNCHANGED <<previewHandler, detectTimer, intervals>>
      <3>1. Due' = Due /\ Due \in Nat
        BY <1>a, <1>b, <2>1, <2>3 DEF Due
      <3>2. detections' + Due' <= connNo' * (MaxRetries + 1) /\ detections' \in Nat
        BY <1>b, <1>d, <2>1, <3>1
      <3> QED BY <1>b, <1>c, <2>1, <2>3, <3>2 DEF PvCounts
    <2> QED BY <1>3, <2>2, <2>3 DEF DetectionEnds
  <1>4. CASE HandleProxyRequest
    BY <1>4, <1>b, <1>c, <1>k DEF HandleProxyRequest
  <1>5. CASE HqHandlesPreview
    BY <1>5, <1>b, <1>c, <1>k DEF HqHandlesPreview, daemonPvVars
  <1>6. ASSUME NEW r \in Get, ServerAnswers(r) \/ LocalTimeout(r) \/ DestroyError(r) PROVE PvCounts'
    BY <1>6, <1>b, <1>c, <1>k DEF ServerAnswers, LocalTimeout, DestroyError, LocalAnswers
  <1>7. ASSUME NEW r \in Get, ProxyRequest(r) \/ ProxyTimeout(r) PROVE PvCounts'
    BY <1>7, <1>b, <1>c, <1>k DEF ProxyRequest, ProxyTimeout, daemonPvVars, connPvVars
  <1>8. CASE ConnectionBreaks
    <2>1. online' \in BOOLEAN
      BY <1>8, Zenon DEF ConnectionBreaks, Broken
    <2> QED BY <1>8, <1>b, <1>k, <2>1 DEF ConnectionBreaks, daemonPvVars
  <1>9. CASE HqNoticesBreak
    BY <1>9, <1>b, <1>c, <1>k DEF HqNoticesBreak, daemonPvVars, connPvVars
  <1>10. CASE DaemonRestarts
    <2>1. /\ detections' = 0 /\ intervals' = 0 /\ retryCount' = 0 /\ UNCHANGED <<explicitPort, connNo>>
          /\ restartsSoFar' \in 0 .. MaxProcesses
      BY <1>10, <1>l DEF DaemonRestarts
    <2>2. online' = FALSE /\ previewHandler' = FALSE /\ detectTimer' = FALSE
      BY <1>10 DEF DaemonRestarts, Broken
    <2>3. online' \in BOOLEAN /\ previewHandler' \in BOOLEAN /\ detectTimer' \in BOOLEAN
      BY <2>2, Zenon
    <2>4. Due' = 0
      BY <2>1 DEF Due
    <2> QED BY <1>a, <1>b, <1>c, <1>d, <2>1, <2>2, <2>3, <2>4 DEF PvCounts
  <1>11. CASE HqProcessRestarts
    <2>1. online' \in BOOLEAN
      BY <1>11, Zenon DEF HqProcessRestarts, Broken
    <2> QED BY <1>11, <1>k, <1>l, <2>1 DEF HqProcessRestarts, daemonPvVars
  <1>12. CASE UNCHANGED pvVars
    BY <1>12, <1>b, <1>c, <1>k DEF pvVars, daemonPvVars, connPvVars
  <1> QED BY <1>1, <1>2, <1>3, <1>4, <1>5, <1>6, <1>7, <1>8, <1>9, <1>10, <1>11, <1>12 DEF PvNext

(* Connections, intervals, detections, messages and requests have their    *)
(* types and stay within their bounds (PvTypeOK): an interval that lost    *)
(* its handle starts no more detections than its retries allow.            *)
THEOREM PreviewTypesHold == PvSpec => []PvTypeOK
  <1>1. PvInit => PvCounts
    <2> SUFFICES ASSUME PvInit PROVE PvCounts
      OBVIOUS
    <2>1. /\ detections = 0 /\ intervals = 0 /\ retryCount = 0 /\ connNo = 0 /\ restartsSoFar = 0
          /\ previewHandler = FALSE /\ detectTimer = FALSE /\ online = FALSE /\ explicitPort \in BOOLEAN
      BY DEF PvInit
    <2>2. previewHandler \in BOOLEAN /\ detectTimer \in BOOLEAN /\ online \in BOOLEAN
      BY <2>1, Zenon
    <2>3. Due = 0 /\ 0 * (MaxRetries + 1) = 0
      BY <2>1, PreviewAssumption DEF Due
    <2> QED BY <2>1, <2>2, <2>3, PreviewAssumption DEF PvCounts
  <1>2. PvInv /\ PvCounts => PvTypeOK
    <2> SUFFICES ASSUME PvInv, PvCounts PROVE PvTypeOK
      OBVIOUS
    <2>a. {MaxRetries, MaxConns, MaxProcesses} \subseteq Nat
      BY PreviewAssumption
    <2>1. {detections, intervals} \subseteq 0 .. MaxConns + MaxConns * (MaxRetries + 1)
      <3>1. connNo \in Nat /\ connNo <= MaxConns /\ MaxRetries + 1 \in Nat
        BY <2>a DEF PvCounts
      <3>2. connNo * (MaxRetries + 1) <= MaxConns * (MaxRetries + 1) /\ connNo * (MaxRetries + 1) \in Nat
            /\ MaxConns * (MaxRetries + 1) \in Nat
        BY <2>a, <3>1, RunsPerConnection
      <3>3. detections \in Nat /\ intervals \in Nat /\ intervals <= connNo /\ Due \in Nat
            /\ detections + Due <= connNo * (MaxRetries + 1)
        BY <2>a DEF PvCounts, Due
      <3> QED BY <2>a, <3>1, <3>2, <3>3
    <2>2. /\ entry \in [state : {"none", "connected", "disconnected"}, conn : 0 .. MaxConns, previewPort : BOOLEAN]
          /\ sentOn \in [Get -> 0 .. MaxConns]
      <3>1. /\ entry \in [state : {"none", "connected", "disconnected"}, conn : Nat, previewPort : BOOLEAN]
            /\ sentOn \in [Get -> Nat] /\ entry.conn <= connNo /\ \A r \in Get : sentOn[r] <= connNo
        BY DEF PvInv, RelayTypes, HandlerInv
      <3>2. connNo \in 0 .. MaxConns /\ MaxConns \in Nat
        BY <2>a DEF PvCounts
      <3>3. entry.conn \in 0 .. MaxConns /\ \A r \in Get : sentOn[r] \in 0 .. MaxConns
        BY <3>1, <3>2
      <3> QED BY <3>1, <3>3
    <2>3. up2hq \in Seq({Register, Config} \cup {Response(r) : r \in Get})
      BY DEF PvInv, RelayTypes, Up
    <2>4. {explicitPort, previewHandler, detectTimer, online} \subseteq BOOLEAN
      BY Zenon DEF PvCounts
    <2> QED BY <2>1, <2>2, <2>3, <2>4 DEF PvTypeOK, PvInv, RelayTypes, PvCounts
  <1> QED BY <1>1, <1>2, PvCountsStep, PvInvInit, PvInvStep, PTL DEF PvSpec

-----------------------------------------------------------------------------
(* Labels on GitHub. *)

Push == [label : LabelState, nth : Nat, alone : BOOLEAN, todo : Seq(LabelState)]

LabelTypes ==
    /\ state \in WorkflowState \cup {Untracked}
    /\ ghLabels \subseteq LabelState
    /\ pushes \subseteq Push
    /\ clicks \in Nat

(* A push that nobody disturbed is the only one, and the labels it has     *)
(* neither removed yet nor will add are not on the issue.                  *)
AloneInv ==
    \A p \in pushes : p.alone =>
        /\ pushes = {p}
        /\ \A l \in ghLabels : l = p.label \/ \E i \in 1 .. Len(p.todo) : p.todo[i] = l

(* An exact label outlives no other push.                                  *)
ExactInv == exact # NoLabel => pushes = {} /\ ghLabels = {exact}

PushInv == LabelTypes /\ AloneInv /\ ExactInv

(* The loop of syncLabelToGitHub has every label but the pushed one.       *)
LEMMA OtherLabelsAreAll ==
    ASSUME NEW l \in LabelState
    PROVE  /\ OtherLabels(l) \in Seq(LabelState)
           /\ \A m \in LabelState : m = l \/ \E i \in 1 .. Len(OtherLabels(l)) : OtherLabels(l)[i] = m
<1> DEFINE at == CHOOSE i \in 1 .. 5 : HQ_LABELS[i] = l
<1>1. HQ_LABELS \in [1 .. 5 -> LabelState]
  BY DEF HQ_LABELS, LabelState
<1>2. \A m \in LabelState : \E i \in 1 .. 5 : HQ_LABELS[i] = m
  BY DEF HQ_LABELS, LabelState
<1>3. at \in 1 .. 5 /\ HQ_LABELS[at] = l
  BY <1>2
<1>4. OtherLabels(l) = [i \in 1 .. 4 |-> HQ_LABELS[IF i < at THEN i ELSE i + 1]]
  BY DEF OtherLabels
<1> HIDE DEF at
<1>5. \A i \in 1 .. 4 : HQ_LABELS[IF i < at THEN i ELSE i + 1] \in LabelState
  BY <1>1, <1>3
<1>6. OtherLabels(l) \in [1 .. 4 -> LabelState]
  BY <1>4, <1>5
<1>7. OtherLabels(l) \in Seq(LabelState) /\ Len(OtherLabels(l)) = 4
  <2>1. 4 \in Nat
    OBVIOUS
  <2>2. OtherLabels(l) \in Seq(LabelState)
    BY <1>6, <2>1, SeqDef
  <2>3. Len(OtherLabels(l)) \in Nat /\ 1 .. Len(OtherLabels(l)) = 1 .. 4
    BY <1>6, <2>2, LenProperties
  <2>4. Len(OtherLabels(l)) = 4
    <3> DEFINE n == Len(OtherLabels(l))
    <3>1. n \in Nat /\ 1 .. n = 1 .. 4
      BY <2>3
    <3> HIDE DEF n
    <3>2. 4 \in 1 .. n
      BY <3>1
    <3>3. n \in 1 .. n
      BY <3>1, <3>2
    <3>4. n \in 1 .. 4
      BY <3>1, <3>3
    <3>5. n = 4
      BY <3>1, <3>2, <3>4
    <3> QED BY <3>5 DEF n
  <2> QED BY <2>2, <2>4
<1>8. ASSUME NEW m \in LabelState, m # l
      PROVE  \E i \in 1 .. 4 : OtherLabels(l)[i] = m
  <2>1. PICK j \in 1 .. 5 : HQ_LABELS[j] = m
    BY <1>2
  <2>2. j # at
    BY <2>1, <1>3, <1>8
  <2>3. CASE j < at
    BY <2>1, <2>3, <1>3, <1>4
  <2>4. CASE j > at
    <3>1. j - 1 \in 1 .. 4 /\ ~(j - 1 < at) /\ (j - 1) + 1 = j
      BY <2>4, <1>3
    <3> QED BY <2>1, <3>1, <1>4
  <2> QED BY <2>2, <2>3, <2>4, <1>3
<1> QED BY <1>7, <1>8

(* A push of some state is typed, and covers whatever labels there are.    *)
LEMMA LabelsCover ==
    ASSUME LabelTypes, NEW to \in WorkflowState
    PROVE  /\ Labels(to) \in Push
           /\ Labels(to).alone <=> pushes = {}
           /\ \A l \in ghLabels : l = Labels(to).label
                 \/ \E i \in 1 .. Len(Labels(to).todo) : Labels(to).todo[i] = l
<1>1. StateToLabel(to) \in LabelState
  BY DEF StateToLabel, LabelState, WorkflowState
<1>2. Labels(to).label = StateToLabel(to) /\ Labels(to).todo = OtherLabels(StateToLabel(to))
      /\ Labels(to).alone = (pushes = {})
  BY DEF Labels
<1>3. (pushes = {}) \in BOOLEAN
  OBVIOUS
<1>4. OtherLabels(StateToLabel(to)) \in Seq(LabelState)
  BY <1>1, OtherLabelsAreAll
<1>5. Labels(to) \in Push
  BY <1>1, <1>3, <1>4 DEF Labels, Push, LabelTypes
<1>6. \A l \in ghLabels : l = Labels(to).label
         \/ \E i \in 1 .. Len(Labels(to).todo) : Labels(to).todo[i] = l
  BY <1>1, <1>2, OtherLabelsAreAll DEF LabelTypes
<1> QED BY <1>2, <1>5, <1>6

(* Marking pushes as disturbed changes nothing else of them.               *)
LEMMA DisturbedPushes ==
    ASSUME NEW Ps \in SUBSET Push
    PROVE  \A q \in {[p EXCEPT !.alone = FALSE] : p \in Ps} : q \in Push /\ ~q.alone
BY DEF Push

(* The inductive invariant holds at first and every step keeps it.         *)
THEOREM PushInvariant == IpSpec => []PushInv
<1>1. IpInit => PushInv
  BY DEF IpInit, PushInv, LabelTypes, AloneInv, ExactInv, LabelState, WorkflowState, NoLabel
<1>2. PushInv /\ [IpNext]_ipVars => PushInv'
  <2> SUFFICES ASSUME PushInv, [IpNext]_ipVars PROVE PushInv'
    OBVIOUS
  <2> USE DEF PushInv
  <2>1. ASSUME NEW to \in WorkflowState, PutState(to) PROVE PushInv'
    <3>1. CASE to \in ValidTransitions[state]
      <4>1. /\ state' = to /\ exact' = NoLabel
            /\ pushes' = {[p EXCEPT !.alone = FALSE] : p \in pushes} \cup {Labels(to)}
        BY <2>1, <3>1 DEF PutState
      <4>2. UNCHANGED ghLabels /\ clicks' = clicks + 1
        BY <2>1 DEF PutState, githubVars, Click
      <4>3. \A q \in pushes' : q \in Push /\ (q.alone => pushes = {} /\ q = Labels(to))
        BY <4>1, LabelsCover, DisturbedPushes DEF LabelTypes
      <4>4. LabelTypes'
        BY <4>1, <4>2, <4>3 DEF LabelTypes
      <4>5. AloneInv'
        BY <4>1, <4>2, <4>3, LabelsCover DEF AloneInv
      <4> QED BY <4>1, <4>4, <4>5 DEF ExactInv
    <3>2. CASE to \notin ValidTransitions[state]
      BY <2>1, <3>2 DEF PutState, githubVars, Click, LabelTypes, AloneInv, ExactInv
    <3> QED BY <3>1, <3>2
  <2>2. CASE EditedOnGitHub
    <3>1. pushes' = {[p EXCEPT !.alone = FALSE] : p \in pushes} /\ exact' = NoLabel
      BY <2>2 DEF EditedOnGitHub
    <3>2. \A q \in pushes' : q \in Push /\ ~q.alone
      BY <3>1, DisturbedPushes DEF LabelTypes
    <3>3. LabelTypes'
      BY <2>2, <3>2 DEF EditedOnGitHub, Moved, LabelTypes
    <3> QED BY <3>1, <3>2, <3>3 DEF AloneInv, ExactInv
  <2>3. ASSUME NEW p \in pushes, RemoveLabel(p) PROVE PushInv'
    <3>1. p \in Push /\ p.todo \in Seq(LabelState) /\ p.todo # << >>
      BY <2>3 DEF RemoveLabel, LabelTypes, Push
    <3>2. Tail(p.todo) \in Seq(LabelState) /\ Len(Tail(p.todo)) = Len(p.todo) - 1
          /\ Len(p.todo) \in Nat \ {0} /\ \A i \in 1 .. Len(p.todo) - 1 : Tail(p.todo)[i] = p.todo[i + 1]
      BY <3>1
    <3>3. exact = NoLabel /\ exact' = NoLabel /\ UNCHANGED <<state, clicks>>
      BY <2>3 DEF RemoveLabel, ExactInv, NoBound, Fault
    <3>4. CASE UNCHANGED ghLabels /\ Stepped(p, [p EXCEPT !.todo = Tail(@), !.alone = FALSE])
      <4> DEFINE q == [p EXCEPT !.todo = Tail(@), !.alone = FALSE]
      <4>1. q \in Push /\ ~q.alone
        BY <3>1, <3>2 DEF Push
      <4>2. pushes' = (pushes \ {p}) \cup {q}
        BY <3>4 DEF Stepped
      <4> HIDE DEF q
      <4> QED BY <3>3, <3>4, <4>1, <4>2 DEF LabelTypes, AloneInv, ExactInv
    <3>5. CASE ghLabels' = ghLabels \ {Head(p.todo)} /\ Stepped(p, [p EXCEPT !.todo = Tail(@)])
      <4> DEFINE q == [p EXCEPT !.todo = Tail(@)]
      <4>1. q \in Push /\ q.alone = p.alone /\ q.label = p.label /\ q.todo = Tail(p.todo)
        BY <3>1, <3>2 DEF Push
      <4>2. pushes' = (pushes \ {p}) \cup {q}
        BY <3>5 DEF Stepped
      <4> HIDE DEF q
      <4>3. LabelTypes'
        BY <3>3, <3>5, <4>1, <4>2 DEF LabelTypes
      <4>4. ASSUME NEW l \in ghLabels', p.alone
            PROVE  l = p.label \/ \E i \in 1 .. Len(Tail(p.todo)) : Tail(p.todo)[i] = l
        <5>1. l \in ghLabels /\ l # p.todo[1]
          BY <3>1, <3>5, <4>4
        <5>2. CASE \E i \in 1 .. Len(p.todo) : p.todo[i] = l
          <6>1. PICK i \in 1 .. Len(p.todo) : p.todo[i] = l
            BY <5>2
          <6>2. i # 1 /\ i - 1 \in 1 .. Len(p.todo) - 1 /\ (i - 1) + 1 = i
            BY <5>1, <6>1, <3>2
          <6> QED BY <6>1, <6>2, <3>2
        <5> QED BY <5>1, <5>2, <4>4 DEF AloneInv
      <4>5. AloneInv'
        <5>1. ASSUME NEW x \in pushes', x.alone PROVE x = q /\ pushes = {p}
          BY <4>1, <4>2, <5>1 DEF AloneInv
        <5>2. q.alone => pushes' = {q}
                 /\ \A l \in ghLabels' : l = q.label \/ \E i \in 1 .. Len(q.todo) : q.todo[i] = l
          BY <4>1, <4>2, <4>4, <5>1
        <5> QED BY <5>1, <5>2 DEF AloneInv
      <4> QED BY <3>3, <4>3, <4>5 DEF ExactInv
    <3> QED BY <2>3, <3>4, <3>5 DEF RemoveLabel
  <2>4. ASSUME NEW p \in pushes, AddLabel(p) PROVE PushInv'
    <3>1. pushes' = pushes \ {p} /\ p.todo = << >> /\ exact = NoLabel /\ UNCHANGED <<state, clicks>>
      BY <2>4 DEF AddLabel, ExactInv, NoBound, Fault
    <3>2. p.label \in LabelState
      BY DEF LabelTypes, Push
    <3>3. LabelTypes'
      BY <2>4, <3>1, <3>2 DEF AddLabel, LabelTypes
    <3>4. AloneInv'
      BY <3>1 DEF AloneInv
    <3>5. CASE UNCHANGED <<ghLabels, exact>>
      BY <3>1, <3>3, <3>4, <3>5 DEF ExactInv
    <3>6. CASE ghLabels' = ghLabels \cup {p.label} /\ exact' = (IF p.alone THEN p.label ELSE NoLabel)
      <4>1. p.alone => pushes = {p} /\ \A l \in ghLabels : l = p.label
        BY <3>1 DEF AloneInv
      <4>2. ExactInv'
        BY <3>1, <3>6, <4>1 DEF ExactInv
      <4> QED BY <3>3, <3>4, <4>2
    <3> QED BY <2>4, <3>5, <3>6 DEF AddLabel
  <2>5. CASE Restarted
    BY <2>5 DEF Restarted, Fault, githubVars, LabelTypes, AloneInv, ExactInv
  <2>6. CASE Synced
    <3>1. state' \in WorkflowState \cup {Untracked}
      BY <2>6 DEF Synced, LabelTypes, LabelState, WorkflowState
    <3> QED BY <2>6, <3>1 DEF Synced, NoBound, githubVars, LabelTypes, AloneInv, ExactInv
  <2>7. CASE Dispatched \/ \E to \in WorkflowState : Reported(to)
    <3>1. UNCHANGED <<ghLabels, pushes, exact, clicks>> /\ state' \in WorkflowState
      BY <2>7 DEF Dispatched, Reported, Moved, githubVars, WorkflowState
    <3> QED BY <3>1 DEF LabelTypes, AloneInv, ExactInv
  <2>8. CASE Refetched \/ CloseIssue \/ UNCHANGED ipVars
    <3>1. UNCHANGED <<state, ghLabels, pushes, exact, clicks>>
      BY <2>8 DEF Refetched, CloseIssue, NoBound, Fault, githubVars, ipVars
    <3> QED BY <3>1 DEF LabelTypes, AloneInv, ExactInv
  <2> QED BY <2>1, <2>2, <2>3, <2>4, <2>5, <2>6, <2>7, <2>8 DEF IpNext
<1> QED BY <1>1, <1>2, PTL DEF IpSpec

(* Whatever labels the issue had and whatever else happens to it, a push   *)
(* that ran alone and whose gh calls all succeeded leaves exactly its      *)
(* label on GitHub (syncLabelToGitHub).                                    *)
THEOREM SequentialPushesAreExactHolds == IpSpec => []SequentialPushesAreExact
<1>1. PushInv => SequentialPushesAreExact
  BY DEF PushInv, ExactInv, SequentialPushesAreExact
<1> QED BY <1>1, PushInvariant, PTL

(* What the row shows, what GitHub has and the closings under way: there   *)
(* is a request for each closing.                                          *)
RowTypes ==
    /\ row \in WorkflowState \cup {Untracked} /\ asked \in BOOLEAN /\ ghClosed \in BOOLEAN
    /\ clicks \in 0 .. MaxClicks /\ closings \in Nat /\ closings <= clicks
    /\ exact \in LabelState \cup {NoLabel}

(* Every step keeps them.                                                  *)
LEMMA RowTypesStep == LabelTypes /\ RowTypes /\ [IpNext]_ipVars => RowTypes'
<1> SUFFICES ASSUME LabelTypes, RowTypes, [IpNext]_ipVars PROVE RowTypes'
  OBVIOUS
<1>a. /\ row \in WorkflowState \cup {Untracked} /\ asked \in BOOLEAN /\ ghClosed \in BOOLEAN
      /\ exact \in LabelState \cup {NoLabel} /\ state \in WorkflowState \cup {Untracked}
  BY DEF RowTypes, LabelTypes
<1>b. clicks \in 0 .. MaxClicks /\ closings \in Nat /\ closings <= clicks /\ MaxClicks \in Nat
  BY PushAssumption DEF RowTypes
<1>1. CASE Refetched
  <2>1. asked' \in BOOLEAN
    BY <1>1 DEF Refetched
  <2> QED BY <1>1, <1>a, <1>b, <2>1 DEF Refetched, NoBound, githubVars, RowTypes
<1>2. CASE Dispatched \/ (\E to \in WorkflowState : Reported(to))
  BY <1>2, <1>a, <1>b DEF Dispatched, Reported, Moved, githubVars, RowTypes
<1>3. CASE Restarted
  BY <1>3, <1>a, <1>b DEF Restarted, Fault, githubVars, RowTypes
<1>4. CASE Synced
  BY <1>4, <1>a, <1>b DEF Synced, NoBound, githubVars, RowTypes
<1>5. CASE CloseIssue
  <2>1. closings' \in Nat /\ closings' <= closings /\ UNCHANGED <<row, asked, exact>>
    BY <1>5, <1>b DEF CloseIssue
  <2>2. UNCHANGED clicks
    BY <1>5 DEF CloseIssue, NoBound, Fault
  <2>3. ghClosed' = TRUE \/ ghClosed' = ghClosed
    BY <1>5 DEF CloseIssue
  <2>4. ghClosed' \in BOOLEAN
    BY <1>a, <2>3, Zenon
  <2> QED BY <1>a, <1>b, <2>1, <2>2, <2>4 DEF RowTypes
<1>6. CASE EditedOnGitHub
  <2>1. ghClosed' = ~ghClosed \/ ghClosed' = ghClosed
    BY <1>6 DEF EditedOnGitHub
  <2>2. ghClosed' \in BOOLEAN
    BY <1>a, <2>1, Zenon
  <2>3. exact' = NoLabel /\ UNCHANGED <<row, asked, closings, clicks>>
    BY <1>6 DEF EditedOnGitHub, Moved
  <2> QED BY <1>a, <1>b, <2>2, <2>3 DEF RowTypes
<1>7. ASSUME NEW to \in WorkflowState, PutState(to) PROVE RowTypes'
  <2>1. clicks' = clicks + 1 /\ clicks' \in 0 .. MaxClicks /\ UNCHANGED <<row, asked, ghClosed>>
    BY <1>7, <1>b DEF PutState, Click, githubVars
  <2>2. closings' = closings \/ closings' = closings + 1 \/ closings' = closings + 0
    BY <1>7 DEF PutState
  <2>3. exact' = NoLabel \/ exact' = exact
    BY <1>7 DEF PutState
  <2> QED BY <1>a, <1>b, <2>1, <2>2, <2>3 DEF RowTypes
<1>8. ASSUME NEW p \in pushes, RemoveLabel(p) PROVE RowTypes'
  BY <1>8, <1>a, <1>b DEF RemoveLabel, NoBound, Fault, RowTypes
<1>9. ASSUME NEW p \in pushes, AddLabel(p) PROVE RowTypes'
  <2>1. p.label \in LabelState
    BY DEF LabelTypes, Push
  <2>2. exact' \in {exact, p.label, NoLabel}
    BY <1>9 DEF AddLabel
  <2> QED BY <1>9, <1>a, <1>b, <2>1, <2>2 DEF AddLabel, NoBound, Fault, RowTypes
<1>10. CASE UNCHANGED ipVars
  BY <1>10, <1>a, <1>b DEF ipVars, RowTypes
<1> QED BY <1>1, <1>2, <1>3, <1>4, <1>5, <1>6, <1>7, <1>8, <1>9, <1>10 DEF IpNext

(* The row, the issue, its labels and the pushes and closings under way    *)
(* have their types, and each closing is some click's (IpTypeOK).          *)
THEOREM PushTypesHold == IpSpec => []IpTypeOK
<1>1. IpInit => RowTypes
  <2> SUFFICES ASSUME IpInit PROVE RowTypes
    OBVIOUS
  <2>1. row = "backlog" /\ asked = FALSE /\ ghClosed = FALSE /\ closings = 0 /\ exact = NoLabel /\ clicks = 0
    BY DEF IpInit
  <2>2. asked \in BOOLEAN /\ ghClosed \in BOOLEAN
    BY <2>1, Zenon
  <2> QED BY <2>1, <2>2, PushAssumption DEF RowTypes, WorkflowState
<1>2. PushInv /\ RowTypes => IpTypeOK
  <2> SUFFICES ASSUME LabelTypes, RowTypes PROVE IpTypeOK
    BY DEF PushInv
  <2>1. \A p \in pushes : p.label \in LabelState /\ p.todo \in Seq(LabelState)
    BY DEF LabelTypes, Push
  <2>2. closings \in 0 .. MaxClicks
    BY PushAssumption DEF RowTypes
  <2> QED BY <2>1, <2>2 DEF IpTypeOK, LabelTypes, RowTypes
<1>3. PushInv => LabelTypes
  BY DEF PushInv
<1> QED BY <1>1, <1>2, <1>3, RowTypesStep, PushInvariant, PTL DEF IpSpec

-----------------------------------------------------------------------------
(* The data a tab shows. *)

Fetch == [stage : {"idle", "asked", "read"}, saw : Nat, again : BOOLEAN]
SentRequest == [hook : Mutations, stage : {"sent", "done", "refused"}, left : [mounted -> Nat], nth : Nat]

QueryTypes ==
    /\ version \in [mounted -> Nat] /\ promised \in [mounted -> Nat]
    /\ shown \in [mounted -> Nat \cup {Unloaded}]
    /\ flight \in [mounted -> Fetch]
    /\ requests \subseteq SentRequest
    /\ sent \in Nat

(* Nothing is newer than what HQ has.                                      *)
NotAhead(k) ==
    /\ promised[k] <= version[k] /\ shown[k] <= version[k] /\ flight[k].saw <= version[k]
    /\ \A r \in requests : r.left[k] <= version[k]

(* What was promised is shown, or on its way, or will be read yet.         *)
OnItsWay(k) ==
    /\ shown[k] = Unloaded => promised[k] = 0
    /\ flight[k].stage = "read" => promised[k] <= flight[k].saw
    /\ flight[k] = Idle /\ k \notin fetchFailed => promised[k] <= shown[k]

QueryInv == QueryTypes /\ \A k \in mounted : NotAhead(k) /\ OnItsWay(k)

(* Every hook asks again for what its request changed or wrote.            *)
LEMMA HooksInvalidate ==
    \A m \in Mutations : m.changes \subseteq m.invalidates /\ m.writes \subseteq m.invalidates
<1> USE DEF Mutation
<1>1. \A m \in {UseSyncIssues, UseTransitionIssue, UseRespondToElicitation, UseStartCoordinator,
              UseStopCoordinator, UseResetCoordinator, UseDispatchIssue, UseCreateIssue,
              UseUpdateIssue, UseAddComment} :
         m.changes \subseteq m.invalidates /\ m.writes \subseteq m.invalidates
  BY DEF UseSyncIssues, UseTransitionIssue, UseRespondToElicitation, UseStartCoordinator,
         UseStopCoordinator, UseResetCoordinator, UseDispatchIssue, UseCreateIssue,
         UseUpdateIssue, UseAddComment
<1>2. \A m \in {UseSetAutonomousAgent, UseSetSessionAgent, UseSendPrompt, UseUpdatePlan, UseDeletePlan,
              UseCreateSession, UseAbortSession, UseResumeSession, UseSetModel, UseSetMode} :
         m.changes \subseteq m.invalidates /\ m.writes \subseteq m.invalidates
  <2>1. UseSetSessionAgent.changes = {"agent"} /\ UseSetSessionAgent.writes = {"agent"}
        /\ UseSetSessionAgent.invalidates = {"agent"}
    BY DEF UseSetSessionAgent
  <2> QED BY <2>1
     DEF UseSetAutonomousAgent, UseSendPrompt, UseUpdatePlan, UseDeletePlan,
         UseCreateSession, UseAbortSession, UseResumeSession, UseSetModel, UseSetMode
<1>3. \A m \in {UseDisconnectSession, UseEndSession, UseAddProject, UseRemoveProject,
              UseRegenerateDaemonToken, UseStartTunnel, UseStopTunnel, UseUpdateSettings,
              UseResetOnboarding, UseUpdateOtelSettings} :
         m.changes \subseteq m.invalidates /\ m.writes \subseteq m.invalidates
  BY DEF UseDisconnectSession, UseEndSession, UseAddProject, UseRemoveProject,
         UseRegenerateDaemonToken, UseStartTunnel, UseStopTunnel, UseUpdateSettings,
         UseResetOnboarding, UseUpdateOtelSettings
<1> QED BY <1>1, <1>2, <1>3 DEF Mutations

(* Invalidating keeps each fetch or asks again, and asks again for any key *)
(* that is loaded.                                                         *)
LEMMA InvalidatedIsAsked ==
    ASSUME QueryTypes, NEW ks, NEW data \in [mounted -> Nat \cup {Unloaded}]
    PROVE  /\ Invalidated(ks, data) \in [mounted -> Fetch]
           /\ \A k \in mounted : /\ Invalidated(ks, data)[k] \in {flight[k], Asked(FALSE)}
                                 /\ k \in ks /\ data[k] # Unloaded => Invalidated(ks, data)[k] = Asked(FALSE)
BY DEF QueryTypes, Invalidated, Asked, Fetch

(* Asked is neither idle nor read, and saw nothing.                        *)
LEMMA AskedIsOnItsWay ==
    \A a \in BOOLEAN : /\ Asked(a) \in Fetch /\ Asked(a).stage = "asked" /\ Asked(a).saw = 0
                       /\ Asked(a) # Idle
BY DEF Asked, Idle, Fetch

(* A fetch that is not under way.                                          *)
LEMMA IdleFetch == Idle \in Fetch /\ Idle.stage = "idle" /\ Idle.saw = 0
BY DEF Idle, Fetch

(* A fetch that has just been asked for.                                   *)
LEMMA AskedAgain == Asked(FALSE) \in Fetch /\ Asked(FALSE).stage = "asked" /\ Asked(FALSE).saw = 0 /\ Asked(FALSE) # Idle
BY AskedIsOnItsWay

(* HQ's data only get newer.                                               *)
LEMMA BumpedIsNewer ==
    ASSUME QueryTypes, NEW ks
    PROVE  Bumped(ks) \in [mounted -> Nat] /\ \A k \in mounted : version[k] <= Bumped(ks)[k]
BY DEF QueryTypes, Bumped

(* What a step of another part of the tab may change.                      *)
LEMMA NewerKeeps ==
    ASSUME QueryInv, UNCHANGED <<mounted, promised, cacheVars, sent>>,
           version' \in [mounted -> Nat], \A k \in mounted : version[k] <= version'[k],
           \A r \in requests' : r \in SentRequest /\ \A k \in mounted : r.left[k] <= version'[k]
    PROVE  QueryInv'
<1>1. QueryTypes'
  BY DEF QueryInv, QueryTypes, cacheVars, SentRequest, Fetch, Unloaded
<1>2. ASSUME NEW k \in mounted PROVE NotAhead(k)' /\ OnItsWay(k)'
  <2>1. version[k] \in Nat /\ version'[k] \in Nat /\ promised[k] \in Nat /\ shown[k] \in Int /\ flight[k].saw \in Nat
    BY DEF QueryInv, QueryTypes, Fetch, Unloaded
  <2>2. NotAhead(k)'
    BY <2>1 DEF QueryInv, NotAhead, cacheVars
  <2>3. OnItsWay(k)'
    BY DEF QueryInv, OnItsWay, cacheVars
  <2> QED BY <2>2, <2>3
<1> QED BY <1>1, <1>2 DEF QueryInv

(* A page just loaded has promised nothing and asks for everything.        *)
LEMMA LoadedPage ==
    ASSUME version' \in [mounted' -> Nat], sent' \in Nat, requests' = {},
           promised' = [k \in mounted' |-> 0], shown' = [k \in mounted' |-> Unloaded],
           flight' = [k \in mounted' |-> Asked(FALSE)]
    PROVE  QueryInv'
<1>1. Asked(FALSE) \in Fetch
  BY AskedAgain
<1>2. Unloaded \in Nat \cup {Unloaded} /\ 0 \in Nat
  OBVIOUS
<1>3. QueryTypes'
  <2>1. shown' \in [mounted' -> Nat \cup {Unloaded}]
    BY <1>2
  <2>2. flight' \in [mounted' -> Fetch] /\ promised' \in [mounted' -> Nat]
    BY <1>1, <1>2
  <2>3. Unloaded' = Unloaded /\ Fetch' = Fetch
    BY DEF Unloaded, Fetch
  <2> QED BY <2>1, <2>2, <2>3 DEF QueryTypes
<1>4. ASSUME NEW k \in mounted' PROVE NotAhead(k)' /\ OnItsWay(k)'
  <2>1. version'[k] \in Nat /\ promised'[k] = 0 /\ shown'[k] = Unloaded /\ flight'[k] = Asked(FALSE)
    OBVIOUS
  <2>2. NotAhead(k)'
    <3>1. flight'[k].saw = 0
      BY <2>1, AskedAgain
    <3>2. -1 <= version'[k] /\ 0 <= version'[k]
      BY <2>1
    <3> QED BY <2>1, <3>1, <3>2 DEF NotAhead, Unloaded
  <2>3. OnItsWay(k)'
    BY <2>1, AskedAgain DEF OnItsWay
  <2> QED BY <2>2, <2>3
<1> QED BY <1>3, <1>4 DEF QueryInv

(* The fetches.                                                            *)
LEMMA FetchStepKeeps ==
    ASSUME QueryInv, NEW j \in mounted, FetchStep(j)
    PROVE  QueryInv'
<1>1. UNCHANGED <<mounted, version, promised, requests, sent>>
  BY DEF FetchStep
<1>2. /\ \A k \in mounted : version[k] \in Nat /\ promised[k] \in Nat /\ shown[k] \in Nat \cup {Unloaded} /\ flight[k] \in Fetch
      /\ \A k \in mounted : flight[k].saw \in Nat
  BY DEF QueryInv, QueryTypes, Fetch
<1>3. ASSUME flight' \in [mounted -> Fetch], shown' \in [mounted -> Nat \cup {Unloaded}],
             \A k \in mounted \ {j} : UNCHANGED <<flight[k], shown[k]>> /\ (k \in fetchFailed' <=> k \in fetchFailed),
             NotAhead(j)', OnItsWay(j)'
      PROVE  QueryInv'
  <2>1. QueryTypes'
    BY <1>1, <1>3 DEF QueryInv, QueryTypes, SentRequest
  <2>2. ASSUME NEW k \in mounted \ {j} PROVE NotAhead(k)' /\ OnItsWay(k)'
    BY <1>1, <1>3, <2>2 DEF QueryInv, NotAhead, OnItsWay
  <2> QED BY <1>1, <1>3, <2>1, <2>2 DEF QueryInv
<1>4. NotAhead(j) /\ OnItsWay(j) /\ flight \in [mounted -> Fetch] /\ shown \in [mounted -> Nat \cup {Unloaded}]
  BY DEF QueryInv, QueryTypes
<1>5. ASSUME NEW a \in BOOLEAN, flight' = [flight EXCEPT ![j] = Asked(a)], UNCHANGED <<shown, fetchFailed>>
      PROVE  QueryInv'
  <2>1. flight' \in [mounted -> Fetch] /\ flight'[j] = Asked(a) /\ \A k \in mounted \ {j} : flight'[k] = flight[k]
    BY <1>4, <1>5, AskedIsOnItsWay
  <2>2. NotAhead(j)'
    BY <1>1, <1>2, <1>4, <1>5, <2>1, AskedIsOnItsWay DEF NotAhead
  <2>3. OnItsWay(j)'
    BY <1>1, <1>4, <1>5, <2>1, AskedIsOnItsWay DEF OnItsWay
  <2> QED BY <1>3, <1>4, <1>5, <2>1, <2>2, <2>3
<1>6. CASE Poll(j)
  BY <1>5, <1>6 DEF Poll
<1>7. CASE HqReads(j)
  <2>1. flight' \in [mounted -> Fetch] /\ flight'[j].stage = "read" /\ flight'[j].saw = version[j]
        /\ \A k \in mounted \ {j} : flight'[k] = flight[k]
    BY <1>2, <1>4, <1>7 DEF HqReads, Fetch
  <2>2. UNCHANGED <<shown, fetchFailed>>
    BY <1>7 DEF HqReads
  <2>3. NotAhead(j)'
    BY <1>1, <1>2, <1>4, <2>1, <2>2 DEF NotAhead
  <2>4. OnItsWay(j)'
    BY <1>1, <1>2, <1>4, <2>1, <2>2 DEF NotAhead, OnItsWay, Idle
  <2> QED BY <1>3, <1>4, <2>1, <2>2, <2>3, <2>4
<1>8. CASE FetchSucceeds(j)
  <2>1. /\ flight' \in [mounted -> Fetch] /\ flight'[j] = Idle
        /\ shown' \in [mounted -> Nat \cup {Unloaded}] /\ shown'[j] = flight[j].saw
        /\ \A k \in mounted \ {j} : flight'[k] = flight[k] /\ shown'[k] = shown[k]
    BY <1>2, <1>4, <1>8, IdleFetch DEF FetchSucceeds
  <2>2. fetchFailed' = fetchFailed \ {j} /\ flight[j].stage = "read"
    BY <1>8 DEF FetchSucceeds
  <2>3. NotAhead(j)'
    BY <1>1, <1>2, <1>4, <2>1, IdleFetch DEF NotAhead
  <2>4. OnItsWay(j)'
    BY <1>1, <1>2, <1>4, <2>1, <2>2, IdleFetch DEF OnItsWay, Unloaded
  <2> QED BY <1>3, <2>1, <2>2, <2>3, <2>4
<1>9. CASE FetchRejected(j)
  <2>1. CASE flight[j].again
    <3>1. /\ flight' \in [mounted -> Fetch] /\ flight'[j] = Idle
          /\ \A k \in mounted \ {j} : flight'[k] = flight[k]
      BY <1>4, <1>9, <2>1, IdleFetch DEF FetchRejected
    <3>2. fetchFailed' = fetchFailed \cup {j} /\ UNCHANGED shown
      BY <1>9, <2>1 DEF FetchRejected
    <3>3. NotAhead(j)'
      BY <1>1, <1>2, <1>4, <3>1, <3>2, IdleFetch DEF NotAhead
    <3>4. OnItsWay(j)'
      BY <1>1, <1>2, <1>4, <3>1, <3>2, IdleFetch DEF OnItsWay
    <3> QED BY <1>3, <1>4, <3>1, <3>2, <3>3, <3>4
  <2>2. CASE ~flight[j].again
    BY <1>5, <1>9, <2>2 DEF FetchRejected
  <2> QED BY <2>1, <2>2
<1> QED BY <1>6, <1>7, <1>8, <1>9 DEF FetchStep

(* An answered mutation promises what its hook asks again for.             *)
LEMMA AnsweredKeeps ==
    ASSUME QueryInv, NEW r \in requests, Answered(r)
    PROVE  QueryInv'
<1> DEFINE ok == r.stage = "done"
           written == IF ok THEN [k \in mounted |-> IF k \in r.hook.writes THEN r.left[k] ELSE shown[k]] ELSE shown
           heard == IF ok \/ r.hook.always THEN Invalidated(r.hook.invalidates, written) ELSE flight
<1>1. /\ shown' = written /\ flight' = heard /\ requests' = requests \ {r}
      /\ promised' = [k \in mounted |-> IF ok /\ k \in r.hook.changes /\ shown[k] # Unloaded /\ r.left[k] > promised[k]
                                       THEN r.left[k] ELSE promised[k]]
      /\ UNCHANGED <<mounted, version, fetchFailed, sent>>
  BY DEF Answered
<1>2. r.hook \in Mutations /\ r.left \in [mounted -> Nat]
  BY DEF QueryInv, QueryTypes, SentRequest
<1>3. QueryTypes /\ shown \in [mounted -> Nat \cup {Unloaded}] /\ flight \in [mounted -> Fetch] /\ promised \in [mounted -> Nat]
      /\ version \in [mounted -> Nat]
  BY DEF QueryInv, QueryTypes
<1>4. written \in [mounted -> Nat \cup {Unloaded}]
  BY <1>2, <1>3
<1>5. /\ heard \in [mounted -> Fetch]
      /\ \A k \in mounted : heard[k] \in {flight[k], Asked(FALSE)}
      /\ ok => \A k \in mounted : k \in r.hook.invalidates /\ written[k] # Unloaded => heard[k] = Asked(FALSE)
  <2> HIDE DEF written
  <2> QED BY <1>3, <1>4, InvalidatedIsAsked
<1>6. \A k \in mounted : /\ written[k] = IF ok /\ k \in r.hook.writes THEN r.left[k] ELSE shown[k]
                         /\ promised'[k] = IF ok /\ k \in r.hook.changes /\ shown[k] # Unloaded /\ r.left[k] > promised[k]
                                           THEN r.left[k] ELSE promised[k]
  BY <1>1, <1>3
<1>7. promised' \in [mounted -> Nat]
  BY <1>1, <1>2, <1>3
<1> HIDE DEF written, heard
<1>8. QueryTypes'
  BY <1>1, <1>3, <1>4, <1>5, <1>7 DEF QueryTypes, SentRequest
<1>9. ASSUME NEW k \in mounted PROVE NotAhead(k)' /\ OnItsWay(k)'
  <2>1. /\ version[k] \in Nat /\ promised[k] \in Nat /\ shown[k] \in Nat \cup {Unloaded} /\ r.left[k] \in Nat
        /\ flight[k] \in Fetch /\ flight[k].saw \in Nat
    BY <1>2, <1>3 DEF Fetch
  <2>2. NotAhead(k) /\ OnItsWay(k)
    BY DEF QueryInv
  <2>3. k \in r.hook.changes \/ k \in r.hook.writes => k \in r.hook.invalidates
    BY <1>2, HooksInvalidate
  <2>4. NotAhead(k)'
    <3>1. shown'[k] <= version[k] /\ promised'[k] <= version[k]
      BY <1>1, <1>6, <2>1, <2>2 DEF NotAhead, Unloaded
    <3>2. flight'[k].saw <= version[k]
      <4>1. flight'[k].saw = flight[k].saw \/ flight'[k].saw = 0
        BY <1>1, <1>5, AskedAgain
      <4> QED BY <1>1, <2>1, <2>2, <4>1 DEF NotAhead
    <3> QED BY <1>1, <2>2, <3>1, <3>2 DEF NotAhead
  <2>5. OnItsWay(k)'
    <3>1. CASE flight'[k] = Asked(FALSE)
      <4>1. shown'[k] = Unloaded => promised'[k] = 0
        BY <1>1, <1>6, <2>1, <2>2 DEF OnItsWay, Unloaded
      <4> QED BY <3>1, <4>1, AskedAgain DEF OnItsWay
    <3>2. CASE flight'[k] # Asked(FALSE)
      <4>1. flight'[k] = flight[k]
        BY <1>1, <1>5, <3>2
      <4>2. shown'[k] = shown[k] /\ promised'[k] = promised[k]
        <5>1. CASE ~ok
          BY <1>1, <1>6, <5>1
        <5>2. CASE ok
          <6>1. k \in r.hook.invalidates => written[k] = Unloaded
            BY <1>1, <1>5, <3>2, <5>2
          <6>2. k \notin r.hook.writes
            BY <1>6, <2>1, <2>3, <5>2, <6>1 DEF Unloaded
          <6>3. k \in r.hook.changes => shown[k] = Unloaded
            BY <1>6, <2>3, <6>1, <6>2
          <6> QED BY <1>1, <1>6, <6>2, <6>3
        <5> QED BY <5>1, <5>2
      <4> QED BY <1>1, <2>2, <4>1, <4>2 DEF OnItsWay
    <3> QED BY <3>1, <3>2
  <2> QED BY <2>4, <2>5
<1> QED BY <1>1, <1>8, <1>9 DEF QueryInv

(* The inductive invariant holds at first and every step keeps it.         *)
THEOREM QueriesInvariant == QvSpec => []QueryInv
<1>1. QvInit => QueryInv
  <2> SUFFICES ASSUME QvInit PROVE QueryInv
    OBVIOUS
  <2>1. /\ version = [k \in mounted |-> 0] /\ promised = [k \in mounted |-> 0]
        /\ shown = [k \in mounted |-> Unloaded] /\ flight = [k \in mounted |-> Asked(FALSE)]
        /\ requests = {} /\ sent = 0
    BY DEF QvInit
  <2>2. Asked(FALSE) \in Fetch /\ Unloaded \in Nat \cup {Unloaded} /\ 0 \in Nat
    BY AskedAgain
  <2>3. QueryTypes
    BY <2>1, <2>2 DEF QueryTypes
  <2>4. ASSUME NEW k \in mounted PROVE NotAhead(k) /\ OnItsWay(k)
    <3>1. version[k] = 0 /\ promised[k] = 0 /\ shown[k] = -1 /\ flight[k] = Asked(FALSE) /\ flight[k].saw = 0
      BY <2>1, AskedAgain DEF Unloaded
    <3>2. NotAhead(k)
      <4>1. 0 <= 0 /\ -1 <= 0
        OBVIOUS
      <4>2. promised[k] <= version[k] /\ shown[k] <= version[k] /\ flight[k].saw <= version[k]
        BY <3>1, <4>1, Zenon
      <4> QED BY <2>1, <4>1, <4>2 DEF NotAhead
    <3>3. OnItsWay(k)
      BY <3>1, AskedAgain DEF OnItsWay
    <3> QED BY <3>2, <3>3
  <2> QED BY <2>3, <2>4 DEF QueryInv
<1>2. QueryInv /\ [QvNext]_qvVars => QueryInv'
  <2> SUFFICES ASSUME QueryInv, [QvNext]_qvVars PROVE QueryInv'
    OBVIOUS
  <2>1. /\ QueryTypes /\ version \in [mounted -> Nat] /\ requests \subseteq SentRequest /\ sent \in Nat
        /\ \A k \in mounted : version[k] \in Nat
        /\ \A r \in requests, k \in mounted : r.left[k] \in Nat /\ r.left[k] <= version[k]
    BY DEF QueryInv, QueryTypes, NotAhead, SentRequest
  <2>2. ASSUME UNCHANGED <<mounted, version, promised, cacheVars, sent>>, requests' \subseteq requests PROVE QueryInv'
    <3>1. version' \in [mounted -> Nat] /\ \A k \in mounted : version[k] <= version'[k]
      BY <2>1, <2>2
    <3> QED BY <2>1, <2>2, <3>1, NewerKeeps
  <2>3. ASSUME NEW k \in mounted, FetchStep(k) PROVE QueryInv'
    BY <2>3, FetchStepKeeps
  <2>4. ASSUME NEW c \in Changes, OtherChange(c) PROVE QueryInv'
    <3>1. version' = Bumped(c.keys) /\ UNCHANGED <<mounted, promised, cacheVars, sent, requests>>
      BY <2>4 DEF OtherChange
    <3>2. version' \in [mounted -> Nat] /\ \A k \in mounted : version[k] <= version'[k]
      BY <2>1, <3>1, BumpedIsNewer
    <3>3. \A r \in requests' : r \in SentRequest /\ \A k \in mounted : r.left[k] <= version'[k]
      BY <2>1, <3>1, <3>2
    <3> QED BY <3>1, <3>2, <3>3, NewerKeeps
  <2>5. CASE NoticeArrives \/ SocketBreaks
    BY <2>2, <2>5 DEF NoticeArrives, SocketBreaks
  <2>6. CASE Render
    <3>1. /\ UNCHANGED <<mounted, version, shown, fetchFailed, requests, promised, sent>>
          /\ flight' = Invalidated(Heed(update), shown)
      BY <2>6 DEF Render
    <3>2. flight' \in [mounted -> Fetch] /\ \A k \in mounted : flight'[k] \in {flight[k], Asked(FALSE)}
      <4>1. shown \in [mounted -> Nat \cup {Unloaded}]
        BY <2>1 DEF QueryTypes
      <4> QED BY <2>1, <3>1, <4>1, InvalidatedIsAsked
    <3>3. QueryTypes'
      BY <2>1, <3>1, <3>2 DEF QueryTypes, SentRequest
    <3>4. ASSUME NEW k \in mounted PROVE NotAhead(k)' /\ OnItsWay(k)'
      <4>1. NotAhead(k) /\ OnItsWay(k) /\ version[k] \in Nat
        BY <2>1 DEF QueryInv
      <4>2. CASE flight'[k] = flight[k]
        BY <3>1, <4>1, <4>2 DEF NotAhead, OnItsWay
      <4>3. CASE flight'[k] = Asked(FALSE)
        <5>1. flight'[k].saw = 0 /\ flight'[k].stage = "asked" /\ flight'[k] # Idle
          BY <4>3, AskedAgain
        <5>2. NotAhead(k)'
          BY <3>1, <4>1, <5>1 DEF NotAhead
        <5>3. OnItsWay(k)'
          BY <3>1, <4>1, <5>1 DEF OnItsWay
        <5> QED BY <5>2, <5>3
      <4> QED BY <3>2, <4>2, <4>3
    <3> QED BY <3>1, <3>3, <3>4 DEF QueryInv
  <2>7. CASE Reload
    <3>1. /\ shown' = [k \in mounted |-> Unloaded] /\ flight' = [k \in mounted |-> Asked(FALSE)]
          /\ promised' = [k \in mounted |-> 0] /\ requests' = {} /\ UNCHANGED <<mounted, version, sent>>
      BY <2>7 DEF Reload
    <3> QED BY <2>1, <3>1, LoadedPage
  <2>8. ASSUME NEW m \in Mutations, Mutate(m) PROVE QueryInv'
    <3> DEFINE new == [hook |-> m, stage |-> "sent", left |-> version, nth |-> sent]
    <3>1. requests' = requests \cup {new} /\ sent' = sent + 1 /\ UNCHANGED <<mounted, version, cacheVars, promised>>
      BY <2>8 DEF Mutate
    <3>2. new \in SentRequest /\ new.left = version
      BY <2>1 DEF SentRequest
    <3> HIDE DEF new
    <3>3. QueryTypes'
      <4>1. sent' \in Nat
        BY <2>1, <3>1
      <4> QED BY <2>1, <3>1, <3>2, <4>1 DEF QueryTypes, SentRequest, cacheVars
    <3>4. ASSUME NEW k \in mounted PROVE NotAhead(k)' /\ OnItsWay(k)'
      <4>1. NotAhead(k) /\ OnItsWay(k) /\ version[k] \in Nat
        BY <2>1 DEF QueryInv
      <4>2. \A r \in requests' : r.left[k] <= version'[k]
        BY <2>1, <3>1, <3>2, <4>1
      <4> QED BY <3>1, <4>1, <4>2 DEF NotAhead, OnItsWay, cacheVars
    <3> QED BY <3>1, <3>3, <3>4 DEF QueryInv
  <2>9. ASSUME NEW r \in requests, HqHandles(r) PROVE QueryInv'
    <3>1. UNCHANGED <<mounted, promised, cacheVars, sent>>
      BY <2>9 DEF HqHandles
    <3>2. ASSUME version' \in [mounted -> Nat], \A k \in mounted : version[k] <= version'[k],
                 NEW stage \in {"done", "refused"}, Become(r, stage, version')
          PROVE  QueryInv'
      <4> DEFINE new == [r EXCEPT !.stage = stage, !.left = version']
      <4>1. requests' = (requests \ {r}) \cup {new}
        BY <3>2 DEF Become
      <4>2. new \in SentRequest /\ new.left = version'
        BY <2>1, <3>2 DEF SentRequest
      <4> HIDE DEF new
      <4>3. ASSUME NEW q \in requests', NEW k \in mounted PROVE q \in SentRequest /\ q.left[k] <= version'[k]
        <5>1. version[k] \in Nat /\ version'[k] \in Nat /\ version[k] <= version'[k]
          BY <2>1, <3>2
        <5> QED BY <2>1, <4>1, <4>2, <5>1
      <4>4. requests' \subseteq SentRequest
        BY <2>1, <4>1, <4>2
      <4> QED BY <3>1, <3>2, <4>3, <4>4, NewerKeeps
    <3>3. CASE version' = Bumped(r.hook.changes) /\ Become(r, "done", version')
      BY <2>1, <3>2, <3>3, BumpedIsNewer
    <3>4. CASE UNCHANGED version /\ Become(r, "refused", version)
      <4>1. version' \in [mounted -> Nat] /\ \A k \in mounted : version[k] <= version'[k]
        BY <2>1, <3>4
      <4>2. Become(r, "refused", version')
        BY <3>4 DEF Become
      <4> QED BY <3>2, <4>1, <4>2
    <3> QED BY <2>9, <3>3, <3>4 DEF HqHandles
  <2>10. ASSUME NEW r \in requests, Answered(r) PROVE QueryInv'
    BY <2>10, AnsweredKeeps
  <2>11. ASSUME NEW r \in requests, AnswerLost(r) PROVE QueryInv'
    BY <2>2, <2>11 DEF AnswerLost
  <2>12. CASE UNCHANGED qvVars
    BY <2>2, <2>12 DEF qvVars, cacheVars
  <2> QED BY <2>3, <2>4, <2>5, <2>6, <2>7, <2>8, <2>9, <2>10, <2>11, <2>12 DEF QvNext
<1> QED BY <1>1, <1>2, PTL DEF QvSpec

(* On every page, whatever notices and answers are lost, overtaken or      *)
(* dropped, a loaded key whose last fetch did not fail shows what the      *)
(* tab's own answered requests left at HQ (the hooks of client/services).  *)
THEOREM OwnChangesAreShownHolds == QvSpec => []OwnChangesAreShown
<1>1. QueryInv => OwnChangesAreShown
  <2> SUFFICES ASSUME QueryInv, NEW k \in mounted, flight[k] = Idle, k \notin fetchFailed
               PROVE  shown[k] >= promised[k]
    BY DEF OwnChangesAreShown
  <2>1. OnItsWay(k) /\ promised[k] \in Nat /\ shown[k] \in Nat \cup {Unloaded}
    BY DEF QueryInv, QueryTypes
  <2> QED BY <2>1 DEF OnItsWay, Unloaded
<1> QED BY <1>1, QueriesInvariant, PTL

(* HQ's data change once for each change from elsewhere and at most once   *)
(* for each request, and a notice of activity follows a change of it.      *)
Unanswered(rs) == {r \in rs : r.stage = "sent"}

CountInv ==
    /\ IsFiniteSet(requests) /\ changes \in 0 .. MaxChanges /\ sent \in 0 .. MaxRequests
    /\ \A k \in mounted : version[k] + Cardinality(Unanswered(requests)) <= changes + sent

Notice ==
    {"issue-state-changed", "sync-completed", "elicitation", "elicitation-answered", "elicitation-timeout",
     "coordinator-status-changed", "dispatch-started", "activity", "daemon", "preview:config", Silent}
HasNotice(ns, n) == \E i \in 1 .. Len(ns) : ns[i] = n

NoticeInv ==
    /\ wire \in Seq(Notice)
    /\ "activity" \in mounted /\ (update = "activity" \/ HasNotice(wire, "activity")) => version["activity"] >= 1

PageInv ==
    /\ mounted \in Screens /\ fetchFailed \subseteq mounted
    /\ realtime \subseteq 1 .. (MaxChanges + MaxRequests)

ViewsInv == CountInv /\ NoticeInv /\ PageInv

(* Requests that go, are handled, or come.                                 *)
LEMMA FewerUnanswered ==
    ASSUME NEW S, IsFiniteSet(S), NEW T \in SUBSET S
    PROVE  IsFiniteSet(T) /\ Cardinality(Unanswered(T)) \in Nat /\ Cardinality(Unanswered(S)) \in Nat
           /\ Cardinality(Unanswered(T)) <= Cardinality(Unanswered(S))
<1>1. IsFiniteSet(T) /\ IsFiniteSet(Unanswered(S)) /\ Unanswered(T) \subseteq Unanswered(S)
  BY FS_Subset DEF Unanswered
<1>2. IsFiniteSet(Unanswered(T)) /\ Cardinality(Unanswered(T)) <= Cardinality(Unanswered(S))
  BY <1>1, FS_Subset
<1> QED BY <1>1, <1>2, FS_CardinalityType

(* One request is handled.                                                 *)
LEMMA HandledUnanswered ==
    ASSUME NEW S, IsFiniteSet(S), NEW r \in S, r.stage = "sent", NEW n, n.stage # "sent"
    PROVE  LET T == (S \ {r}) \cup {n}
           IN  IsFiniteSet(T) /\ Cardinality(Unanswered(T)) = Cardinality(Unanswered(S)) - 1
               /\ Cardinality(Unanswered(S)) \in Nat
<1> DEFINE T == (S \ {r}) \cup {n}
<1>1. IsFiniteSet(S \ {r}) /\ IsFiniteSet(Unanswered(S))
  BY FS_Subset DEF Unanswered
<1>2. IsFiniteSet(T)
  BY <1>1, FS_AddElement
<1>3. Unanswered(T) = Unanswered(S) \ {r} /\ r \in Unanswered(S)
  BY DEF Unanswered
<1>4. Cardinality(Unanswered(T)) = Cardinality(Unanswered(S)) - 1
  BY <1>1, <1>3, FS_RemoveElement
<1> QED BY <1>1, <1>2, <1>4, FS_CardinalityType

(* One request is sent.                                                    *)
LEMMA SentUnanswered ==
    ASSUME NEW S, IsFiniteSet(S), NEW n
    PROVE  IsFiniteSet(S \cup {n}) /\ Cardinality(Unanswered(S \cup {n})) \in Nat
           /\ Cardinality(Unanswered(S \cup {n})) <= Cardinality(Unanswered(S)) + 1
<1>1. IsFiniteSet(S \cup {n}) /\ IsFiniteSet(Unanswered(S))
  BY FS_Subset, FS_AddElement DEF Unanswered
<1>2. IsFiniteSet(Unanswered(S) \cup {n}) /\ Cardinality(Unanswered(S) \cup {n}) <= Cardinality(Unanswered(S)) + 1
  <2> DEFINE U == Unanswered(S)
  <2>1. IsFiniteSet(U) /\ Cardinality(U) \in Nat
    BY <1>1, FS_CardinalityType
  <2> HIDE DEF U
  <2>2. IsFiniteSet(U \cup {n}) /\ (Cardinality(U \cup {n}) = Cardinality(U) \/ Cardinality(U \cup {n}) = Cardinality(U) + 1)
    BY <2>1, FS_AddElement
  <2> QED BY <2>1, <2>2 DEF U
<1>3. Unanswered(S \cup {n}) \subseteq Unanswered(S) \cup {n}
  BY DEF Unanswered
<1>4. IsFiniteSet(Unanswered(S \cup {n})) /\ Cardinality(Unanswered(S \cup {n})) <= Cardinality(Unanswered(S) \cup {n})
  BY <1>2, <1>3, FS_Subset
<1>5. Cardinality(Unanswered(S \cup {n})) \in Nat /\ Cardinality(Unanswered(S)) \in Nat /\ Cardinality(Unanswered(S) \cup {n}) \in Nat
  BY <1>1, <1>2, <1>4, FS_CardinalityType
<1> QED BY <1>1, <1>2, <1>4, <1>5

(* Whose notice speaks of activity has changed it.                         *)
LEMMA HooksNotify ==
    \A m \in Mutations : m.notices \in Seq(Notice) /\ (HasNotice(m.notices, "activity") => "activity" \in m.changes)
<1> DEFINE Hushed == {<< >>, << "sync-completed" >>, << "issue-state-changed" >>, << "coordinator-status-changed" >>}
<1>1. \A ns \in Hushed : ns \in Seq(Notice) /\ ~HasNotice(ns, "activity")
  <2>1. << >> \in Seq(Notice) /\ Len(<< >>) = 0
    OBVIOUS
  <2>2. \A n \in Notice : << n >> \in Seq(Notice) /\ Len(<< n >>) = 1 /\ << n >>[1] = n
    OBVIOUS
  <2>5. {"sync-completed", "issue-state-changed", "coordinator-status-changed"} \subseteq Notice \ {"activity"}
    BY DEF Notice
  <2>3. \A i \in 1 .. 1 : i = 1
    OBVIOUS
  <2>4. \A i \in 1 .. 0 : FALSE
    OBVIOUS
  <2> QED BY <2>1, <2>2, <2>3, <2>4, <2>5 DEF HasNotice
<1>2. UseDispatchIssue.notices \in Seq(Notice) /\ "activity" \in UseDispatchIssue.changes
  <2>1. UseDispatchIssue.notices = << "issue-state-changed", "dispatch-started", "activity" >>
        /\ UseDispatchIssue.changes = {"issues", "coordinator", "activity"}
    BY DEF UseDispatchIssue, Mutation
  <2>2. \A x, y, z \in Notice : << x, y, z >> \in Seq(Notice)
    OBVIOUS
  <2>3. {"issue-state-changed", "dispatch-started", "activity"} \subseteq Notice
    BY DEF Notice
  <2> QED BY <2>1, <2>2, <2>3
<1>3. \A m \in {UseSyncIssues, UseTransitionIssue, UseRespondToElicitation, UseStartCoordinator,
              UseStopCoordinator, UseResetCoordinator, UseCreateIssue, UseUpdateIssue, UseAddComment} : m.notices \in Hushed
  <2>1. UseRespondToElicitation.notices = << >>
    BY DEF UseRespondToElicitation, Mutation
  <2> QED BY <2>1 DEF Mutation, UseSyncIssues, UseTransitionIssue, UseStartCoordinator,
         UseStopCoordinator, UseResetCoordinator, UseCreateIssue, UseUpdateIssue, UseAddComment
<1>4. \A m \in {UseSetAutonomousAgent, UseSetSessionAgent, UseSendPrompt, UseUpdatePlan, UseDeletePlan,
              UseCreateSession, UseAbortSession, UseResumeSession, UseSetModel, UseSetMode} : m.notices \in Hushed
  <2>1. UseSetSessionAgent.notices = << >>
    BY DEF UseSetSessionAgent, Mutation
  <2> QED BY <2>1
     DEF Mutation, UseSetAutonomousAgent, UseSendPrompt, UseUpdatePlan, UseDeletePlan,
         UseCreateSession, UseAbortSession, UseResumeSession, UseSetModel, UseSetMode
<1>5. \A m \in {UseDisconnectSession, UseEndSession, UseAddProject, UseRemoveProject,
              UseRegenerateDaemonToken, UseStartTunnel, UseStopTunnel, UseUpdateSettings,
              UseResetOnboarding, UseUpdateOtelSettings} : m.notices \in Hushed
  BY DEF Mutation, UseDisconnectSession, UseEndSession, UseAddProject, UseRemoveProject,
         UseRegenerateDaemonToken, UseStartTunnel, UseStopTunnel, UseUpdateSettings,
         UseResetOnboarding, UseUpdateOtelSettings
<1> HIDE DEF Hushed
<1>6. \A m \in Mutations : m.notices \in Hushed \/ m = UseDispatchIssue
  BY <1>3, <1>4, <1>5 DEF Mutations
<1> QED BY <1>1, <1>2, <1>6

(* So it is with what changes elsewhere.                                   *)
LEMMA ChangesNotify ==
    \A c \in Changes : c.notice \in Notice /\ (c.notice = "activity" => "activity" \in c.keys)
<1>1. \A keys, n : Change(keys, n).notice = n /\ Change(keys, n).keys = keys
  BY DEF Change
<1>2. Silent # "activity"
  BY DEF Silent
<1>3. ASSUME NEW c \in Changes
      PROVE  \/ \E keys : \E n \in Notice \ {"activity"} : c = Change(keys, n)
             \/ c = Change({"activity"}, "activity")
  BY <1>2 DEF Changes, Notice
<1>4. "activity" \in Notice
  BY DEF Notice
<1> QED BY <1>1, <1>3, <1>4

(* The notices on the wire.                                                *)
LEMMA NoticesOf ==
    ASSUME NEW p \in Seq(Notice), NEW q \in Seq(Notice), NEW n
    PROVE  /\ p \o q \in Seq(Notice) /\ (HasNotice(p \o q, n) => HasNotice(p, n) \/ HasNotice(q, n))
           /\ p # << >> => Tail(p) \in Seq(Notice) /\ Head(p) \in Notice
                           /\ (HasNotice(Tail(p), n) \/ Head(p) = n => HasNotice(p, n))
<1>1. p \o q \in Seq(Notice)
  OBVIOUS
<1>2. ASSUME HasNotice(p \o q, n) PROVE HasNotice(p, n) \/ HasNotice(q, n)
  <2>1. PICK i \in 1 .. Len(p \o q) : (p \o q)[i] = n
    BY <1>2 DEF HasNotice
  <2>2. CASE i <= Len(p)
    <3>1. i \in 1 .. Len(p) /\ p[i] = n
      BY <2>1, <2>2
    <3> QED BY <3>1 DEF HasNotice
  <2>3. CASE i > Len(p)
    <3>1. i - Len(p) \in 1 .. Len(q) /\ q[i - Len(p)] = n
      BY <2>1, <2>3
    <3> QED BY <3>1 DEF HasNotice
  <2> QED BY <2>1, <2>2, <2>3
<1>3. ASSUME p # << >> PROVE Tail(p) \in Seq(Notice) /\ Head(p) \in Notice /\ 1 \in 1 .. Len(p) /\ p[1] = Head(p)
  BY <1>3
<1>4. ASSUME p # << >>, HasNotice(Tail(p), n) PROVE HasNotice(p, n)
  <2>1. PICK i \in 1 .. Len(Tail(p)) : Tail(p)[i] = n
    BY <1>4 DEF HasNotice
  <2>2. i + 1 \in 1 .. Len(p) /\ p[i + 1] = n
    BY <1>4, <2>1
  <2> QED BY <2>2 DEF HasNotice
<1>5. ASSUME p # << >>, Head(p) = n PROVE HasNotice(p, n)
  BY <1>3, <1>5 DEF HasNotice
<1> QED BY <1>1, <1>2, <1>3, <1>4, <1>5

(* What is bumped has changed, and nothing has changed by more than one.   *)
LEMMA BumpsByOne ==
    ASSUME QueryTypes, NEW ks, version' = Bumped(ks)
    PROVE  /\ \A k \in mounted : version[k] \in Nat /\ version'[k] \in Nat
           /\ \A k \in mounted : version[k] <= version'[k] /\ version'[k] <= version[k] + 1
           /\ \A k \in mounted \cap ks : version'[k] >= 1
BY DEF QueryTypes, Bumped

(* A step that changes no data keeps the counts, if no more requests wait. *)
LEMMA CountsKept ==
    ASSUME CountInv, QueryTypes, UNCHANGED <<mounted, version>>, requests' \subseteq requests,
           changes' \in 0 .. MaxChanges, sent' \in 0 .. MaxRequests, changes <= changes', sent <= sent'
    PROVE  CountInv'
<1>1. IsFiniteSet(requests') /\ Cardinality(Unanswered(requests')) \in Nat /\ Cardinality(Unanswered(requests)) \in Nat
      /\ Cardinality(Unanswered(requests')) <= Cardinality(Unanswered(requests))
  BY FewerUnanswered DEF CountInv
<1>2. changes \in Nat /\ sent \in Nat /\ changes' \in Nat /\ sent' \in Nat
  BY QueryAssumption DEF CountInv
<1>3. ASSUME NEW k \in mounted PROVE version'[k] + Cardinality(Unanswered(requests')) <= changes' + sent'
  <2>1. version[k] \in Nat /\ version[k] + Cardinality(Unanswered(requests)) <= changes + sent
    BY DEF CountInv, QueryTypes
  <2> QED BY <1>1, <1>2, <2>1
<1> QED BY <1>1, <1>3 DEF CountInv

(* Every step keeps the counts.                                            *)
LEMMA CountInvStep == QueryTypes /\ CountInv /\ [QvNext]_qvVars => CountInv'
<1> SUFFICES ASSUME QueryTypes, CountInv, [QvNext]_qvVars PROVE CountInv'
  OBVIOUS
<1>a. /\ IsFiniteSet(requests) /\ changes \in 0 .. MaxChanges /\ sent \in 0 .. MaxRequests
      /\ MaxChanges \in Nat /\ MaxRequests \in Nat /\ changes \in Nat /\ sent \in Nat
  BY QueryAssumption DEF CountInv
<1>b. /\ Cardinality(Unanswered(requests)) \in Nat
      /\ \A k \in mounted : version[k] \in Nat /\ version[k] + Cardinality(Unanswered(requests)) <= changes + sent
  BY <1>a, FewerUnanswered DEF CountInv, QueryTypes
<1>1. CASE UNCHANGED <<mounted, version, requests, changes, sent>>
  BY <1>1, <1>a, CountsKept
<1>2. ASSUME NEW c \in Changes, OtherChange(c) PROVE CountInv'
  <2>1. version' = Bumped(c.keys) /\ UNCHANGED <<mounted, requests, sent>> /\ changes' = changes + 1 /\ changes < MaxChanges
    BY <1>2 DEF OtherChange
  <2>2. changes' \in 0 .. MaxChanges
    BY <1>a, <2>1
  <2>3. ASSUME NEW k \in mounted PROVE version'[k] + Cardinality(Unanswered(requests)) <= changes' + sent
    <3>1. version[k] \in Nat /\ version'[k] \in Nat /\ version'[k] <= version[k] + 1
      BY <2>1, BumpsByOne
    <3> QED BY <1>a, <1>b, <2>1, <3>1
  <2> QED BY <1>a, <2>1, <2>2, <2>3 DEF CountInv
<1>3. CASE Reload
  <2>1. requests' \subseteq requests /\ UNCHANGED <<mounted, version, changes, sent>>
    BY <1>3 DEF Reload
  <2> QED BY <1>a, <2>1, CountsKept
<1>4. ASSUME NEW m \in Mutations, Mutate(m) PROVE CountInv'
  <2> DEFINE new == [hook |-> m, stage |-> "sent", left |-> version, nth |-> sent]
  <2>1. requests' = requests \cup {new} /\ sent' = sent + 1 /\ sent < MaxRequests /\ UNCHANGED <<mounted, version, changes>>
    BY <1>4 DEF Mutate
  <2> HIDE DEF new
  <2>2. IsFiniteSet(requests') /\ Cardinality(Unanswered(requests')) \in Nat
        /\ Cardinality(Unanswered(requests')) <= Cardinality(Unanswered(requests)) + 1
    BY <1>a, <2>1, SentUnanswered
  <2>3. ASSUME NEW k \in mounted PROVE version[k] + Cardinality(Unanswered(requests')) <= changes + sent'
    BY <1>a, <1>b, <2>1, <2>2
  <2>4. sent' \in 0 .. MaxRequests
    BY <1>a, <2>1
  <2> QED BY <1>a, <2>1, <2>2, <2>3, <2>4 DEF CountInv
<1>5. ASSUME NEW r \in requests, HqHandles(r) PROVE CountInv'
  <2>1. r.stage = "sent" /\ UNCHANGED <<mounted, changes, sent>>
    BY <1>5 DEF HqHandles
  <2>2. \E stage \in {"done", "refused"} : \E left : Become(r, stage, left)
    BY <1>5 DEF HqHandles
  <2>3. PICK n : requests' = (requests \ {r}) \cup {n} /\ n.stage # "sent"
    <3>1. PICK stage \in {"done", "refused"} : \E left : Become(r, stage, left)
      BY <2>2
    <3>4. PICK left : requests' = (requests \ {r}) \cup {[r EXCEPT !.stage = stage, !.left = left]}
      BY <3>1 DEF Become
    <3>2. r \in SentRequest
      BY DEF QueryTypes
    <3>3. [r EXCEPT !.stage = stage, !.left = left].stage = stage
      BY <3>2 DEF SentRequest
    <3> QED BY <3>3, <3>4
  <2>4. IsFiniteSet(requests') /\ Cardinality(Unanswered(requests')) = Cardinality(Unanswered(requests)) - 1
    BY <1>a, <2>1, <2>3, HandledUnanswered
  <2>5. ASSUME NEW k \in mounted PROVE version'[k] \in Nat /\ version'[k] <= version[k] + 1
    <3>1. CASE version' = Bumped(r.hook.changes)
      BY <3>1, BumpsByOne
    <3>2. CASE UNCHANGED version
      BY <1>b, <3>2
    <3> QED BY <1>5, <3>1, <3>2 DEF HqHandles
  <2>6. ASSUME NEW k \in mounted PROVE version'[k] + Cardinality(Unanswered(requests')) <= changes + sent
    BY <1>a, <1>b, <2>4, <2>5
  <2> QED BY <1>a, <2>1, <2>4, <2>6 DEF CountInv
<1>6. ASSUME NEW r \in requests, Answered(r) \/ AnswerLost(r) PROVE CountInv'
  <2>1. requests' \subseteq requests /\ UNCHANGED <<mounted, version, changes, sent>>
    BY <1>6 DEF Answered, AnswerLost
  <2> QED BY <1>a, <2>1, CountsKept
<1>7. (\E k \in mounted : FetchStep(k)) => UNCHANGED <<mounted, version, requests, changes, sent>>
  BY DEF FetchStep
<1>8. NoticeArrives \/ SocketBreaks \/ Render => UNCHANGED <<mounted, version, requests, changes, sent>>
  BY DEF NoticeArrives, SocketBreaks, Render
<1>9. UNCHANGED qvVars => UNCHANGED <<mounted, version, requests, changes, sent>>
  BY DEF qvVars
<1> QED BY <1>1, <1>2, <1>3, <1>4, <1>5, <1>6, <1>7, <1>8, <1>9 DEF QvNext

(* A step that adds no notice keeps what was noticed.                      *)
LEMMA NoticesKept ==
    ASSUME NoticeInv, QueryTypes, UNCHANGED mounted, wire' \in Seq(Notice),
           HasNotice(wire', "activity") => HasNotice(wire, "activity"),
           update' = "activity" => update = "activity" \/ HasNotice(wire, "activity"),
           \A k \in mounted : version'[k] \in Nat /\ version[k] <= version'[k]
    PROVE  NoticeInv'
<1>1. "activity" \in mounted => version["activity"] \in Nat /\ version'["activity"] \in Nat
  BY DEF QueryTypes
<1> QED BY <1>1 DEF NoticeInv

(* Every step keeps it.                                                    *)
LEMMA NoticeInvStep == QueryTypes /\ NoticeInv /\ [QvNext]_qvVars => NoticeInv'
<1> SUFFICES ASSUME QueryTypes, NoticeInv, [QvNext]_qvVars PROVE NoticeInv'
  OBVIOUS
<1>a. wire \in Seq(Notice) /\ \A k \in mounted : version[k] \in Nat /\ version[k] <= version[k]
  BY DEF QueryTypes, NoticeInv
<1>1. CASE UNCHANGED <<mounted, version, wire, update>>
  BY <1>1, <1>a, NoticesKept
<1>2. ASSUME NEW ns \in Seq(Notice), NEW ks, HasNotice(ns, "activity") => "activity" \in ks,
             version' = Bumped(ks), Broadcast(ns), UNCHANGED <<mounted, update>>
      PROVE  NoticeInv'
  <2>1. wire' \in Seq(Notice) /\ (HasNotice(wire', "activity") => HasNotice(wire, "activity") \/ HasNotice(ns, "activity"))
    BY <1>2, <1>a, NoticesOf DEF Broadcast
  <2>2. /\ \A k \in mounted : version[k] \in Nat /\ version'[k] \in Nat /\ version[k] <= version'[k]
        /\ \A k \in mounted \cap ks : version'[k] >= 1
    BY <1>2, BumpsByOne
  <2>3. CASE HasNotice(ns, "activity")
    BY <1>2, <2>1, <2>2, <2>3 DEF NoticeInv
  <2>4. CASE ~HasNotice(ns, "activity")
    BY <1>2, <2>1, <2>2, <2>4, NoticesKept
  <2> QED BY <2>3, <2>4
<1>3. ASSUME NEW c \in Changes, OtherChange(c) PROVE NoticeInv'
  <2>1. version' = Bumped(c.keys) /\ UNCHANGED <<mounted, update>> /\ (UNCHANGED wire \/ Broadcast(<< c.notice >>))
    BY <1>3 DEF OtherChange, feedVars
  <2>2. c.notice \in Notice /\ (c.notice = "activity" => "activity" \in c.keys)
    BY ChangesNotify
  <2>3. << c.notice >> \in Seq(Notice) /\ (HasNotice(<< c.notice >>, "activity") => "activity" \in c.keys)
    <3>1. \A n \in Notice : << n >> \in Seq(Notice) /\ Len(<< n >>) = 1 /\ << n >>[1] = n
      OBVIOUS
    <3>2. \A i \in 1 .. 1 : i = 1
      OBVIOUS
    <3> QED BY <2>2, <3>1, <3>2 DEF HasNotice
  <2>4. CASE Broadcast(<< c.notice >>)
    BY <1>2, <2>1, <2>3, <2>4
  <2>5. CASE UNCHANGED wire
    <3>1. \A k \in mounted : version'[k] \in Nat /\ version[k] <= version'[k]
      BY <2>1, BumpsByOne
    <3> QED BY <1>a, <2>1, <2>5, <3>1, NoticesKept
  <2> QED BY <2>1, <2>4, <2>5
<1>4. CASE NoticeArrives
  <2>1. wire # << >> /\ update' = Head(wire) /\ wire' = Tail(wire) /\ UNCHANGED <<mounted, version>>
    BY <1>4 DEF NoticeArrives
  <2>2. wire' \in Seq(Notice) /\ (HasNotice(wire', "activity") \/ update' = "activity" => HasNotice(wire, "activity"))
    BY <1>a, <2>1, NoticesOf
  <2> QED BY <1>a, <2>1, <2>2, NoticesKept
<1>5. CASE SocketBreaks \/ Reload
  <2>1. wire' = << >> /\ (update' = update \/ update' = Silent) /\ UNCHANGED <<mounted, version>>
    BY <1>5 DEF SocketBreaks, Reload, feedVars
  <2>2. << >> \in Seq(Notice) /\ ~HasNotice(<< >>, "activity")
    <3>1. << >> \in Seq(Notice) /\ Len(<< >>) = 0 /\ \A i \in 1 .. 0 : FALSE
      OBVIOUS
    <3> QED BY <3>1 DEF HasNotice
  <2> QED BY <1>a, <2>1, <2>2, NoticesKept DEF Silent
<1>6. CASE Render
  <2>1. update' = Silent /\ UNCHANGED <<mounted, version, wire>>
    BY <1>6 DEF Render
  <2> QED BY <1>a, <2>1, NoticesKept DEF Silent
<1>7. ASSUME NEW r \in requests, HqHandles(r) PROVE NoticeInv'
  <2>1. UNCHANGED <<mounted, update>>
    BY <1>7 DEF HqHandles, feedVars
  <2>2. CASE version' = Bumped(r.hook.changes) /\ Broadcast(r.hook.notices)
    <3>1. r.hook \in Mutations
      BY DEF QueryTypes, SentRequest
    <3> QED BY <1>2, <2>1, <2>2, <3>1, HooksNotify
  <2>3. CASE UNCHANGED <<version, wire>>
    BY <1>1, <2>1, <2>3
  <2> QED BY <1>7, <2>2, <2>3 DEF HqHandles
<1>8. ((\E k \in mounted : FetchStep(k)) \/ (\E m \in Mutations : Mutate(m)) \/ (\E r \in requests : Answered(r) \/ AnswerLost(r)))
         => UNCHANGED <<mounted, version, wire, update>>
  BY DEF FetchStep, Mutate, Answered, AnswerLost, feedVars
<1>9. UNCHANGED qvVars => UNCHANGED <<mounted, version, wire, update>>
  BY DEF qvVars
<1> QED BY <1>1, <1>3, <1>4, <1>5, <1>6, <1>7, <1>8, <1>9 DEF QvNext

(* Every step keeps the page and the entries of the feed.                  *)
LEMMA PageInvStep == QueryTypes /\ CountInv /\ NoticeInv /\ PageInv /\ [QvNext]_qvVars => PageInv'
<1> SUFFICES ASSUME QueryTypes, CountInv, NoticeInv, PageInv, [QvNext]_qvVars PROVE PageInv'
  OBVIOUS
<1>a. mounted \in Screens /\ fetchFailed \subseteq mounted /\ realtime \subseteq 1 .. (MaxChanges + MaxRequests)
  BY DEF PageInv
<1>1. CASE UNCHANGED <<mounted, realtime>> /\ fetchFailed' \subseteq mounted
  BY <1>1, <1>a DEF PageInv
<1>2. CASE Render
  <2>1. UNCHANGED <<mounted, fetchFailed>>
    BY <1>2 DEF Render
  <2>2. realtime' \in {{}, realtime} \/ ("activity" \in mounted /\ update = "activity" /\ realtime' = realtime \cup {version["activity"]})
    BY <1>2 DEF Render
  <2>3. ASSUME "activity" \in mounted, update = "activity" PROVE version["activity"] \in 1 .. (MaxChanges + MaxRequests)
    <3>1. version["activity"] \in Nat /\ version["activity"] >= 1
      BY <2>3 DEF NoticeInv, QueryTypes
    <3>2. Cardinality(Unanswered(requests)) \in Nat /\ version["activity"] + Cardinality(Unanswered(requests)) <= changes + sent
      BY <2>3, FewerUnanswered DEF CountInv
    <3>3. changes \in 0 .. MaxChanges /\ sent \in 0 .. MaxRequests /\ MaxChanges \in Nat /\ MaxRequests \in Nat
      BY QueryAssumption DEF CountInv
    <3> QED BY <3>1, <3>2, <3>3
  <2> QED BY <1>a, <2>1, <2>2, <2>3 DEF PageInv
<1>3. CASE Reload
  BY <1>3, <1>a DEF Reload, PageInv
<1>4. (\E k \in mounted : FetchStep(k)) => UNCHANGED <<mounted, realtime>> /\ fetchFailed' \subseteq mounted
  BY <1>a DEF FetchStep, Poll, HqReads, FetchSucceeds, FetchRejected
<1>5. (\E c \in Changes : OtherChange(c)) \/ NoticeArrives \/ SocketBreaks => UNCHANGED <<mounted, realtime, fetchFailed>>
  BY DEF OtherChange, NoticeArrives, SocketBreaks, cacheVars, feedVars
<1>6. (\E m \in Mutations : Mutate(m)) \/ (\E r \in requests : HqHandles(r) \/ Answered(r) \/ AnswerLost(r))
         => UNCHANGED <<mounted, realtime, fetchFailed>>
  BY DEF Mutate, HqHandles, Answered, AnswerLost, cacheVars, feedVars
<1>7. UNCHANGED qvVars => UNCHANGED <<mounted, realtime, fetchFailed>>
  BY DEF qvVars
<1> QED BY <1>1, <1>2, <1>3, <1>4, <1>5, <1>6, <1>7, <1>a DEF QvNext

(* What a tab holds of HQ's data -- loaded, on its way, from notices or    *)
(* from a mutation's answer -- is of HQ's data, of some time up to now, and*)
(* these have changed no more often than there were changes (QvTypeOK).    *)
THEOREM QueryTypesHold == QvSpec => []QvTypeOK
<1>1. QvInit => ViewsInv
  <2> SUFFICES ASSUME QvInit PROVE ViewsInv
    OBVIOUS
  <2>1. /\ version = [k \in mounted |-> 0] /\ requests = {} /\ changes = 0 /\ sent = 0
        /\ wire = << >> /\ update = Silent /\ realtime = {} /\ fetchFailed = {} /\ mounted \in Screens
    BY DEF QvInit
  <2>2. CountInv
    <3>1. IsFiniteSet(requests) /\ Cardinality(Unanswered(requests)) = 0
      BY <2>1, FS_EmptySet DEF Unanswered
    <3> QED BY <2>1, <3>1, QueryAssumption DEF CountInv
  <2>3. NoticeInv
    <3>1. << >> \in Seq(Notice) /\ Len(<< >>) = 0 /\ \A i \in 1 .. 0 : FALSE
      OBVIOUS
    <3> QED BY <2>1, <3>1 DEF NoticeInv, HasNotice, Silent
  <2>4. PageInv
    BY <2>1 DEF PageInv
  <2> QED BY <2>2, <2>3, <2>4 DEF ViewsInv
<1>2. QueryInv /\ ViewsInv /\ [QvNext]_qvVars => ViewsInv'
  BY CountInvStep, NoticeInvStep, PageInvStep DEF QueryInv, ViewsInv
<1>3. QueryInv /\ ViewsInv => QvTypeOK
  <2> SUFFICES ASSUME QueryInv, ViewsInv PROVE QvTypeOK
    OBVIOUS
  <2> DEFINE N == MaxChanges + MaxRequests
  <2>1. /\ version \in [mounted -> Nat] /\ shown \in [mounted -> Nat \cup {Unloaded}] /\ flight \in [mounted -> Fetch]
        /\ requests \subseteq SentRequest
        /\ \A k \in mounted : promised[k] <= version[k] /\ shown[k] <= version[k] /\ flight[k].saw <= version[k]
    BY DEF QueryInv, QueryTypes, NotAhead
  <2>2. \A k \in mounted : version[k] \in 0 .. N
    <3>1. Cardinality(Unanswered(requests)) \in Nat
          /\ \A k \in mounted : version[k] + Cardinality(Unanswered(requests)) <= changes + sent
      BY FewerUnanswered DEF ViewsInv, CountInv
    <3>2. changes \in 0 .. MaxChanges /\ sent \in 0 .. MaxRequests /\ MaxChanges \in Nat /\ MaxRequests \in Nat
      BY QueryAssumption DEF ViewsInv, CountInv
    <3>3. \A k \in mounted : version[k] \in Nat
      BY <2>1
    <3> QED BY <3>1, <3>2, <3>3
  <2>3. N \in Nat
    BY QueryAssumption
  <2> HIDE DEF N
  <2>4. version \in [mounted -> 0 .. N]
    BY <2>1, <2>2
  <2>5. shown \in [mounted -> {Unloaded} \cup 0 .. N]
    <3>1. \A k \in mounted : shown[k] \in {Unloaded} \cup 0 .. N
      BY <2>1, <2>2, <2>3
    <3> QED BY <2>1, <3>1
  <2>6. flight \in [mounted -> [stage : {"idle", "asked", "read"}, saw : 0 .. N, again : BOOLEAN]]
    <3>1. ASSUME NEW k \in mounted
          PROVE  flight[k] \in [stage : {"idle", "asked", "read"}, saw : 0 .. N, again : BOOLEAN]
      <4>1. flight[k] \in Fetch /\ flight[k].saw <= version[k] /\ version[k] \in 0 .. N
        BY <2>1, <2>2
      <4>2. flight[k].saw \in 0 .. N
        BY <2>3, <4>1 DEF Fetch
      <4> QED BY <4>1, <4>2 DEF Fetch
    <3> QED BY <2>1, <3>1
  <2>7. mounted \in Screens /\ fetchFailed \subseteq mounted /\ realtime \subseteq 1 .. N
    BY DEF ViewsInv, PageInv, N
  <2>8. \A r \in requests : r.hook \in Mutations /\ r.stage \in {"sent", "done", "refused"}
    BY <2>1 DEF SentRequest
  <2> QED BY <2>1, <2>4, <2>5, <2>6, <2>7, <2>8 DEF QvTypeOK, N
<1> QED BY <1>1, <1>2, <1>3, QueriesInvariant, PTL DEF QvSpec

-----------------------------------------------------------------------------
(* All the parts in one instance (MCHq). *)

HqFocus == focus \in {"state", "daemon", "tunnel", "preview", "settings", "push", "views"}

(* Each part moves as its own specification says, or not at all.           *)
LEMMA HqParts ==
  /\ Init => HqFocus /\ StateInit /\ SdInit /\ TnInit /\ PvInit /\ StgInit /\ IpInit /\ QvInit
  /\ [Next]_<<focus, stVars, sdVars, tnVars, pvVars, stgVars, ipVars, qvVars>> =>
        /\ [StateNext]_stVars /\ [SdNext]_sdVars /\ [TnNext]_tnVars /\ [PvNext]_pvVars
        /\ [StgNext]_stgVars /\ [IpNext]_ipVars /\ [QvNext]_qvVars /\ UNCHANGED focus
  BY DEF Init, Next, HqFocus

(* The instance the runs check is the seven parts' specifications at once. *)
THEOREM HqRefinesItsParts == Spec => StateSpec /\ SdSpec /\ TnSpec /\ PvSpec /\ StgSpec /\ IpSpec /\ QvSpec
  BY HqParts, PTL DEF Spec, StateSpec, SdSpec, TnSpec, PvSpec, StgSpec, IpSpec, QvSpec

(* Whichever part is watched, its files, queues, timers, children and      *)
(* counts hold only values its code can give them (HqTypeOK).              *)
THEOREM HqTypesHold == Spec => []HqTypeOK
  <1>1. HqFocus /\ UNCHANGED focus => HqFocus'
    BY DEF HqFocus
  <1>2. HqFocus /\ StateTypeOK /\ SdTypeOK /\ TnTypeOK /\ PvTypeOK /\ StgTypeOK /\ IpTypeOK /\ QvTypeOK => HqTypeOK
    BY Zenon DEF HqFocus, HqTypeOK
  <1>3. Spec => []HqFocus
    BY <1>1, HqParts, PTL DEF Spec
  <1> QED BY <1>2, <1>3, HqRefinesItsParts, StateTypeCorrect, SelfDaemonTypesHold, TunnelTypesHold,
             PreviewTypesHold, SettingsTypesHold, PushTypesHold, QueryTypesHold, PTL

=============================================================================

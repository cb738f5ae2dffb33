------------------------------ MODULE SelfDaemon ------------------------------
(***************************************************************************)
(* The spawner with which HQ supervises its own daemon                     *)
(* (server/self-daemon/spawner.ts) and the routes that start, stop and     *)
(* restart it.  An exit arms a backoff timer that spawns again; stop()     *)
(* waits for the exit of the child it signalled.                           *)
(***************************************************************************)
EXTENDS Naturals, FiniteSets

CONSTANTS
    DaemonChild,            \* processes that can be forked
    NoDaemonChild,          \* no process
    MaxDaemonRestarts,      \* maxRestarts
    MaxDaemonRequests       \* bound on requests of the operator

ASSUME SelfDaemonAssumption ==
    NoDaemonChild \notin DaemonChild /\ MaxDaemonRestarts \in Nat /\ MaxDaemonRequests \in Nat

VARIABLES
    childProcess,           \* childProcess
    running, spawnerStopping,
    restartAttempts,        \* restartCount
    timers,                 \* backoff timers pending; only the newest is in restartTimer
    daemonChildren,         \* "none", "alive", "failed" (no exit will come) or "gone"
    spawnerStops,           \* stop() calls: the child awaited, and what follows (the restart route starts)
    listening,              \* onListen awaiting ensureProjectRegistered
    daemonRequests,
    raced                   \* history: did start() spawn while a backoff timer was pending?

sdVars == <<childProcess, running, spawnerStopping, restartAttempts, timers, daemonChildren, spawnerStops,
            listening, daemonRequests, raced>>

Stop == [child : DaemonChild, restart : BOOLEAN]
Alive == {c \in DaemonChild : daemonChildren[c] = "alive"}

SdTypeOK ==
    /\ childProcess \in DaemonChild \cup {NoDaemonChild}
    /\ running \in BOOLEAN /\ spawnerStopping \in BOOLEAN
    /\ restartAttempts \in 0..MaxDaemonRestarts
    /\ timers.old \in 0..MaxDaemonRestarts /\ timers.newest \in BOOLEAN
    /\ daemonChildren \in [DaemonChild -> {"none", "alive", "failed", "gone"}]
    /\ spawnerStops \subseteq Stop
    /\ listening \in BOOLEAN /\ daemonRequests \in 0..MaxDaemonRequests /\ raced \in BOOLEAN

SdInit ==
    /\ childProcess = NoDaemonChild /\ running = FALSE /\ spawnerStopping = FALSE
    /\ restartAttempts = 0 /\ timers = [old |-> 0, newest |-> FALSE]
    /\ daemonChildren = [c \in DaemonChild |-> "none"]
    /\ spawnerStops = {} /\ listening = TRUE /\ daemonRequests = 0 /\ raced = FALSE

-----------------------------------------------------------------------------
(* spawn: the fork succeeds, or reports an 'error' and never an 'exit'.    *)
Spawn ==
    \E c \in DaemonChild, outcome \in {"alive", "failed"} :
        /\ daemonChildren[c] = "none"
        /\ daemonChildren' = [daemonChildren EXCEPT ![c] = outcome]
        /\ childProcess' = c /\ running' = TRUE

Pending == timers.newest \/ timers.old > 0

(* start, with auto-start enabled.                                         *)
Start ==
    IF running
    THEN UNCHANGED <<childProcess, running, spawnerStopping, daemonChildren, raced>>
    ELSE /\ spawnerStopping' = FALSE /\ Spawn
         /\ raced' = (raced \/ Pending)

(* stop up to its wait: clearTimeout reaches the newest timer.             *)
SpawnerStopKeepsTimer(restart) ==
    /\ spawnerStopping' = TRUE
    /\ UNCHANGED timers
    /\ IF childProcess = NoDaemonChild
       THEN running' = FALSE /\ UNCHANGED spawnerStops
       ELSE spawnerStops' = spawnerStops \cup {[child |-> childProcess, restart |-> restart]} /\ UNCHANGED running
SpawnerStop(restart) ==
    /\ spawnerStopping' = TRUE
    /\ timers' = [timers EXCEPT !.newest = FALSE]
    /\ IF childProcess = NoDaemonChild
       THEN running' = FALSE /\ UNCHANGED spawnerStops
       ELSE spawnerStops' = spawnerStops \cup {[child |-> childProcess, restart |-> restart]} /\ UNCHANGED running

(* onListen: the project was registered, then the daemon is started.       *)
Listening ==
    /\ listening /\ listening' = FALSE
    /\ Start
    /\ UNCHANGED <<restartAttempts, timers, spawnerStops, daemonRequests>>

DaemonRequest == daemonRequests < MaxDaemonRequests /\ daemonRequests' = daemonRequests + 1

RouteStart ==
    /\ DaemonRequest /\ ~running /\ Start
    /\ UNCHANGED <<restartAttempts, timers, spawnerStops, listening>>

(* The stop route refuses while nothing runs, in a backoff too.            *)
RouteStop ==
    /\ DaemonRequest /\ running /\ SpawnerStop(FALSE)
    /\ UNCHANGED <<childProcess, restartAttempts, daemonChildren, listening, raced>>

RouteRestart ==
    /\ DaemonRequest
    /\ IF running
       THEN SpawnerStop(TRUE) /\ UNCHANGED <<childProcess, daemonChildren, raced>>
       ELSE Start /\ UNCHANGED <<timers, spawnerStops>>
    /\ UNCHANGED <<restartAttempts, listening>>

(* onClose: stop(), whatever runs.                                         *)
OnClose ==
    /\ DaemonRequest /\ SpawnerStop(FALSE)
    /\ UNCHANGED <<childProcess, restartAttempts, daemonChildren, listening, raced>>

RestartsOnceMore(code) == ~spawnerStopping /\ code # 78 /\ restartAttempts <= MaxDaemonRestarts
Restarts(code) == ~spawnerStopping /\ code # 78 /\ restartAttempts < MaxDaemonRestarts

(* The 'exit' handlers of a child, the spawner's first, then those of the  *)
(* stops that wait for it; they all clear childProcess, whichever child    *)
(* that is.  78 is the code of a refused token.                            *)
DaemonChildExits(c, code) ==
    /\ daemonChildren[c] = "alive"
    /\ daemonChildren' = [daemonChildren EXCEPT ![c] = "gone"]
    /\ running' = FALSE /\ childProcess' = NoDaemonChild
    /\ IF Restarts(code)
       THEN /\ restartAttempts' = restartAttempts + 1
            /\ timers' = [old |-> timers.old + (IF timers.newest THEN 1 ELSE 0), newest |-> TRUE]
       ELSE UNCHANGED <<restartAttempts, timers>>
    /\ UNCHANGED <<spawnerStopping, spawnerStops, listening, daemonRequests, raced>>

(* A stop() is resolved; the restart route goes on with start().           *)
StopResolved(s) ==
    /\ daemonChildren[s.child] = "gone"
    /\ spawnerStops' = spawnerStops \ {s}
    /\ IF s.restart THEN Start
       ELSE UNCHANGED <<childProcess, running, spawnerStopping, daemonChildren, raced>>
    /\ UNCHANGED <<restartAttempts, timers, listening, daemonRequests>>

(* The backoff is over: spawn, whatever happened since it was armed.       *)
RestartTimer ==
    /\ Pending
    /\ \/ timers.newest /\ timers' = [timers EXCEPT !.newest = FALSE]
       \/ timers.old > 0 /\ timers' = [timers EXCEPT !.old = @ - 1]
    /\ Spawn
    /\ UNCHANGED <<spawnerStopping, restartAttempts, spawnerStops, listening, daemonRequests, raced>>

SdNext ==
    \/ Listening \/ RouteStart \/ RouteStop \/ RouteRestart \/ OnClose \/ RestartTimer
    \/ \E c \in DaemonChild, code \in {0, 78} : DaemonChildExits(c, code)
    \/ \E s \in spawnerStops : StopResolved(s)

SdSpec == SdInit /\ [][SdNext]_sdVars

-----------------------------------------------------------------------------
(* Properties. *)

(* Unless somebody started the daemon during a backoff -- the pending      *)
(* timer then spawns a second one that childProcess may not name -- HQ     *)
(* supervises the only daemon there is, nothing is spawned behind a        *)
(* running one, and after a stop that was answered no daemon runs and none *)
(* will be spawned, however exits, stops, restarts and timers interleave.  *)
OneSupervisedDaemon ==
    ~raced =>
        /\ \A c \in Alive : running /\ childProcess = c
        /\ running => ~Pending
        /\ spawnerStopping /\ spawnerStops = {} => (Alive = {} /\ ~Pending)
=============================================================================

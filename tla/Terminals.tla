------------------------------- MODULE Terminals -------------------------------
(***************************************************************************)
(* Terminals: Copilot CLI sessions (daemon/copilot-cli/manager.ts), which  *)
(* buffer their output and replay it, and shells (daemon/terminal), which  *)
(* do not; HQ's relay of their output (server/terminal-relay) and tracker  *)
(* of shells (routes/terminals.ts); and tabs that look at one at a time    *)
(* (components/Terminal.tsx, contexts/SessionContext.tsx).                 *)
(*                                                                         *)
(* A tab joins over its WebSocket and asks for the replay over HTTP, so    *)
(* the two meet at HQ in either order.  `attached' is one flag for all     *)
(* tabs.  Output is chunks, numbered as the process writes them.           *)
(***************************************************************************)
EXTENDS Naturals, Sequences, FiniteSets

CONSTANTS
    Tab, Cli, Shell,    \* browser tabs; sessions and shells by id
    Nothing, Waiting,   \* a tab shows no terminal; a tab waits for its shell
    MaxOutput,          \* bound on the chunks a process writes
    MaxRing,            \* MAX_BUFFER_BYTES, in chunks
    MaxClicks, MaxLoss  \* bounds on what users do and on lost connections

ASSUME TerminalsAssumption ==
    /\ Cli \cap Shell = {} /\ {Nothing, Waiting} \cap (Cli \cup Shell) = {} /\ Nothing # Waiting
    /\ {MaxOutput, MaxClicks, MaxLoss} \subseteq Nat /\ MaxRing \in Nat \ {0}

VARIABLES
    pty, made,      \* daemon: the processes, and how many chunks each wrote
    ringBuffer, attached,
    toDaemon, toHq, linked,     \* the daemon's link to HQ, in order
    issued, tracker,    \* HQ: the ids of shells it made up, and those it lists
    bindings,       \* HQ: the tabs that joined each terminal
    wsWire,         \* per tab, joins and leaves HQ has not read
    posts,          \* HTTP requests under way, in no order
    spawned,        \* answers to a spawn: tab and shell
    viewing, resumeTimer,       \* per tab: what it shows; is the delayed resume set?
    seen,           \* per tab, the last chunk on the screen, 0 for a blank one
    synced,         \* history: tabs whose screen was complete once, nothing lost since
    clicks, losses

daemonTermVars == <<pty, made, ringBuffer, attached>>
wireTermVars == <<toDaemon, toHq, linked>>
hqTermVars == <<issued, tracker, bindings>>
tabTermVars == <<wsWire, posts, spawned, viewing, resumeTimer, seen, synced>>
tmVars == <<daemonTermVars, wireTermVars, hqTermVars, tabTermVars, clicks, losses>>

Term == Cli \cup Shell
Data(t, last, replay) == [type |-> "data", term |-> t, last |-> last, replay |-> replay]
Exit(t) == [type |-> "exit", term |-> t]
HttpPost(op, c, t) == [op |-> op, tab |-> c, term |-> t]
PostOps == {"spawn", "kill", "resume", "disconnect", "delete"}

TmTypeOK ==
    /\ pty \in [Term -> {"none", "running", "gone"}] /\ made \in [Term -> 0..MaxOutput]
    /\ \A t \in Cli : ringBuffer[t] \in Seq(1..MaxOutput) /\ Len(ringBuffer[t]) <= MaxRing
    /\ attached \subseteq Cli /\ {issued, tracker} \subseteq SUBSET Shell /\ linked \in BOOLEAN
    /\ \A i \in DOMAIN toDaemon : toDaemon[i].op \in PostOps /\ toDaemon[i].term \in Term
    /\ \A i \in DOMAIN toHq : toHq[i].type \in {"data", "exit"} /\ toHq[i].term \in Term
    /\ bindings \in [Term -> SUBSET Tab]
    /\ \A c \in Tab : wsWire[c] \in Seq({"join", "leave"} \X Term)
    /\ \A p \in posts : p.op \in PostOps /\ p.tab \in Tab \cup {Nothing} /\ p.term \in Term \cup {Waiting}
    /\ spawned \subseteq Tab \X Shell
    /\ viewing \in [Tab -> Term \cup {Nothing, Waiting}] /\ resumeTimer \in [Tab -> BOOLEAN]
    /\ seen \in [Tab -> 0..MaxOutput] /\ synced \subseteq Tab
    /\ clicks \in 0..MaxClicks /\ losses \in 0..MaxLoss

TmInit ==
    /\ pty = [t \in Term |-> "none"] /\ made = [t \in Term |-> 0]
    /\ ringBuffer = [t \in Cli |-> <<>>] /\ attached = {}
    /\ toDaemon = <<>> /\ toHq = <<>> /\ linked = TRUE
    /\ issued = {} /\ tracker = {} /\ bindings = [t \in Term |-> {}]
    /\ wsWire = [c \in Tab |-> <<>>] /\ posts = {} /\ spawned = {}
    /\ viewing = [c \in Tab |-> Nothing] /\ resumeTimer = [c \in Tab |-> FALSE]
    /\ seen = [c \in Tab |-> 0] /\ synced = {} /\ clicks = 0 /\ losses = 0

-----------------------------------------------------------------------------
(* Messages the daemon sends while the link is down are lost.              *)
Emit(msgs) == toHq' = IF linked THEN toHq \o msgs ELSE toHq

(* createSession: a CLI session starts detached.                           *)
CreateSession(t) ==
    /\ pty[t] = "none" /\ pty' = [pty EXCEPT ![t] = "running"]
    /\ UNCHANGED <<made, ringBuffer, attached, wireTermVars, hqTermVars, tabTermVars, clicks, losses>>

(* onData: always into the buffer, whose oldest chunks go, and live to HQ  *)
(* when attached.  A shell's output only goes to HQ.                       *)
PushUntrimmed(t, chunk) == Append(ringBuffer[t], chunk)
PushOnlyDetached(t, chunk) == IF t \in attached THEN ringBuffer[t] ELSE <<chunk>>
Push(t, chunk) ==
    LET all == Append(ringBuffer[t], chunk)
    IN IF Len(all) > MaxRing THEN Tail(all) ELSE all

OnData(t) ==
    /\ pty[t] = "running" /\ made[t] < MaxOutput
    /\ LET chunk == made[t] + 1
           live == t \in Shell \/ t \in attached
       IN /\ made' = [made EXCEPT ![t] = chunk]
          /\ ringBuffer' = IF t \in Shell THEN ringBuffer ELSE [ringBuffer EXCEPT ![t] = Push(t, chunk)]
          /\ Emit(IF live THEN <<Data(t, chunk, FALSE)>> ELSE <<>>)
    /\ UNCHANGED <<pty, attached, toDaemon, linked, hqTermVars, tabTermVars, clicks, losses>>

OnExit(t) ==
    /\ pty[t] = "running" /\ pty' = [pty EXCEPT ![t] = "gone"]
    /\ Emit(<<Exit(t)>>)
    /\ UNCHANGED <<made, ringBuffer, attached, toDaemon, linked, hqTermVars, tabTermVars, clicks, losses>>

(* resumeSession replays the buffer, if there is one, and streams on.      *)
ResumeSession(t) ==
    /\ attached' = attached \cup {t}
    /\ Emit(IF ringBuffer[t] = <<>> THEN <<>> ELSE <<Data(t, ringBuffer[t][Len(ringBuffer[t])], TRUE)>>)
    /\ UNCHANGED pty

DetachSession(t) == attached' = attached \ {t} /\ UNCHANGED <<pty, toHq>>

(* endSession: the exit handler reports the end of the process.            *)
EndSession(t) ==
    /\ pty' = [pty EXCEPT ![t] = "gone"] /\ Emit(<<Exit(t)>>) /\ UNCHANGED attached

SpawnShell(t) == pty' = [pty EXCEPT ![t] = "running"] /\ UNCHANGED <<attached, toHq>>

(* kill disposes the handlers first, so nobody hears of the exit.          *)
Kill(t) == pty' = [pty EXCEPT ![t] = "gone"] /\ UNCHANGED <<attached, toHq>>

DaemonHandlesTerminal ==
    /\ linked /\ toDaemon # <<>> /\ toDaemon' = Tail(toDaemon)
    /\ LET op == Head(toDaemon).op
           t == Head(toDaemon).term
       IN \/ op = "spawn" /\ SpawnShell(t)
          \/ pty[t] = "running" /\ \/ op = "resume" /\ ResumeSession(t)
                                   \/ op = "disconnect" /\ DetachSession(t)
                                   \/ op = "delete" /\ EndSession(t)
                                   \/ op = "kill" /\ Kill(t)
          \/ op # "spawn" /\ pty[t] # "running" /\ UNCHANGED <<pty, attached, toHq>>
    /\ UNCHANGED <<made, ringBuffer, linked, hqTermVars, tabTermVars, clicks, losses>>

-----------------------------------------------------------------------------
(* What the screen holds after a message.  A chunk that does not follow    *)
(* the last one leaves a hole, and the screen stays behind for good.       *)
Written(c, m) ==
    IF m.replay \/ seen[c] \in {0, m.last - 1} THEN m.last ELSE seen[c]

(* forwardFromDaemon and forwardExitFromDaemon.                            *)
RelayForwards ==
    /\ toHq # <<>> /\ toHq' = Tail(toHq)
    /\ LET m == Head(toHq)
           viewers == {c \in bindings[m.term] : viewing[c] = m.term}
       IN \/ /\ m.type = "data"
             /\ seen' = [c \in Tab |-> IF c \in viewers THEN Written(c, m) ELSE seen[c]]
             /\ synced' = IF m.replay THEN synced \cup {c \in viewers : wsWire[c] = <<>>} ELSE synced
             /\ UNCHANGED bindings
          \/ /\ m.type = "exit"
             /\ bindings' = [bindings EXCEPT ![m.term] = {}]
             /\ synced' = synced \ viewers
             /\ UNCHANGED seen
    /\ UNCHANGED <<daemonTermVars, toDaemon, linked, issued, tracker, wsWire, posts, spawned, viewing,
                   resumeTimer, clicks, losses>>

(* join and leave.  A shell has no replay: its screen starts here.         *)
RelayJoinsLeaves(c) ==
    /\ wsWire[c] # <<>> /\ wsWire' = [wsWire EXCEPT ![c] = Tail(@)]
    /\ LET op == Head(wsWire[c])[1]
           t == Head(wsWire[c])[2]
           starts == op = "join" /\ t \in Shell /\ viewing[c] = t /\ pty[t] # "gone"
           onTheWay == Cardinality({i \in DOMAIN toHq : toHq[i].type = "data" /\ toHq[i].term = t})
       IN /\ bindings' = [bindings EXCEPT ![t] = IF op = "join" THEN @ \cup {c} ELSE @ \ {c}]
          /\ synced' = IF starts /\ linked THEN synced \cup {c} ELSE synced
          /\ seen' = IF starts THEN [seen EXCEPT ![c] = made[t] - onTheWay] ELSE seen
    /\ UNCHANGED <<daemonTermVars, wireTermVars, issued, tracker, posts, spawned, viewing, resumeTimer, clicks, losses>>

(* The routes: nothing is sent, tracked or forgotten while the daemon is   *)
(* not connected.  POST terminal invents the id.                           *)
RouteHandles(p) ==
    /\ p \in posts /\ posts' = posts \ {p}
    /\ \/ ~linked /\ UNCHANGED <<toDaemon, issued, tracker, spawned>>
       \/ /\ linked /\ p.op # "spawn"
          /\ toDaemon' = Append(toDaemon, p)
          /\ tracker' = IF p.op = "kill" THEN tracker \ {p.term} ELSE tracker
          /\ UNCHANGED <<issued, spawned>>
       \/ /\ linked /\ p.op = "spawn"
          /\ \E t \in Shell \ issued :
                /\ issued' = issued \cup {t}
                /\ toDaemon' = Append(toDaemon, [p EXCEPT !.term = t])
                /\ tracker' = tracker \cup {t}
                /\ spawned' = IF p.tab = Nothing THEN spawned ELSE spawned \cup {<<p.tab, t>>}
    /\ UNCHANGED <<daemonTermVars, toHq, linked, bindings, wsWire, viewing, resumeTimer, seen, synced, clicks, losses>>

-----------------------------------------------------------------------------
Click == clicks < MaxClicks /\ clicks' = clicks + 1

(* What leaving the terminal on the screen sends: the effect's leave, the  *)
(* context's disconnect of a CLI session, the kill of a shell of our own.  *)
LeaveMessages(c) == IF viewing[c] \in Term THEN <<<<"leave", viewing[c]>>>> ELSE <<>>
LeavePosts(c) ==
    CASE viewing[c] \in Cli -> {HttpPost("disconnect", c, viewing[c])}
      [] viewing[c] \in Shell -> {HttpPost("kill", c, viewing[c])}
      [] OTHER -> {}

(* The clean-up of a spawn under way sets `cancelled': its answer will be  *)
(* dropped, and nothing kills the shell.                                   *)
Cancelled(c) ==
    {IF p.op = "spawn" /\ p.tab = c THEN [p EXCEPT !.tab = Nothing] ELSE p : p \in posts}

Show(c, t, messages, requests) ==
    /\ viewing' = [viewing EXCEPT ![c] = t]
    /\ wsWire' = [wsWire EXCEPT ![c] = @ \o LeaveMessages(c) \o messages]
    /\ posts' = Cancelled(c) \cup LeavePosts(c) \cup requests
    /\ spawned' = {a \in spawned : a[1] # c}
    /\ resumeTimer' = [resumeTimer EXCEPT ![c] = t \in Cli]
    /\ seen' = [seen EXCEPT ![c] = 0] /\ synced' = synced \ {c}
    /\ UNCHANGED <<daemonTermVars, wireTermVars, hqTermVars, losses>>

(* selectSession on a CLI session: a resume at once, one after the delay.  *)
SelectSession(c, t) ==
    /\ Click /\ viewing[c] # t /\ pty[t] = "running"
    /\ Show(c, t, <<<<"join", t>>>>, {HttpPost("resume", c, t)})

ResumeDelayOver(c) ==
    /\ resumeTimer[c] /\ resumeTimer' = [resumeTimer EXCEPT ![c] = FALSE]
    /\ posts' = posts \cup {HttpPost("resume", c, viewing[c])}
    /\ UNCHANGED <<daemonTermVars, wireTermVars, hqTermVars, wsWire, spawned, viewing, seen, synced, clicks, losses>>

OpenTerminal(c) ==
    /\ Click /\ viewing[c] \notin Shell \cup {Waiting}
    /\ Show(c, Waiting, <<>>, {HttpPost("spawn", c, Waiting)})

CloseTerminal(c) ==
    /\ Click /\ viewing[c] # Nothing
    /\ Show(c, Nothing, <<>>, {})

(* The answer of the spawn: the tab joins what it will show.               *)
SpawnAnswered(c, t) ==
    /\ <<c, t>> \in spawned /\ spawned' = spawned \ {<<c, t>>}
    /\ viewing' = [viewing EXCEPT ![c] = t]
    /\ wsWire' = [wsWire EXCEPT ![c] = Append(@, <<"join", t>>)]
    /\ UNCHANGED <<daemonTermVars, wireTermVars, hqTermVars, posts, resumeTimer, seen, synced, clicks, losses>>

DeleteSession(t) ==
    /\ Click /\ pty[t] = "running"
    /\ \E c \in Tab : posts' = posts \cup {HttpPost("delete", c, t)}
    /\ UNCHANGED <<daemonTermVars, wireTermVars, hqTermVars, wsWire, spawned, viewing, resumeTimer, seen, synced, losses>>

-----------------------------------------------------------------------------
Loss == losses < MaxLoss /\ losses' = losses + 1

(* A tab's WebSocket breaks: removeClient; on the next one it joins again, *)
(* but asks for no replay.                                                 *)
TabReconnects(c) ==
    /\ Loss
    /\ bindings' = [t \in Term |-> bindings[t] \ {c}]
    /\ wsWire' = [wsWire EXCEPT ![c] = IF viewing[c] \in Term THEN <<<<"join", viewing[c]>>>> ELSE <<>>]
    /\ synced' = synced \ {c}
    /\ UNCHANGED <<daemonTermVars, wireTermVars, issued, tracker, posts, spawned, viewing, resumeTimer, seen, clicks>>

(* The daemon's link breaks; processes, `attached' and bindings stay.      *)
LinkBreaks ==
    /\ Loss /\ linked /\ linked' = FALSE
    /\ toDaemon' = <<>> /\ toHq' = <<>> /\ synced' = {}
    /\ UNCHANGED <<daemonTermVars, hqTermVars, wsWire, posts, spawned, viewing, resumeTimer, seen, clicks>>

LinkReturns ==
    /\ ~linked /\ linked' = TRUE
    /\ UNCHANGED <<daemonTermVars, toDaemon, toHq, hqTermVars, tabTermVars, clicks, losses>>

TmNext ==
    \/ \E t \in Cli : CreateSession(t) \/ DeleteSession(t)
    \/ \E t \in Term : OnData(t) \/ OnExit(t)
    \/ DaemonHandlesTerminal \/ RelayForwards
    \/ \E p \in posts : RouteHandles(p)
    \/ \E c \in Tab : RelayJoinsLeaves(c) \/ ResumeDelayOver(c) \/ OpenTerminal(c) \/ CloseTerminal(c)
    \/ \E c \in Tab, t \in Cli : SelectSession(c, t)
    \/ \E c \in Tab, t \in Shell : SpawnAnswered(c, t)
    \/ \E c \in Tab : TabReconnects(c)
    \/ LinkBreaks \/ LinkReturns

TmSpec == TmInit /\ [][TmNext]_tmVars

-----------------------------------------------------------------------------
(* A tab that, after it joined, got a replay of a CLI session, or that     *)
(* joined a shell, and lost no connection since has every chunk on its     *)
(* screen once nothing is on the way: whatever other tabs resume, detach   *)
(* or leave, in any order of their joins and requests.                     *)
ScreenIsComplete ==
    \A c \in synced :
        LET t == viewing[c]
        IN /\ t \in attached \cup Shell /\ c \in bindings[t]
           /\ \A i \in DOMAIN toHq : toHq[i].term # t
           => seen[c] = made[t]
================================================================================

----------------------------- MODULE DaemonLink -----------------------------
(***************************************************************************)
(* The connection between project daemons and the HQ server:               *)
(*   daemon side   src/src/daemon/client.ts        (DaemonClient)          *)
(*   HQ side       src/src/server/daemon-registry/ (DaemonWsHandler,       *)
(*                 DaemonRegistry, the plugin's token lookup)              *)
(*                                                                         *)
(* A connection is a slot of Conn with two ends that open, close and are   *)
(* lost independently.  A slot is taken by createWs and is free again once *)
(* neither side holds anything of the socket it stood for, so that any     *)
(* number of reconnections fits in a few slots.  Each end is a `ws'        *)
(* socket: close() starts the closing handshake and the end stays in       *)
(* "closing" (it still receives) until the peer's close frame arrives.     *)
(*                                                                         *)
(* Delays are abstracted: an armed timer may fire at any time.  What only  *)
(* a slow or broken network can bring about is a fault, and the model      *)
(* admits at most MaxFaults of them.                                       *)
(***************************************************************************)
EXTENDS Naturals, Sequences

CONSTANTS
    Proc,            \* daemon processes
    Project,         \* project identifiers
    ProjOf,          \* the project a daemon process is configured for
    Conn,            \* connection slots
    NoConn,          \* "no socket" (null)
    ValidToken,      \* processes whose token is the project's token
    LookupMayThrow,  \* can the token lookup reject (state service failure)?
    MaxFaults        \* bound on faults

ASSUME ProjOfAssumption == ProjOf \in [Proc -> Project]
ASSUME NoConnAssumption == NoConn \notin Conn
ASSUME ValidTokenAssumption == ValidToken \subseteq Proc
ASSUME FaultAssumption == MaxFaults \in Nat /\ LookupMayThrow \in BOOLEAN

VARIABLES
    \* --- transport ---
    cEnd,       \* client end of each slot
    sEnd,       \* server end of each slot
    toD, toH,   \* frames in flight to the daemon and to HQ
    opener,     \* the process that opened the slot
    \* --- daemon processes ---
    mode,       \* "off", "running", "exited" (exit code 78)
    ws,         \* DaemonClient.ws
    authed,     \* DaemonClient.authenticated
    hb,         \* is heartbeatTimer armed?
    rtimer,     \* is reconnectTimer armed?
    \* --- HQ ---
    pending,    \* sockets in DaemonWsHandler.pending
    authTimer,  \* sockets whose authTimer is armed
    looking,    \* sockets whose handleAuthResponse awaits tokenLookup
    wsId,       \* sockets in wsToDaemonId
    reg,        \* the socket of each project's registry entry
    beat,       \* heartbeat or registration since the last checkHeartbeats
    \* --- environment ---
    faults

netVars    == <<cEnd, sEnd, toD, toH, opener>>
daemonVars == <<mode, ws, authed, hb, rtimer>>
hqVars     == <<pending, authTimer, looking, wsId, reg, beat>>
vars       == <<netVars, daemonVars, hqVars, faults>>

ClientEnds == {"connecting", "open", "closing", "closed"}
ServerEnds == {"none", "open", "closing", "closed"}
ToDaemon   == {"auth-challenge", "auth-accept", "auth-reject", "close", "close-4001"}
ToHq       == {"auth-response", "register", "heartbeat", "close"}

TypeOK ==
    /\ cEnd \in [Conn -> ClientEnds]
    /\ sEnd \in [Conn -> ServerEnds]
    /\ toD \in [Conn -> Seq(ToDaemon)]
    /\ toH \in [Conn -> Seq(ToHq)]
    /\ opener \in [Conn -> Proc]
    /\ mode \in [Proc -> {"off", "running", "exited"}]
    /\ ws \in [Proc -> Conn \cup {NoConn}]
    /\ authed \in [Proc -> BOOLEAN]
    /\ hb \in [Proc -> BOOLEAN]
    /\ rtimer \in [Proc -> BOOLEAN]
    /\ pending \subseteq Conn
    /\ authTimer \subseteq Conn
    /\ looking \subseteq Conn
    /\ wsId \subseteq Conn
    /\ reg \in [Project -> Conn \cup {NoConn}]
    /\ beat \in [Project -> BOOLEAN]
    /\ faults \in Nat

Init ==
    /\ cEnd = [c \in Conn |-> "closed"]
    /\ sEnd = [c \in Conn |-> "closed"]
    /\ toD = [c \in Conn |-> << >>]
    /\ toH = [c \in Conn |-> << >>]
    /\ opener \in [Conn -> Proc]
    /\ \A c, d \in Conn : opener[c] = opener[d]
    /\ mode = [p \in Proc |-> "off"]
    /\ ws = [p \in Proc |-> NoConn]
    /\ authed = [p \in Proc |-> FALSE]
    /\ hb = [p \in Proc |-> FALSE]
    /\ rtimer = [p \in Proc |-> FALSE]
    /\ pending = {} /\ authTimer = {} /\ looking = {} /\ wsId = {}
    /\ reg = [j \in Project |-> NoConn]
    /\ beat = [j \in Project |-> FALSE]
    /\ faults = 0

-----------------------------------------------------------------------------
(* Helpers. *)

ProjectOf(c) == ProjOf[opener[c]]

(* Nothing of the socket that used this slot is left on either side. *)
Free(c) ==
    /\ cEnd[c] = "closed" /\ sEnd[c] = "closed"
    /\ toD[c] = << >> /\ toH[c] = << >>
    /\ c \notin looking
    /\ \A p \in Proc : ws[p] # c

(* A step that needs a slow or failing environment. *)
Fault == faults < MaxFaults /\ faults' = faults + 1

(* DaemonClient.send: dropped unless the socket is open; lost when the     *)
(* server end is already gone.                                             *)
SentToHq(c, m) == IF cEnd[c] = "open" /\ sEnd[c] # "closed"
                  THEN [toH EXCEPT ![c] = Append(@, m)] ELSE toH

(* ws.send on the server: dropped once the socket left the open state.     *)
Delivered(q, c, m) == IF sEnd[c] = "open" /\ cEnd[c] # "closed"
                      THEN [q EXCEPT ![c] = Append(@, m)] ELSE q

(* ws.close(code) on the server ends in C.                                 *)
Closing(C) == [c \in Conn |-> IF c \in C /\ sEnd[c] = "open" THEN "closing" ELSE sEnd[c]]
CloseFrames(q, C, frame) ==
    [c \in Conn |-> IF c \in C /\ sEnd[c] = "open" /\ cEnd[c] # "closed"
                    THEN Append(q[c], frame) ELSE q[c]]

(* Mutants of handleDisconnect: it unregisters the daemon the socket once  *)
(* registered without comparing sockets; it forgets to unregister.         *)
HandleDisconnectByProject(C) ==
    /\ pending' = pending \ C
    /\ authTimer' = authTimer \ C
    /\ wsId' = wsId \ C
    /\ reg' = [j \in Project |-> IF \E c \in C \cap wsId : ProjectOf(c) = j
                                THEN NoConn ELSE reg[j]]
    /\ UNCHANGED <<looking, beat>>

HandleDisconnectKeepsEntry(C) ==
    /\ pending' = pending \ C
    /\ authTimer' = authTimer \ C
    /\ wsId' = wsId \ C
    /\ UNCHANGED <<looking, beat, reg>>

(* DaemonWsHandler.handleDisconnect for the sockets in C: only the daemon  *)
(* whose entry holds the socket is unregistered.                           *)
HandleDisconnect(C) ==
    /\ pending' = pending \ C
    /\ authTimer' = authTimer \ C
    /\ wsId' = wsId \ C
    /\ reg' = [j \in Project |-> IF reg[j] \in C THEN NoConn ELSE reg[j]]
    /\ UNCHANGED <<looking, beat>>

(* Mutants of the 'close' handler: scheduleReconnect() before cleanup(),   *)
(* which clears the timer; cleanup() without stopHeartbeat(); an exit code *)
(* for a rejected token that nobody tells from a crash.                    *)
ClientClosedTimerCleared(p, code) ==
    /\ authed' = [authed EXCEPT ![p] = FALSE]
    /\ hb' = [hb EXCEPT ![p] = FALSE]
    /\ rtimer' = [rtimer EXCEPT ![p] = FALSE]
    /\ UNCHANGED <<mode, ws>>

ClientClosedExitsWithOne(p, code) ==
    /\ authed' = [authed EXCEPT ![p] = FALSE]
    /\ hb' = [hb EXCEPT ![p] = FALSE]
    /\ mode' = IF code = "close-4001" THEN [mode EXCEPT ![p] = "exit code 1"] ELSE mode
    /\ rtimer' = [rtimer EXCEPT ![p] = code # "close-4001"]
    /\ UNCHANGED ws

ClientClosedKeepsHeartbeat(p, code) ==
    /\ authed' = [authed EXCEPT ![p] = FALSE]
    /\ rtimer' = [rtimer EXCEPT ![p] = TRUE]
    /\ UNCHANGED <<mode, ws, hb>>

(* The client's 'close' event on its current socket: cleanup(), then exit  *)
(* on 4001 or scheduleReconnect().                                         *)
ClientClosed(p, code) ==
    /\ authed' = [authed EXCEPT ![p] = FALSE]
    /\ hb' = [hb EXCEPT ![p] = FALSE]
    /\ IF code = "close-4001"
       THEN /\ mode' = [mode EXCEPT ![p] = "exited"]
            /\ rtimer' = [rtimer EXCEPT ![p] = FALSE]
            /\ ws' = [ws EXCEPT ![p] = NoConn]
       ELSE /\ rtimer' = [rtimer EXCEPT ![p] = TRUE]
            /\ UNCHANGED <<mode, ws>>

(* The client end of c is gone: its 'close' event runs if the socket still *)
(* has its listeners, that is if it is the current socket of a process.    *)
ClientEndGone(c, code) ==
    LET p == opener[c] IN
    IF mode[p] = "running" /\ ws[p] = c
    THEN ClientClosed(p, code)
    ELSE UNCHANGED daemonVars

(* DaemonClient.connect with this.ws null: createWs takes a slot, or        *)
(* throws (a fault): 'error' is emitted and scheduleReconnect() arms the   *)
(* timer.                                                                  *)
Connect(p) ==
    \/ \E c \in Conn :
          /\ Free(c)
          /\ cEnd' = [cEnd EXCEPT ![c] = "connecting"]
          /\ sEnd' = [sEnd EXCEPT ![c] = "none"]
          /\ opener' = [opener EXCEPT ![c] = p]
          /\ ws' = [ws EXCEPT ![p] = c]
          /\ rtimer' = [rtimer EXCEPT ![p] = FALSE]
          /\ UNCHANGED <<toD, toH, faults>>
    \/ /\ Fault
       /\ ws' = [ws EXCEPT ![p] = NoConn]
       /\ rtimer' = [rtimer EXCEPT ![p] = TRUE]
       /\ UNCHANGED netVars

-----------------------------------------------------------------------------
(* Daemon process. *)

(* startDaemon: client.connect() of a new process.                         *)
DaemonStart(p) ==
    /\ mode[p] = "off"
    /\ mode' = [mode EXCEPT ![p] = "running"]
    /\ Connect(p)
    /\ UNCHANGED <<authed, hb, hqVars>>

(* The reconnect timer fires: reconnectTimer = null, ws = null, connect(). *)
ReconnectTimer(p) ==
    /\ rtimer[p]
    /\ Connect(p)
    /\ UNCHANGED <<mode, authed, hb, hqVars>>

(* The heartbeat interval fires.  At most one heartbeat is kept in flight. *)
HeartbeatTimer(p) ==
    /\ hb[p]
    /\ LET c == ws[p] IN
       /\ c \in Conn
       /\ \A i \in DOMAIN toH[c] : toH[c][i] # "heartbeat"
       /\ toH' = SentToHq(c, "heartbeat")
    /\ UNCHANGED <<cEnd, sEnd, toD, opener, daemonVars, hqVars, faults>>

(* shutdown(): client.disconnect() removes the listeners, then closes an   *)
(* open socket and terminates any other.                                   *)
Shutdown(p) ==
    /\ mode[p] = "running" /\ Fault
    /\ mode' = [mode EXCEPT ![p] = "off"]
    /\ ws' = [ws EXCEPT ![p] = NoConn]
    /\ authed' = [authed EXCEPT ![p] = FALSE]
    /\ hb' = [hb EXCEPT ![p] = FALSE]
    /\ rtimer' = [rtimer EXCEPT ![p] = FALSE]
    /\ LET c == ws[p] IN
       IF c \in Conn
       THEN /\ cEnd' = [cEnd EXCEPT ![c] = IF @ = "open" THEN "closing" ELSE "closed"]
            /\ toH' = SentToHq(c, "close")
            /\ toD' = IF cEnd[c] = "open" THEN toD ELSE [toD EXCEPT ![c] = << >>]
            /\ sEnd' = IF sEnd[c] = "none" THEN [sEnd EXCEPT ![c] = "closed"] ELSE sEnd
       ELSE UNCHANGED <<cEnd, toH, toD, sEnd>>
    /\ UNCHANGED <<opener, hqVars>>

(* The process dies (kill, crash): its timers and its end of the socket go.*)
DaemonCrash(p) ==
    /\ mode[p] = "running" /\ Fault
    /\ mode' = [mode EXCEPT ![p] = "off"]
    /\ ws' = [ws EXCEPT ![p] = NoConn]
    /\ authed' = [authed EXCEPT ![p] = FALSE]
    /\ hb' = [hb EXCEPT ![p] = FALSE]
    /\ rtimer' = [rtimer EXCEPT ![p] = FALSE]
    /\ LET c == ws[p] IN
       IF c \in Conn
       THEN /\ cEnd' = [cEnd EXCEPT ![c] = "closed"]
            /\ toD' = [toD EXCEPT ![c] = << >>]
            /\ sEnd' = IF sEnd[c] = "none" THEN [sEnd EXCEPT ![c] = "closed"] ELSE sEnd
       ELSE UNCHANGED <<cEnd, toD, sEnd>>
    /\ UNCHANGED <<toH, opener, hqVars>>

(* The 'open' event: HQ has answered the upgrade.                          *)
ClientOpen(c) ==
    /\ cEnd[c] = "connecting" /\ sEnd[c] # "none"
    /\ cEnd' = [cEnd EXCEPT ![c] = "open"]
    /\ UNCHANGED <<sEnd, toD, toH, opener, daemonVars, hqVars, faults>>

(* A frame reaches the client (handleMessage; 'close').                    *)
ClientReceive(c) ==
    /\ cEnd[c] \in {"open", "closing"} /\ toD[c] # << >>
    /\ LET p == opener[c]
           m == Head(toD[c])
           rest == [toD EXCEPT ![c] = Tail(@)]
           listening == mode[p] = "running" /\ ws[p] = c
       IN
       \/ /\ m = "auth-challenge" /\ toD' = rest
          /\ toH' = IF listening THEN SentToHq(c, "auth-response") ELSE toH
          /\ UNCHANGED <<cEnd, daemonVars>>
       \/ /\ m = "auth-accept" /\ toD' = rest /\ UNCHANGED cEnd
          /\ IF listening
             THEN /\ authed' = [authed EXCEPT ![p] = TRUE]
                  /\ hb' = [hb EXCEPT ![p] = TRUE]
                  /\ toH' = SentToHq(c, "register")
                  /\ UNCHANGED <<mode, ws, rtimer>>
             ELSE UNCHANGED <<toH, daemonVars>>
       \/ /\ m = "auth-reject" /\ toD' = rest
          /\ authed' = IF listening THEN [authed EXCEPT ![p] = FALSE] ELSE authed
          /\ UNCHANGED <<cEnd, toH, mode, ws, hb, rtimer>>
       \/ /\ m \in {"close", "close-4001"}
          /\ cEnd' = [cEnd EXCEPT ![c] = "closed"]
          /\ toD' = [toD EXCEPT ![c] = << >>]
          /\ toH' = SentToHq(c, "close")
          /\ ClientEndGone(c, m)
    /\ UNCHANGED <<sEnd, opener, hqVars, faults>>

(* The client end is lost without a close frame: the server end is gone,   *)
(* or the network failed (a fault).                                        *)
ClientAbort(c) ==
    /\ cEnd[c] # "closed"
    /\ \/ sEnd[c] = "closed" /\ toD[c] = << >> /\ UNCHANGED faults
       \/ Fault
    /\ cEnd' = [cEnd EXCEPT ![c] = "closed"]
    /\ toD' = [toD EXCEPT ![c] = << >>]
    /\ sEnd' = IF sEnd[c] = "none" THEN [sEnd EXCEPT ![c] = "closed"] ELSE sEnd
    /\ ClientEndGone(c, "aborted")
    /\ UNCHANGED <<toH, opener, hqVars>>

-----------------------------------------------------------------------------
(* HQ. *)

(* The upgrade of a new socket: handleConnection.                          *)
HandleConnection(c) ==
    /\ cEnd[c] = "connecting" /\ sEnd[c] = "none"
    /\ sEnd' = [sEnd EXCEPT ![c] = "open"]
    /\ pending' = pending \cup {c}
    /\ authTimer' = authTimer \cup {c}
    /\ toD' = [toD EXCEPT ![c] = Append(@, "auth-challenge")]
    /\ UNCHANGED <<cEnd, toH, opener, daemonVars, looking, wsId, reg, beat, faults>>

(* authTimer fires.  While the client is there this needs a handshake of   *)
(* more than 15 s, a fault.                                                *)
AuthTimeout(c) ==
    /\ c \in authTimer
    /\ IF cEnd[c] = "closed" THEN UNCHANGED faults ELSE Fault
    /\ authTimer' = authTimer \ {c}
    /\ pending' = pending \ {c}
    /\ sEnd' = IF c \in pending THEN Closing({c}) ELSE sEnd
    /\ toD' = IF c \in pending THEN CloseFrames(toD, {c}, "close") ELSE toD
    /\ UNCHANGED <<cEnd, toH, opener, daemonVars, looking, wsId, reg, beat>>

(* Mutant of register(): the previous socket is left open.                 *)
RegisterKeepsPrevious(c) ==
    /\ wsId' = wsId \cup {c}
    /\ reg' = [reg EXCEPT ![ProjectOf(c)] = c]
    /\ beat' = [beat EXCEPT ![ProjectOf(c)] = TRUE]
    /\ UNCHANGED <<sEnd, toD, pending, authTimer, looking>>

(* DaemonRegistry.register for socket c; a previous socket is closed.      *)
Register(c) ==
    LET j == ProjectOf(c)
        previous == {reg[j]} \ {c, NoConn}
    IN
    /\ wsId' = wsId \cup {c}
    /\ reg' = [reg EXCEPT ![j] = c]
    /\ beat' = [beat EXCEPT ![j] = TRUE]
    /\ sEnd' = Closing(previous)
    /\ toD' = CloseFrames(toD, previous, "close")
    /\ UNCHANGED <<pending, authTimer, looking>>

(* A frame reaches HQ (handleRawMessage, dispatchMessage; 'close').        *)
HqReceive(c) ==
    /\ sEnd[c] \in {"open", "closing"} /\ toH[c] # << >>
    /\ LET m == Head(toH[c])
           rest == [toH EXCEPT ![c] = Tail(@)]
       IN
       \/ /\ m = "auth-response" /\ toH' = rest
          /\ looking' = IF c \in pending THEN looking \cup {c} ELSE looking
          /\ UNCHANGED <<sEnd, toD, pending, authTimer, wsId, reg, beat>>
       \/ /\ m = "register" /\ toH' = rest
          /\ IF c \in pending THEN UNCHANGED <<sEnd, toD, hqVars>> ELSE Register(c)
       \/ /\ m = "heartbeat" /\ toH' = rest
          /\ beat' = IF c \notin pending /\ reg[ProjectOf(c)] # NoConn
                     THEN [beat EXCEPT ![ProjectOf(c)] = TRUE] ELSE beat
          /\ UNCHANGED <<sEnd, toD, pending, authTimer, looking, wsId, reg>>
       \/ /\ m = "close"
          /\ sEnd' = [sEnd EXCEPT ![c] = "closed"]
          /\ toD' = Delivered(toD, c, "close")
          /\ toH' = [toH EXCEPT ![c] = << >>]
          /\ HandleDisconnect({c})
    /\ UNCHANGED <<cEnd, opener, daemonVars, faults>>

(* Mutants of the accepting branch: clearTimeout(authTimer) forgotten;     *)
(* pending.delete(ws) forgotten.                                           *)
LookupAcceptKeepsTimer(c) ==
    /\ c \in looking /\ opener[c] \in ValidToken
    /\ looking' = looking \ {c}
    /\ pending' = pending \ {c}
    /\ toD' = Delivered(toD, c, "auth-accept")
    /\ UNCHANGED <<cEnd, sEnd, toH, opener, daemonVars, authTimer, wsId, reg, beat, faults>>

LookupAcceptKeepsPending(c) ==
    /\ c \in looking /\ opener[c] \in ValidToken
    /\ looking' = looking \ {c}
    /\ toD' = Delivered(toD, c, "auth-accept")
    /\ UNCHANGED <<cEnd, sEnd, toH, opener, daemonVars, pending, authTimer, wsId, reg, beat, faults>>

(* tokenLookup resolves with the token the daemon presented.               *)
LookupAccept(c) ==
    /\ c \in looking /\ opener[c] \in ValidToken
    /\ looking' = looking \ {c}
    /\ authTimer' = authTimer \ {c}
    /\ pending' = pending \ {c}
    /\ toD' = Delivered(toD, c, "auth-accept")
    /\ UNCHANGED <<cEnd, sEnd, toH, opener, daemonVars, wsId, reg, beat, faults>>

(* Mutant of sendReject: the rejected socket stays in pending.             *)
SendRejectKeepsPending(c) ==
    /\ looking' = looking \ {c}
    /\ sEnd' = Closing({c})
    /\ toD' = CloseFrames(Delivered(toD, c, "auth-reject"), {c}, "close-4001")
    /\ UNCHANGED <<cEnd, toH, opener, daemonVars, pending, authTimer, wsId, reg, beat>>

(* sendReject: auth-reject, close(4001), out of pending.                   *)
SendReject(c) ==
    /\ looking' = looking \ {c}
    /\ authTimer' = IF c \in pending THEN authTimer \ {c} ELSE authTimer
    /\ pending' = pending \ {c}
    /\ sEnd' = Closing({c})
    /\ toD' = CloseFrames(Delivered(toD, c, "auth-reject"), {c}, "close-4001")
    /\ UNCHANGED <<cEnd, toH, opener, daemonVars, wsId, reg, beat>>

(* tokenLookup resolves with another token, or with none.                  *)
LookupReject(c) ==
    /\ c \in looking /\ opener[c] \notin ValidToken
    /\ SendReject(c)
    /\ UNCHANGED faults

(* tokenLookup rejects: handleRawMessage's catch sends "Internal error".   *)
LookupThrows(c) ==
    /\ c \in looking /\ LookupMayThrow /\ Fault
    /\ SendReject(c)

(* checkHeartbeats: entries without a heartbeat since the previous check   *)
(* are closed and unregistered.  Timing out an entry whose daemon is still *)
(* sending takes a delay of more than 45 s, a fault.                       *)
CheckHeartbeats ==
    LET silent == {j \in Project : reg[j] # NoConn /\ ~beat[j]}
        socks  == {reg[j] : j \in silent}
        alive  == {c \in socks : cEnd[c] = "open" /\ ws[opener[c]] = c /\ hb[opener[c]]}
    IN
    /\ \E j \in Project : reg[j] # NoConn
    /\ IF alive = {} THEN UNCHANGED faults ELSE Fault
    /\ sEnd' = Closing(socks)
    /\ toD' = CloseFrames(toD, socks, "close")
    /\ reg' = [j \in Project |-> IF j \in silent THEN NoConn ELSE reg[j]]
    /\ beat' = [j \in Project |-> FALSE]
    /\ UNCHANGED <<cEnd, toH, opener, daemonVars, pending, authTimer, looking, wsId>>

(* The server end is lost without a close frame: the peer is gone, the     *)
(* closing handshake timed out, or the network failed (a fault).           *)
ServerAbort(c) ==
    /\ sEnd[c] \in {"open", "closing"}
    /\ \/ (cEnd[c] = "closed" \/ sEnd[c] = "closing") /\ UNCHANGED faults
       \/ Fault
    /\ sEnd' = [sEnd EXCEPT ![c] = "closed"]
    /\ toH' = [toH EXCEPT ![c] = << >>]
    /\ HandleDisconnect({c})
    /\ UNCHANGED <<cEnd, toD, opener, daemonVars>>

(* HQ restarts: every socket and all in-memory state is lost.              *)
HqRestart ==
    /\ Fault
    /\ \E c \in Conn : sEnd[c] \in {"open", "closing"}
    /\ sEnd' = [c \in Conn |-> IF sEnd[c] = "none" THEN "none" ELSE "closed"]
    /\ toH' = [c \in Conn |-> << >>]
    /\ pending' = {} /\ authTimer' = {} /\ looking' = {} /\ wsId' = {}
    /\ reg' = [j \in Project |-> NoConn]
    /\ beat' = [j \in Project |-> FALSE]
    /\ UNCHANGED <<cEnd, toD, opener, daemonVars>>

-----------------------------------------------------------------------------
DaemonStep(p) ==
    \/ DaemonStart(p) \/ ReconnectTimer(p) \/ HeartbeatTimer(p)
    \/ Shutdown(p) \/ DaemonCrash(p)

ConnStep(c) ==
    \/ ClientOpen(c) \/ ClientReceive(c) \/ ClientAbort(c)
    \/ HandleConnection(c) \/ AuthTimeout(c) \/ HqReceive(c)
    \/ LookupAccept(c) \/ LookupReject(c) \/ LookupThrows(c)
    \/ ServerAbort(c)

Next ==
    \/ \E p \in Proc : DaemonStep(p)
    \/ \E c \in Conn : ConnStep(c)
    \/ CheckHeartbeats
    \/ HqRestart

Spec == Init /\ [][Next]_vars

(* Timers fire, frames are delivered, awaited lookups settle, and a lost   *)
(* peer is noticed.  Shutdown, DaemonCrash, LookupThrows and HqRestart are  *)
(* never required.                                                         *)
Fairness ==
    /\ \A p \in Proc :
         WF_vars(DaemonStart(p)) /\ WF_vars(ReconnectTimer(p)) /\ WF_vars(HeartbeatTimer(p))
    /\ \A c \in Conn :
         /\ WF_vars(ClientOpen(c)) /\ WF_vars(ClientReceive(c))
         /\ WF_vars(HandleConnection(c)) /\ WF_vars(HqReceive(c))
         /\ WF_vars(LookupAccept(c)) /\ WF_vars(LookupReject(c))
         /\ WF_vars(cEnd[c] = "closed" /\ AuthTimeout(c))
         /\ WF_vars(sEnd[c] = "closed" /\ toD[c] = << >> /\ ClientAbort(c))
         /\ WF_vars((cEnd[c] = "closed" \/ sEnd[c] = "closing") /\ ServerAbort(c))
    /\ WF_vars(CheckHeartbeats)

FairSpec == Spec /\ Fairness
-----------------------------------------------------------------------------
(* Safety. *)

(* A socket that HQ has registered and still holds open is the one in the  *)
(* registry: a late close, error or timeout of a superseded socket never   *)
(* unregisters the daemon that replaced it (handler.ts handleDisconnect).  *)
OneLiveSocket ==
    \A c \in wsId : sEnd[c] = "open" => reg[ProjectOf(c)] = c

(* sendToDaemon never picks a socket that is closed, still authenticating  *)
(* or registered for another project (registry.ts sendToDaemon).           *)
EntryUsable ==
    \A j \in Project : reg[j] # NoConn =>
        /\ sEnd[reg[j]] = "open"
        /\ reg[j] \in wsId \ pending
        /\ ProjectOf(reg[j]) = j

(* What the daemon sends after auth-accept never meets the "Message before *)
(* auth" branch, which would drop its registration (handler.ts 105-117).   *)
RegistrationNotIgnored ==
    \A c \in pending : \A i \in DOMAIN toH[c] : toH[c][i] \notin {"register", "heartbeat"}

(* A pending socket always has its auth timer, and an authenticated one    *)
(* never: no half-finished handshake is kept for ever, no established link *)
(* is closed by a timer left behind.                                       *)
AuthTimerExactlyPending == authTimer = pending

(* A running daemon always has a socket to wait on or a timer to retry     *)
(* with (client.ts: cleanup() in the 'close' handler clears the reconnect  *)
(* timer that scheduleReconnect arms).                                     *)
NeverStranded ==
    \A p \in Proc : mode[p] = "running" =>
        rtimer[p] \/ (ws[p] # NoConn /\ cEnd[ws[p]] # "closed")

(* connect() is never called over a socket that is still alive: a live     *)
(* client end is the current socket of its process, with no retry pending. *)
(* And what the process believes of it does not outlive it: it sends       *)
(* heartbeats exactly while it is authenticated, over an open socket.      *)
NoOrphanSocket ==
    /\ \A c \in Conn : cEnd[c] \in {"connecting", "open"} =>
          LET p == opener[c] IN mode[p] = "running" /\ ws[p] = c /\ ~rtimer[p]
    /\ \A p \in Proc :
          /\ hb[p] = authed[p]
          /\ authed[p] => ws[p] # NoConn /\ cEnd[ws[p]] = "open"

(* shared/constants.ts:32 "authentication rejected (invalid token)": close *)
(* code 4001, on which a daemon exits for good, means its token is wrong.  *)
ExitOnlyOnInvalidToken ==
    \A p \in Proc : mode[p] = "exited" => p \notin ValidToken

-----------------------------------------------------------------------------
(* Why EntryUsable and OneLiveSocket hold: the inductive invariant.        *)

Without(q, S)   == \A i \in DOMAIN q : q[i] \notin S
AtMostOne(q, S) == \A i, k \in DOMAIN q : q[i] \in S /\ q[k] \in S => i = k

(* The handshake is one token that passes from place to place: challenge,  *)
(* response, token lookup, accept, registration, entry in wsToDaemonId.    *)
TokD == {"auth-challenge", "auth-accept"}
TokH == {"auth-response", "register"}

OneToken(c) ==
    /\ AtMostOne(toD[c], TokD)
    /\ AtMostOne(toH[c], TokH)
    /\ ~Without(toD[c], TokD) => Without(toH[c], TokH) /\ c \notin looking /\ c \notin wsId
    /\ ~Without(toH[c], TokH) => c \notin looking /\ c \notin wsId
    /\ c \in looking => c \notin wsId

(* Before it is accepted, and once HQ is closing it, a socket has neither   *)
(* an accept nor a registration under way.                                 *)
NotAccepted(c) == Without(toD[c], {"auth-accept"}) /\ Without(toH[c], {"register"})

SlotInv(c) ==
    /\ OneToken(c)
    /\ c \in pending => sEnd[c] = "open" /\ c \notin wsId
    /\ c \in pending \/ sEnd[c] = "closing" => NotAccepted(c)
    /\ c \in wsId => sEnd[c] \in {"open", "closing"}
    /\ c \in looking => sEnd[c] # "none" /\ (sEnd[c] = "open" => c \in pending)
    /\ sEnd[c] = "none" => cEnd[c] = "connecting" /\ toD[c] = << >> /\ toH[c] = << >>

(* Every reachable state satisfies this, and every step preserves it.      *)
HandshakeInv ==
    /\ TypeOK
    /\ AuthTimerExactlyPending
    /\ EntryUsable
    /\ OneLiveSocket
    /\ \A c \in Conn : SlotInv(c)

-----------------------------------------------------------------------------
(* HQ keeps, per project, a socket that can still be used: the abstract    *)
(* specification Presence, with the registry entry as the holder.          *)
Presence == INSTANCE Presence WITH
    Socket <- Conn, NoSocket <- NoConn,
    holder <- reg, spent <- {c \in Conn : sEnd[c] \in {"closing", "closed"}}
PresenceSpec == Presence!Spec

-----------------------------------------------------------------------------
(* Liveness. *)

Established(p) ==
    LET c == ws[p] IN
    /\ authed[p] /\ c # NoConn
    /\ sEnd[c] = "open" /\ reg[ProjOf[p]] = c

(* Once faults stop, a daemon with a valid token ends up registered on its *)
(* current socket and stays so: no loss, restart, timeout or half-open     *)
(* socket leaves the pair waiting on each other.                           *)
EventuallyEstablished ==
    \A p \in ValidToken : <>[](mode[p] = "running" /\ Established(p))
=============================================================================
